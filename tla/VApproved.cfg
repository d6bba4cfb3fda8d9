SPECIFICATION Spec
CONSTANTS
    c1 = c1  c2 = c2  v1 = v1  v2 = v2  b1 = b1  b2 = b2  b3 = b3
    w1 = w1  w2 = w2  o1 = o1  o2 = o2  o3 = o3  o4 = o4
    None = None
    Clients = {c1}
    Vehicles = {v1}
    Bookings = {b1}
    Washers = {w1}
    Offers = {o1, o3}
    Slots = {s1}
    Approved = {w1}
    OwnerOf <- MCOwnerOf
    VehicleOf <- MCVehicleOf
    BookingOf <- MCBookingOf
    WasherOf <- MCWasherOf
    Ops <- ApprovalOps
INVARIANTS
    NotOfflineOnAJob
