--------------------------- MODULE MCMarketplace ---------------------------
(***************************************************************************)
(* Small instances of Marketplace for TLC.                                 *)
(***************************************************************************)
EXTENDS Marketplace, TLC

CONSTANTS c1, c2, v1, v2, b1, b2, b3, w1, w2, o1, o2, o3, o4

\* v2 is the vehicle of c2, and of its booking: b3 if there are three, else b2.
Second == IF b3 \in Bookings THEN b3 ELSE b2
MCOwnerOf == [v \in Vehicles |-> IF v = v2 THEN c2 ELSE c1]
MCVehicleOf ==
    [b \in Bookings |-> IF b = Second /\ v2 \in Vehicles THEN v2 ELSE v1]

\* On b1 there are an offer of each washer and, when it is the only booking,
\* another one of w1, for after a withdrawal.  On the others w1 makes one each.
MCBookingOf == [o \in Offers |-> IF o = o4 THEN Second
                                 ELSE IF o = o3 /\ b2 \in Bookings THEN b2
                                 ELSE b1]
MCWasherOf == [o \in Offers |-> IF o = o2 THEN w2 ELSE w1]

SlotSymmetry == Permutations(Slots)

\* The life of a booking, with washers who are online.
BookingOps == {"create", "cancelByClient", "confirmCompletion", "chooseOffer",
               "makeOffer", "markArrived", "startWash", "completeWash",
               "cancelByWasher", "goOnline", "updateLocation"}
OverlapOps == BookingOps \cup {"expireStaleBookings", "removeVehicle"}

AllOps == Endpoints

\* Who was approved, is put on RETRY and approved again: nobody goes AVAILABLE.
ApprovalOps == BookingOps \cup {"approveWasher", "retryWasher"}

\* Spec without the steps after which two requests clash is FullyApartSpec; cut
\* off here, TLC still counts each action of Next on its own.
NoClash == Apart' /\ ProfilesApart'
=============================================================================
