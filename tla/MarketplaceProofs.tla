------------------------- MODULE MarketplaceProofs -------------------------
(***************************************************************************)
(* For every number of clients, vehicles, bookings, washers, offers and    *)
(* overlapping requests, and whatever operations are called: the types and *)
(* the safety properties of Marketplace that survive overlapping requests; *)
(* in the second half, those that hold as long as the requests that        *)
(* overlap do not clash.                                                   *)
(*                                                                         *)
(* The actions fall into four groups, one lemma each, by what they change: *)
(* only the request (a read), only profiles, one booking that keeps its    *)
(* washer and its price, and the six that move offers, washers or rows.    *)
(***************************************************************************)
EXTENDS Marketplace, FiniteSetTheorems, TLAPS

\* An idle slot holds a request of the right type that relies on nothing.
LEMMA IdleTyped == Idle \in Request /\ RequestFits(Idle)
  BY DEF Idle, Req, Request, RequestFits

\* The initial state satisfies the invariant.
LEMMA InitIInv == Init => IInv
<1> SUFFICES ASSUME Init PROVE IInv
  OBVIOUS
<1> USE DEF Init
<1>1. TypeOK
  <2>1. booking \in [Bookings -> BookingRow]
    BY DEF BookingRow, FreshBooking, BookingStatus
  <2>2. washer \in [Washers -> WasherRow]
    BY DEF WasherRow, WasherStatus, VerificationStatus
  <2>3. req \in [Slots -> Request]
    BY IdleTyped
  <2> QED
    BY <2>1, <2>2, <2>3 DEF TypeOK
<1>2. RequestsFit
  BY IdleTyped DEF RequestsFit
<1>3. UnbornIsBlank
  BY DEF UnbornIsBlank, LiveOffer, OfferStatus
<1>4. AssignmentBacked /\ OpenXorAssigned
  BY DEF AssignmentBacked, OpenXorAssigned, Live, FreshBooking
<1>5. MilestonesInOrder /\ PriceAgreedBeforeWork
  BY DEF MilestonesInOrder, PriceAgreedBeforeWork, FreshBooking
<1> QED
  BY <1>1, <1>2, <1>3, <1>4, <1>5 DEF IInv

-----------------------------------------------------------------------------
\* A read changes nothing but the request, which must fit what it read.
LEMMA ReadPreserves ==
  ASSUME IInv, NEW s \in Slots, NEW r \in Request,
         req' = [req EXCEPT ![s] = r], UNCHANGED tables, RequestFits(r)
  PROVE  IInv'
<1> USE DEF tables
<1>1. TypeOK'
  BY DEF IInv, TypeOK
<1>2. RequestsFit'
  <2> SUFFICES ASSUME NEW t \in Slots PROVE RequestFits(req[t])'
    BY DEF RequestsFit
  <2>1. req'[t] = r \/ req'[t] = req[t]
    BY DEF IInv, TypeOK
  <2>2. RequestFits(req'[t])
    BY <2>1 DEF IInv, RequestsFit
  <2> QED
    BY <2>2 DEF RequestFits, PriceAgreed
<1>3. UnbornIsBlank' /\ AssignmentBacked' /\ OpenXorAssigned'
  BY DEF IInv, UnbornIsBlank, AssignmentBacked, OpenXorAssigned, Live, LiveOffer
<1>4. MilestonesInOrder' /\ PriceAgreedBeforeWork'
  BY DEF IInv, MilestonesInOrder, PriceAgreedBeforeWork, PriceAgreed
<1> QED
  BY <1>1, <1>2, <1>3, <1>4 DEF IInv

\* What no write may take from the requests in flight.
MilestonesGrow ==
    \A b \in Bookings :
        /\ booking[b].arrived => booking'[b].arrived
        /\ booking[b].started => booking'[b].started
        /\ booking[b].completed => booking'[b].completed
        /\ PriceAgreed(b) => PriceAgreed(b)'

\* As long as milestones and agreed prices stay, every request still fits.
LEMMA RequestsStayFit ==
  ASSUME TypeOK, RequestsFit, ForeignKeys, MilestonesGrow,
         NEW s \in Slots, NEW r \in Request, req' = [req EXCEPT ![s] = r],
         r.at \in {"idle", "expireNext"}
  PROVE  RequestsFit'
<1> SUFFICES ASSUME NEW t \in Slots PROVE RequestFits(req[t])'
  BY DEF RequestsFit
<1>1. CASE req'[t] = r
  BY <1>1 DEF RequestFits
<1>2. CASE req'[t] = req[t]
  <2>1. RequestFits(req[t])
    BY DEF RequestsFit
  <2> QED
    BY <1>2, <2>1 DEF RequestFits, MilestonesGrow
<1> QED
  BY <1>1, <1>2 DEF TypeOK

\* A write to the profiles alone disturbs nothing the invariant says.
LEMMA ProfileWritePreserves ==
  ASSUME IInv, ForeignKeys, TypeOK', RequestsFit',
         UNCHANGED <<booking, offer>>
  PROVE  IInv'
<1>1. UnbornIsBlank' /\ AssignmentBacked' /\ OpenXorAssigned'
  BY DEF IInv, UnbornIsBlank, AssignmentBacked, OpenXorAssigned, Live, LiveOffer
<1>2. MilestonesInOrder' /\ PriceAgreedBeforeWork'
  BY DEF IInv, MilestonesInOrder, PriceAgreedBeforeWork, PriceAgreed
<1> QED
  BY <1>1, <1>2 DEF IInv

\* A write to one live booking that leaves its washer and its price alone, and
\* its milestones in order, and does not put it in PENDING or ACCEPTED.
LEMMA BookingWritePreserves ==
  ASSUME IInv, ForeignKeys, TypeOK',
         req' = req \/ \E s \in Slots : req' = [req EXCEPT ![s] = Idle],
         NEW b \in Bookings, Live(b), NEW new \in BookingRow,
         booking' = [booking EXCEPT ![b] = new], UNCHANGED offer,
         new.row = "live",
         new.washer = booking[b].washer, new.price = booking[b].price,
         \/ new.status = booking[b].status
         \/ new.status \notin {"PENDING", "ACCEPTED"},
         booking[b].arrived => new.arrived,
         booking[b].started => new.started,
         booking[b].completed => new.completed,
         new.status = "ARRIVED" => new.arrived,
         new.status = "IN_PROGRESS" => new.started,
         new.status \in {"AWAITING_CLIENT_CONFIRMATION", "COMPLETED"}
             => new.completed,
         new.completed => new.started,
         new.started => new.arrived,
         new.arrived => PriceAgreed(b)
  PROVE  IInv'
<1>1. /\ booking \in [Bookings -> BookingRow]
      /\ booking' \in [Bookings -> BookingRow]
      /\ req \in [Slots -> Request]
  BY DEF IInv, TypeOK
<1>2. /\ booking'[b] = new
      /\ \A x \in Bookings : x # b => booking'[x] = booking[x]
  BY <1>1
<1>3. MilestonesGrow
  BY <1>1, <1>2 DEF MilestonesGrow, PriceAgreed
<1>4. RequestsFit'
  <2>1. ASSUME NEW s \in Slots, req' = [req EXCEPT ![s] = Idle]
        PROVE  RequestsFit'
    <3>1. Idle \in Request /\ Idle.at = "idle"
      BY IdleTyped DEF Idle, Req
    <3> QED
      BY <1>3, <2>1, <3>1, RequestsStayFit DEF IInv
  <2>2. CASE req' = req
    BY <1>3, <2>2 DEF IInv, RequestsFit, RequestFits, MilestonesGrow
  <2> QED
    BY <2>1, <2>2
<1>5. UnbornIsBlank'
  BY <1>2 DEF IInv, UnbornIsBlank, Live, LiveOffer
<1>6. AssignmentBacked'
  BY <1>2 DEF IInv, AssignmentBacked, Live
<1>7. OpenXorAssigned'
  BY <1>2 DEF IInv, OpenXorAssigned, Live
<1>8. MilestonesInOrder'
  BY <1>2 DEF IInv, MilestonesInOrder
<1>9. PriceAgreedBeforeWork'
  BY <1>2 DEF IInv, PriceAgreedBeforeWork, PriceAgreed
<1> QED
  BY <1>4, <1>5, <1>6, <1>7, <1>8, <1>9 DEF IInv

-----------------------------------------------------------------------------
\* A freed slot, and a slot that goes on, keep the type of the requests.
LEMMA EndTyped ==
  ASSUME req \in [Slots -> Request], NEW s \in Slots, End(s)
  PROVE  req' \in [Slots -> Request]
  BY IdleTyped DEF End

\* The reads of the clients, the washers and the administrators.
LEMMA ReadsPreserve ==
  ASSUME IInv, ForeignKeys, NullIsNoId, NEW s \in Slots,
         \/ \E b \in Bookings : \/ CreateCheck(s, b) \/ CancelRead(s, b)
                                \/ ConfirmRead(s, b) \/ ArriveRead(s, b)
                                \/ StartRead(s, b) \/ CompleteRead(s, b)
                                \/ WithdrawRead(s, b)
         \/ \E o \in Offers : OfferProfile(s, o) \/ ChooseBooking(s, o)
         \/ \E w \in Washers : \/ OnlineRead(s, w) \/ AvailabilityRead(s, w)
                               \/ ApproveRead(s, w) \/ RejectRead(s, w)
                               \/ RetryRead(s, w)
         \/ ExpireList(s)
  PROVE  IInv'
<1>1. booking \in [Bookings -> BookingRow]
  BY DEF IInv, TypeOK
<1>2. SUFFICES \E r \in Request : /\ RequestFits(r)
                                  /\ req' = [req EXCEPT ![s] = r]
                                  /\ UNCHANGED tables
  BY ReadPreserves
<1> USE DEF Begin, Req, Request, Stages, RequestFits
<1>3. ASSUME NEW b \in Bookings, booking[b].washer \in Washers \cup {None},
             CreateCheck(s, b) \/ CancelRead(s, b)
      PROVE  \E r \in Request : /\ RequestFits(r)
                                /\ req' = [req EXCEPT ![s] = r]
                                /\ UNCHANGED tables
  BY <1>3 DEF CreateCheck, CancelRead
<1>4. ASSUME NEW b \in Bookings, booking[b].washer \in Washers \cup {None},
             ConfirmRead(s, b)
      PROVE  \E r \in Request : /\ RequestFits(r)
                                /\ req' = [req EXCEPT ![s] = r]
                                /\ UNCHANGED tables
  <2>1. booking[b].completed
    BY <1>4 DEF ConfirmRead, IInv, MilestonesInOrder
  <2> QED
    BY <1>4, <2>1 DEF ConfirmRead
<1>5. ASSUME NEW b \in Bookings, booking[b].washer \in Washers \cup {None},
             ArriveRead(s, b)
      PROVE  \E r \in Request : /\ RequestFits(r)
                                /\ req' = [req EXCEPT ![s] = r]
                                /\ UNCHANGED tables
  <2>1. PriceAgreed(b)
    BY <1>5 DEF ArriveRead, WasherRead, IInv, AssignmentBacked, PriceAgreed
  <2> QED
    BY <1>5, <2>1 DEF ArriveRead, WasherRead
<1>6. ASSUME NEW b \in Bookings, booking[b].washer \in Washers \cup {None},
             StartRead(s, b) \/ CompleteRead(s, b) \/ WithdrawRead(s, b)
      PROVE  \E r \in Request : /\ RequestFits(r)
                                /\ req' = [req EXCEPT ![s] = r]
                                /\ UNCHANGED tables
  <2>1. /\ booking[b].status = "ARRIVED" => booking[b].arrived
        /\ booking[b].status = "IN_PROGRESS" => booking[b].started
    BY DEF IInv, MilestonesInOrder
  <2> QED
    BY <1>6, <2>1 DEF StartRead, CompleteRead, WithdrawRead, WasherRead
<1>7. ASSUME NEW o \in Offers, OfferProfile(s, o) \/ ChooseBooking(s, o)
      PROVE  \E r \in Request : /\ RequestFits(r)
                                /\ req' = [req EXCEPT ![s] = r]
                                /\ UNCHANGED tables
  <2>1. BookingOf[o] \in Bookings /\ WasherOf[o] \in Washers
    BY DEF ForeignKeys
  <2> QED
    BY <1>7, <2>1 DEF OfferProfile, ChooseBooking
<1>8. ASSUME NEW w \in Washers,
             \/ OnlineRead(s, w) \/ AvailabilityRead(s, w)
             \/ ApproveRead(s, w) \/ RejectRead(s, w) \/ RetryRead(s, w)
      PROVE  \E r \in Request : /\ RequestFits(r)
                                /\ req' = [req EXCEPT ![s] = r]
                                /\ UNCHANGED tables
  BY <1>8 DEF OnlineRead, AvailabilityRead, ApproveRead, RejectRead, RetryRead
<1>9. ASSUME ExpireList(s)
      PROVE  \E r \in Request : /\ RequestFits(r)
                                /\ req' = [req EXCEPT ![s] = r]
                                /\ UNCHANGED tables
  BY <1>9 DEF ExpireList, Idle
<1>10. \A b \in Bookings : booking[b].washer \in Washers \cup {None}
  BY <1>1 DEF BookingRow
<1> QED
  BY <1>3, <1>4, <1>5, <1>6, <1>7, <1>8, <1>9, <1>10

\* The second reads of makeOffer and chooseOffer, and a request that ends.
LEMMA LaterReadsPreserve ==
  ASSUME IInv, ForeignKeys, NEW s \in Slots,
         OfferBooking(s) \/ ChooseOffer(s) \/ Abort(s)
  PROVE  IInv'
<1>1. req[s] \in Request /\ RequestFits(req[s])
  BY DEF IInv, TypeOK, RequestsFit
<1>2. CASE Abort(s)
  BY <1>2, IdleTyped, ReadPreserves DEF Abort, End
<1>3. ASSUME NEW stage \in {"offerInsert", "chooseWrite"}, GoOn(s, stage),
             req[s].at \in {"offerBooking", "chooseOffer"}
      PROVE  IInv'
  <2>1. req' = [req EXCEPT ![s] = [req[s] EXCEPT !.at = stage]]
    BY <1>3 DEF GoOn
  <2>2. [req[s] EXCEPT !.at = stage] \in Request
    BY <1>1, <1>3 DEF Request, Stages
  <2>3. RequestFits([req[s] EXCEPT !.at = stage])
    BY <1>1, <1>3, <2>2 DEF RequestFits, Request
  <2> QED
    BY <1>3, <2>1, <2>2, <2>3, ReadPreserves DEF GoOn
<1> QED
  BY <1>2, <1>3 DEF OfferBooking, ChooseOffer, At

-----------------------------------------------------------------------------
\* Writes to the profiles.
LEMMA ProfileWritesPreserve ==
  ASSUME IInv, ForeignKeys,
         \/ \E s \in Slots : \/ OnlineWrite(s) \/ AvailabilityWrite(s)
                             \/ ApproveWrite(s) \/ RejectWrite(s)
                             \/ RetryWrite(s)
         \/ \E w \in Washers : UpdateLocation(w)
  PROVE  IInv'
<1> USE DEF IInv, TypeOK
<1>1. ASSUME NEW s \in Slots, End(s), UNCHANGED <<vehicles, booking, offer>>,
             washer' \in [Washers -> WasherRow]
      PROVE  IInv'
  <2>1. TypeOK'
    BY <1>1, EndTyped
  <2>2. MilestonesGrow
    BY <1>1 DEF MilestonesGrow, PriceAgreed
  <2>3. Idle \in Request /\ Idle.at = "idle"
    BY IdleTyped DEF Idle, Req
  <2>4. RequestsFit'
    BY <1>1, <2>2, <2>3, RequestsStayFit DEF End
  <2> QED
    BY <1>1, <2>1, <2>4, ProfileWritePreserves
<1>2. ASSUME NEW s \in Slots,
             \/ OnlineWrite(s) \/ AvailabilityWrite(s) \/ ApproveWrite(s)
             \/ RejectWrite(s) \/ RetryWrite(s)
      PROVE  washer' \in [Washers -> WasherRow]
  <2> USE DEF WasherRow, WasherStatus, VerificationStatus
  <2>1. CASE OnlineWrite(s)
    BY <2>1 DEF OnlineWrite
  <2>2. CASE AvailabilityWrite(s)
    <3>1. req[s].washer \in Washers
      BY <2>2 DEF AvailabilityWrite, SetAvailability, At, RequestsFit, RequestFits
    <3> DEFINE w == req[s].washer
    <3>2. washer[w] \in WasherRow
      BY <3>1
    <3>3. PICK status \in WasherStatus, located \in {washer[w].located, TRUE} :
             washer' = [washer EXCEPT ![w] = [@ EXCEPT !.status = status,
                                                       !.located = located]]
      BY <2>2 DEF AvailabilityWrite, SetAvailability
    <3>4. located \in BOOLEAN
      BY <3>2
    <3>5. [washer[w] EXCEPT !.status = status, !.located = located] \in WasherRow
      BY <3>2, <3>4
    <3> QED
      BY <3>1, <3>3, <3>5
  <2>3. CASE ApproveWrite(s)
    BY <2>3 DEF ApproveWrite
  <2>4. CASE RejectWrite(s)
    BY <2>4 DEF RejectWrite, DismissWrite
  <2>5. CASE RetryWrite(s)
    BY <2>5 DEF RetryWrite, DismissWrite
  <2> QED
    BY <1>2, <2>1, <2>2, <2>3, <2>4, <2>5
<1>3. ASSUME NEW s \in Slots,
             \/ OnlineWrite(s) \/ AvailabilityWrite(s) \/ ApproveWrite(s)
             \/ RejectWrite(s) \/ RetryWrite(s)
      PROVE  IInv'
  <2>1. End(s) /\ UNCHANGED <<vehicles, booking, offer>>
    BY <1>3 DEF OnlineWrite, AvailabilityWrite, SetAvailability, ApproveWrite,
       RejectWrite, RetryWrite, DismissWrite
  <2> QED
    BY <1>1, <1>2, <1>3, <2>1
<1>4. ASSUME NEW w \in Washers, UpdateLocation(w)
      PROVE  IInv'
  <2>1. TypeOK'
    BY <1>4 DEF UpdateLocation, WasherRow
  <2>2. RequestsFit'
    BY <1>4 DEF UpdateLocation, RequestsFit, RequestFits, PriceAgreed
  <2> QED
    BY <1>4, <2>1, <2>2, ProfileWritePreserves DEF UpdateLocation
<1> QED
  BY <1>3, <1>4

-----------------------------------------------------------------------------
\* Setting the status of a profile keeps the type of the profiles.
LEMMA SetWasherTyped ==
  ASSUME washer \in [Washers -> WasherRow], NEW w,
         NEW status \in WasherStatus, SetWasher(w, status)
  PROVE  washer' \in [Washers -> WasherRow]
  BY DEF SetWasher, WasherRow

\* The writes that only move one booking along.
LEMMA BookingWritesPreserve ==
  ASSUME IInv, ForeignKeys,
         \/ \E s \in Slots : \/ CancelWrite(s) \/ ConfirmWrite(s)
                             \/ ArriveWrite(s) \/ StartWrite(s)
                             \/ CompleteWrite(s)
         \/ \E b \in Bookings : Lapse(b)
  PROVE  IInv'
<1>0. /\ vehicles \subseteq Vehicles
      /\ booking \in [Bookings -> BookingRow]
      /\ offer \in [Offers -> OfferStatus \cup {"unborn", "deleted"}]
      /\ washer \in [Washers -> WasherRow]
      /\ req \in [Slots -> Request]
  BY DEF IInv, TypeOK
<1>1. ASSUME NEW b \in Bookings
      PROVE  /\ booking[b].completed => booking[b].started
             /\ booking[b].started => booking[b].arrived
             /\ booking[b].arrived => PriceAgreed(b)
  BY DEF IInv, MilestonesInOrder, PriceAgreedBeforeWork
<1>2. ASSUME NEW s \in Slots, CancelWrite(s)
      PROVE  IInv'
  <2> DEFINE b == req[s].booking
             new == [booking[b] EXCEPT !.status = "CANCELLED",
                                       !.cancelledBy = "CLIENT"]
  <2>1. b \in Bookings
    BY <1>2 DEF CancelWrite, At, IInv, RequestsFit, RequestFits
  <2>2. booking[b] \in BookingRow
    BY <1>0, <2>1
  <2>3. new \in BookingRow
    BY <2>2 DEF BookingRow, BookingStatus, CancellationActor
  <2>4. /\ Live(b) /\ End(s) /\ UNCHANGED <<vehicles, offer>>
        /\ booking' = [booking EXCEPT ![b] = new]
    BY <1>2 DEF CancelWrite
  <2>5. washer' \in [Washers -> WasherRow]
    BY <1>0, <1>2, SetWasherTyped DEF CancelWrite, WasherStatus
  <2>6. /\ new.row = booking[b].row /\ new.status = "CANCELLED"
        /\ new.washer = booking[b].washer /\ new.price = booking[b].price
        /\ new.arrived = booking[b].arrived
        /\ new.started = booking[b].started
        /\ new.completed = booking[b].completed
    BY <2>2 DEF BookingRow
  <2> HIDE DEF new, b
  <2>7. booking' \in [Bookings -> BookingRow]
    BY <1>0, <2>1, <2>3, <2>4
  <2>8. TypeOK'
    BY <1>0, <2>4, <2>5, <2>7, EndTyped DEF TypeOK
  <2> QED
    BY <1>1, <2>1, <2>3, <2>4, <2>6, <2>8, BookingWritePreserves DEF End, Live
<1>3. ASSUME NEW s \in Slots, ConfirmWrite(s)
      PROVE  IInv'
  <2> DEFINE b == req[s].booking
             new == [booking[b] EXCEPT !.status = "COMPLETED"]
  <2>1. b \in Bookings
    BY <1>3 DEF ConfirmWrite, At, IInv, RequestsFit, RequestFits
  <2>2. booking[b] \in BookingRow
    BY <1>0, <2>1
  <2>3. new \in BookingRow
    BY <2>2 DEF BookingRow, BookingStatus
  <2>4. /\ Live(b) /\ End(s) /\ UNCHANGED <<vehicles, offer>>
        /\ booking' = [booking EXCEPT ![b] = new]
    BY <1>3 DEF ConfirmWrite, SetStatus
  <2>5. washer' \in [Washers -> WasherRow]
    <3>1. req[s].washer \in Washers
      BY <1>3 DEF ConfirmWrite, At, IInv, RequestsFit, RequestFits
    <3>2. washer[req[s].washer] \in WasherRow
      BY <1>0, <3>1
    <3> DEFINE w == req[s].washer
               profile == [washer[w] EXCEPT !.status = "AVAILABLE",
                                            !.total = washer[w].total + 1]
    <3>3. washer[w].total + 1 \in Nat
      BY <3>2 DEF WasherRow
    <3>4. profile \in WasherRow
      BY <3>2, <3>3 DEF WasherRow, WasherStatus
    <3>5. washer' = [washer EXCEPT ![w] = profile]
      BY <1>3 DEF ConfirmWrite, Credited
    <3> HIDE DEF profile
    <3> QED
      BY <1>0, <3>1, <3>4, <3>5
  <2>6. /\ new.row = booking[b].row /\ new.status = "COMPLETED"
        /\ new.washer = booking[b].washer /\ new.price = booking[b].price
        /\ new.arrived = booking[b].arrived
        /\ new.started = booking[b].started
        /\ new.completed = booking[b].completed
    BY <2>2 DEF BookingRow
  <2>7. booking[b].completed
    BY <1>3 DEF ConfirmWrite, At, IInv, RequestsFit, RequestFits
  <2> HIDE DEF new, b
  <2>8. booking' \in [Bookings -> BookingRow]
    BY <1>0, <2>1, <2>3, <2>4
  <2>9. TypeOK'
    BY <1>0, <2>4, <2>5, <2>8, EndTyped DEF TypeOK
  <2> QED
    BY <1>1, <2>1, <2>3, <2>4, <2>7, <2>6, <2>9, BookingWritePreserves DEF End, Live
<1>4. ASSUME NEW s \in Slots, ArriveWrite(s)
      PROVE  IInv'
  <2> DEFINE b == req[s].booking
             new == [booking[b] EXCEPT !.status = "ARRIVED", !.arrived = TRUE]
  <2>1. b \in Bookings
    BY <1>4 DEF ArriveWrite, At, IInv, RequestsFit, RequestFits
  <2>2. booking[b] \in BookingRow
    BY <1>0, <2>1
  <2>3. new \in BookingRow
    BY <2>2 DEF BookingRow, BookingStatus
  <2>4. /\ Live(b) /\ End(s) /\ UNCHANGED <<vehicles, offer, washer>>
        /\ booking' = [booking EXCEPT ![b] = new]
    BY <1>4 DEF ArriveWrite, SetStatus
  <2>5. /\ new.row = booking[b].row /\ new.status = "ARRIVED"
        /\ new.washer = booking[b].washer /\ new.price = booking[b].price
        /\ new.started = booking[b].started
        /\ new.completed = booking[b].completed
        /\ new.arrived
    BY <2>2 DEF BookingRow
  <2>6. PriceAgreed(b)
    BY <1>4 DEF ArriveWrite, At, IInv, RequestsFit, RequestFits
  <2> HIDE DEF new, b
  <2>7. booking' \in [Bookings -> BookingRow]
    BY <1>0, <2>1, <2>3, <2>4
  <2>8. TypeOK'
    BY <1>0, <2>4, <2>7, EndTyped DEF TypeOK
  <2> QED
    BY <1>1, <2>1, <2>3, <2>4, <2>6, <2>5, <2>8, BookingWritePreserves DEF End, Live
<1>5. ASSUME NEW s \in Slots, StartWrite(s)
      PROVE  IInv'
  <2> DEFINE b == req[s].booking
             new == [booking[b] EXCEPT !.status = "IN_PROGRESS", !.started = TRUE]
  <2>1. b \in Bookings
    BY <1>5 DEF StartWrite, At, IInv, RequestsFit, RequestFits
  <2>2. booking[b] \in BookingRow
    BY <1>0, <2>1
  <2>3. new \in BookingRow
    BY <2>2 DEF BookingRow, BookingStatus
  <2>4. /\ Live(b) /\ End(s) /\ UNCHANGED <<vehicles, offer, washer>>
        /\ booking' = [booking EXCEPT ![b] = new]
    BY <1>5 DEF StartWrite, SetStatus
  <2>5. /\ new.row = booking[b].row /\ new.status = "IN_PROGRESS"
        /\ new.washer = booking[b].washer /\ new.price = booking[b].price
        /\ new.arrived = booking[b].arrived
        /\ new.completed = booking[b].completed
        /\ new.started
    BY <2>2 DEF BookingRow
  <2>6. booking[b].arrived
    BY <1>5 DEF StartWrite, At, IInv, RequestsFit, RequestFits
  <2> HIDE DEF new, b
  <2>7. booking' \in [Bookings -> BookingRow]
    BY <1>0, <2>1, <2>3, <2>4
  <2>8. TypeOK'
    BY <1>0, <2>4, <2>7, EndTyped DEF TypeOK
  <2> QED
    BY <1>1, <2>1, <2>3, <2>4, <2>6, <2>5, <2>8, BookingWritePreserves DEF End, Live
<1>6. ASSUME NEW s \in Slots, CompleteWrite(s)
      PROVE  IInv'
  <2> DEFINE b == req[s].booking
             new == [booking[b] EXCEPT !.status = "AWAITING_CLIENT_CONFIRMATION",
                                       !.completed = TRUE]
  <2>1. b \in Bookings
    BY <1>6 DEF CompleteWrite, At, IInv, RequestsFit, RequestFits
  <2>2. booking[b] \in BookingRow
    BY <1>0, <2>1
  <2>3. new \in BookingRow
    BY <2>2 DEF BookingRow, BookingStatus
  <2>4. /\ Live(b) /\ End(s) /\ UNCHANGED <<vehicles, offer, washer>>
        /\ booking' = [booking EXCEPT ![b] = new]
    BY <1>6 DEF CompleteWrite, SetStatus
  <2>5. /\ new.row = booking[b].row /\ new.status = "AWAITING_CLIENT_CONFIRMATION"
        /\ new.washer = booking[b].washer /\ new.price = booking[b].price
        /\ new.arrived = booking[b].arrived
        /\ new.started = booking[b].started
        /\ new.completed
    BY <2>2 DEF BookingRow
  <2>6. booking[b].started
    BY <1>6 DEF CompleteWrite, At, IInv, RequestsFit, RequestFits
  <2> HIDE DEF new, b
  <2>7. booking' \in [Bookings -> BookingRow]
    BY <1>0, <2>1, <2>3, <2>4
  <2>8. TypeOK'
    BY <1>0, <2>4, <2>7, EndTyped DEF TypeOK
  <2> QED
    BY <1>1, <2>1, <2>3, <2>4, <2>6, <2>5, <2>8, BookingWritePreserves DEF End, Live
<1>7. ASSUME NEW b \in Bookings, Lapse(b)
      PROVE  IInv'
  <2> DEFINE new == [booking[b] EXCEPT !.lapsed = TRUE]
  <2>1. booking[b] \in BookingRow
    BY <1>0
  <2>2. new \in BookingRow
    BY <2>1 DEF BookingRow
  <2>3. /\ Live(b) /\ UNCHANGED <<vehicles, offer, washer, req>>
        /\ booking' = [booking EXCEPT ![b] = new]
    BY <1>7 DEF Lapse, Choosable
  <2>4. /\ new.row = booking[b].row /\ new.status = booking[b].status
        /\ new.washer = booking[b].washer /\ new.price = booking[b].price
        /\ new.arrived = booking[b].arrived
        /\ new.started = booking[b].started
        /\ new.completed = booking[b].completed
    BY <2>1 DEF BookingRow
  <2> HIDE DEF new
  <2>5. booking' \in [Bookings -> BookingRow]
    BY <1>0, <2>2, <2>3
  <2>6. TypeOK'
    BY <1>0, <2>3, <2>5 DEF TypeOK
  <2>7. booking[b].status = "PENDING"
    BY <1>7 DEF Lapse, Choosable
  <2> QED
    BY <1>1, <2>2, <2>3, <2>4, <2>6, <2>7, BookingWritePreserves DEF Live
<1> QED
  BY <1>2, <1>3, <1>4, <1>5, <1>6, <1>7

-----------------------------------------------------------------------------
\* The types, and what every write of a booking or an offer starts from.
LEMMA Rows ==
  ASSUME IInv
  PROVE  /\ vehicles \subseteq Vehicles
         /\ booking \in [Bookings -> BookingRow]
         /\ offer \in [Offers -> OfferStatus \cup {"unborn", "deleted"}]
         /\ washer \in [Washers -> WasherRow]
         /\ req \in [Slots -> Request]
  BY DEF IInv, TypeOK

\* A slot that ends leaves every other request fitting.
LEMMA EndStaysFit ==
  ASSUME IInv, ForeignKeys, MilestonesGrow, NEW s \in Slots, End(s)
  PROVE  RequestsFit'
<1>1. Idle \in Request /\ Idle.at = "idle"
  BY IdleTyped DEF Idle, Req
<1> QED
  BY <1>1, RequestsStayFit DEF IInv, End

LEMMA CreateInsertPreserves ==
  ASSUME IInv, ForeignKeys, NullIsNoId, NEW s \in Slots, CreateInsert(s)
  PROVE  IInv'
<1> DEFINE b == req[s].booking
           new == [FreshBooking EXCEPT !.row = "live"]
<1>1. b \in Bookings
  BY DEF CreateInsert, At, IInv, RequestsFit, RequestFits
<1>2. /\ new \in BookingRow /\ new.row = "live" /\ new.status = "PENDING"
      /\ new.washer = None /\ new.price = None
      /\ ~ new.arrived /\ ~ new.started /\ ~ new.completed
  BY DEF FreshBooking, BookingRow, BookingStatus
<1>3. /\ booking[b].row = "unborn" /\ End(s)
      /\ UNCHANGED <<vehicles, offer, washer>>
      /\ booking' = [booking EXCEPT ![b] = new]
  BY DEF CreateInsert
<1>4. /\ ~ booking[b].arrived /\ ~ booking[b].started
      /\ ~ booking[b].completed /\ booking[b].price = None
      /\ \A o \in Offers : BookingOf[o] = b => ~ LiveOffer(o)
  BY <1>1, <1>3 DEF IInv, UnbornIsBlank, FreshBooking
<1> HIDE DEF new, b
<1>5. booking' \in [Bookings -> BookingRow]
  BY <1>1, <1>2, <1>3, Rows
<1>6. /\ booking'[b] = new
      /\ \A x \in Bookings : x # b => booking'[x] = booking[x]
  BY <1>1, <1>3, Rows
<1>7. TypeOK'
  BY <1>3, <1>5, Rows, EndTyped DEF TypeOK
<1>8. MilestonesGrow
  BY <1>4, <1>6 DEF MilestonesGrow, PriceAgreed, NullIsNoId
<1>9. RequestsFit'
  BY <1>3, <1>8, EndStaysFit
<1>10. UnbornIsBlank'
  BY <1>2, <1>3, <1>6 DEF IInv, UnbornIsBlank, LiveOffer
<1>11. AssignmentBacked'
  BY <1>2, <1>3, <1>6 DEF IInv, AssignmentBacked, Live
<1>12. OpenXorAssigned'
  BY <1>2, <1>3, <1>4, <1>6 DEF IInv, OpenXorAssigned, Live, LiveOffer, OfferStatus
<1>13. MilestonesInOrder' /\ PriceAgreedBeforeWork'
  BY <1>2, <1>6 DEF IInv, MilestonesInOrder, PriceAgreedBeforeWork, PriceAgreed
<1> QED
  BY <1>7, <1>9, <1>10, <1>11, <1>12, <1>13 DEF IInv

LEMMA OfferInsertPreserves ==
  ASSUME IInv, ForeignKeys, NEW s \in Slots, OfferInsert(s)
  PROVE  IInv'
<1> DEFINE o == req[s].offer
<1>1. o \in Offers
  BY DEF OfferInsert, At, IInv, RequestsFit, RequestFits
<1>2. /\ offer[o] = "unborn" /\ Live(BookingOf[o]) /\ End(s)
      /\ UNCHANGED <<vehicles, booking, washer>>
      /\ offer' = [offer EXCEPT ![o] = "PENDING"]
  BY DEF OfferInsert
<1> HIDE DEF o
<1>3. /\ offer'[o] = "PENDING"
      /\ \A x \in Offers : x # o => offer'[x] = offer[x]
  BY <1>1, <1>2, Rows
<1>4. TypeOK'
  BY <1>2, Rows, EndTyped DEF TypeOK, OfferStatus
<1>5. MilestonesGrow
  BY <1>2 DEF MilestonesGrow, PriceAgreed
<1>6. RequestsFit'
  BY <1>2, <1>5, EndStaysFit
<1>7. UnbornIsBlank'
  BY <1>1, <1>2, <1>3 DEF IInv, UnbornIsBlank, LiveOffer, Live
<1>8. AssignmentBacked'
  BY <1>2, <1>3 DEF IInv, AssignmentBacked, Live
<1>9. OpenXorAssigned'
  BY <1>2, <1>3 DEF IInv, OpenXorAssigned, Live
<1>10. MilestonesInOrder' /\ PriceAgreedBeforeWork'
  BY <1>2 DEF IInv, MilestonesInOrder, PriceAgreedBeforeWork, PriceAgreed
<1> QED
  BY <1>4, <1>6, <1>7, <1>8, <1>9, <1>10 DEF IInv

LEMMA ChooseWritePreserves ==
  ASSUME IInv, ForeignKeys, NullIsNoId, NEW s \in Slots, ChooseWrite(s)
  PROVE  IInv'
<1> DEFINE o == req[s].offer
           b == req[s].booking
           w == WasherOf[o]
           new == Assigned(booking[b], o)
<1>1. o \in Offers /\ b = BookingOf[o] /\ w = WasherOf[o]
  BY DEF ChooseWrite, At, IInv, RequestsFit, RequestFits
<1>2. b \in Bookings /\ w \in Washers /\ w # None
  BY <1>1 DEF ForeignKeys, NullIsNoId
<1>3. booking[b] \in BookingRow
  BY <1>2, Rows
<1>4. /\ new \in BookingRow /\ new.row = booking[b].row
      /\ new.status = "ACCEPTED" /\ new.washer = w /\ new.price = o
      /\ new.arrived = booking[b].arrived
      /\ new.started = booking[b].started
      /\ new.completed = booking[b].completed
  BY <1>1, <1>2, <1>3 DEF Assigned, BookingRow, BookingStatus
<1>5. /\ LiveOffer(o) /\ Live(b) /\ End(s) /\ vehicles' = vehicles
      /\ SetWasher(w, "BUSY")
      /\ booking' = [booking EXCEPT ![b] = new]
      /\ offer' = [x \in Offers |->
                     IF x = o THEN "ACCEPTED"
                     ELSE IF BookingOf[x] = b /\ offer[x] = "PENDING"
                          THEN "REJECTED" ELSE offer[x]]
  BY <1>1 DEF ChooseWrite, StatusOnceChosen
<1> HIDE DEF new, b, o, w
<1>6. /\ booking'[b] = new
      /\ \A x \in Bookings : x # b => booking'[x] = booking[x]
  BY <1>2, <1>5, Rows
<1>7. /\ offer'[o] = "ACCEPTED"
      /\ \A x \in Offers : BookingOf[x] # b => offer'[x] = offer[x]
      /\ \A x \in Offers : LiveOffer(x)' => LiveOffer(x)
  BY <1>1, <1>5 DEF LiveOffer, OfferStatus
<1>8. TypeOK'
  <2>1. washer' \in [Washers -> WasherRow]
    BY <1>5, Rows, SetWasherTyped DEF WasherStatus
  <2>2. booking' \in [Bookings -> BookingRow]
    BY <1>2, <1>4, <1>5, Rows
  <2>3. offer' \in [Offers -> OfferStatus \cup {"unborn", "deleted"}]
    BY <1>5, Rows DEF OfferStatus
  <2> QED
    BY <1>5, <2>1, <2>2, <2>3, Rows, EndTyped DEF TypeOK
<1>9. MilestonesGrow
  BY <1>1, <1>4, <1>6 DEF MilestonesGrow, PriceAgreed
<1>10. RequestsFit'
  BY <1>5, <1>9, EndStaysFit
<1>11. UnbornIsBlank'
  BY <1>4, <1>5, <1>6, <1>7 DEF IInv, UnbornIsBlank, Live
<1>12. AssignmentBacked'
  BY <1>1, <1>4, <1>6, <1>7 DEF IInv, AssignmentBacked, Live
<1>13. OpenXorAssigned'
  BY <1>2, <1>4, <1>6, <1>7 DEF IInv, OpenXorAssigned, Live
<1>14. MilestonesInOrder'
  BY <1>4, <1>6 DEF IInv, MilestonesInOrder
<1>15. PriceAgreedBeforeWork'
  BY <1>1, <1>4, <1>6 DEF IInv, PriceAgreedBeforeWork, PriceAgreed
<1> QED
  BY <1>8, <1>10, <1>11, <1>12, <1>13, <1>14, <1>15 DEF IInv

LEMMA ExpireNextPreserves ==
  ASSUME IInv, ForeignKeys, NEW s \in Slots, NEW b \in Bookings,
         ExpireNext(s, b)
  PROVE  IInv'
<1> DEFINE new == [booking[b] EXCEPT !.status = "CANCELLED",
                                     !.cancelledBy = "SYSTEM"]
           left == req[s].todo \ {b}
           r == IF left = {} THEN Idle ELSE [req[s] EXCEPT !.todo = left]
<1>1. booking[b] \in BookingRow /\ req[s] \in Request
  BY Rows
<1>2. /\ new \in BookingRow /\ new.row = booking[b].row
      /\ new.status = "CANCELLED" /\ new.washer = booking[b].washer
      /\ new.price = booking[b].price /\ new.arrived = booking[b].arrived
      /\ new.started = booking[b].started
      /\ new.completed = booking[b].completed
  BY <1>1 DEF BookingRow, BookingStatus, CancellationActor
<1>3. r \in Request /\ r.at \in {"idle", "expireNext"}
  <2>1. req[s].at = "expireNext" /\ left \in SUBSET Bookings
    BY <1>1 DEF ExpireNext, At, Request
  <2>2. Idle \in Request /\ Idle.at = "idle"
    BY IdleTyped DEF Idle, Req
  <2>3. /\ [req[s] EXCEPT !.todo = left] \in Request
        /\ [req[s] EXCEPT !.todo = left].at = "expireNext"
    BY <1>1, <2>1 DEF Request
  <2> QED
    BY <2>2, <2>3
<1>4. /\ Live(b) /\ UNCHANGED <<vehicles, washer>>
      /\ booking' = [booking EXCEPT ![b] = new]
      /\ offer' = [x \in Offers |->
                     IF BookingOf[x] = b /\ offer[x] = "PENDING"
                     THEN "EXPIRED" ELSE offer[x]]
      /\ req' = [req EXCEPT ![s] = r]
  BY DEF ExpireNext, End
<1> HIDE DEF new, r
<1>5. /\ booking'[b] = new
      /\ \A x \in Bookings : x # b => booking'[x] = booking[x]
  BY <1>4, Rows
<1>6. \A x \in Offers : /\ offer'[x] = "ACCEPTED" <=> offer[x] = "ACCEPTED"
                        /\ LiveOffer(x)' <=> LiveOffer(x)
  BY <1>4 DEF LiveOffer, OfferStatus
<1>7. TypeOK'
  <2>1. booking' \in [Bookings -> BookingRow]
    BY <1>2, <1>4, Rows
  <2>2. offer' \in [Offers -> OfferStatus \cup {"unborn", "deleted"}]
    BY <1>4, Rows DEF OfferStatus
  <2>3. req' \in [Slots -> Request]
    BY <1>3, <1>4, Rows
  <2> QED
    BY <1>4, <2>1, <2>2, <2>3, Rows DEF TypeOK
<1>8. MilestonesGrow
  BY <1>2, <1>5 DEF MilestonesGrow, PriceAgreed
<1>9. RequestsFit'
  BY <1>3, <1>4, <1>8, RequestsStayFit DEF IInv
<1>10. UnbornIsBlank'
  BY <1>2, <1>4, <1>5, <1>6 DEF IInv, UnbornIsBlank, Live
<1>11. AssignmentBacked'
  BY <1>2, <1>5, <1>6, ForeignKeys DEF IInv, AssignmentBacked, Live
<1>12. OpenXorAssigned'
  BY <1>2, <1>5, <1>6 DEF IInv, OpenXorAssigned, Live
<1>13. MilestonesInOrder' /\ PriceAgreedBeforeWork'
  BY <1>2, <1>5 DEF IInv, MilestonesInOrder, PriceAgreedBeforeWork, PriceAgreed
<1> QED
  BY <1>7, <1>9, <1>10, <1>11, <1>12, <1>13 DEF IInv

LEMMA WithdrawWritePreserves ==
  ASSUME IInv, ForeignKeys, NEW s \in Slots, WithdrawWrite(s)
  PROVE  IInv'
<1> DEFINE b == req[s].booking
           new == Reopened(booking[b])
<1>1. b \in Bookings
  BY DEF WithdrawWrite, At, IInv, RequestsFit, RequestFits
<1>2. booking[b] \in BookingRow
  BY <1>1, Rows
<1>3. /\ new \in BookingRow /\ new.row = booking[b].row
      /\ new.status = "PENDING" /\ new.washer = None
      /\ new.price = booking[b].price /\ new.arrived = booking[b].arrived
      /\ new.started = booking[b].started
      /\ new.completed = booking[b].completed
  BY <1>2 DEF Reopened, BookingRow, BookingStatus, CancellationActor
<1>4. /\ Live(b) /\ End(s) /\ vehicles' = vehicles
      /\ SetWasher(req[s].washer, "AVAILABLE")
      /\ booking' = [booking EXCEPT ![b] = new]
      /\ offer' = [x \in Offers |->
                     IF BookingOf[x] = b /\ LiveOffer(x) THEN "deleted"
                                                         ELSE offer[x]]
  BY DEF WithdrawWrite
<1> HIDE DEF new, b
<1>5. /\ booking'[b] = new
      /\ \A x \in Bookings : x # b => booking'[x] = booking[x]
  BY <1>1, <1>4, Rows
<1>6. /\ \A x \in Offers : BookingOf[x] = b => ~ LiveOffer(x)'
      /\ \A x \in Offers : BookingOf[x] # b => offer'[x] = offer[x]
      /\ \A x \in Offers : LiveOffer(x)' => LiveOffer(x)
  BY <1>4 DEF LiveOffer, OfferStatus
<1>7. TypeOK'
  <2>1. washer' \in [Washers -> WasherRow]
    BY <1>4, Rows, SetWasherTyped DEF WasherStatus
  <2>2. booking' \in [Bookings -> BookingRow]
    BY <1>1, <1>3, <1>4, Rows
  <2>3. offer' \in [Offers -> OfferStatus \cup {"unborn", "deleted"}]
    BY <1>4, Rows
  <2> QED
    BY <1>4, <2>1, <2>2, <2>3, Rows, EndTyped DEF TypeOK
<1>8. MilestonesGrow
  BY <1>3, <1>5 DEF MilestonesGrow, PriceAgreed
<1>9. RequestsFit'
  BY <1>4, <1>8, EndStaysFit
<1>10. UnbornIsBlank'
  BY <1>3, <1>4, <1>5, <1>6 DEF IInv, UnbornIsBlank, Live
<1>11. AssignmentBacked'
  BY <1>3, <1>5, <1>6 DEF IInv, AssignmentBacked, Live
<1>12. OpenXorAssigned'
  BY <1>3, <1>5, <1>6 DEF IInv, OpenXorAssigned, Live, LiveOffer, OfferStatus
<1>13. MilestonesInOrder' /\ PriceAgreedBeforeWork'
  BY <1>3, <1>5 DEF IInv, MilestonesInOrder, PriceAgreedBeforeWork, PriceAgreed
<1> QED
  BY <1>7, <1>9, <1>10, <1>11, <1>12, <1>13 DEF IInv

LEMMA RemoveVehiclePreserves ==
  ASSUME IInv, ForeignKeys, NEW v \in Vehicles, RemoveVehicle(v)
  PROVE  IInv'
<1>1. /\ vehicles' \subseteq vehicles /\ UNCHANGED <<washer, req>>
      /\ booking' = [b \in Bookings |->
                       IF VehicleOf[b] = v /\ Live(b)
                       THEN [booking[b] EXCEPT !.row = "removed"]
                       ELSE booking[b]]
      /\ offer' = [x \in Offers |->
                     IF VehicleOf[BookingOf[x]] = v /\ LiveOffer(x)
                     THEN "deleted" ELSE offer[x]]
  BY DEF RemoveVehicle
<1>2. ASSUME NEW b \in Bookings
      PROVE  /\ booking'[b] \in BookingRow
             /\ booking'[b].row = "unborn" <=> booking[b].row = "unborn"
             /\ booking'[b].row = "unborn" => booking'[b] = booking[b]
             /\ booking'[b].status = booking[b].status
             /\ booking'[b].washer = booking[b].washer
             /\ booking'[b].price = booking[b].price
             /\ booking'[b].arrived = booking[b].arrived
             /\ booking'[b].started = booking[b].started
             /\ booking'[b].completed = booking[b].completed
             /\ Live(b)' => Live(b) /\ VehicleOf[b] # v
  <2>1. booking[b] \in BookingRow
    BY Rows
  <2>2. CASE VehicleOf[b] = v /\ Live(b)
    <3>1. booking'[b] = [booking[b] EXCEPT !.row = "removed"]
      BY <1>1, <2>2
    <3> QED
      BY <2>1, <2>2, <3>1 DEF BookingRow, Live
  <2>3. CASE ~ (VehicleOf[b] = v /\ Live(b))
    <3>1. booking'[b] = booking[b]
      BY <1>1, <2>3
    <3> QED
      BY <2>1, <2>3, <3>1 DEF Live
  <2> QED
    BY <2>2, <2>3
<1>3. ASSUME NEW x \in Offers
      PROVE  /\ offer'[x] \in OfferStatus \cup {"unborn", "deleted"}
             /\ LiveOffer(x)' => LiveOffer(x)
             /\ offer'[x] = "ACCEPTED" => offer[x] = "ACCEPTED"
             /\ VehicleOf[BookingOf[x]] # v => offer'[x] = offer[x]
  BY <1>1, Rows DEF LiveOffer, OfferStatus
<1>4. TypeOK'
  <2>1. booking' \in [Bookings -> BookingRow]
    BY <1>1, <1>2
  <2>2. offer' \in [Offers -> OfferStatus \cup {"unborn", "deleted"}]
    BY <1>1, <1>3
  <2> QED
    BY <1>1, <2>1, <2>2, Rows DEF TypeOK
<1>5. MilestonesGrow
  BY <1>2 DEF MilestonesGrow, PriceAgreed
<1>6. RequestsFit'
  BY <1>1, <1>5 DEF IInv, RequestsFit, RequestFits, MilestonesGrow
<1>7. UnbornIsBlank'
  BY <1>2, <1>3 DEF IInv, UnbornIsBlank
<1>8. AssignmentBacked'
  BY <1>2, <1>3 DEF IInv, AssignmentBacked
<1>9. OpenXorAssigned'
  BY <1>2, <1>3 DEF IInv, OpenXorAssigned
<1>10. MilestonesInOrder' /\ PriceAgreedBeforeWork'
  BY <1>2 DEF IInv, MilestonesInOrder, PriceAgreedBeforeWork, PriceAgreed
<1> QED
  BY <1>4, <1>6, <1>7, <1>8, <1>9, <1>10 DEF IInv

-----------------------------------------------------------------------------
\* A step that changes nothing preserves everything.
LEMMA StutterPreserves ==
  ASSUME IInv, UNCHANGED vars
  PROVE  IInv'
  BY DEF vars, IInv, TypeOK, RequestsFit, RequestFits, UnbornIsBlank,
     AssignmentBacked, OpenXorAssigned, MilestonesInOrder,
     PriceAgreedBeforeWork, PriceAgreed, Live, LiveOffer

\* Every step preserves the invariant.
LEMMA NextPreserves ==
  ASSUME IInv, [Next]_vars
  PROVE  IInv'
<1> USE ForeignKeys, NullIsNoId
<1>1. ASSUME NEW s \in Slots, ClientStep(s)
      PROVE  IInv'
  BY <1>1, ReadsPreserve, LaterReadsPreserve, BookingWritesPreserve,
     CreateInsertPreserves, ChooseWritePreserves DEF ClientStep
<1>2. ASSUME NEW s \in Slots, WasherStep(s)
      PROVE  IInv'
  BY <1>2, ReadsPreserve, LaterReadsPreserve, BookingWritesPreserve,
     ProfileWritesPreserve, OfferInsertPreserves, WithdrawWritePreserves
     DEF WasherStep
<1>3. ASSUME NEW s \in Slots, AdminStep(s)
      PROVE  IInv'
  BY <1>3, ReadsPreserve, ProfileWritesPreserve DEF AdminStep
<1>4. ASSUME NEW s \in Slots, ExpireStep(s)
      PROVE  IInv'
  BY <1>4, ReadsPreserve, ExpireNextPreserves DEF ExpireStep
<1>5. ASSUME NEW s \in Slots, Abort(s)
      PROVE  IInv'
  BY <1>5, LaterReadsPreserve
<1>6. ASSUME NEW w \in Washers, UpdateLocation(w)
      PROVE  IInv'
  BY <1>6, ProfileWritesPreserve
<1>7. ASSUME NEW v \in Vehicles, RemoveVehicle(v)
      PROVE  IInv'
  BY <1>7, RemoveVehiclePreserves
<1>8. ASSUME NEW b \in Bookings, Lapse(b)
      PROVE  IInv'
  BY <1>8, BookingWritesPreserve
<1> QED
  BY <1>1, <1>2, <1>3, <1>4, <1>5, <1>6, <1>7, <1>8, StutterPreserves DEF Next

\* The invariant holds in every reachable state of every instance.
THEOREM Invariance == Spec => []IInv
<1>1. Init => IInv
  BY InitIInv
<1>2. IInv /\ [Next]_vars => IInv'
  BY NextPreserves
<1> QED
  BY <1>1, <1>2, PTL DEF Spec

\* Tables and requests keep the shape the schema and the handlers give them.
THEOREM TypeCorrect == Spec => []TypeOK
<1>1. IInv => TypeOK
  BY DEF IInv
<1> QED
  BY <1>1, Invariance, PTL

\* A booking with a washer has the winning offer of that washer behind it.
THEOREM AssignmentIsBacked == Spec => []AssignmentBacked
<1>1. IInv => AssignmentBacked
  BY DEF IInv
<1> QED
  BY <1>1, Invariance, PTL

\* An open booking has neither washer nor winner, an accepted one has a washer.
THEOREM OpenOrAssigned == Spec => []OpenXorAssigned
<1>1. IInv => OpenXorAssigned
  BY DEF IInv
<1> QED
  BY <1>1, Invariance, PTL

\* The status never runs ahead of the milestones, which are set in order.
THEOREM MilestonesOrdered == Spec => []MilestonesInOrder
<1>1. IInv => MilestonesInOrder
  BY DEF IInv
<1> QED
  BY <1>1, Invariance, PTL

\* No work is done at a price the client did not choose.
THEOREM WorkIsPriced == Spec => []PriceAgreedBeforeWork
<1>1. IInv => PriceAgreedBeforeWork
  BY DEF IInv
<1> QED
  BY <1>1, Invariance, PTL

-----------------------------------------------------------------------------
Kept(b) == /\ booking[b].arrived => booking'[b].arrived
           /\ booking[b].started => booking'[b].started
           /\ booking[b].completed => booking'[b].completed
           /\ booking[b].price # None => booking'[b].price # None

\* The insert finds no milestone to lose, every other write keeps them.
LEMMA NextKeeps ==
  ASSUME IInv, [Next]_vars, NEW b \in Bookings
  PROVE  Kept(b)
<1>1. CASE booking' = booking
  BY <1>1 DEF Kept
<1>2. ASSUME NEW s \in Slots, CreateInsert(s)
      PROVE  Kept(b)
  <2>1. booking[req[s].booking] = FreshBooking
    BY <1>2 DEF CreateInsert, At, IInv, RequestsFit, RequestFits, UnbornIsBlank
  <2>2. b # req[s].booking => booking'[b] = booking[b]
    BY <1>2, Rows DEF CreateInsert
  <2> QED
    BY <2>1, <2>2 DEF Kept, FreshBooking
<1>3. booking \in [Bookings -> BookingRow] /\ booking[b] \in BookingRow
  BY Rows
<1>4. ASSUME NEW s \in Slots,
             CancelWrite(s) \/ ConfirmWrite(s) \/ ExpireStep(s)
      PROVE  Kept(b)
  <2> USE <1>3 DEF Kept, BookingRow
  <2>1. CASE CancelWrite(s)
    BY <2>1 DEF CancelWrite
  <2>2. CASE ConfirmWrite(s)
    BY <2>2 DEF ConfirmWrite, SetStatus
  <2>3. CASE ExpireList(s)
    BY <2>3 DEF ExpireList, Begin, tables
  <2>4. ASSUME NEW x \in Bookings, ExpireNext(s, x)
        PROVE  Kept(b)
    BY <2>4 DEF ExpireNext
  <2> QED
    BY <1>4, <2>1, <2>2, <2>3, <2>4 DEF ExpireStep
<1>5. ASSUME NEW s \in Slots,
             \/ ArriveWrite(s) \/ StartWrite(s) \/ CompleteWrite(s)
             \/ WithdrawWrite(s)
      PROVE  Kept(b)
  <2> USE <1>3 DEF Kept, BookingRow
  <2>1. CASE ArriveWrite(s)
    BY <2>1 DEF ArriveWrite
  <2>2. CASE StartWrite(s)
    BY <2>2 DEF StartWrite
  <2>3. CASE CompleteWrite(s)
    BY <2>3 DEF CompleteWrite
  <2>4. CASE WithdrawWrite(s)
    BY <2>4 DEF WithdrawWrite, Reopened
  <2> QED
    BY <1>5, <2>1, <2>2, <2>3, <2>4
<1>6. ASSUME NEW s \in Slots, ChooseWrite(s)
      PROVE  Kept(b)
  <2>1. req[s].offer \in Offers
    BY <1>6 DEF ChooseWrite, At, IInv, RequestsFit, RequestFits
  <2> QED
    BY <1>3, <1>6, <2>1, NullIsNoId DEF ChooseWrite, Assigned, Kept, BookingRow
<1>7. ASSUME NEW v \in Vehicles, RemoveVehicle(v)
      PROVE  Kept(b)
  BY <1>3, <1>7 DEF RemoveVehicle, Kept, BookingRow
<1>8. ASSUME NEW x \in Bookings, Lapse(x)
      PROVE  Kept(b)
  BY <1>3, <1>8 DEF Lapse, Kept, BookingRow
<1>9. ASSUME NEW s \in Slots, ClientStep(s) \/ WasherStep(s)
      PROVE  Kept(b)
  <2>1. \/ booking' = booking
        \/ CreateInsert(s) \/ CancelWrite(s) \/ ConfirmWrite(s)
        \/ ChooseWrite(s) \/ ArriveWrite(s) \/ StartWrite(s)
        \/ CompleteWrite(s) \/ WithdrawWrite(s)
    BY <1>9 DEF ClientStep, WasherStep, CreateCheck, CancelRead, ConfirmRead,
       ChooseBooking, ChooseOffer, ArriveRead, StartRead, CompleteRead,
       WithdrawRead, WasherRead, OfferProfile, OnlineRead, AvailabilityRead,
       OfferBooking, OfferInsert, OnlineWrite, AvailabilityWrite,
       SetAvailability, Begin, GoOn, tables
  <2> QED
    BY <1>1, <1>2, <1>4, <1>5, <1>6, <2>1
<1>10. ASSUME NEW s \in Slots, AdminStep(s) \/ Abort(s)
       PROVE  booking' = booking
  BY <1>10 DEF AdminStep, Abort, ApproveRead, RejectRead, RetryRead,
     ApproveWrite, RejectWrite, RetryWrite, DismissWrite, Begin, tables
<1>11. ASSUME NEW w \in Washers, UpdateLocation(w)
       PROVE  booking' = booking
  BY <1>11 DEF UpdateLocation
<1> QED
  BY <1>1, <1>4, <1>7, <1>8, <1>9, <1>10, <1>11 DEF Next, vars

\* No step takes back a milestone or an agreed price.
THEOREM MilestonesStay == Spec => MilestonesKept
<1>1. IInv /\ [Next]_vars =>
        [\A b \in Bookings :
            /\ booking[b].arrived => booking'[b].arrived
            /\ booking[b].started => booking'[b].started
            /\ booking[b].completed => booking'[b].completed
            /\ booking[b].price # None => booking'[b].price # None]_vars
  BY NextKeeps DEF Kept
<1> QED
  BY <1>1, Invariance, PTL DEF Spec, MilestonesKept
-----------------------------------------------------------------------------
(***************************************************************************)
(* Requests that overlap without a clash: what a request has read is still *)
(* so when it writes, so the guard of the read is a guard of the write.    *)
(***************************************************************************)
\* What a step makes of one booking, and of no other.
Becomes(b, row, status, w, price) ==
    /\ booking'[b].row = row
    /\ booking'[b].status = status
    /\ booking'[b].washer = w
    /\ booking'[b].price = price
    /\ \A x \in Bookings : x # b => booking'[x] = booking[x]

\* A booking as others see it does not change.
SameBooking(b) ==
    /\ booking'[b].row = booking[b].row
    /\ booking'[b].status = booking[b].status
    /\ booking'[b].washer = booking[b].washer
    /\ booking'[b].price = booking[b].price

\* Only one status of a booking moves.
MovesOn(b, status) ==
    Live(b) /\ Becomes(b, "live", status, booking[b].washer, booking[b].price)

\* What the writes do when the read's guard holds with the write.
\* An insert adds an active booking for a client that had none.
LEMMA Created ==
  ASSUME IInv, ReadsStillSo, NEW s \in Slots, CreateInsert(s)
  PROVE  \E b \in Bookings :
            /\ booking[b] = FreshBooking
            /\ ~ HasActiveBooking(ClientOf(b))
            /\ Becomes(b, "live", "PENDING", None, None)
            /\ UNCHANGED <<vehicles, offer, washer>>
<1> DEFINE b == req[s].booking
<1>1. b \in Bookings
  BY DEF CreateInsert, At, IInv, RequestsFit, RequestFits
<1>2. booking[b] = FreshBooking
  BY <1>1 DEF CreateInsert, IInv, UnbornIsBlank
<1>3. ~ HasActiveBooking(ClientOf(b))
  BY DEF CreateInsert, At, ReadsStillSo, StillSo
<1>4. Becomes(b, "live", "PENDING", None, None)
  BY <1>1, Rows DEF CreateInsert, Becomes, FreshBooking
<1> QED
  BY <1>1, <1>2, <1>3, <1>4 DEF CreateInsert

\* The washer set free is the one the booking has.
LEMMA Cancelled ==
  ASSUME IInv, ReadsStillSo, NEW s \in Slots, CancelWrite(s)
  PROVE  \E b \in Bookings :
            /\ Cancellable(b)
            /\ MovesOn(b, "CANCELLED")
            /\ IF booking[b].washer = None THEN UNCHANGED washer
               ELSE SetWasher(booking[b].washer, "AVAILABLE")
            /\ UNCHANGED <<vehicles, offer>>
<1> DEFINE b == req[s].booking
<1>1. b \in Bookings
  BY DEF CancelWrite, At, IInv, RequestsFit, RequestFits
<1>2. Cancellable(b) /\ booking[b].washer = req[s].washer
  BY DEF CancelWrite, At, ReadsStillSo, StillSo
<1>3. booking[b] \in BookingRow
  BY <1>1, Rows
<1>4. MovesOn(b, "CANCELLED")
  BY <1>1, <1>3, Rows DEF CancelWrite, MovesOn, Becomes, BookingRow, Live
<1> QED
  BY <1>1, <1>2, <1>4 DEF CancelWrite

\* The washer counted and set free is the one the booking has.
LEMMA Confirmed ==
  ASSUME IInv, ReadsStillSo, NEW s \in Slots, ConfirmWrite(s)
  PROVE  \E b \in Bookings :
            /\ booking[b].status = "AWAITING_CLIENT_CONFIRMATION"
            /\ booking[b].washer \in Washers
            /\ MovesOn(b, "COMPLETED")
            /\ washer' = [washer EXCEPT ![booking[b].washer] =
                                Credited(washer[booking[b].washer])]
            /\ UNCHANGED <<vehicles, offer>>
<1> DEFINE b == req[s].booking
<1>1. b \in Bookings /\ req[s].washer \in Washers
  BY DEF ConfirmWrite, At, IInv, RequestsFit, RequestFits
<1>2. /\ booking[b].status = "AWAITING_CLIENT_CONFIRMATION"
      /\ booking[b].washer = req[s].washer
  BY DEF ConfirmWrite, At, ReadsStillSo, StillSo
<1>3. booking[b] \in BookingRow
  BY <1>1, Rows
<1>4. MovesOn(b, "COMPLETED")
  BY <1>1, <1>3, Rows DEF ConfirmWrite, SetStatus, MovesOn, Becomes,
     BookingRow, Live
<1> QED
  BY <1>1, <1>2, <1>4 DEF ConfirmWrite

\* Arrival, start and completion.
LEMMA Worked ==
  ASSUME IInv, ReadsStillSo, NEW s \in Slots,
         ArriveWrite(s) \/ StartWrite(s) \/ CompleteWrite(s)
  PROVE  \E b \in Bookings :
            /\ \/ booking[b].status = "ACCEPTED" /\ MovesOn(b, "ARRIVED")
               \/ booking[b].status = "ARRIVED" /\ MovesOn(b, "IN_PROGRESS")
               \/ /\ booking[b].status = "IN_PROGRESS"
                  /\ MovesOn(b, "AWAITING_CLIENT_CONFIRMATION")
            /\ UNCHANGED <<vehicles, offer, washer>>
<1> DEFINE b == req[s].booking
<1>1. b \in Bookings
  BY DEF ArriveWrite, StartWrite, CompleteWrite, At, IInv, RequestsFit,
     RequestFits
<1>2. booking[b] \in BookingRow
  BY <1>1, Rows
<1> USE Rows DEF MovesOn, Becomes, BookingRow, Live
<1>3. CASE ArriveWrite(s)
  <2>1. booking[b].status = "ACCEPTED"
    BY <1>3 DEF ArriveWrite, At, ReadsStillSo, StillSo
  <2> QED
    BY <1>1, <1>2, <1>3, <2>1 DEF ArriveWrite
<1>4. CASE StartWrite(s)
  <2>1. booking[b].status = "ARRIVED"
    BY <1>4 DEF StartWrite, At, ReadsStillSo, StillSo
  <2> QED
    BY <1>1, <1>2, <1>4, <2>1 DEF StartWrite
<1>5. CASE CompleteWrite(s)
  <2>1. booking[b].status = "IN_PROGRESS"
    BY <1>5 DEF CompleteWrite, At, ReadsStillSo, StillSo
  <2> QED
    BY <1>1, <1>2, <1>5, <2>1 DEF CompleteWrite
<1> QED
  BY <1>3, <1>4, <1>5

\* The booking was open, the washer free.
LEMMA Chosen ==
  ASSUME IInv, ReadsStillSo, NEW s \in Slots, ChooseWrite(s), ForeignKeys
  PROVE  \E o \in Offers :
            /\ Live(BookingOf[o]) /\ booking[BookingOf[o]].status = "PENDING"
            /\ Free(WasherOf[o])
            /\ Becomes(BookingOf[o], "live", "ACCEPTED", WasherOf[o], o)
            /\ offer' = [x \in Offers |-> StatusOnceChosen(x, o)]
            /\ SetWasher(WasherOf[o], "BUSY")
            /\ vehicles' = vehicles
<1> DEFINE o == req[s].offer
           b == req[s].booking
<1>1. o \in Offers /\ b = BookingOf[o] /\ req[s].washer = WasherOf[o]
  BY DEF ChooseWrite, At, IInv, RequestsFit, RequestFits
<1>2. booking[b].status = "PENDING" /\ Free(WasherOf[o])
  BY <1>1 DEF ChooseWrite, At, ReadsStillSo, StillSo, Free
<1>3. b \in Bookings /\ booking[b] \in BookingRow
  BY <1>1, Rows, ForeignKeys
<1>4. Becomes(b, "live", "ACCEPTED", WasherOf[o], o)
  BY <1>1, <1>3, Rows DEF ChooseWrite, Becomes, Assigned, BookingRow, Live
<1> QED
  BY <1>1, <1>2, <1>4 DEF ChooseWrite

\* Only open bookings are closed.
LEMMA Expired ==
  ASSUME IInv, ReadsStillSo, NEW s \in Slots, NEW b \in Bookings,
         ExpireNext(s, b)
  PROVE  /\ booking[b].status = "PENDING"
         /\ MovesOn(b, "CANCELLED")
         /\ offer' = [x \in Offers |->
                        IF BookingOf[x] = b /\ offer[x] = "PENDING"
                        THEN "EXPIRED" ELSE offer[x]]
         /\ UNCHANGED <<vehicles, washer>>
<1>1. booking[b].status = "PENDING"
  BY DEF ExpireNext, At, ReadsStillSo, StillSo
<1>2. booking[b] \in BookingRow
  BY Rows
<1>3. MovesOn(b, "CANCELLED")
  BY <1>2, Rows DEF ExpireNext, MovesOn, Becomes, BookingRow, Live
<1> QED
  BY <1>1, <1>3 DEF ExpireNext

\* The booking was accepted, the washer its own.
LEMMA Withdrawn ==
  ASSUME IInv, ReadsStillSo, NEW s \in Slots, WithdrawWrite(s)
  PROVE  \E b \in Bookings :
            /\ Live(b) /\ booking[b].status = "ACCEPTED"
            /\ booking[b].washer \in Washers
            /\ Becomes(b, "live", "PENDING", None, booking[b].price)
            /\ offer' = [x \in Offers |->
                           IF BookingOf[x] = b /\ LiveOffer(x) THEN "deleted"
                                                               ELSE offer[x]]
            /\ SetWasher(booking[b].washer, "AVAILABLE")
            /\ vehicles' = vehicles
<1> DEFINE b == req[s].booking
<1>1. b \in Bookings /\ req[s].washer \in Washers
  BY DEF WithdrawWrite, At, IInv, RequestsFit, RequestFits
<1>2. booking[b].status = "ACCEPTED" /\ booking[b].washer = req[s].washer
  BY DEF WithdrawWrite, At, ReadsStillSo, StillSo
<1>3. booking[b] \in BookingRow
  BY <1>1, Rows
<1>4. Becomes(b, "live", "PENDING", None, booking[b].price)
  BY <1>1, <1>3, Rows DEF WithdrawWrite, Becomes, Reopened, BookingRow, Live
<1> QED
  BY <1>1, <1>2, <1>4 DEF WithdrawWrite

\* A removal moves no status.
LEMMA Removed ==
  ASSUME IInv, NEW v, RemoveVehicle(v), NEW b \in Bookings
  PROVE  /\ booking'[b].status = booking[b].status
         /\ booking'[b].washer = booking[b].washer
         /\ booking'[b].price = booking[b].price
         /\ booking'[b].row = IF VehicleOf[b] = v /\ Live(b) THEN "removed"
                                                   ELSE booking[b].row
<1>1. booking[b] \in BookingRow
  BY Rows
<1>2. booking'[b] = IF VehicleOf[b] = v /\ Live(b)
                    THEN [booking[b] EXCEPT !.row = "removed"]
                    ELSE booking[b]
  BY DEF RemoveVehicle
<1> QED
  BY <1>1, <1>2 DEF BookingRow

\* Time moves nothing anybody else reads.
LEMMA Lapsed ==
  ASSUME IInv, NEW x \in Bookings, Lapse(x), NEW b \in Bookings
  PROVE  SameBooking(b) /\ UNCHANGED <<vehicles, offer, washer, req>>
<1>1. booking[b] \in BookingRow
  BY Rows
<1> QED
  BY <1>1 DEF Lapse, SameBooking, BookingRow
-----------------------------------------------------------------------------
\* A request that resets the status of w writes.
Resetting(s, w) ==
    req[s].at \in Resets /\ req[s].washer = w /\ req'[s] = Idle

\* A profile write counts nothing and sets nobody BUSY; only a reset overwrites it.
ProfileMoves(w) ==
    /\ washer'[w].total = washer[w].total
    /\ washer'[w].status = "BUSY" => washer[w].status = "BUSY"
    /\ washer[w].status = "BUSY" => \/ washer'[w].status = "BUSY"
                                    \/ \E s \in Slots : Resetting(s, w)

ProfileWriting == /\ \A w \in Washers : ProfileMoves(w)
                  /\ UNCHANGED <<vehicles, booking, offer>>

LEMMA ProfileWritesMove ==
  ASSUME IInv, ReadsStillSo,
         \/ \E s \in Slots : \/ OnlineWrite(s) \/ AvailabilityWrite(s)
                             \/ ApproveWrite(s) \/ RejectWrite(s)
                             \/ RetryWrite(s)
         \/ \E w \in Washers : UpdateLocation(w)
  PROVE  ProfileWriting
<1>1. UNCHANGED <<vehicles, booking, offer>>
  BY DEF OnlineWrite, AvailabilityWrite, SetAvailability, ApproveWrite,
     RejectWrite, RetryWrite, DismissWrite, UpdateLocation
<1>2. ASSUME NEW w \in Washers PROVE ProfileMoves(w)
  <2>0. washer \in [Washers -> WasherRow] /\ washer[w] \in WasherRow
    BY Rows
  <2> USE <2>0 DEF ProfileMoves, WasherRow, At, Resets
  <2>1. ASSUME NEW s \in Slots, OnlineWrite(s) PROVE ProfileMoves(w)
    <3>1. washer[req[s].washer].status # "BUSY"
      BY <2>1 DEF OnlineWrite, ReadsStillSo, StillSo
    <3> QED
      BY <2>1, <3>1 DEF OnlineWrite
  <2>2. ASSUME NEW s \in Slots, AvailabilityWrite(s) PROVE ProfileMoves(w)
    <3>1. PICK status \in {"AVAILABLE", "OFFLINE"},
               located \in {washer[req[s].washer].located, TRUE} :
             washer' = [washer EXCEPT ![req[s].washer] =
                          [@ EXCEPT !.status = status, !.located = located]]
      BY <2>2 DEF AvailabilityWrite, SetAvailability
    <3>2. \/ req[s].at \in Resets
          \/ washer[req[s].washer].status # "BUSY"
      BY <2>2 DEF AvailabilityWrite, SetAvailability, ReadsStillSo, StillSo
    <3>3. /\ washer'[w].total = washer[w].total
          /\ washer'[w].status = "BUSY" => washer[w].status = "BUSY"
      BY <3>1
    <3>4. req'[s] = Idle
      BY <2>2, Rows DEF AvailabilityWrite, SetAvailability, End
    <3>5. w # req[s].washer => washer'[w] = washer[w]
      BY <3>1
    <3> QED
      BY <3>2, <3>3, <3>4, <3>5 DEF Resetting
  <2>3. ASSUME NEW s \in Slots, ApproveWrite(s) PROVE ProfileMoves(w)
    BY <2>3, Rows DEF ApproveWrite, Resetting, End
  <2>4. ASSUME NEW s \in Slots, RejectWrite(s) \/ RetryWrite(s)
        PROVE  ProfileMoves(w)
    BY <2>4 DEF RejectWrite, RetryWrite, DismissWrite
  <2>5. ASSUME NEW x \in Washers, UpdateLocation(x) PROVE ProfileMoves(w)
    BY <2>5 DEF UpdateLocation
  <2> QED
    BY <2>1, <2>2, <2>3, <2>4, <2>5
<1> QED
  BY <1>1, <1>2 DEF ProfileWriting

\* A step writes nothing, or is one of the writes.
LEMMA StepWrites ==
  ASSUME [Next]_vars
  PROVE  \/ UNCHANGED tables
         \/ \E s \in Slots :
               \/ CreateInsert(s) \/ CancelWrite(s) \/ ConfirmWrite(s)
               \/ OfferInsert(s) \/ ChooseWrite(s) \/ WithdrawWrite(s)
               \/ ArriveWrite(s) \/ StartWrite(s) \/ CompleteWrite(s)
               \/ \E b \in Bookings : ExpireNext(s, b)
               \/ OnlineWrite(s) \/ AvailabilityWrite(s) \/ ApproveWrite(s)
               \/ RejectWrite(s) \/ RetryWrite(s)
         \/ \E w \in Washers : UpdateLocation(w)
         \/ \E v \in Vehicles : RemoveVehicle(v)
         \/ \E b \in Bookings : Lapse(b)
<1>1. ASSUME NEW s \in Slots,
             ClientStep(s) \/ WasherStep(s) \/ AdminStep(s) \/ ExpireStep(s)
             \/ Abort(s)
      PROVE  \/ UNCHANGED tables
             \/ CreateInsert(s) \/ CancelWrite(s) \/ ConfirmWrite(s)
             \/ OfferInsert(s) \/ ChooseWrite(s) \/ WithdrawWrite(s)
             \/ ArriveWrite(s) \/ StartWrite(s) \/ CompleteWrite(s)
             \/ \E b \in Bookings : ExpireNext(s, b)
             \/ OnlineWrite(s) \/ AvailabilityWrite(s) \/ ApproveWrite(s)
             \/ RejectWrite(s) \/ RetryWrite(s)
  BY <1>1 DEF ClientStep, WasherStep, AdminStep, ExpireStep, Abort,
     CreateCheck, CancelRead, ConfirmRead, ChooseBooking, ChooseOffer,
     ArriveRead, StartRead, CompleteRead, WithdrawRead, WasherRead,
     OfferProfile, OnlineRead, AvailabilityRead, OfferBooking, ApproveRead,
     RejectRead, RetryRead, ExpireList, Begin, GoOn
<1>2. UNCHANGED vars => UNCHANGED tables
  BY DEF vars, tables
<1> QED
  BY <1>1, <1>2 DEF Next

\* What a step can be, by what it does to the tables.
LEMMA StepKinds ==
  ASSUME IInv, ReadsStillSo, [Next]_vars
  PROVE  \/ UNCHANGED tables
         \/ ProfileWriting
         \/ \E s \in Slots :
               \/ CreateInsert(s) \/ CancelWrite(s) \/ ConfirmWrite(s)
               \/ OfferInsert(s) \/ ChooseWrite(s) \/ WithdrawWrite(s)
               \/ ArriveWrite(s) \/ StartWrite(s) \/ CompleteWrite(s)
               \/ \E b \in Bookings : ExpireNext(s, b)
         \/ \E v \in Vehicles : RemoveVehicle(v)
         \/ \E b \in Bookings : Lapse(b)
  BY StepWrites, ProfileWritesMove

-----------------------------------------------------------------------------
\* One booking a client: only an insert makes a booking active.
LEMMA OneActiveKept ==
  ASSUME IInv, ReadsStillSo, ForeignKeys, [Next]_vars,
         OneActiveBookingPerClient
  PROVE  OneActiveBookingPerClient'
<1> USE DEF ClientOf
<1>1. ASSUME \A b \in Bookings : Active(b)' => Active(b)
      PROVE  OneActiveBookingPerClient'
  BY <1>1 DEF OneActiveBookingPerClient
<1>2. ASSUME NEW s \in Slots, CreateInsert(s)
      PROVE  OneActiveBookingPerClient'
  <2>1. PICK b \in Bookings : /\ ~ HasActiveBooking(ClientOf(b))
                              /\ Becomes(b, "live", "PENDING", None, None)
    BY <1>2, Created
  <2>2. \A x \in Bookings : Active(x)' => x = b \/ Active(x)
    BY <2>1 DEF Becomes, Active, Live
  <2> QED
    BY <2>1, <2>2 DEF OneActiveBookingPerClient, HasActiveBooking
<1>3. ASSUME NEW b \in Bookings, NEW status, MovesOn(b, status),
             Active(b) \/ status \notin ActiveStatuses
      PROVE  OneActiveBookingPerClient'
  <2>1. \A x \in Bookings : Active(x)' => Active(x)
    BY <1>3 DEF MovesOn, Becomes, Active, Live
  <2> QED
    BY <2>1, <1>1
<1>4. ASSUME NEW b \in Bookings, NEW status, NEW w, NEW price,
             Becomes(b, "live", status, w, price), Active(b)
      PROVE  OneActiveBookingPerClient'
  <2>1. \A x \in Bookings : Active(x)' => Active(x)
    BY <1>4 DEF Becomes, Active, Live
  <2> QED
    BY <2>1, <1>1
<1> USE DEF Active, ActiveStatuses, BookingStatus
<1>5. ASSUME NEW s \in Slots, CancelWrite(s) \/ ConfirmWrite(s)
      PROVE  OneActiveBookingPerClient'
  BY <1>3, <1>5, Cancelled, Confirmed
<1>6. ASSUME NEW s \in Slots, ArriveWrite(s) \/ StartWrite(s) \/ CompleteWrite(s)
      PROVE  OneActiveBookingPerClient'
  <2>1. PICK b \in Bookings :
           \/ booking[b].status = "ACCEPTED" /\ MovesOn(b, "ARRIVED")
           \/ booking[b].status = "ARRIVED" /\ MovesOn(b, "IN_PROGRESS")
           \/ /\ booking[b].status = "IN_PROGRESS"
              /\ MovesOn(b, "AWAITING_CLIENT_CONFIRMATION")
    BY <1>6, Worked
  <2>2. Active(b)
    BY <2>1 DEF MovesOn
  <2> QED
    BY <1>3, <2>1, <2>2
<1>7. ASSUME NEW s \in Slots, ChooseWrite(s)
      PROVE  OneActiveBookingPerClient'
  BY <1>4, <1>7, Chosen DEF ForeignKeys
<1>8. ASSUME NEW s \in Slots, WithdrawWrite(s)
      PROVE  OneActiveBookingPerClient'
  BY <1>4, <1>8, Withdrawn
<1>9. ASSUME NEW s \in Slots, NEW b \in Bookings, ExpireNext(s, b)
      PROVE  OneActiveBookingPerClient'
  BY <1>3, <1>9, Expired
<1>10. ASSUME NEW v \in Vehicles, RemoveVehicle(v)
       PROVE  OneActiveBookingPerClient'
  <2>1. \A x \in Bookings : Active(x)' => Active(x)
    BY <1>10, Removed DEF Live
  <2> QED
    BY <2>1, <1>1
<1>11. ASSUME NEW b \in Bookings, Lapse(b)
       PROVE  OneActiveBookingPerClient'
  <2>1. \A x \in Bookings : Active(x)' => Active(x)
    BY <1>11, Lapsed DEF SameBooking, Live
  <2> QED
    BY <2>1, <1>1
<1>12. CASE booking' = booking
  BY <1>12, <1>1 DEF Live
<1>13. ASSUME NEW s \in Slots, OfferInsert(s)
       PROVE  booking' = booking
  BY <1>13 DEF OfferInsert
<1> QED
  BY <1>2, <1>5, <1>6, <1>7, <1>8, <1>9, <1>10, <1>11, <1>12, <1>13, StepKinds
     DEF ProfileWriting, tables
-----------------------------------------------------------------------------
\* What others must leave alone for request r to be right about what it read.
Spared(r) ==
    /\ r.at = "createInsert" =>
          \A b \in Bookings :
             ClientOf(b) = ClientOf(r.booking) /\ Active(b)' => Active(b)
    /\ r.at \in Moving \cup {"offerInsert"} =>
          \A x \in Concerned(r) :
             /\ booking'[x].row = "unborn" => booking[x].row = "unborn"
             /\ Live(x)' => Live(x)
             /\ Live(x) => /\ booking'[x].status = booking[x].status
                           /\ booking'[x].washer = booking[x].washer
    /\ r.at = "chooseWrite" =>
          (washer[r.washer].status = "AVAILABLE"
             => washer'[r.washer].status = "AVAILABLE")
    /\ r.at \in {"onlineWrite", "offlineWrite"} =>
          (washer[r.washer].status # "BUSY"
             => washer'[r.washer].status # "BUSY")

\* A request is right as long as it is spared.
LEMMA SparedReads ==
  ASSUME NEW r, StillSo(r), Spared(r)
  PROVE  StillSo(r)'
<1>1. r.at \in Moving \cup {"offerInsert"} =>
         \A x \in Concerned(r) : booking'[x].row # "unborn"
  BY DEF StillSo, Spared
<1>2. r.at = "createInsert" => ~ HasActiveBooking(ClientOf(r.booking))'
  BY DEF StillSo, Spared, HasActiveBooking, ClientOf
<1>3. /\ r.at = "chooseWrite" => washer'[r.washer].status = "AVAILABLE"
      /\ r.at \in {"onlineWrite", "offlineWrite"}
           => washer'[r.washer].status # "BUSY"
  BY DEF StillSo, Spared, Moving
<1>4. r.at = "expireNext" =>
         \A x \in r.todo : Live(x)' => booking'[x].status = "PENDING"
  BY DEF StillSo, Spared, Moving, Concerned
<1>5. r.at \in (Moving \cup {"offerInsert"}) \ {"expireNext"} /\ Live(r.booking)' =>
         /\ Live(r.booking)
         /\ booking'[r.booking].status = booking[r.booking].status
         /\ booking'[r.booking].washer = booking[r.booking].washer
  BY DEF Spared, Concerned
<1> QED
  BY <1>1, <1>2, <1>3, <1>4, <1>5 DEF StillSo, Moving, Cancellable

\* A step of s leaves every request right when its own is, and the others are
\* spared.
LEMMA StepReads ==
  ASSUME IInv, ReadsStillSo, NEW s \in Slots, NEW r,
         req' = [req EXCEPT ![s] = r], StillSo(r)',
         \A t \in Slots \ {s} : Spared(req[t])
  PROVE  ReadsStillSo'
<1> SUFFICES ASSUME NEW t \in Slots PROVE StillSo(req[t])'
  BY DEF ReadsStillSo
<1>1. CASE t = s
  BY <1>1, Rows
<1>2. CASE t # s
  <2>1. req'[t] = req[t]
    BY <1>2, Rows
  <2> QED
    BY <1>2, <2>1, SparedReads DEF ReadsStillSo
<1> QED
  BY <1>1, <1>2

\* A read writes no table, so it spares all.
LEMMA ReadReads ==
  ASSUME IInv, ReadsStillSo, NEW s \in Slots, NEW r, StillSo(r),
         req' = [req EXCEPT ![s] = r], UNCHANGED tables
  PROVE  ReadsStillSo'
<1>1. StillSo(r)'
  BY DEF tables, StillSo, HasActiveBooking, Active, Live, Cancellable
<1>2. \A t \in Slots : Spared(req[t])
  BY DEF tables, Spared, Active, Live
<1> QED
  BY <1>1, <1>2, StepReads

\* A request that ends was right, and relies on nothing any more.
LEMMA EndReads ==
  ASSUME IInv, ReadsStillSo, NEW s \in Slots, End(s),
         \A t \in Slots \ {s} : Spared(req[t])
  PROVE  ReadsStillSo'
<1>1. StillSo(Idle)'
  BY DEF StillSo, Idle, Req, Moving
<1> QED
  BY <1>1, StepReads DEF End

\* A write that moves no status and brings no booking spares all.
LEMMA AsideSpares ==
  ASSUME IInv, NEW t \in Slots,
         \A b \in Bookings :
            /\ booking'[b].row = "unborn" => booking[b].row = "unborn"
            /\ Live(b)' => Live(b)
            /\ booking'[b].status = booking[b].status
            /\ booking'[b].washer = booking[b].washer,
         \A w \in Washers : washer'[w].status = washer[w].status
  PROVE  Spared(req[t])
<1>1. RequestFits(req[t]) /\ req[t] \in Request
  BY Rows DEF IInv, RequestsFit
<1>2. \A b \in Bookings : Active(b)' => Active(b)
  BY DEF Active
<1>3. /\ req[t].at \in {"chooseWrite", "onlineWrite", "offlineWrite"}
           => req[t].washer \in Washers
      /\ req[t].at \in Moving \cup {"offerInsert"}
           => Concerned(req[t]) \subseteq Bookings
  BY <1>1, ForeignKeys DEF RequestFits, Request, Moving, Concerned
<1> QED
  BY <1>2, <1>3 DEF Spared

\* What a write that moves a booking touches: the bookings its request concerns,
\* none of which becomes active, and the status of a profile, which is set to
\* AVAILABLE, or to BUSY by chooseOffer.
Touches(s) ==
    /\ req[s].at \in Moving
    /\ \A b \in Bookings :
          /\ b \notin Concerned(req[s]) => booking'[b] = booking[b]
          /\ Active(b)' => Active(b)
    /\ \A w \in Washers :
          \/ washer'[w].status \in {washer[w].status, "AVAILABLE"}
          \/ /\ washer'[w].status = "BUSY"
             /\ req[s].at = "chooseWrite"
             /\ req[s].washer = w

LEMMA WritesTouch ==
  ASSUME IInv, ReadsStillSo, NEW s \in Slots,
         \/ CancelWrite(s) \/ ConfirmWrite(s) \/ ChooseWrite(s)
         \/ ArriveWrite(s) \/ StartWrite(s) \/ CompleteWrite(s)
         \/ WithdrawWrite(s) \/ \E b \in Bookings : ExpireNext(s, b)
  PROVE  Touches(s)
<1> USE ForeignKeys, NullIsNoId
<1> DEFINE b == req[s].booking
<1>0. req[s].at \in Moving
  BY DEF CancelWrite, ConfirmWrite, ChooseWrite, ArriveWrite, StartWrite,
     CompleteWrite, WithdrawWrite, ExpireNext, At, Moving
<1>1. /\ booking \in [Bookings -> BookingRow]
      /\ washer \in [Washers -> WasherRow]
      /\ RequestFits(req[s]) /\ StillSo(req[s])
  BY Rows DEF IInv, RequestsFit, ReadsStillSo
\* One booking, live and active, changes.
<1>2. ASSUME req[s].at # "expireNext", NEW row,
             booking' = [booking EXCEPT ![b] = row],
             b \in Bookings => Active(b) \/ row.status \notin ActiveStatuses
      PROVE  \A x \in Bookings :
                /\ x \notin Concerned(req[s]) => booking'[x] = booking[x]
                /\ Active(x)' => Active(x)
  BY <1>1, <1>2 DEF Concerned, Active, Live
<1>3. ASSUME NEW w, NEW row, washer' = [washer EXCEPT ![w] = row],
             row.status = "AVAILABLE"
      PROVE  \A x \in Washers :
                washer'[x].status \in {washer[x].status, "AVAILABLE"}
  BY <1>1, <1>3
<1> USE DEF Active, ActiveStatuses, BookingStatus
<1>4. CASE CancelWrite(s)
  <2>1. \A x \in Washers : washer'[x].status \in {washer[x].status, "AVAILABLE"}
    <3>1. CASE req[s].washer = None
      BY <1>4, <3>1 DEF CancelWrite
    <3>2. CASE req[s].washer # None
      BY <1>1, <1>4, <3>2 DEF CancelWrite, SetWasher, WasherRow
    <3> QED
      BY <3>1, <3>2
  <2> QED
    BY <1>0, <1>1, <1>2, <1>4, <2>1
       DEF CancelWrite, At, Touches, RequestFits, BookingRow
<1>5. CASE ConfirmWrite(s)
  <2>1. \A x \in Washers : washer'[x].status \in {washer[x].status, "AVAILABLE"}
    BY <1>1, <1>5 DEF ConfirmWrite, Credited, WasherRow
  <2>2. b \in Bookings /\ req[s].at # "expireNext"
    BY <1>1, <1>5 DEF ConfirmWrite, At, RequestFits
  <2>3. PICK row : /\ booking' = [booking EXCEPT ![b] = row]
                   /\ row.status = "COMPLETED"
    <3>1. booking' = [booking EXCEPT ![b] =
                                [booking[b] EXCEPT !.status = "COMPLETED"]]
      BY <1>5 DEF ConfirmWrite, SetStatus
    <3>2. [booking[b] EXCEPT !.status = "COMPLETED"].status = "COMPLETED"
      BY <1>1, <2>2 DEF BookingRow
    <3> QED
      BY <3>1, <3>2
  <2> QED
    BY <1>0, <1>2, <2>1, <2>2, <2>3 DEF Touches
<1>6. CASE ChooseWrite(s)
  <2>1. req[s].washer = WasherOf[req[s].offer] /\ b \in Bookings
    BY <1>1, <1>6 DEF ChooseWrite, At, RequestFits
  <2>2. \A x \in Washers : washer'[x].status =
           IF x = req[s].washer THEN "BUSY" ELSE washer[x].status
    BY <1>1, <1>6, <2>1 DEF ChooseWrite, SetWasher, WasherRow
  <2>3. Active(b)
    BY <1>1, <1>6 DEF ChooseWrite, At, StillSo
  <2> QED
    BY <1>0, <1>2, <1>6, <2>2, <2>3 DEF ChooseWrite, At, Touches
<1>7. CASE ArriveWrite(s) \/ StartWrite(s) \/ CompleteWrite(s)
  <2>1. Active(b) /\ washer' = washer /\ req[s].at # "expireNext"
    BY <1>1, <1>7 DEF ArriveWrite, StartWrite, CompleteWrite, At, StillSo
  <2>2. PICK row : booking' = [booking EXCEPT ![b] = row]
    BY <1>7 DEF ArriveWrite, StartWrite, CompleteWrite
  <2> QED
    BY <1>0, <1>2, <2>1, <2>2 DEF Touches
<1>8. CASE WithdrawWrite(s)
  <2>1. Active(b) /\ req[s].at # "expireNext"
    BY <1>1, <1>8 DEF WithdrawWrite, At, StillSo
  <2>2. \A x \in Washers : washer'[x].status \in {washer[x].status, "AVAILABLE"}
    BY <1>1, <1>8 DEF WithdrawWrite, SetWasher, WasherRow
  <2> QED
    BY <1>0, <1>2, <1>8, <2>1, <2>2 DEF WithdrawWrite, Touches
<1>9. ASSUME NEW x \in Bookings, ExpireNext(s, x) PROVE Touches(s)
  <2>1. x \in Concerned(req[s]) /\ washer' = washer
    BY <1>9 DEF ExpireNext, At, Concerned
  <2>2. booking' = [booking EXCEPT ![x] =
              [@ EXCEPT !.status = "CANCELLED", !.cancelledBy = "SYSTEM"]]
    BY <1>9 DEF ExpireNext
  <2>3. booking'[x].status = "CANCELLED"
    BY <1>1, <2>2 DEF BookingRow
  <2> QED
    BY <1>0, <1>1, <2>1, <2>2, <2>3 DEF Touches, Live
<1> QED
  BY <1>4, <1>5, <1>6, <1>7, <1>8, <1>9

\* Such a write spares whoever it does not clash with.
LEMMA TouchSpares ==
  ASSUME IInv, Apart, NEW s \in Slots, Touches(s), NEW t \in Slots, t # s
  PROVE  Spared(req[t])
<1>1. ~ Clash(req[t], req[s])
  BY DEF Apart
<1>2. RequestFits(req[t]) /\ req[t] \in Request
  BY Rows DEF IInv, RequestsFit
<1>3. \A b \in Bookings : Active(b)' => Active(b)
  BY DEF Touches
<1>4. req[t].at \in Moving \cup {"offerInsert"} =>
         \A x \in Concerned(req[t]) : x \in Bookings /\ booking'[x] = booking[x]
  <2>1. req[t].at \in Moving \cup {"offerInsert"} =>
           Concerned(req[t]) \subseteq Bookings
    BY <1>2, ForeignKeys DEF RequestFits, Request, Moving, Concerned
  <2> QED
    BY <1>1, <2>1 DEF Clash, Touches
<1>5. req[t].at \in {"chooseWrite", "onlineWrite", "offlineWrite"}
        => req[t].washer \in Washers
  BY <1>2, ForeignKeys DEF RequestFits
<1>6. /\ req[t].at = "chooseWrite" =>
           (washer[req[t].washer].status = "AVAILABLE"
              => washer'[req[t].washer].status = "AVAILABLE")
      /\ req[t].at \in {"onlineWrite", "offlineWrite"} =>
           (washer[req[t].washer].status # "BUSY"
              => washer'[req[t].washer].status # "BUSY")
  <2>1. ~ Clash(req[s], req[t])
    BY DEF Apart
  <2> QED
    BY <1>1, <1>5, <2>1 DEF Clash, Touches
<1> QED
  BY <1>3, <1>4, <1>6 DEF Spared, Live

\* An insert spares whoever does not create for the same client.
LEMMA InsertSpares ==
  ASSUME IInv, ReadsStillSo, Apart, NEW s \in Slots, CreateInsert(s),
         NEW t \in Slots, t # s
  PROVE  Spared(req[t])
<1> DEFINE b == req[s].booking
<1>1. ~ Clash(req[t], req[s])
  BY DEF Apart
<1>2. RequestFits(req[t]) /\ req[t] \in Request /\ StillSo(req[t])
  BY Rows DEF IInv, RequestsFit, ReadsStillSo
<1>3. \A x \in Bookings : x # b => booking'[x] = booking[x]
  BY Rows DEF CreateInsert
<1>4. req[t].at = "createInsert" =>
         \A x \in Bookings :
            ClientOf(x) = ClientOf(req[t].booking) /\ Active(x)' => Active(x)
  BY <1>1, <1>3 DEF Clash, CreateInsert, At, Active, Live
<1>5. req[t].at \in Moving \cup {"offerInsert"} =>
         \A x \in Concerned(req[t]) : x \in Bookings /\ booking'[x] = booking[x]
  <2>1. req[t].at \in Moving \cup {"offerInsert"} =>
           Concerned(req[t]) \subseteq Bookings
    BY <1>2, ForeignKeys DEF RequestFits, Request, Moving, Concerned
  <2> QED
    BY <1>2, <1>3, <2>1 DEF StillSo, CreateInsert
<1> QED
  BY <1>4, <1>5 DEF Spared, Live, CreateInsert

\* A write to a profile spares whoever does not choose or rely on that profile.
LEMMA ProfileSpares ==
  ASSUME IInv, Apart, NEW s \in Slots,
         \/ OnlineWrite(s) \/ AvailabilityWrite(s) \/ ApproveWrite(s)
         \/ RejectWrite(s) \/ RetryWrite(s),
         NEW t \in Slots, t # s
  PROVE  Spared(req[t])
<1>1. ~ Clash(req[t], req[s])
  BY DEF Apart
<1>2. RequestFits(req[t]) /\ RequestFits(req[s])
  BY DEF IInv, RequestsFit
<1>3. booking' = booking
  BY DEF OnlineWrite, AvailabilityWrite, SetAvailability, ApproveWrite,
     RejectWrite, RetryWrite, DismissWrite
<1>4. \A w \in Washers :
         /\ washer[w].status = "AVAILABLE" =>
               \/ washer'[w].status = "AVAILABLE"
               \/ /\ req[s].at \in {"offlineWrite", "approveWrite"}
                  /\ req[s].washer = w
         /\ washer[w].status # "BUSY" => washer'[w].status # "BUSY"
  <2> USE Rows DEF WasherRow, At
  <2>1. CASE OnlineWrite(s)
    BY <2>1 DEF OnlineWrite
  <2>2. CASE AvailabilityWrite(s)
    <3>1. CASE SetAvailability(s, "availableWrite", "AVAILABLE")
      BY <3>1 DEF SetAvailability
    <3>2. CASE SetAvailability(s, "offlineWrite", "OFFLINE")
      BY <3>2 DEF SetAvailability
    <3> QED
      BY <2>2, <3>1, <3>2 DEF AvailabilityWrite
  <2>3. CASE ApproveWrite(s)
    BY <2>3 DEF ApproveWrite
  <2>4. CASE RejectWrite(s) \/ RetryWrite(s)
    BY <2>4 DEF RejectWrite, RetryWrite, DismissWrite
  <2> QED
    BY <2>1, <2>2, <2>3, <2>4
<1>5. req[t].at \in {"chooseWrite", "onlineWrite", "offlineWrite"}
        => req[t].washer \in Washers
  BY <1>2, ForeignKeys DEF RequestFits
<1> QED
  BY <1>1, <1>3, <1>4, <1>5 DEF Clash, Spared, Active, Live

\* Without a clash what a request has read is still so when it writes, but for
\* the vehicle, which may have been removed with the booking.
LEMMA ReadsStay ==
  ASSUME IInv, ReadsStillSo, Apart, [Next]_vars
  PROVE  ReadsStillSo'
<1> USE ForeignKeys, NullIsNoId
<1>1. ASSUME NEW s \in Slots, NEW op, NEW r, Begin(s, op, r), StillSo(r)
      PROVE  ReadsStillSo'
  BY <1>1, ReadReads DEF Begin
<1>2. ASSUME NEW s \in Slots, NEW b \in Bookings,
             \/ CreateCheck(s, b) \/ CancelRead(s, b) \/ ConfirmRead(s, b)
             \/ ArriveRead(s, b) \/ StartRead(s, b) \/ CompleteRead(s, b)
             \/ WithdrawRead(s, b)
      PROVE  ReadsStillSo'
  <2> USE <1>1 DEF Req, StillSo, Moving, Concerned, Live
  <2>1. CASE CreateCheck(s, b)
    BY <2>1 DEF CreateCheck
  <2>2. CASE CancelRead(s, b)
    BY <2>2 DEF CancelRead
  <2>3. CASE ConfirmRead(s, b)
    BY <2>3 DEF ConfirmRead
  <2>4. CASE ArriveRead(s, b)
    BY <2>4 DEF ArriveRead, WasherRead
  <2>5. CASE StartRead(s, b)
    BY <2>5 DEF StartRead, WasherRead
  <2>6. CASE CompleteRead(s, b)
    BY <2>6 DEF CompleteRead, WasherRead
  <2>7. CASE WithdrawRead(s, b)
    BY <2>7 DEF WithdrawRead, WasherRead
  <2> QED
    BY <1>2, <2>1, <2>2, <2>3, <2>4, <2>5, <2>6, <2>7
<1>3. ASSUME NEW s \in Slots, NEW o \in Offers,
             OfferProfile(s, o) \/ ChooseBooking(s, o)
      PROVE  ReadsStillSo'
  BY <1>1, <1>3 DEF OfferProfile, ChooseBooking, Choosable, Req, StillSo,
     Moving, Concerned, Live
<1>4. ASSUME NEW s \in Slots, NEW w \in Washers,
             \/ OnlineRead(s, w) \/ AvailabilityRead(s, w)
             \/ ApproveRead(s, w) \/ RejectRead(s, w) \/ RetryRead(s, w)
      PROVE  ReadsStillSo'
  BY <1>1, <1>4 DEF OnlineRead, AvailabilityRead, ApproveRead, RejectRead,
     RetryRead, Req, StillSo, Moving
<1>5. ASSUME NEW s \in Slots, ExpireList(s)
      PROVE  ReadsStillSo'
  <2> DEFINE expired == {b \in Bookings : /\ Live(b)
                                          /\ booking[b].status = "PENDING"
                                          /\ booking[b].lapsed}
             r == [Idle EXCEPT !.at = "expireNext", !.todo = expired]
  <2>1. r.at = "expireNext" /\ r.todo = expired
    BY DEF Idle, Req
  <2>2. Begin(s, "expireStaleBookings", r)
    BY <1>5 DEF ExpireList
  <2>3. StillSo(r)
    BY <2>1 DEF StillSo, Moving, Concerned, Live
  <2> QED
    BY <1>1, <2>2, <2>3
<1>6. ASSUME NEW s \in Slots, OfferBooking(s)
      PROVE  ReadsStillSo'
  <2> DEFINE r == [req[s] EXCEPT !.at = "offerInsert"]
  <2>1. r.at = "offerInsert" /\ r.booking = req[s].booking
    BY Rows DEF Request
  <2>2. StillSo(r)
    BY <1>6, <2>1 DEF OfferBooking, Choosable, StillSo, Concerned, Moving, Live
  <2>3. req' = [req EXCEPT ![s] = r] /\ UNCHANGED tables
    BY <1>6 DEF OfferBooking, GoOn
  <2> QED
    BY <2>2, <2>3, ReadReads
<1>7. ASSUME NEW s \in Slots, ChooseOffer(s)
      PROVE  ReadsStillSo'
  <2> DEFINE r == [req[s] EXCEPT !.at = "chooseWrite"]
  <2>1. /\ r.at = "chooseWrite" /\ r.booking = req[s].booking
        /\ r.washer = req[s].washer
    BY Rows DEF Request
  <2>2. Live(r.booking) => booking[r.booking].status = "PENDING"
    BY <1>7, <2>1 DEF ChooseOffer, At, ReadsStillSo, StillSo
  <2>3. booking[r.booking].row # "unborn"
    BY <1>7, <2>1 DEF ChooseOffer, At, ReadsStillSo, StillSo, Moving, Concerned
  <2>5. StillSo(r)
    BY <1>7, <2>1, <2>2, <2>3 DEF ChooseOffer, Free, StillSo, Concerned
  <2>4. req' = [req EXCEPT ![s] = r] /\ UNCHANGED tables
    BY <1>7 DEF ChooseOffer, GoOn
  <2> QED
    BY <2>4, <2>5, ReadReads
<1>8. ASSUME NEW s \in Slots, NEW b \in Bookings, ExpireNext(s, b)
      PROVE  ReadsStillSo'
  <2> DEFINE left == req[s].todo \ {b}
  <2>0. \A t \in Slots \ {s} : Spared(req[t])
    BY <1>8, WritesTouch, TouchSpares
  <2>1. CASE left = {}
    BY <1>8, <2>0, <2>1, EndReads DEF ExpireNext
  <2>2. CASE left # {}
    <3>1. PICK r : /\ r.at = "expireNext" /\ r.todo = left
                   /\ req' = [req EXCEPT ![s] = r]
      <4>1. /\ [req[s] EXCEPT !.todo = left].at = "expireNext"
            /\ [req[s] EXCEPT !.todo = left].todo = left
        BY <1>8, Rows DEF ExpireNext, At, Request
      <4>2. req' = [req EXCEPT ![s] = [req[s] EXCEPT !.todo = left]]
        BY <1>8, <2>2, Rows DEF ExpireNext
      <4> QED
        BY <4>1, <4>2
    <3>2. left \subseteq Bookings
      BY Rows DEF Request
    <3>3. \A x \in left : /\ booking[x].row # "unborn"
                          /\ Live(x) => booking[x].status = "PENDING"
      BY <1>8 DEF ExpireNext, At, ReadsStillSo, StillSo, Moving, Concerned
    <3>4. \A x \in left : booking'[x] = booking[x]
      BY <1>8, <3>2, Expired DEF MovesOn, Becomes
    <3>5. StillSo(r)'
      BY <3>1, <3>3, <3>4 DEF StillSo, Live, Concerned
    <3> QED
      BY <2>0, <3>1, <3>5, StepReads
  <2> QED
    BY <2>1, <2>2
<1>9. ASSUME NEW s \in Slots,
             \/ CancelWrite(s) \/ ConfirmWrite(s) \/ ChooseWrite(s)
             \/ ArriveWrite(s) \/ StartWrite(s) \/ CompleteWrite(s)
             \/ WithdrawWrite(s)
      PROVE  ReadsStillSo'
  <2>1. End(s)
    BY <1>9 DEF CancelWrite, ConfirmWrite, ChooseWrite, ArriveWrite, StartWrite,
       CompleteWrite, WithdrawWrite
  <2> QED
    BY <1>9, <2>1, WritesTouch, TouchSpares, EndReads
<1>10. ASSUME NEW s \in Slots, CreateInsert(s)
       PROVE  ReadsStillSo'
  BY <1>10, InsertSpares, EndReads DEF CreateInsert
<1>11. ASSUME NEW s \in Slots,
              \/ OnlineWrite(s) \/ AvailabilityWrite(s) \/ ApproveWrite(s)
              \/ RejectWrite(s) \/ RetryWrite(s)
       PROVE  ReadsStillSo'
  <2>1. End(s)
    BY <1>11 DEF OnlineWrite, AvailabilityWrite, SetAvailability, ApproveWrite,
       RejectWrite, RetryWrite, DismissWrite
  <2> QED
    BY <1>11, <2>1, ProfileSpares, EndReads
<1>12. ASSUME NEW s \in Slots, OfferInsert(s) \/ Abort(s)
       PROVE  ReadsStillSo'
  <2>1. End(s) /\ UNCHANGED <<booking, washer>>
    BY <1>12 DEF OfferInsert, Abort, tables
  <2> QED
    BY <2>1, AsideSpares, EndReads DEF Live
<1>14. ASSUME UNCHANGED req, \A t \in Slots : Spared(req[t])
       PROVE  ReadsStillSo'
  BY <1>14, SparedReads DEF ReadsStillSo
<1>15. ASSUME NEW w \in Washers, UpdateLocation(w)
       PROVE  ReadsStillSo'
  <2>1. \A x \in Washers : washer'[x].status = washer[x].status
    BY <1>15, Rows DEF UpdateLocation, WasherRow
  <2> QED
    BY <1>14, <1>15, <2>1, AsideSpares DEF UpdateLocation, Live
<1>16. ASSUME NEW v \in Vehicles, RemoveVehicle(v)
       PROVE  ReadsStillSo'
  <2>1. \A b \in Bookings :
           /\ booking'[b].row = "unborn" => booking[b].row = "unborn"
           /\ Live(b)' => Live(b)
           /\ booking'[b].status = booking[b].status
           /\ booking'[b].washer = booking[b].washer
    BY <1>16, Removed DEF Live
  <2> QED
    BY <1>14, <1>16, <2>1, AsideSpares DEF RemoveVehicle
<1>17. ASSUME NEW b \in Bookings, Lapse(b)
       PROVE  ReadsStillSo'
  <2>1. \A x \in Bookings : SameBooking(x)
    BY <1>17, Lapsed
  <2> QED
    BY <1>14, <1>17, <2>1, AsideSpares DEF Lapse, SameBooking, Live
<1>18. CASE UNCHANGED vars
  BY <1>14, <1>18, AsideSpares DEF vars, Live
<1> QED
  BY <1>2, <1>3, <1>4, <1>5, <1>6, <1>7, <1>8, <1>9, <1>10, <1>11, <1>12,
     <1>15, <1>16, <1>17, <1>18
     DEF Next, ClientStep, WasherStep, AdminStep, ExpireStep
-----------------------------------------------------------------------------
\* The winner takes all on this booking.
Settled(b) == Live(b) /\ booking[b].status \in JobStatuses =>
                 \A o \in Offers : BookingOf[o] = b =>
                    /\ offer[o] # "PENDING"
                    /\ offer[o] = "ACCEPTED" <=> o = booking[b].price

\* Offers on an assigned booking: only chooseOffer makes a booking a job, and it
\* settles all of them.
LEMMA SettledKept ==
  ASSUME IInv, ReadsStillSo, [Next]_vars, NEW b \in Bookings, Settled(b)
  PROVE  Settled(b)'
<1> USE ForeignKeys
<1>1. ASSUME Live(b)' /\ booking'[b].status \in JobStatuses =>
                /\ Live(b) /\ booking[b].status \in JobStatuses
                /\ booking'[b].price = booking[b].price
                /\ \A o \in Offers : BookingOf[o] = b => offer'[o] = offer[o]
      PROVE  Settled(b)'
  BY <1>1 DEF Settled
<1> USE DEF JobStatuses, ActiveStatuses, BookingStatus
<1>2. ASSUME NEW s \in Slots, CreateInsert(s) PROVE Settled(b)'
  BY <1>1, <1>2, Created DEF Becomes, Live
<1>3. ASSUME NEW s \in Slots, CancelWrite(s) PROVE Settled(b)'
  BY <1>1, <1>3, Cancelled DEF MovesOn, Becomes, Live
<1>4. ASSUME NEW s \in Slots, ConfirmWrite(s) PROVE Settled(b)'
  BY <1>1, <1>4, Confirmed DEF MovesOn, Becomes, Live
<1>5. ASSUME NEW s \in Slots,
             ArriveWrite(s) \/ StartWrite(s) \/ CompleteWrite(s)
      PROVE  Settled(b)'
  BY <1>1, <1>5, Worked DEF MovesOn, Becomes, Live
<1>6. ASSUME NEW s \in Slots, OfferInsert(s) PROVE Settled(b)'
  <2>1. Live(req[s].booking) /\ booking[req[s].booking].status = "PENDING"
    BY <1>6 DEF OfferInsert, At, ReadsStillSo, StillSo, IInv, RequestsFit,
       RequestFits
  <2>2. req[s].booking = BookingOf[req[s].offer]
    BY <1>6 DEF OfferInsert, At, IInv, RequestsFit, RequestFits
  <2> QED
    BY <1>1, <1>6, <2>1, <2>2, Rows DEF OfferInsert, Live
<1>7. ASSUME NEW s \in Slots, ChooseWrite(s) PROVE Settled(b)'
  <2>1. PICK o \in Offers :
           /\ Live(BookingOf[o]) /\ booking[BookingOf[o]].status = "PENDING"
           /\ Becomes(BookingOf[o], "live", "ACCEPTED", WasherOf[o], o)
           /\ offer' = [x \in Offers |-> StatusOnceChosen(x, o)]
    BY <1>7, Chosen
  <2>2. CASE b = BookingOf[o]
    <3>1. \A x \in Offers : BookingOf[x] = b => offer[x] # "ACCEPTED"
      BY <2>1, <2>2 DEF IInv, OpenXorAssigned
    <3> QED
      BY <2>1, <2>2, <3>1 DEF Settled, Becomes, StatusOnceChosen
  <2>3. CASE b # BookingOf[o]
    BY <1>1, <2>1, <2>3, Rows DEF Becomes, StatusOnceChosen, Live
  <2> QED
    BY <2>2, <2>3
<1>8. ASSUME NEW s \in Slots, WithdrawWrite(s) PROVE Settled(b)'
  BY <1>1, <1>8, Withdrawn DEF Becomes, Live
<1>9. ASSUME NEW s \in Slots, NEW x \in Bookings, ExpireNext(s, x)
      PROVE  Settled(b)'
  BY <1>1, <1>9, Expired DEF MovesOn, Becomes, Live
<1>10. ASSUME NEW v \in Vehicles, RemoveVehicle(v) PROVE Settled(b)'
  <2>1. Live(b)' => Live(b) /\ VehicleOf[b] # v
    BY <1>10, Removed DEF Live
  <2>2. VehicleOf[b] # v =>
          \A o \in Offers : BookingOf[o] = b => offer'[o] = offer[o]
    BY <1>10 DEF RemoveVehicle
  <2> QED
    BY <1>1, <1>10, <2>1, <2>2, Removed
<1>11. ASSUME NEW x \in Bookings, Lapse(x) PROVE Settled(b)'
  BY <1>1, <1>11, Lapsed DEF SameBooking, Live
<1>12. CASE UNCHANGED <<booking, offer>>
  BY <1>1, <1>12 DEF Live
<1> QED
  BY <1>2, <1>3, <1>4, <1>5, <1>6, <1>7, <1>8, <1>9, <1>10, <1>11, <1>12,
     StepKinds DEF ProfileWriting, tables

-----------------------------------------------------------------------------
\* Whoever loses a job is set free in the same write.
LEMMA BusyKept ==
  ASSUME IInv, ReadsStillSo, [Next]_vars, BusyOnlyOnAJob
  PROVE  BusyOnlyOnAJob'
<1> USE ForeignKeys, NullIsNoId
<1> SUFFICES ASSUME NEW w \in Washers, washer'[w].status = "BUSY"
             PROVE  \E b \in Bookings : booking'[b].row # "unborn" /\ Job(b, w)'
  BY DEF BusyOnlyOnAJob
<1> DEFINE Held == \E b \in Bookings : booking'[b].row # "unborn" /\ Job(b, w)'
<1>1. ASSUME washer[w].status = "BUSY",
             \A b \in Bookings : booking[b].row # "unborn" /\ Job(b, w) =>
                                   booking'[b].row # "unborn" /\ Job(b, w)'
      PROVE  Held
  BY <1>1 DEF BusyOnlyOnAJob
<1> USE DEF JobStatuses, ActiveStatuses, BookingStatus, Job
<1>2. washer \in [Washers -> WasherRow] /\ washer[w] \in WasherRow
  BY Rows
<1>3. ASSUME NEW s \in Slots, CreateInsert(s) PROVE Held
  BY <1>1, <1>3, Created DEF Becomes, FreshBooking
<1>4. ASSUME NEW s \in Slots, CancelWrite(s) PROVE Held
  <2>1. PICK b \in Bookings :
           /\ Cancellable(b) /\ MovesOn(b, "CANCELLED")
           /\ IF booking[b].washer = None THEN UNCHANGED washer
              ELSE SetWasher(booking[b].washer, "AVAILABLE")
    BY <1>4, Cancelled
  <2>2. booking[b].washer # w /\ washer[w].status = "BUSY"
    BY <1>2, <2>1 DEF SetWasher, WasherRow
  <2> QED
    BY <1>1, <2>1, <2>2 DEF MovesOn, Becomes
<1>5. ASSUME NEW s \in Slots, ConfirmWrite(s) PROVE Held
  <2>1. PICK b \in Bookings :
           /\ MovesOn(b, "COMPLETED")
           /\ washer' = [washer EXCEPT ![booking[b].washer] =
                               Credited(washer[booking[b].washer])]
    BY <1>5, Confirmed
  <2>2. booking[b].washer # w /\ washer[w].status = "BUSY"
    BY <1>2, <2>1 DEF Credited, WasherRow
  <2> QED
    BY <1>1, <2>1, <2>2 DEF MovesOn, Becomes
<1>6. ASSUME NEW s \in Slots,
             ArriveWrite(s) \/ StartWrite(s) \/ CompleteWrite(s)
      PROVE  Held
  BY <1>1, <1>6, Worked DEF MovesOn, Becomes
<1>7. ASSUME NEW s \in Slots, ChooseWrite(s) PROVE Held
  <2>1. PICK o \in Offers :
           /\ booking[BookingOf[o]].status = "PENDING"
           /\ Becomes(BookingOf[o], "live", "ACCEPTED", WasherOf[o], o)
           /\ SetWasher(WasherOf[o], "BUSY")
    BY <1>7, Chosen
  <2>2. CASE w = WasherOf[o]
    BY <2>1, <2>2 DEF Becomes
  <2>3. CASE w # WasherOf[o]
    BY <1>1, <1>2, <2>1, <2>3 DEF Becomes, SetWasher
  <2> QED
    BY <2>2, <2>3
<1>8. ASSUME NEW s \in Slots, WithdrawWrite(s) PROVE Held
  <2>1. PICK b \in Bookings :
           /\ Becomes(b, "live", "PENDING", None, booking[b].price)
           /\ SetWasher(booking[b].washer, "AVAILABLE")
    BY <1>8, Withdrawn
  <2>2. booking[b].washer # w /\ washer[w].status = "BUSY"
    BY <1>2, <2>1 DEF SetWasher, WasherRow
  <2> QED
    BY <1>1, <2>1, <2>2 DEF Becomes
<1>9. ASSUME NEW s \in Slots, NEW b \in Bookings, ExpireNext(s, b)
      PROVE  Held
  BY <1>1, <1>9, Expired DEF MovesOn, Becomes
<1>10. ASSUME NEW v \in Vehicles, RemoveVehicle(v) PROVE Held
  BY <1>1, <1>10, Removed DEF RemoveVehicle
<1>11. ASSUME NEW b \in Bookings, Lapse(b) PROVE Held
  BY <1>1, <1>11, Lapsed DEF SameBooking
<1>12. CASE ProfileWriting
  BY <1>1, <1>12 DEF ProfileWriting, ProfileMoves
<1>13. CASE UNCHANGED <<booking, washer>>
  BY <1>1, <1>13
<1> QED
  BY <1>3, <1>4, <1>5, <1>6, <1>7, <1>8, <1>9, <1>10, <1>11, <1>12, <1>13,
     StepKinds DEF tables, OfferInsert
-----------------------------------------------------------------------------
\* The bookings totalBookings counts.
Done(w) == {b \in Bookings : /\ booking[b].washer = w
                             /\ booking[b].status = "COMPLETED"}

Counts(w) == washer[w].total = Cardinality(Done(w))

\* A confirmation adds one booking to the washer's, and one to its counter.
LEMMA CountsKept ==
  ASSUME IInv, ReadsStillSo, [Next]_vars, IsFiniteSet(Bookings),
         NEW w \in Washers, Counts(w)
  PROVE  Counts(w)'
<1> USE ForeignKeys, NullIsNoId
<1>1. ASSUME washer'[w].total = washer[w].total,
             \A b \in Bookings :
                (booking[b].washer = w /\ booking[b].status = "COMPLETED")
                  <=> (booking'[b].washer = w /\ booking'[b].status = "COMPLETED")
      PROVE  Counts(w)'
  <2>1. Done(w)' = Done(w)
    BY <1>1 DEF Done
  <2> QED
    BY <1>1, <2>1 DEF Counts
<1>2. washer \in [Washers -> WasherRow] /\ washer[w] \in WasherRow
  BY Rows
<1>3. ASSUME NEW s \in Slots, CreateInsert(s) PROVE Counts(w)'
  BY <1>1, <1>3, Created DEF Becomes, FreshBooking
<1>4. ASSUME NEW s \in Slots, CancelWrite(s) PROVE Counts(w)'
  <2>1. PICK b \in Bookings :
           /\ Cancellable(b) /\ MovesOn(b, "CANCELLED")
           /\ IF booking[b].washer = None THEN UNCHANGED washer
              ELSE SetWasher(booking[b].washer, "AVAILABLE")
    BY <1>4, Cancelled
  <2>2. washer'[w].total = washer[w].total
    BY <1>2, <2>1 DEF SetWasher, WasherRow
  <2> QED
    BY <1>1, <2>1, <2>2 DEF Cancellable, MovesOn, Becomes
<1>5. ASSUME NEW s \in Slots, ConfirmWrite(s) PROVE Counts(w)'
  <2>1. PICK b \in Bookings :
           /\ booking[b].status = "AWAITING_CLIENT_CONFIRMATION"
           /\ booking[b].washer \in Washers
           /\ MovesOn(b, "COMPLETED")
           /\ washer' = [washer EXCEPT ![booking[b].washer] =
                               Credited(washer[booking[b].washer])]
    BY <1>5, Confirmed
  <2>2. CASE booking[b].washer # w
    BY <1>1, <1>2, <2>1, <2>2 DEF MovesOn, Becomes
  <2>3. CASE booking[b].washer = w
    <3>1. washer'[w].total = washer[w].total + 1
      BY <1>2, <2>1, <2>3 DEF Credited, WasherRow
    <3>2. b \notin Done(w) /\ Done(w)' = Done(w) \cup {b}
      BY <2>1, <2>3 DEF Done, MovesOn, Becomes
    <3>3. IsFiniteSet(Done(w))
      BY FS_Subset DEF Done
    <3>4. Cardinality(Done(w) \cup {b}) = Cardinality(Done(w)) + 1
      BY <3>2, <3>3, FS_AddElement
    <3> QED
      BY <3>1, <3>2, <3>4 DEF Counts
  <2> QED
    BY <2>2, <2>3
<1>6. ASSUME NEW s \in Slots,
             ArriveWrite(s) \/ StartWrite(s) \/ CompleteWrite(s)
      PROVE  Counts(w)'
  BY <1>1, <1>6, Worked DEF MovesOn, Becomes
<1>7. ASSUME NEW s \in Slots, ChooseWrite(s) PROVE Counts(w)'
  <2>1. PICK o \in Offers :
           /\ booking[BookingOf[o]].status = "PENDING"
           /\ Becomes(BookingOf[o], "live", "ACCEPTED", WasherOf[o], o)
           /\ SetWasher(WasherOf[o], "BUSY")
    BY <1>7, Chosen
  <2>2. washer'[w].total = washer[w].total
    BY <1>2, <2>1 DEF SetWasher, WasherRow
  <2> QED
    BY <1>1, <2>1, <2>2 DEF Becomes
<1>8. ASSUME NEW s \in Slots, WithdrawWrite(s) PROVE Counts(w)'
  <2>1. PICK b \in Bookings :
           /\ booking[b].status = "ACCEPTED"
           /\ Becomes(b, "live", "PENDING", None, booking[b].price)
           /\ SetWasher(booking[b].washer, "AVAILABLE")
    BY <1>8, Withdrawn
  <2>2. washer'[w].total = washer[w].total
    BY <1>2, <2>1 DEF SetWasher, WasherRow
  <2> QED
    BY <1>1, <2>1, <2>2 DEF Becomes
<1>9. ASSUME NEW s \in Slots, NEW b \in Bookings, ExpireNext(s, b)
      PROVE  Counts(w)'
  BY <1>1, <1>9, Expired DEF MovesOn, Becomes
<1>10. ASSUME NEW v \in Vehicles, RemoveVehicle(v) PROVE Counts(w)'
  BY <1>1, <1>10, Removed DEF RemoveVehicle
<1>11. ASSUME NEW b \in Bookings, Lapse(b) PROVE Counts(w)'
  BY <1>1, <1>11, Lapsed DEF SameBooking
<1>12. CASE ProfileWriting
  BY <1>1, <1>12 DEF ProfileWriting, ProfileMoves
<1>13. CASE UNCHANGED <<booking, washer>>
  BY <1>1, <1>13
<1> QED
  BY <1>3, <1>4, <1>5, <1>6, <1>7, <1>8, <1>9, <1>10, <1>11, <1>12, <1>13,
     StepKinds DEF tables, OfferInsert

-----------------------------------------------------------------------------
\* A booking that moves on as LifeNext says lives; one that does not move, too.
LEMMA StillLives ==
  ASSUME NEW b \in Bookings,
         booking'[b].row = booking[b].row,
         booking'[b].status = booking[b].status,
         booking'[b].washer = booking[b].washer
  PROVE  [Lifecycle(b)!LifeNext]_(Lifecycle(b)!life)
  BY DEF Lifecycle!life, Phase

LEMMA MovesAlong ==
  ASSUME NEW b \in Bookings, NEW x \in Bookings, NEW to, MovesOn(x, to),
         <<booking[x].status, to>> \in
            {<<"ACCEPTED", "ARRIVED">>, <<"ARRIVED", "IN_PROGRESS">>,
             <<"IN_PROGRESS", "AWAITING_CLIENT_CONFIRMATION">>,
             <<"AWAITING_CLIENT_CONFIRMATION", "COMPLETED">>,
             <<"PENDING", "CANCELLED">>, <<"ACCEPTED", "CANCELLED">>}
  PROVE  [Lifecycle(b)!LifeNext]_(Lifecycle(b)!life)
<1>1. CASE x # b
  BY <1>1, StillLives DEF MovesOn, Becomes
<1>2. CASE x = b
  <2>1. Lifecycle(b)!Move(booking[b].status, to)
    BY <1>2 DEF Lifecycle!Move, Phase, MovesOn, Becomes, Live
  <2> QED
    BY <1>2, <2>1 DEF Lifecycle!LifeNext, Lifecycle!Arrive, Lifecycle!Start,
       Lifecycle!Complete, Lifecycle!Confirm, Lifecycle!Cancel
<1> QED
  BY <1>1, <1>2

\* Every step is one of the booking's life, or leaves it alone.
LEMMA LifeGoesOn ==
  ASSUME IInv, ReadsStillSo, [Next]_vars, NEW b \in Bookings
  PROVE  [Lifecycle(b)!LifeNext]_(Lifecycle(b)!life)
<1> USE ForeignKeys, NullIsNoId
<1> DEFINE Lives == [Lifecycle(b)!LifeNext]_(Lifecycle(b)!life)
<1>2. ASSUME NEW s \in Slots, CreateInsert(s) PROVE Lives
  <2>1. PICK x \in Bookings : /\ booking[x] = FreshBooking
                              /\ Becomes(x, "live", "PENDING", None, None)
    BY <1>2, Created
  <2>2. CASE x = b
    <3>1. Lifecycle(b)!Open
      BY <2>1, <2>2 DEF Lifecycle!Open, Lifecycle!Move, Phase, Becomes,
         FreshBooking
    <3> QED
      BY <3>1 DEF Lifecycle!LifeNext
  <2>3. CASE x # b
    BY <2>1, <2>3, StillLives DEF Becomes
  <2> QED
    BY <2>2, <2>3
<1>3. ASSUME NEW s \in Slots, CancelWrite(s) PROVE Lives
  BY <1>3, Cancelled, MovesAlong DEF Cancellable
<1>4. ASSUME NEW s \in Slots, ConfirmWrite(s) PROVE Lives
  BY <1>4, Confirmed, MovesAlong
<1>5. ASSUME NEW s \in Slots,
             ArriveWrite(s) \/ StartWrite(s) \/ CompleteWrite(s)
      PROVE  Lives
  BY <1>5, Worked, MovesAlong
<1>6. ASSUME NEW s \in Slots, ChooseWrite(s) PROVE Lives
  <2>1. PICK o \in Offers :
           /\ Live(BookingOf[o]) /\ booking[BookingOf[o]].status = "PENDING"
           /\ Becomes(BookingOf[o], "live", "ACCEPTED", WasherOf[o], o)
    BY <1>6, Chosen
  <2>2. CASE b = BookingOf[o]
    <3>1. booking[b].washer = None
      BY <2>1, <2>2 DEF IInv, OpenXorAssigned
    <3>2. Lifecycle(b)!Assign
      BY <2>1, <2>2, <3>1 DEF Lifecycle!Assign, Phase, Becomes, Live
    <3> QED
      BY <3>2 DEF Lifecycle!LifeNext
  <2>3. CASE b # BookingOf[o]
    BY <2>1, <2>3, StillLives DEF Becomes
  <2> QED
    BY <2>2, <2>3
<1>7. ASSUME NEW s \in Slots, WithdrawWrite(s) PROVE Lives
  <2>1. PICK x \in Bookings :
           /\ Live(x) /\ booking[x].status = "ACCEPTED"
           /\ booking[x].washer \in Washers
           /\ Becomes(x, "live", "PENDING", None, booking[x].price)
    BY <1>7, Withdrawn
  <2>2. CASE x = b
    <3>1. Lifecycle(b)!Reopen
      BY <2>1, <2>2 DEF Lifecycle!Reopen, Phase, Becomes, Live
    <3> QED
      BY <3>1 DEF Lifecycle!LifeNext
  <2>3. CASE x # b
    BY <2>1, <2>3, StillLives DEF Becomes
  <2> QED
    BY <2>2, <2>3
<1>8. ASSUME NEW s \in Slots, NEW x \in Bookings, ExpireNext(s, x)
      PROVE  Lives
  BY <1>8, Expired, MovesAlong
<1>9. ASSUME NEW v \in Vehicles, RemoveVehicle(v) PROVE Lives
  <2>1. CASE booking'[b].row = booking[b].row
    BY <1>9, <2>1, Removed, StillLives
  <2>2. CASE booking'[b].row # booking[b].row
    <3>1. booking[b].row = "live" /\ booking'[b].row = "removed"
      BY <1>9, <2>2, Removed DEF Live
    <3>2. booking[b].status \in BookingStatus
      BY Rows DEF BookingRow
    <3>3. Lifecycle(b)!Remove
      BY <1>9, <3>1, <3>2, Removed DEF Lifecycle!Remove, Phase, BookingStatus
    <3> QED
      BY <3>3 DEF Lifecycle!LifeNext
  <2> QED
    BY <2>1, <2>2
<1>10. ASSUME NEW x \in Bookings, Lapse(x) PROVE Lives
  BY <1>10, Lapsed, StillLives DEF SameBooking
<1>11. CASE booking' = booking
  BY <1>11, StillLives
<1> QED
  BY <1>2, <1>3, <1>4, <1>5, <1>6, <1>7, <1>8, <1>9, <1>10, <1>11,
     StepKinds DEF ProfileWriting, tables, OfferInsert

-----------------------------------------------------------------------------
\* The stages the properties below are about.
Watched == Resets \cup {"rejectWrite", "retryWrite", "offerBooking",
                         "offerInsert", "chooseWrite"}

\* How a request comes to one of them.
LEMMA RequestMoves ==
  ASSUME IInv, [Next]_vars, NEW t \in Slots
  PROVE  \/ req'[t] = req[t]
         \/ req'[t].at \notin Watched
         \/ ChooseOffer(t) \/ OfferBooking(t)
         \/ \E o \in Offers : OfferProfile(t, o)
         \/ \E w \in Washers : \/ AvailabilityRead(t, w) \/ ApproveRead(t, w)
                                \/ RejectRead(t, w) \/ RetryRead(t, w)
<1> DEFINE Shown == \/ req'[t] = req[t]
                    \/ req'[t].at \notin Watched
                    \/ ChooseOffer(t) \/ OfferBooking(t)
                    \/ \E o \in Offers : OfferProfile(t, o)
                    \/ \E w \in Washers :
                          \/ AvailabilityRead(t, w) \/ ApproveRead(t, w)
                          \/ RejectRead(t, w) \/ RetryRead(t, w)
<1> SUFFICES Shown
  OBVIOUS
<1>1. ASSUME NEW s \in Slots, NEW r, req' = [req EXCEPT ![s] = r],
             r.at \notin Watched
      PROVE  Shown
  BY <1>1, Rows
<1>2. ASSUME NEW s \in Slots, End(s) PROVE Shown
  <2>1. Idle.at \notin Watched
    BY DEF Idle, Req, Watched, Resets
  <2>2. req' = [req EXCEPT ![s] = Idle]
    BY <1>2 DEF End
  <2> QED
    BY <1>1, <2>1, <2>2
<1>3. ASSUME NEW s \in Slots, NEW op, NEW r, Begin(s, op, r),
             r.at \notin Watched
      PROVE  Shown
  BY <1>1, <1>3 DEF Begin
<1>4. ASSUME NEW s \in Slots, NEW b \in Bookings,
             \/ CreateCheck(s, b) \/ CancelRead(s, b) \/ ConfirmRead(s, b)
             \/ ArriveRead(s, b) \/ StartRead(s, b) \/ CompleteRead(s, b)
             \/ WithdrawRead(s, b)
      PROVE  Shown
  BY <1>3, <1>4 DEF CreateCheck, CancelRead, ConfirmRead, ArriveRead, StartRead,
     CompleteRead, WithdrawRead, WasherRead, Req, Watched, Resets
<1>5. ASSUME NEW s \in Slots,
             \/ \E o \in Offers : ChooseBooking(s, o)
             \/ \E w \in Washers : OnlineRead(s, w)
      PROVE  Shown
  BY <1>3, <1>5 DEF ChooseBooking, OnlineRead, Req, Watched, Resets
<1>6. ASSUME NEW s \in Slots, ExpireList(s) PROVE Shown
  BY <1>3, <1>6 DEF ExpireList, Idle, Req, Watched, Resets
<1>7. ASSUME NEW s \in Slots,
             \/ OfferBooking(s) \/ ChooseOffer(s)
             \/ \E o \in Offers : OfferProfile(s, o)
             \/ \E w \in Washers : \/ AvailabilityRead(s, w)
                                   \/ ApproveRead(s, w)
                                   \/ RejectRead(s, w) \/ RetryRead(s, w)
      PROVE  Shown
  <2>1. CASE t = s
    BY <1>7, <2>1
  <2>2. CASE t # s
    BY <1>7, <2>2, Rows DEF OfferBooking, ChooseOffer, GoOn, OfferProfile,
       AvailabilityRead, ApproveRead, RejectRead, RetryRead, Begin
  <2> QED
    BY <2>1, <2>2
<1>8. ASSUME NEW s \in Slots, NEW b \in Bookings, ExpireNext(s, b)
      PROVE  Shown
  <2> DEFINE left == req[s].todo \ {b}
  <2>1. CASE left = {}
    BY <1>2, <1>8, <2>1 DEF ExpireNext
  <2>2. CASE left # {}
    <3>1. [req[s] EXCEPT !.todo = left].at \notin Watched
      BY <1>8, Rows DEF ExpireNext, At, Request, Watched, Resets
    <3>2. req' = [req EXCEPT ![s] = [req[s] EXCEPT !.todo = left]]
      BY <1>8, <2>2 DEF ExpireNext
    <3> QED
      BY <1>1, <3>1, <3>2
  <2> QED
    BY <2>1, <2>2
<1>9. ASSUME NEW s \in Slots,
             \/ CreateInsert(s) \/ CancelWrite(s) \/ ConfirmWrite(s)
             \/ OfferInsert(s) \/ ChooseWrite(s) \/ ArriveWrite(s)
             \/ StartWrite(s) \/ CompleteWrite(s) \/ WithdrawWrite(s)
             \/ OnlineWrite(s) \/ AvailabilityWrite(s) \/ ApproveWrite(s)
             \/ RejectWrite(s) \/ RetryWrite(s) \/ Abort(s)
      PROVE  Shown
  <2>1. End(s)
    BY <1>9 DEF CreateInsert, CancelWrite, ConfirmWrite, OfferInsert,
       ChooseWrite, ArriveWrite, StartWrite, CompleteWrite, WithdrawWrite,
       OnlineWrite, AvailabilityWrite, SetAvailability, ApproveWrite,
       RejectWrite, RetryWrite, DismissWrite, Abort
  <2> QED
    BY <1>2, <2>1
<1>10. ASSUME \/ \E w \in Washers : UpdateLocation(w)
              \/ \E v \in Vehicles : RemoveVehicle(v)
              \/ \E b \in Bookings : Lapse(b)
              \/ UNCHANGED vars
       PROVE  Shown
  BY <1>10 DEF UpdateLocation, RemoveVehicle, Lapse, vars
<1>11. ASSUME NEW s \in Slots, ClientStep(s) PROVE Shown
  BY <1>4, <1>5, <1>7, <1>9, <1>11 DEF ClientStep
<1>12. ASSUME NEW s \in Slots, WasherStep(s) PROVE Shown
  BY <1>4, <1>5, <1>7, <1>9, <1>12 DEF WasherStep
<1>13. ASSUME NEW s \in Slots, AdminStep(s) PROVE Shown
  BY <1>7, <1>9, <1>13 DEF AdminStep
<1>14. ASSUME NEW s \in Slots, ExpireStep(s) PROVE Shown
  BY <1>6, <1>8, <1>14 DEF ExpireStep
<1> HIDE DEF Shown
<1> QED
  BY <1>9, <1>10, <1>11, <1>12, <1>13, <1>14 DEF Next

\* A busy washer stays so while neither updateAvailability nor approveWasher is
\* called.
NoReset == \A s \in Slots : req[s].at \notin Resets

LEMMA NoResetKept ==
  ASSUME IInv, NoReset, [Next]_vars,
         Ops \cap {"updateAvailability", "approveWasher"} = {}
  PROVE  NoReset'
<1> SUFFICES ASSUME NEW t \in Slots, req'[t].at \in Resets PROVE FALSE
  BY DEF NoReset
<1>1. \A w \in Washers : ~ AvailabilityRead(t, w) /\ ~ ApproveRead(t, w)
  BY DEF AvailabilityRead, ApproveRead, Begin
<1>2. ASSUME NEW w \in Washers, RejectRead(t, w) \/ RetryRead(t, w)
      PROVE  FALSE
  BY <1>2, Rows DEF RejectRead, RetryRead, Begin, Req, Resets
<1>3. ASSUME NEW o \in Offers, OfferProfile(t, o) PROVE FALSE
  BY <1>3, Rows DEF OfferProfile, Begin, Req, Resets
<1>4. ~ ChooseOffer(t) /\ ~ OfferBooking(t)
  BY Rows DEF ChooseOffer, OfferBooking, GoOn, Request, Resets
<1> QED
  BY <1>1, <1>2, <1>3, <1>4, RequestMoves DEF NoReset, Watched

\* A washer with a job is BUSY and is not given another.
LEMMA OneJobKept ==
  ASSUME IInv, ReadsStillSo, NoReset, [Next]_vars, OneJobPerBusyWasher
  PROVE  OneJobPerBusyWasher'
<1> USE ForeignKeys, NullIsNoId
<1>1. ASSUME \A b \in Bookings, w \in Washers :
                Live(b)' /\ Job(b, w)' =>
                   Live(b) /\ Job(b, w) /\ washer'[w].status = "BUSY"
      PROVE  OneJobPerBusyWasher'
  BY <1>1 DEF OneJobPerBusyWasher
<1>2. ASSUME NEW b \in Bookings, NEW w \in Washers, Live(b), Job(b, w)
      PROVE  /\ washer[w].status = "BUSY"
             /\ \A x \in Bookings : Live(x) /\ Job(x, w) => x = b
  BY <1>2 DEF OneJobPerBusyWasher
<1>3. washer \in [Washers -> WasherRow]
  BY Rows
<1> USE DEF JobStatuses, ActiveStatuses, BookingStatus, Job
<1>4. ASSUME NEW s \in Slots, CreateInsert(s) PROVE OneJobPerBusyWasher'
  BY <1>1, <1>2, <1>4, Created DEF Becomes, Live
\* The washer of b is set free, or b has none and is not a job.
<1>5. ASSUME NEW b \in Bookings, NEW status, NEW w, NEW price, Live(b),
             Becomes(b, "live", status, w, price), status \notin JobStatuses,
             \/ UNCHANGED washer
             \/ /\ booking[b].status \in JobStatuses
                /\ booking[b].washer \in Washers
                /\ \A x \in Washers :
                      x # booking[b].washer => washer'[x] = washer[x]
      PROVE  OneJobPerBusyWasher'
  BY <1>1, <1>2, <1>5 DEF Becomes, Live
<1>6. ASSUME NEW s \in Slots, CancelWrite(s) PROVE OneJobPerBusyWasher'
  <2>1. PICK b \in Bookings :
           /\ Cancellable(b) /\ MovesOn(b, "CANCELLED")
           /\ IF booking[b].washer = None THEN UNCHANGED washer
              ELSE SetWasher(booking[b].washer, "AVAILABLE")
    BY <1>6, Cancelled
  <2>2. Live(b) /\ (booking[b].status = "PENDING" => booking[b].washer = None)
    BY <2>1 DEF MovesOn, IInv, OpenXorAssigned
  <2>3. booking[b].washer \in Washers \cup {None}
    BY Rows DEF BookingRow
  <2> QED
    BY <1>3, <1>5, <2>1, <2>2, <2>3 DEF Cancellable, MovesOn, SetWasher
<1>7. ASSUME NEW s \in Slots, ConfirmWrite(s) PROVE OneJobPerBusyWasher'
  <2>1. PICK b \in Bookings :
           /\ booking[b].status = "AWAITING_CLIENT_CONFIRMATION"
           /\ booking[b].washer \in Washers
           /\ MovesOn(b, "COMPLETED")
           /\ washer' = [washer EXCEPT ![booking[b].washer] =
                               Credited(washer[booking[b].washer])]
    BY <1>7, Confirmed
  <2> QED
    BY <1>3, <1>5, <2>1 DEF MovesOn
<1>8. ASSUME NEW s \in Slots, WithdrawWrite(s) PROVE OneJobPerBusyWasher'
  <2>1. PICK b \in Bookings :
           /\ Live(b) /\ booking[b].status = "ACCEPTED"
           /\ booking[b].washer \in Washers
           /\ Becomes(b, "live", "PENDING", None, booking[b].price)
           /\ SetWasher(booking[b].washer, "AVAILABLE")
    BY <1>8, Withdrawn
  <2> QED
    BY <1>3, <1>5, <2>1 DEF SetWasher
<1>9. ASSUME NEW s \in Slots, NEW b \in Bookings, ExpireNext(s, b)
      PROVE  OneJobPerBusyWasher'
  BY <1>5, <1>9, Expired DEF MovesOn
<1>10. ASSUME NEW s \in Slots,
              ArriveWrite(s) \/ StartWrite(s) \/ CompleteWrite(s)
       PROVE  OneJobPerBusyWasher'
  BY <1>1, <1>2, <1>10, Worked DEF MovesOn, Becomes, Live
<1>11. ASSUME NEW s \in Slots, ChooseWrite(s) PROVE OneJobPerBusyWasher'
  <2>1. PICK o \in Offers :
           /\ Free(WasherOf[o])
           /\ Becomes(BookingOf[o], "live", "ACCEPTED", WasherOf[o], o)
           /\ SetWasher(WasherOf[o], "BUSY")
    BY <1>11, Chosen
  <2>2. \A x \in Bookings : Live(x) => ~ Job(x, WasherOf[o])
    BY <1>2, <2>1 DEF Free
  <2>3. ASSUME NEW x \in Bookings, NEW w \in Washers, Live(x)', Job(x, w)'
        PROVE  \/ x = BookingOf[o] /\ w = WasherOf[o]
               \/ Live(x) /\ Job(x, w) /\ w # WasherOf[o]
    BY <2>1, <2>2, <2>3 DEF Becomes, Live
  <2>4. \A w \in Washers :
           washer'[w].status = IF w = WasherOf[o] THEN "BUSY"
                                                  ELSE washer[w].status
    BY <1>3, <2>1 DEF SetWasher, WasherRow
  <2> QED
    BY <1>2, <2>3, <2>4 DEF OneJobPerBusyWasher
<1>12. ASSUME NEW v \in Vehicles, RemoveVehicle(v) PROVE OneJobPerBusyWasher'
  BY <1>1, <1>2, <1>12, Removed DEF RemoveVehicle, Live
<1>13. ASSUME NEW b \in Bookings, Lapse(b) PROVE OneJobPerBusyWasher'
  BY <1>1, <1>2, <1>13, Lapsed DEF SameBooking, Live
<1>14. CASE ProfileWriting
  BY <1>1, <1>2, <1>14
     DEF ProfileWriting, ProfileMoves, Resetting, NoReset, Live
<1>15. CASE UNCHANGED <<booking, washer>>
  BY <1>1, <1>2, <1>15 DEF Live
<1> QED
  BY <1>4, <1>6, <1>7, <1>8, <1>9, <1>10, <1>11, <1>12, <1>13, <1>14, <1>15,
     StepKinds DEF tables, OfferInsert
-----------------------------------------------------------------------------
\* What holds while requests do not clash, and all that the theorems below rest
\* on.
Unclashed == IInv /\ Apart /\ ReadsStillSo

\* Unclashed is an invariant of the handlers that do not clash.
LEMMA UnclashedInvariance == ApartSpec => []Unclashed
<1>1. Init => Unclashed
  <2>1. Init => Apart
    BY DEF Init, Apart, Clash, Idle, Req, Moving
  <2>2. Init => ReadsStillSo
    BY DEF Init, ReadsStillSo, StillSo, Idle, Req, Moving
  <2> QED
    BY <2>1, <2>2, InitIInv DEF Unclashed
<1>2. Unclashed /\ [Next /\ Apart']_vars => Unclashed'
  <2>1. Unclashed /\ [Next /\ Apart']_vars => IInv' /\ ReadsStillSo'
    BY NextPreserves, ReadsStay DEF Unclashed
  <2>2. Apart /\ UNCHANGED vars => Apart'
    BY DEF vars, Apart, Clash, ClientOf, Concerned
  <2> QED
    BY <2>1, <2>2 DEF Unclashed
<1> QED
  BY <1>1, <1>2, PTL DEF ApartSpec

\* ApartSpec allows every behaviour of the service in which no two requests clash.
LEMMA UnclashingIsApart == Spec /\ []Apart => ApartSpec
<1>1. [Next]_vars /\ Apart' => [Next /\ Apart']_vars
  OBVIOUS
<1> QED
  BY <1>1, PTL DEF Spec, ApartSpec

-----------------------------------------------------------------------------
(***************************************************************************)
(* The other checks (ChecksHold): what a step does to profiles, and what   *)
(* it does to bookings and their offers, always by a request that goes on. *)
(***************************************************************************)
ChecksAllHold == \A s \in Slots : ChecksHold(req[s])

\* A request about profile w at one of these stages writes.
Deciding(stages, w) ==
    \E s \in Slots : /\ req[s].at \in stages
                     /\ req[s].washer = w
                     /\ req'[s] # req[s]

\* What becomes of a profile, and by whom.
ProfileFate(w) ==
    /\ washer[w].located => washer'[w].located
    /\ \/ washer'[w].verification = washer[w].verification
       \/ washer'[w].verification = "APPROVED" /\ Deciding({"approveWrite"}, w)
       \/ washer'[w].verification = "REJECTED" /\ Deciding({"rejectWrite"}, w)
       \/ washer'[w].verification = "RETRY" /\ Deciding({"retryWrite"}, w)
    /\ washer'[w].status = "OFFLINE" =>
          \/ washer[w].status = "OFFLINE"
          \/ Deciding({"offlineWrite", "approveWrite"}, w)

LEMMA ProfilesFare ==
  ASSUME IInv, [Next]_vars, NEW w \in Washers
  PROVE  ProfileFate(w)
<1>0. /\ washer \in [Washers -> WasherRow] /\ washer[w] \in WasherRow
      /\ req \in [Slots -> Request]
  BY Rows
<1> USE DEF ProfileFate, WasherRow
\* A request at its write is not idle, and is when it has written.
<1>1. ASSUME NEW s \in Slots, End(s), req[s].at # "idle"
      PROVE  req'[s] # req[s]
  BY <1>0, <1>1 DEF End, Idle, Req
<1>2. ASSUME NEW x, NEW status, SetWasher(x, status), status # "OFFLINE"
      PROVE  ProfileFate(w)
  BY <1>0, <1>2 DEF SetWasher
<1>3. ASSUME NEW s \in Slots,
             \/ CancelWrite(s) \/ ConfirmWrite(s) \/ ChooseWrite(s)
             \/ WithdrawWrite(s)
      PROVE  ProfileFate(w)
  <2>1. CASE CancelWrite(s)
    BY <1>2, <2>1 DEF CancelWrite
  <2>2. CASE ConfirmWrite(s)
    BY <1>0, <2>2 DEF ConfirmWrite, Credited
  <2>3. CASE ChooseWrite(s) \/ WithdrawWrite(s)
    BY <1>2, <2>3 DEF ChooseWrite, WithdrawWrite
  <2> QED
    BY <1>3, <2>1, <2>2, <2>3
<1>4. ASSUME NEW s \in Slots, OnlineWrite(s) PROVE ProfileFate(w)
  BY <1>0, <1>4 DEF OnlineWrite
<1>5. ASSUME NEW s \in Slots, AvailabilityWrite(s) PROVE ProfileFate(w)
  <2>1. CASE SetAvailability(s, "availableWrite", "AVAILABLE")
    <3>1. PICK located \in {washer[req[s].washer].located, TRUE} :
             washer' = [washer EXCEPT ![req[s].washer] =
                          [@ EXCEPT !.status = "AVAILABLE", !.located = located]]
      BY <2>1 DEF SetAvailability
    <3>2. /\ washer[w].located => washer'[w].located
          /\ washer'[w].verification = washer[w].verification
          /\ washer'[w].status \in {washer[w].status, "AVAILABLE"}
      BY <1>0, <3>1
    <3> QED
      BY <3>2
  <2>2. CASE SetAvailability(s, "offlineWrite", "OFFLINE")
    <3>1. req'[s] # req[s] /\ req[s].at = "offlineWrite"
      BY <1>1, <2>2 DEF SetAvailability, At
    <3>2. req[s].washer = w => Deciding({"offlineWrite", "approveWrite"}, w)
      BY <3>1 DEF Deciding
    <3>3. PICK located \in {washer[req[s].washer].located, TRUE} :
             washer' = [washer EXCEPT ![req[s].washer] =
                          [@ EXCEPT !.status = "OFFLINE", !.located = located]]
      BY <2>2 DEF SetAvailability
    <3>4. /\ washer[w].located => washer'[w].located
          /\ washer'[w].verification = washer[w].verification
          /\ w # req[s].washer => washer'[w] = washer[w]
      BY <1>0, <3>3
    <3> QED
      BY <3>2, <3>4
  <2> QED
    BY <1>5, <2>1, <2>2 DEF AvailabilityWrite
<1>6. ASSUME NEW s \in Slots, ApproveWrite(s) PROVE ProfileFate(w)
  <2>1. req'[s] # req[s] /\ req[s].at = "approveWrite"
    BY <1>1, <1>6 DEF ApproveWrite, At
  <2>2. req[s].washer = w =>
           /\ Deciding({"offlineWrite", "approveWrite"}, w)
           /\ Deciding({"approveWrite"}, w)
    BY <2>1 DEF Deciding
  <2>3. /\ washer'[w].located = washer[w].located
        /\ req[s].washer = w => washer'[w].verification = "APPROVED"
        /\ req[s].washer # w => washer'[w] = washer[w]
    BY <1>0, <1>6 DEF ApproveWrite
  <2> QED
    BY <2>2, <2>3
<1>7. ASSUME NEW s \in Slots, RejectWrite(s) \/ RetryWrite(s)
      PROVE  ProfileFate(w)
  <2>1. req'[s] # req[s]
    BY <1>1, <1>7 DEF RejectWrite, RetryWrite, DismissWrite, At
  <2>2. PICK decision \in {<<"rejectWrite", "REJECTED">>,
                           <<"retryWrite", "RETRY">>} :
           /\ req[s].at = decision[1]
           /\ washer' = [washer EXCEPT ![req[s].washer].verification =
                            decision[2]]
    BY <1>7 DEF RejectWrite, RetryWrite, DismissWrite, At
  <2>3. req[s].washer = w => Deciding({decision[1]}, w)
    BY <2>1, <2>2 DEF Deciding
  <2>4. /\ washer'[w].located = washer[w].located
        /\ washer'[w].status = washer[w].status
        /\ req[s].washer = w => washer'[w].verification = decision[2]
        /\ req[s].washer # w => washer'[w] = washer[w]
    BY <1>0, <2>2
  <2> QED
    BY <2>2, <2>3, <2>4
<1>8. ASSUME NEW x \in Washers, UpdateLocation(x) PROVE ProfileFate(w)
  BY <1>0, <1>8 DEF UpdateLocation
<1>9. ASSUME \/ \E s \in Slots :
                  \/ CreateInsert(s) \/ OfferInsert(s) \/ ArriveWrite(s)
                  \/ StartWrite(s) \/ CompleteWrite(s)
                  \/ \E b \in Bookings : ExpireNext(s, b)
             \/ \E v \in Vehicles : RemoveVehicle(v)
             \/ \E b \in Bookings : Lapse(b)
             \/ UNCHANGED tables
      PROVE  ProfileFate(w)
  BY <1>9 DEF CreateInsert, OfferInsert, ArriveWrite, StartWrite, CompleteWrite,
     ExpireNext, RemoveVehicle, Lapse, tables
<1> QED
  BY <1>3, <1>4, <1>5, <1>6, <1>7, <1>8, <1>9, StepWrites

\* A request that moves booking b writes.
Handled(b) == \E s \in Slots : /\ req[s].at \in Moving
                               /\ b \in Concerned(req[s])
                               /\ req'[s] # req[s]

\* A booking keeps what the checks are about.
BookingKept(b) ==
    /\ Live(b)' => Live(b)
    /\ booking'[b].washer = booking[b].washer
    /\ booking[b].lapsed => booking'[b].lapsed
    /\ \A o \in Offers :
          BookingOf[o] = b /\ offer[o] = "PENDING" /\ Live(b)'
             => offer'[o] = "PENDING"

LEMMA BookingsFare ==
  ASSUME IInv, ReadsStillSo, [Next]_vars, NEW b \in Bookings
  PROVE  BookingKept(b) \/ booking[b].row = "unborn" \/ Handled(b)
<1> USE ForeignKeys, NullIsNoId
<1>0. /\ booking \in [Bookings -> BookingRow] /\ booking[b] \in BookingRow
      /\ req \in [Slots -> Request]
  BY Rows
\* A write of a Moving request leaves the bookings of others and their offers.
<1>1. ASSUME NEW s \in Slots, Touches(s), req'[s] # req[s],
             \A o \in Offers : BookingOf[o] \notin Concerned(req[s])
                                  => offer'[o] = offer[o]
      PROVE  BookingKept(b) \/ Handled(b)
  BY <1>1 DEF Touches, BookingKept, Handled, Live
<1>2. ASSUME NEW s \in Slots, End(s), req[s].at # "idle"
      PROVE  req'[s] # req[s]
  BY <1>0, <1>2 DEF End, Idle, Req
<1>3. ASSUME NEW s \in Slots,
             \/ CancelWrite(s) \/ ConfirmWrite(s) \/ ArriveWrite(s)
             \/ StartWrite(s) \/ CompleteWrite(s)
      PROVE  BookingKept(b) \/ Handled(b)
  <2>1. End(s) /\ req[s].at # "idle" /\ offer' = offer
    BY <1>3 DEF CancelWrite, ConfirmWrite, ArriveWrite, StartWrite,
       CompleteWrite, At
  <2> QED
    BY <1>1, <1>2, <1>3, <2>1, WritesTouch
<1>4. ASSUME NEW s \in Slots, ChooseWrite(s) PROVE BookingKept(b) \/ Handled(b)
  <2>1. End(s) /\ req[s].at = "chooseWrite"
    BY <1>4 DEF ChooseWrite, At
  <2>2. BookingOf[req[s].offer] = req[s].booking
    BY <2>1 DEF IInv, RequestsFit, RequestFits
  <2>3. \A o \in Offers : BookingOf[o] \notin Concerned(req[s])
                             => offer'[o] = offer[o]
    BY <1>4, <2>1, <2>2 DEF ChooseWrite, StatusOnceChosen, Concerned
  <2> QED
    BY <1>1, <1>2, <1>4, <2>1, <2>3, WritesTouch
<1>5. ASSUME NEW s \in Slots, WithdrawWrite(s) PROVE BookingKept(b) \/ Handled(b)
  <2>1. End(s) /\ req[s].at = "withdrawWrite"
    BY <1>5 DEF WithdrawWrite, At
  <2>2. \A o \in Offers : BookingOf[o] \notin Concerned(req[s])
                             => offer'[o] = offer[o]
    BY <1>5, <2>1 DEF WithdrawWrite, Concerned
  <2> QED
    BY <1>1, <1>2, <1>5, <2>1, <2>2, WritesTouch
<1>6. ASSUME NEW s \in Slots, NEW x \in Bookings, ExpireNext(s, x)
      PROVE  BookingKept(b) \/ Handled(b)
  <2>1. req[s].at = "expireNext" /\ x \in req[s].todo
    BY <1>6 DEF ExpireNext, At
  <2>2. req'[s] # req[s]
    <3> DEFINE left == req[s].todo \ {x}
    <3>1. CASE left = {}
      BY <1>2, <1>6, <2>1, <3>1 DEF ExpireNext
    <3>2. CASE left # {}
      <4>1. req'[s].todo = left
        BY <1>0, <1>6, <3>2 DEF ExpireNext, Request
      <4> QED
        BY <2>1, <4>1
    <3> QED
      BY <3>1, <3>2
  <2>3. \A o \in Offers : BookingOf[o] \notin Concerned(req[s])
                             => offer'[o] = offer[o]
    BY <1>6, <2>1 DEF ExpireNext, Concerned
  <2> QED
    BY <1>1, <1>6, <2>2, <2>3, WritesTouch
<1>7. ASSUME NEW s \in Slots, CreateInsert(s)
      PROVE  BookingKept(b) \/ booking[b].row = "unborn"
  BY <1>0, <1>7 DEF CreateInsert, BookingKept, Live
<1>8. ASSUME NEW s \in Slots, OfferInsert(s) PROVE BookingKept(b)
  BY <1>8, Rows DEF OfferInsert, BookingKept, Live
<1>9. ASSUME NEW v \in Vehicles, RemoveVehicle(v) PROVE BookingKept(b)
  <2>1. booking'[b] = IF VehicleOf[b] = v /\ Live(b)
                      THEN [booking[b] EXCEPT !.row = "removed"]
                      ELSE booking[b]
    BY <1>9 DEF RemoveVehicle
  <2>2. /\ booking'[b].washer = booking[b].washer
        /\ booking'[b].lapsed = booking[b].lapsed
        /\ Live(b)' => Live(b) /\ VehicleOf[b] # v
    BY <1>0, <2>1 DEF BookingRow, Live
  <2> QED
    BY <1>9, <2>2 DEF RemoveVehicle, BookingKept
<1>10. ASSUME NEW x \in Bookings, Lapse(x) PROVE BookingKept(b)
  BY <1>0, <1>10 DEF Lapse, BookingKept, BookingRow, Live
<1>11. ASSUME \/ \E s \in Slots :
                   \/ OnlineWrite(s) \/ AvailabilityWrite(s)
                   \/ ApproveWrite(s) \/ RejectWrite(s) \/ RetryWrite(s)
              \/ \E w \in Washers : UpdateLocation(w)
              \/ UNCHANGED tables
       PROVE  BookingKept(b)
  BY <1>11 DEF OnlineWrite, AvailabilityWrite, SetAvailability, ApproveWrite,
     RejectWrite, RetryWrite, DismissWrite, UpdateLocation, tables,
     BookingKept, Live
<1> QED
  BY <1>3, <1>4, <1>5, <1>6, <1>7, <1>8, <1>9, <1>10, <1>11, StepWrites

\* A request that does not go on is left alone by those it does not clash with.
LEMMA ChecksLast ==
  ASSUME IInv, ReadsStillSo, Apart, ProfilesApart, [Next]_vars,
         NEW t \in Slots, ChecksHold(req[t]), req'[t] = req[t]
  PROVE  ChecksHold(req[t])'
<1> USE ForeignKeys
<1> DEFINE r == req[t]
           b == r.booking
           w == r.washer
<1>0. r \in Request /\ RequestFits(r) /\ StillSo(r)
  BY Rows DEF IInv, RequestsFit, ReadsStillSo
<1>1. \A s \in Slots : req'[s] # req[s] =>
         ~ Clash(r, req[s]) /\ ~ ProfileClash(r, req[s])
  BY DEF Apart, ProfilesApart
<1>2. r.at \in Vetting \cup Dismissing \cup {"approveWrite"} => w \in Washers
  BY <1>0 DEF RequestFits, Vetting, Dismissing
<1>3. /\ r.at \in Vetting => ~ Deciding({"rejectWrite"}, w)
      /\ r.at \in Vetting => ~ Deciding({"retryWrite"}, w)
      /\ r.at \in Offering => ~ Deciding({"offlineWrite", "approveWrite"}, w)
      /\ r.at = "approveWrite" => ~ Deciding({"approveWrite"}, w)
      /\ r.at \in Dismissing => ~ Deciding({"rejectWrite"}, w)
  BY <1>1 DEF Deciding, ProfileClash, Dismissing
<1>4. w \in Washers => ProfileFate(w)
  BY ProfilesFare
<1>5. r.at \in Vetting => washer'[w].verification = "APPROVED"
  BY <1>2, <1>3, <1>4 DEF ProfileFate, ChecksHold, IsVerified
<1>6. r.at \in Offering => washer'[w].status # "OFFLINE" /\ washer'[w].located
  BY <1>2, <1>3, <1>4 DEF ProfileFate, ChecksHold, Vetting, Offering
<1>7. r.at = "approveWrite" => washer'[w].verification # "APPROVED"
  BY <1>2, <1>3, <1>4 DEF ProfileFate, ChecksHold, IsVerified
<1>8. r.at \in Dismissing => washer'[w].verification # "REJECTED"
  BY <1>2, <1>3, <1>4 DEF ProfileFate, ChecksHold
<1>9. r.at \in {"chooseWrite", "arriveWrite", "startWrite", "completeWrite",
                "expireNext"}
         => \A x \in Concerned(r) : x \in Bookings /\ BookingKept(x)
  <2> SUFFICES ASSUME r.at \in {"chooseWrite", "arriveWrite", "startWrite",
                                "completeWrite", "expireNext"},
                      NEW x \in Concerned(r)
               PROVE  x \in Bookings /\ BookingKept(x)
    OBVIOUS
  <2>1. r.at \in Moving
    BY DEF Moving
  <2>2. x \in Bookings /\ booking[x].row # "unborn"
    BY <1>0, <2>1 DEF RequestFits, Request, Concerned, StillSo
  <2>3. ~ Handled(x)
    BY <1>1, <2>1 DEF Handled, Clash
  <2> QED
    BY <2>2, <2>3, BookingsFare
<1>10. r.at = "chooseWrite" /\ Live(b)' => offer'[r.offer] = "PENDING"
  BY <1>0, <1>9 DEF BookingKept, ChecksHold, RequestFits, Concerned
<1>11. r.at \in {"arriveWrite", "startWrite", "completeWrite"} /\ Live(b)'
          => booking'[b].washer = w
  BY <1>9 DEF BookingKept, ChecksHold, Concerned
<1>12. r.at = "expireNext" =>
          \A x \in r.todo : Live(x)' => booking'[x].lapsed
  BY <1>9 DEF BookingKept, ChecksHold, Concerned
<1> QED
  BY <1>5, <1>6, <1>7, <1>8, <1>10, <1>11, <1>12 DEF ChecksHold, IsVerified

\* A request that goes on has just made its checks, or has made them before.
LEMMA ChecksMade ==
  ASSUME IInv, ReadsStillSo, ChecksAllHold, [Next]_vars, NEW t \in Slots
  PROVE  req'[t] = req[t] \/ ChecksHold(req[t])'
<1> DEFINE Made == req'[t] = req[t] \/ ChecksHold(req[t])'
<1> SUFFICES Made
  OBVIOUS
<1>1. ASSUME NEW s \in Slots, NEW r, req' = [req EXCEPT ![s] = r],
             UNCHANGED tables, ChecksHold(r)
      PROVE  Made
  <2>1. ChecksHold(r)'
    BY <1>1 DEF ChecksHold, tables, IsVerified, Live
  <2>2. req'[t] = req[t] \/ req'[t] = r
    BY <1>1, Rows
  <2> QED
    BY <2>1, <2>2
<1>2. ASSUME NEW s \in Slots, End(s) PROVE Made
  <2>1. req'[t] = req[t] \/ req'[t].at = "idle"
    BY <1>2, Rows DEF End, Idle, Req
  <2> QED
    BY <2>1 DEF ChecksHold, Vetting, Offering, Dismissing
<1>3. ASSUME NEW s \in Slots, NEW op, NEW r, Begin(s, op, r), ChecksHold(r)
      PROVE  Made
  BY <1>1, <1>3 DEF Begin
<1> HIDE DEF Made
<1> USE DEF ChecksHold, Vetting, Offering, Dismissing
<1>4. ASSUME NEW s \in Slots, NEW b \in Bookings,
             \/ CreateCheck(s, b) \/ CancelRead(s, b) \/ ConfirmRead(s, b)
             \/ ArriveRead(s, b) \/ StartRead(s, b) \/ CompleteRead(s, b)
             \/ WithdrawRead(s, b)
      PROVE  Made
  BY <1>3, <1>4 DEF CreateCheck, CancelRead, ConfirmRead, ArriveRead, StartRead,
     CompleteRead, WithdrawRead, WasherRead, Req
<1>5. ASSUME NEW s \in Slots, NEW o \in Offers,
             ChooseBooking(s, o) \/ OfferProfile(s, o)
      PROVE  Made
  BY <1>3, <1>5 DEF ChooseBooking, OfferProfile, Req
<1>6. ASSUME NEW s \in Slots, NEW w \in Washers,
             \/ OnlineRead(s, w) \/ AvailabilityRead(s, w)
             \/ ApproveRead(s, w) \/ RejectRead(s, w) \/ RetryRead(s, w)
      PROVE  Made
  BY <1>3, <1>6 DEF OnlineRead, AvailabilityRead, ApproveRead, RejectRead,
     RetryRead, Req
<1>7. ASSUME NEW s \in Slots, ExpireList(s) PROVE Made
  <2> DEFINE expired == {b \in Bookings : /\ Live(b)
                                          /\ booking[b].status = "PENDING"
                                          /\ booking[b].lapsed}
             r == [Idle EXCEPT !.at = "expireNext", !.todo = expired]
  <2>1. r.at = "expireNext" /\ r.todo = expired
    BY DEF Idle, Req
  <2>2. Begin(s, "expireStaleBookings", r)
    BY <1>7 DEF ExpireList
  <2>3. ChecksHold(r)
    BY <2>1
  <2> QED
    BY <1>3, <2>2, <2>3
<1>8. ASSUME NEW s \in Slots, OfferBooking(s) \/ ChooseOffer(s) PROVE Made
  <2>1. PICK stage \in {"offerInsert", "chooseWrite"} :
           /\ GoOn(s, stage)
           /\ \/ stage = "offerInsert" /\ OfferBooking(s)
              \/ stage = "chooseWrite" /\ ChooseOffer(s)
    BY <1>8 DEF OfferBooking, ChooseOffer
  <2> DEFINE r == [req[s] EXCEPT !.at = stage]
  <2>2. /\ r.at = stage /\ r.booking = req[s].booking
        /\ r.washer = req[s].washer /\ r.offer = req[s].offer
    BY Rows DEF Request
  <2>3. ChecksHold(r)
    BY <2>1, <2>2 DEF ChecksAllHold, OfferBooking, ChooseOffer, At
  <2>4. req' = [req EXCEPT ![s] = r] /\ UNCHANGED tables
    BY <2>1 DEF GoOn
  <2> QED
    BY <1>1, <2>3, <2>4
<1>9. ASSUME NEW s \in Slots, NEW b \in Bookings, ExpireNext(s, b) PROVE Made
  <2> DEFINE left == req[s].todo \ {b}
  <2>1. CASE left = {}
    BY <1>2, <1>9, <2>1 DEF ExpireNext
  <2>2. CASE left # {}
    <3>1. \/ req'[t] = req[t]
          \/ req'[t].at = "expireNext" /\ req'[t].todo = left
      BY <1>9, <2>2, Rows DEF ExpireNext, At, Request
    <3>2. \A x \in left : /\ x \in Bookings
                          /\ Live(x) => booking[x].lapsed
      BY <1>9, Rows DEF ExpireNext, At, ChecksAllHold, Request
    <3>3. \A x \in left : booking'[x] = booking[x]
      BY <1>9, <3>2, Expired DEF MovesOn, Becomes
    <3> QED
      BY <3>1, <3>2, <3>3 DEF Live, Made
  <2> QED
    BY <2>1, <2>2
<1>10. ASSUME NEW s \in Slots,
             \/ CreateInsert(s) \/ CancelWrite(s) \/ ConfirmWrite(s)
             \/ OfferInsert(s) \/ ChooseWrite(s) \/ ArriveWrite(s)
             \/ StartWrite(s) \/ CompleteWrite(s) \/ WithdrawWrite(s)
             \/ OnlineWrite(s) \/ AvailabilityWrite(s) \/ ApproveWrite(s)
             \/ RejectWrite(s) \/ RetryWrite(s) \/ Abort(s)
       PROVE  Made
  <2>1. End(s)
    BY <1>10 DEF CreateInsert, CancelWrite, ConfirmWrite, OfferInsert,
       ChooseWrite, ArriveWrite, StartWrite, CompleteWrite, WithdrawWrite,
       OnlineWrite, AvailabilityWrite, SetAvailability, ApproveWrite,
       RejectWrite, RetryWrite, DismissWrite, Abort
  <2> QED
    BY <1>2, <2>1
<1>11. ASSUME \/ \E w \in Washers : UpdateLocation(w)
              \/ \E v \in Vehicles : RemoveVehicle(v)
              \/ \E b \in Bookings : Lapse(b)
              \/ UNCHANGED vars
       PROVE  Made
  BY <1>11 DEF UpdateLocation, RemoveVehicle, Lapse, vars, Made
<1>12. ASSUME NEW s \in Slots, ClientStep(s) PROVE Made
  BY <1>4, <1>5, <1>8, <1>10, <1>12 DEF ClientStep
<1>13. ASSUME NEW s \in Slots, WasherStep(s) PROVE Made
  BY <1>4, <1>5, <1>6, <1>8, <1>10, <1>13 DEF WasherStep
<1>14. ASSUME NEW s \in Slots, AdminStep(s) PROVE Made
  BY <1>6, <1>10, <1>14 DEF AdminStep
<1>15. ASSUME NEW s \in Slots, ExpireStep(s) PROVE Made
  BY <1>7, <1>9, <1>15 DEF ExpireStep
<1> QED
  BY <1>10, <1>11, <1>12, <1>13, <1>14, <1>15 DEF Next

\* FullyApartSpec is a part of ApartSpec, and of what the code does.
LEMMA FullyApartIsApart == FullyApartSpec => ApartSpec
<1>1. [Next /\ Apart' /\ ProfilesApart']_vars => [Next /\ Apart']_vars
  OBVIOUS
<1> QED
  BY <1>1, PTL DEF FullyApartSpec, ApartSpec

\* As long as requests clash neither over a booking nor over a profile, what each
\* handler checked of rows that still exist is so when it writes (ChecksStillSo),
\* for every number of requests in flight.
THEOREM NoStaleWrites == FullyApartSpec => []ChecksStillSo
<1>1. Init => ChecksAllHold /\ ProfilesApart
  BY DEF Init, ChecksAllHold, ChecksHold, ProfilesApart, ProfileClash, Idle, Req,
     Vetting, Offering, Dismissing
<1>2. /\ Unclashed /\ ChecksAllHold /\ ProfilesApart
      /\ [Next /\ Apart' /\ ProfilesApart']_vars
      => ChecksAllHold' /\ ProfilesApart'
  <2> SUFFICES ASSUME Unclashed, ChecksAllHold, ProfilesApart,
                      [Next /\ Apart' /\ ProfilesApart']_vars
               PROVE  ChecksAllHold' /\ ProfilesApart'
    OBVIOUS
  <2>1. ASSUME NEW t \in Slots PROVE ChecksHold(req[t])'
    BY ChecksLast, ChecksMade DEF Unclashed, ChecksAllHold
  <2>2. UNCHANGED vars => ProfilesApart'
    BY DEF vars, ProfilesApart, ProfileClash
  <2> QED
    BY <2>1, <2>2 DEF ChecksAllHold
<1>3. Unclashed /\ ChecksAllHold => ChecksStillSo
  BY DEF Unclashed, ReadsStillSo, ChecksAllHold, ChecksStillSo
<1> QED
  BY <1>1, <1>2, <1>3, UnclashedInvariance, FullyApartIsApart, PTL
     DEF FullyApartSpec
-----------------------------------------------------------------------------
\* One request at a time: the slots are one.
OneSlot == \A s, t \in Slots : s = t

\* Requests that come one after the other never clash.
THEOREM OneSlotIsApart ==
  ASSUME OneSlot PROVE Spec => FullyApartSpec /\ ApartSpec
<1>1. [Next]_vars => [Next /\ Apart' /\ ProfilesApart']_vars
  BY DEF OneSlot, Apart, ProfilesApart
<1>2. Spec => FullyApartSpec
  BY <1>1, PTL DEF Spec, FullyApartSpec
<1> QED
  BY <1>2, FullyApartIsApart, PTL

\* As long as requests do not clash, the guards of all handlers together give every
\* booking the life of BookingLifecycle (LifecycleRefined): initial states map to
\* its initial state, and every step to a step of it or to a stutter.
THEOREM LifecycleHolds == ApartSpec => LifecycleRefined
<1>1. Init => \A b \in Bookings : Lifecycle(b)!LifeInit
  BY DEF Init, Lifecycle!LifeInit, Phase, FreshBooking
<1>2. Unclashed /\ [Next /\ Apart']_vars =>
        [\A b \in Bookings :
            [Lifecycle(b)!LifeNext]_(Lifecycle(b)!life)]_vars
  BY LifeGoesOn DEF Unclashed
<1> QED
  BY <1>1, <1>2, UnclashedInvariance, PTL DEF ApartSpec, LifecycleRefined

\* As long as requests do not clash, create lets a client have one booking that is
\* not over, for no other handler makes a booking active again
\* (OneActiveBookingPerClient).
THEOREM OneActive == ApartSpec => []OneActiveBookingPerClient
<1>1. Init => OneActiveBookingPerClient
  BY DEF Init, OneActiveBookingPerClient, Active, Live, FreshBooking
<1>2. Unclashed /\ OneActiveBookingPerClient /\ [Next /\ Apart']_vars
        => OneActiveBookingPerClient'
  BY OneActiveKept, ForeignKeys DEF Unclashed
<1> QED
  BY <1>1, <1>2, UnclashedInvariance, PTL DEF ApartSpec

\* As long as requests do not clash, an assigned booking has one winning offer and
\* none waiting (WinnerTakesAll): chooseOffer settles all, makeOffer adds none.
THEOREM OneWinner == ApartSpec => []WinnerTakesAll
<1>1. Init => WinnerTakesAll
  BY DEF Init, WinnerTakesAll, Live, FreshBooking
<1>2. Unclashed /\ WinnerTakesAll /\ [Next /\ Apart']_vars => WinnerTakesAll'
  BY SettledKept DEF Unclashed, WinnerTakesAll, Settled
<1> QED
  BY <1>1, <1>2, UnclashedInvariance, PTL DEF ApartSpec

\* As long as requests do not clash, a BUSY washer holds a job or had it removed
\* (BusyOnlyOnAJob): the write that ends a job sets its washer free.
THEOREM BusyHasAJob == ApartSpec => []BusyOnlyOnAJob
<1>1. Init => BusyOnlyOnAJob
  BY DEF Init, BusyOnlyOnAJob
<1>2. Unclashed /\ BusyOnlyOnAJob /\ [Next /\ Apart']_vars => BusyOnlyOnAJob'
  BY BusyKept DEF Unclashed
<1> QED
  BY <1>1, <1>2, UnclashedInvariance, PTL DEF ApartSpec

\* As long as requests do not clash, a washer on a job is BUSY until the job ends,
\* but for the write of a request that resets its status (BusyUntilDone): nothing
\* else in the code makes it seem free, whatever operations are called.
THEOREM BusyStays == ApartSpec => BusyUntilDone
<1>1. ASSUME IInv, ReadsStillSo, [Next]_vars,
             NEW b \in Bookings, NEW w \in Washers,
             Live(b), Job(b, w), washer[w].status = "BUSY",
             Live(b)', Job(b, w)', washer'[w].status # "BUSY"
      PROVE  \/ \E s \in Slots : Resetting(s, w)
             \/ \E other \in Bookings \ {b} :
                   Live(other) /\ Job(other, w) /\ ~ Job(other, w)'
  <2> USE DEF JobStatuses, ActiveStatuses, BookingStatus
  <2>0. washer \in [Washers -> WasherRow]
    BY <1>1, Rows
\* Whoever is set free had a job that ends, which is not b.
  <2>1. ASSUME NEW x \in Bookings, Live(x), booking[x].status \in JobStatuses,
               booking'[x].status \notin JobStatuses,
               \A y \in Washers :
                  y # booking[x].washer => washer'[y] = washer[y]
        PROVE  \E other \in Bookings \ {b} :
                  Live(other) /\ Job(other, w) /\ ~ Job(other, w)'
    BY <1>1, <2>1 DEF Job
  <2>2. ASSUME NEW s \in Slots, CancelWrite(s)
        PROVE  \E x \in Bookings : /\ Live(x)
                                   /\ booking[x].status \in JobStatuses
                                   /\ booking'[x].status \notin JobStatuses
                                   /\ \A y \in Washers :
                                         y # booking[x].washer
                                            => washer'[y] = washer[y]
    <3>1. PICK x \in Bookings :
             /\ Cancellable(x) /\ MovesOn(x, "CANCELLED")
             /\ IF booking[x].washer = None THEN UNCHANGED washer
                ELSE SetWasher(booking[x].washer, "AVAILABLE")
      BY <1>1, <2>2, Cancelled
    <3>2. booking[x].washer # None
      BY <1>1, <3>1
    <3>3. Live(x) /\ booking[x].status = "ACCEPTED"
      BY <1>1, <3>1, <3>2 DEF MovesOn, Cancellable, IInv, OpenXorAssigned
    <3> QED
      BY <2>0, <3>1, <3>2, <3>3 DEF MovesOn, Becomes, SetWasher
  <2>3. CASE \E s \in Slots : CancelWrite(s)
    BY <2>1, <2>2, <2>3
  <2>4. CASE \E s \in Slots : ConfirmWrite(s)
    <3>1. PICK x \in Bookings :
             /\ booking[x].status = "AWAITING_CLIENT_CONFIRMATION"
             /\ MovesOn(x, "COMPLETED")
             /\ washer' = [washer EXCEPT ![booking[x].washer] =
                                 Credited(washer[booking[x].washer])]
      BY <1>1, <2>4, Confirmed
    <3> QED
      BY <2>0, <2>1, <3>1 DEF MovesOn, Becomes
  <2>5. CASE \E s \in Slots : WithdrawWrite(s)
    <3>1. PICK x \in Bookings :
             /\ Live(x) /\ booking[x].status = "ACCEPTED"
             /\ Becomes(x, "live", "PENDING", None, booking[x].price)
             /\ SetWasher(booking[x].washer, "AVAILABLE")
      BY <1>1, <2>5, Withdrawn
    <3> QED
      BY <2>0, <2>1, <3>1 DEF Becomes, SetWasher
  <2>6. CASE \E s \in Slots : ChooseWrite(s)
    <3>1. PICK o \in Offers : SetWasher(WasherOf[o], "BUSY")
      BY <1>1, <2>6, Chosen, ForeignKeys
    <3> QED
      BY <1>1, <2>0, <3>1 DEF SetWasher, WasherRow
  <2>7. CASE ProfileWriting
    BY <1>1, <2>7 DEF ProfileWriting, ProfileMoves
  <2>8. CASE UNCHANGED washer
    BY <1>1, <2>8
  <2> QED
    BY <1>1, <2>3, <2>4, <2>5, <2>6, <2>7, <2>8, StepKinds
       DEF tables, CreateInsert, OfferInsert, ArriveWrite, StartWrite,
       CompleteWrite, ExpireNext, RemoveVehicle, Lapse
<1>2. Unclashed /\ [Next /\ Apart']_vars =>
        [\A b \in Bookings, w \in Washers :
            /\ Live(b) /\ Job(b, w) /\ washer[w].status = "BUSY"
            /\ Live(b)' /\ Job(b, w)' /\ washer'[w].status # "BUSY"
            => \/ \E s \in Slots : /\ req[s].at \in Resets
                                   /\ req[s].washer = w
                                   /\ req'[s] = Idle
               \/ \E other \in Bookings \ {b} :
                     Live(other) /\ Job(other, w) /\ ~ Job(other, w)']_vars
  BY <1>1 DEF Unclashed, Resetting
<1> QED
  BY <1>2, UnclashedInvariance, PTL DEF ApartSpec, BusyUntilDone

\* As long as requests do not clash, totalBookings is the number of the washer's
\* completed bookings (TotalCountsCompleted), of which there are finitely many.
THEOREM TotalsCount ==
  ASSUME IsFiniteSet(Bookings) PROVE ApartSpec => []TotalCountsCompleted
<1>1. Init => TotalCountsCompleted
  <2> SUFFICES ASSUME Init, NEW w \in Washers
               PROVE  washer[w].total = Cardinality(Done(w))
    BY DEF TotalCountsCompleted, Done
  <2>1. Done(w) = {}
    BY DEF Init, Done, FreshBooking
  <2> QED
    BY <2>1, FS_EmptySet DEF Init
<1>2. Unclashed /\ TotalCountsCompleted /\ [Next /\ Apart']_vars
        => TotalCountsCompleted'
  BY CountsKept DEF Unclashed, TotalCountsCompleted, Counts, Done
<1> QED
  BY <1>1, <1>2, UnclashedInvariance, PTL DEF ApartSpec

\* As long as requests do not clash and nobody calls updateAvailability or
\* approveWasher, a washer has one job at most and is BUSY during it
\* (OneJobPerBusyWasher).
THEOREM OneJobAWasher ==
  ASSUME Ops \cap {"updateAvailability", "approveWasher"} = {}
  PROVE  ApartSpec => []OneJobPerBusyWasher
<1>1. Init => NoReset /\ OneJobPerBusyWasher
  BY DEF Init, NoReset, Resets, Idle, Req, OneJobPerBusyWasher, Live,
     FreshBooking
<1>2. Unclashed /\ NoReset /\ OneJobPerBusyWasher /\ [Next /\ Apart']_vars
        => NoReset' /\ OneJobPerBusyWasher'
  BY NoResetKept, OneJobKept DEF Unclashed
<1> QED
  BY <1>1, <1>2, UnclashedInvariance, PTL DEF ApartSpec
-----------------------------------------------------------------------------
(***************************************************************************)
(* What it takes for the messages of the source to be true.  None of them  *)
(* is of the service as it is; each theorem names what breaks it.          *)
(***************************************************************************)
\* What a step makes of a booking, when requests do not clash.
Journeys(b) ==
    LET old == booking[b].status
        new == booking'[b].status
        kept == booking'[b].washer = booking[b].washer
    IN  \/ new = old /\ kept /\ (Live(b)' => Live(b))
        \/ new = "PENDING" /\ booking'[b].washer = None
        \/ new = "CANCELLED" /\ old \in {"PENDING", "ACCEPTED"} /\ kept
        \/ /\ new = "ACCEPTED"
           /\ booking'[b].washer \in Washers
           /\ Free(booking'[b].washer)
        \/ /\ old \notin {"PENDING", "CANCELLED"} /\ new # "CANCELLED"
           /\ kept /\ Live(b)

LEMMA Journey ==
  ASSUME IInv, ReadsStillSo, [Next]_vars, NEW b \in Bookings
  PROVE  Journeys(b)
<1> USE ForeignKeys, NullIsNoId
<1>1. ASSUME booking'[b] = booking[b] PROVE Journeys(b)
  BY <1>1 DEF Journeys, Live
<1>2. ASSUME NEW s \in Slots, CreateInsert(s) PROVE Journeys(b)
  BY <1>1, <1>2, Created DEF Becomes, Journeys
<1>3. ASSUME NEW s \in Slots, CancelWrite(s) PROVE Journeys(b)
  BY <1>1, <1>3, Cancelled DEF MovesOn, Becomes, Journeys, Cancellable
<1>4. ASSUME NEW s \in Slots, ConfirmWrite(s) PROVE Journeys(b)
  BY <1>1, <1>4, Confirmed DEF MovesOn, Becomes, Journeys
<1>5. ASSUME NEW s \in Slots, ArriveWrite(s) \/ StartWrite(s) \/ CompleteWrite(s)
      PROVE  Journeys(b)
  <2>1. PICK x \in Bookings :
           \/ booking[x].status = "ACCEPTED" /\ MovesOn(x, "ARRIVED")
           \/ booking[x].status = "ARRIVED" /\ MovesOn(x, "IN_PROGRESS")
           \/ /\ booking[x].status = "IN_PROGRESS"
              /\ MovesOn(x, "AWAITING_CLIENT_CONFIRMATION")
    BY <1>5, Worked
  <2>2. CASE x = b
    BY <2>1, <2>2 DEF MovesOn, Becomes, Journeys
  <2>3. CASE x # b
    BY <1>1, <2>1, <2>3 DEF MovesOn, Becomes
  <2> QED
    BY <2>2, <2>3
<1>6. ASSUME NEW s \in Slots, ChooseWrite(s) PROVE Journeys(b)
  <2>1. PICK o \in Offers :
           /\ Free(WasherOf[o])
           /\ Becomes(BookingOf[o], "live", "ACCEPTED", WasherOf[o], o)
    BY <1>6, Chosen
  <2>2. CASE BookingOf[o] = b
    BY <2>1, <2>2 DEF Becomes, Journeys, ForeignKeys
  <2>3. CASE BookingOf[o] # b
    BY <1>1, <2>1, <2>3 DEF Becomes
  <2> QED
    BY <2>2, <2>3
<1>7. ASSUME NEW s \in Slots, WithdrawWrite(s) PROVE Journeys(b)
  BY <1>1, <1>7, Withdrawn DEF Becomes, Journeys
<1>8. ASSUME NEW s \in Slots, NEW x \in Bookings, ExpireNext(s, x)
      PROVE  Journeys(b)
  BY <1>1, <1>8, Expired DEF MovesOn, Becomes, Journeys
<1>9. ASSUME NEW v \in Vehicles, RemoveVehicle(v) PROVE Journeys(b)
  BY <1>9, Removed DEF Journeys, Live
<1>10. ASSUME NEW x \in Bookings, Lapse(x) PROVE Journeys(b)
  BY <1>10, Lapsed DEF SameBooking, Journeys, Live
<1>11. ASSUME NEW s \in Slots, OfferInsert(s) PROVE Journeys(b)
  BY <1>1, <1>11 DEF OfferInsert
<1> QED
  BY <1>1, <1>2, <1>3, <1>4, <1>5, <1>6, <1>7, <1>8, <1>9, <1>10, <1>11,
     StepKinds DEF tables, ProfileWriting

\* "Ce laveur n'est plus disponible": as long as requests do not clash, a booking is
\* given only to a washer AVAILABLE at that moment (OnlyAvailableTakeOrders); it
\* takes two choices of one washer to break it.
THEOREM GivenToTheFree == ApartSpec => OnlyAvailableTakeOrders
<1>1. Unclashed /\ [Next /\ Apart']_vars =>
        [\A b \in Bookings, w \in Washers :
            booking'[b].washer = w /\ booking[b].washer # w
               => washer[w].status = "AVAILABLE"]_vars
  BY Journey, NullIsNoId DEF Unclashed, Journeys, Free
<1> QED
  BY <1>1, UnclashedInvariance, PTL DEF ApartSpec, OnlyAvailableTakeOrders

\* "Cette réservation ne peut plus être annulée à ce stade": as long as requests do
\* not clash, no booking is cancelled once the washer has arrived
\* (NoLateCancellation); it takes an arrival between the reads and the write.
THEOREM CancelledInTime == ApartSpec => NoLateCancellation
<1>1. Unclashed /\ [Next /\ Apart']_vars =>
        [\A b \in Bookings :
            booking'[b].status = "CANCELLED" /\ booking[b].status # "CANCELLED"
               => booking[b].status \in {"PENDING", "ACCEPTED"}]_vars
  BY Journey DEF Unclashed, Journeys
<1> QED
  BY <1>1, UnclashedInvariance, PTL DEF ApartSpec, NoLateCancellation

\* "Le booking est ROUVERT en PENDING": as long as requests do not clash, a booking
\* without a washer is open or cancelled (WithoutWasherIsOpen); it takes an arrival
\* between the reads and the write of a withdrawal, or the reverse.
THEOREM OpenWithoutWasher == ApartSpec => []WithoutWasherIsOpen
<1>1. Init => WithoutWasherIsOpen
  BY DEF Init, WithoutWasherIsOpen, Live, FreshBooking
<1>2. Unclashed /\ WithoutWasherIsOpen /\ [Next /\ Apart']_vars
        => WithoutWasherIsOpen'
  BY Journey, NullIsNoId DEF Unclashed, Journeys, WithoutWasherIsOpen
<1> QED
  BY <1>1, <1>2, UnclashedInvariance, PTL DEF ApartSpec

\* "Vous ne pouvez pas vous déconnecter pendant une réservation en cours": as long
\* as requests do not clash and nobody calls updateAvailability or approveWasher,
\* a washer with a job is not OFFLINE (NotOfflineOnAJob).
THEOREM OnlineDuringAJob ==
  ASSUME Ops \cap {"updateAvailability", "approveWasher"} = {}
  PROVE  ApartSpec => []NotOfflineOnAJob
<1>1. OneJobPerBusyWasher => NotOfflineOnAJob
  BY DEF OneJobPerBusyWasher, NotOfflineOnAJob
<1> QED
  BY <1>1, OneJobAWasher, PTL

\* "Vous ne pouvez pas changer de statut pendant une réservation en cours": as long
\* as requests do not clash and no vehicle is removed, a BUSY washer has a booking
\* in progress (BusyHasABooking).
THEOREM BusyForABooking ==
  ASSUME "removeVehicle" \notin Ops PROVE ApartSpec => []BusyHasABooking
<1> DEFINE NoneRemoved == \A b \in Bookings : booking[b].row # "removed"
<1>1. Init => NoneRemoved
  BY DEF Init, FreshBooking
<1>2. Unclashed /\ NoneRemoved /\ [Next /\ Apart']_vars => NoneRemoved'
  <2> SUFFICES ASSUME IInv, ReadsStillSo, NoneRemoved, [Next]_vars,
                      NEW b \in Bookings
               PROVE  booking'[b].row # "removed"
    BY DEF Unclashed
  <2>1. ~ \E v \in Vehicles : RemoveVehicle(v)
    BY DEF RemoveVehicle
  <2>2. CASE \E s \in Slots : CreateInsert(s)
    BY <2>2, Created DEF Becomes
  <2>3. CASE \E s \in Slots : CancelWrite(s) \/ ConfirmWrite(s)
    BY <2>3, Cancelled, Confirmed DEF MovesOn, Becomes
  <2>4. CASE \E s \in Slots : ArriveWrite(s) \/ StartWrite(s) \/ CompleteWrite(s)
    BY <2>4, Worked DEF MovesOn, Becomes
  <2>5. CASE \E s \in Slots : ChooseWrite(s)
    BY <2>5, Chosen, ForeignKeys DEF Becomes
  <2>6. CASE \E s \in Slots : WithdrawWrite(s)
    BY <2>6, Withdrawn DEF Becomes
  <2>7. CASE \E s \in Slots, x \in Bookings : ExpireNext(s, x)
    BY <2>7, Expired DEF MovesOn, Becomes
  <2>8. CASE \E x \in Bookings : Lapse(x)
    BY <2>8, Lapsed DEF SameBooking
  <2>9. CASE booking' = booking
    BY <2>9
  <2> QED
    BY <2>1, <2>2, <2>3, <2>4, <2>5, <2>6, <2>7, <2>8, <2>9, StepKinds
       DEF tables, ProfileWriting, OfferInsert
<1>3. IInv /\ NoneRemoved /\ BusyOnlyOnAJob => BusyHasABooking
  <2> SUFFICES ASSUME IInv, NoneRemoved, NEW b \in Bookings,
                      booking[b].row # "unborn"
               PROVE  Live(b)
    BY DEF BusyOnlyOnAJob, BusyHasABooking
  <2>1. booking[b] \in BookingRow
    BY Rows
  <2> QED
    BY <2>1 DEF BookingRow, Live
<1> HIDE DEF NoneRemoved
<1>4. Unclashed => IInv
  BY DEF Unclashed
<1> QED
  BY <1>1, <1>2, <1>3, <1>4, UnclashedInvariance, BusyHasAJob, PTL DEF ApartSpec

\* A verified profile stays so while neither rejectWasher nor retryWasher is called,
\* and every offer, made or about to be, is of a verified washer.
Vetted ==
    /\ \A s \in Slots :
          /\ req[s].at \notin {"rejectWrite", "retryWrite"}
          /\ req[s].at \in {"offerBooking", "offerInsert"}
                => IsVerified(req[s].washer)
    /\ \A o \in Offers : LiveOffer(o) => IsVerified(WasherOf[o])

LEMMA VerifiedStays ==
  ASSUME IInv, Vetted, [Next]_vars, NEW w \in Washers, IsVerified(w)
  PROVE  IsVerified(w)'
<1> USE Rows DEF IsVerified, WasherRow
<1>1. ASSUME NEW x, NEW status, SetWasher(x, status) PROVE IsVerified(w)'
  BY <1>1 DEF SetWasher
<1>2. ASSUME NEW s \in Slots,
             \/ CancelWrite(s) \/ ConfirmWrite(s) \/ ChooseWrite(s)
             \/ WithdrawWrite(s)
      PROVE  IsVerified(w)'
  <2>1. CASE CancelWrite(s)
    BY <1>1, <2>1 DEF CancelWrite
  <2>2. CASE ConfirmWrite(s)
    BY <2>2 DEF ConfirmWrite, Credited
  <2>3. CASE ChooseWrite(s) \/ WithdrawWrite(s)
    BY <1>1, <2>3 DEF ChooseWrite, WithdrawWrite
  <2> QED
    BY <1>2, <2>1, <2>2, <2>3
<1>3. ASSUME NEW s \in Slots,
             OnlineWrite(s) \/ AvailabilityWrite(s) \/ ApproveWrite(s)
      PROVE  IsVerified(w)'
  <2>1. CASE OnlineWrite(s)
    BY <2>1 DEF OnlineWrite
  <2>2. CASE AvailabilityWrite(s)
    <3>1. ASSUME NEW stage, NEW status, SetAvailability(s, stage, status)
          PROVE  IsVerified(w)'
      BY <3>1 DEF SetAvailability
    <3> QED
      BY <2>2, <3>1 DEF AvailabilityWrite
  <2>3. CASE ApproveWrite(s)
    BY <2>3 DEF ApproveWrite
  <2> QED
    BY <1>3, <2>1, <2>2, <2>3
<1>4. ASSUME NEW s \in Slots, RejectWrite(s) \/ RetryWrite(s) PROVE FALSE
  BY <1>4 DEF RejectWrite, RetryWrite, DismissWrite, At, Vetted
<1>5. ASSUME NEW x \in Washers, UpdateLocation(x) PROVE IsVerified(w)'
  BY <1>5 DEF UpdateLocation
<1>6. ASSUME \/ \E s \in Slots :
                  \/ CreateInsert(s) \/ OfferInsert(s) \/ ArriveWrite(s)
                  \/ StartWrite(s) \/ CompleteWrite(s)
                  \/ \E b \in Bookings : ExpireNext(s, b)
             \/ \E v \in Vehicles : RemoveVehicle(v)
             \/ \E b \in Bookings : Lapse(b)
             \/ UNCHANGED tables
      PROVE  IsVerified(w)'
  BY <1>6 DEF CreateInsert, OfferInsert, ArriveWrite, StartWrite, CompleteWrite,
     ExpireNext, RemoveVehicle, Lapse, tables
<1> QED
  BY <1>2, <1>3, <1>4, <1>5, <1>6, StepWrites

\* Only makeOffer makes an offer.
LEMMA OfferMade ==
  ASSUME IInv, [Next]_vars, NEW o \in Offers, LiveOffer(o)'
  PROVE  LiveOffer(o) \/ \E s \in Slots : OfferInsert(s) /\ req[s].offer = o
<1> USE Rows DEF LiveOffer, OfferStatus
<1>1. ASSUME NEW s \in Slots, OfferInsert(s)
      PROVE  req[s].offer = o \/ offer'[o] = offer[o]
  BY <1>1 DEF OfferInsert
<1>2. ASSUME NEW s \in Slots, ChooseWrite(s) PROVE LiveOffer(o)
  BY <1>2 DEF ChooseWrite, StatusOnceChosen
<1>3. ASSUME NEW s \in Slots, WithdrawWrite(s) PROVE LiveOffer(o)
  BY <1>3 DEF WithdrawWrite
<1>4. ASSUME NEW s \in Slots, NEW b \in Bookings, ExpireNext(s, b)
      PROVE  LiveOffer(o)
  BY <1>4 DEF ExpireNext
<1>5. ASSUME NEW v \in Vehicles, RemoveVehicle(v) PROVE LiveOffer(o)
  BY <1>5 DEF RemoveVehicle
<1>6. ASSUME \/ \E s \in Slots :
                  \/ CreateInsert(s) \/ CancelWrite(s) \/ ConfirmWrite(s)
                  \/ ArriveWrite(s) \/ StartWrite(s) \/ CompleteWrite(s)
                  \/ OnlineWrite(s) \/ AvailabilityWrite(s)
                  \/ ApproveWrite(s) \/ RejectWrite(s) \/ RetryWrite(s)
             \/ \E w \in Washers : UpdateLocation(w)
             \/ \E b \in Bookings : Lapse(b)
             \/ UNCHANGED tables
      PROVE  offer' = offer
  BY <1>6 DEF CreateInsert, CancelWrite, ConfirmWrite, ArriveWrite, StartWrite,
     CompleteWrite, OnlineWrite, AvailabilityWrite, SetAvailability,
     ApproveWrite, RejectWrite, RetryWrite, DismissWrite, UpdateLocation, Lapse,
     tables
<1> QED
  BY <1>1, <1>2, <1>3, <1>4, <1>5, <1>6, StepWrites

\* Only chooseOffer gives a booking to a washer.
LEMMA BookingGiven ==
  ASSUME IInv, [Next]_vars, NEW b \in Bookings, NEW w \in Washers,
         booking'[b].washer = w, booking[b].washer # w
  PROVE  \E s \in Slots : ChooseWrite(s) /\ WasherOf[req[s].offer] = w
<1> DEFINE Given == \E s \in Slots : ChooseWrite(s) /\ WasherOf[req[s].offer] = w
<1> USE NullIsNoId
<1>0. booking \in [Bookings -> BookingRow] /\ booking[b] \in BookingRow
  BY Rows
<1>1. ASSUME NEW x, NEW row, booking' = [booking EXCEPT ![x] = row],
             row.washer \in {booking[x].washer, None}
      PROVE  FALSE
  BY <1>0, <1>1
<1>2. ASSUME NEW s \in Slots, NEW x, x = req[s].booking, x \in Bookings,
             \/ CreateInsert(s) \/ CancelWrite(s) \/ ConfirmWrite(s)
             \/ ArriveWrite(s) \/ StartWrite(s) \/ CompleteWrite(s)
             \/ WithdrawWrite(s)
      PROVE  FALSE
  <2> USE <1>0, <1>1 DEF BookingRow
  <2>1. booking[x] \in BookingRow
    BY <1>2
  <2>2. CASE CreateInsert(s)
    BY <1>2, <2>1, <2>2 DEF CreateInsert, FreshBooking
  <2>3. CASE CancelWrite(s)
    BY <1>2, <2>1, <2>3 DEF CancelWrite
  <2>4. CASE ConfirmWrite(s)
    BY <1>2, <2>1, <2>4 DEF ConfirmWrite, SetStatus
  <2>5. CASE ArriveWrite(s) \/ StartWrite(s) \/ CompleteWrite(s)
    <3>1. CASE ArriveWrite(s)
      BY <1>2, <2>1, <3>1 DEF ArriveWrite
    <3>2. CASE StartWrite(s)
      BY <1>2, <2>1, <3>2 DEF StartWrite
    <3>3. CASE CompleteWrite(s)
      BY <1>2, <2>1, <3>3 DEF CompleteWrite
    <3> QED
      BY <2>5, <3>1, <3>2, <3>3
  <2>6. CASE WithdrawWrite(s)
    BY <1>2, <2>1, <2>6 DEF WithdrawWrite, Reopened
  <2> QED
    BY <1>2, <2>2, <2>3, <2>4, <2>5, <2>6
<1>3. ASSUME NEW s \in Slots,
             \/ CreateInsert(s) \/ CancelWrite(s) \/ ConfirmWrite(s)
             \/ ArriveWrite(s) \/ StartWrite(s) \/ CompleteWrite(s)
             \/ WithdrawWrite(s)
      PROVE  FALSE
  <2>1. req[s].booking \in Bookings
    BY <1>3 DEF CreateInsert, CancelWrite, ConfirmWrite, ArriveWrite,
       StartWrite, CompleteWrite, WithdrawWrite, At, IInv, RequestsFit,
       RequestFits
  <2> QED
    BY <1>2, <1>3, <2>1
<1>4. ASSUME NEW s \in Slots, ChooseWrite(s) PROVE Given
  <2>1. req[s].booking \in Bookings
    BY <1>4, ForeignKeys DEF ForeignKeys, ChooseWrite, At, IInv, RequestsFit,
       RequestFits
  <2>2. Assigned(booking[req[s].booking], req[s].offer).washer =
           WasherOf[req[s].offer]
    BY <1>0, <2>1 DEF Assigned, BookingRow
  <2> QED
    BY <1>0, <1>4, <2>1, <2>2 DEF ChooseWrite
<1>5. ASSUME NEW s \in Slots, NEW x \in Bookings, ExpireNext(s, x) PROVE FALSE
  BY <1>0, <1>5 DEF ExpireNext, BookingRow
<1>6. ASSUME NEW v \in Vehicles, RemoveVehicle(v) PROVE FALSE
  BY <1>0, <1>6 DEF RemoveVehicle, BookingRow
<1>7. ASSUME NEW x \in Bookings, Lapse(x) PROVE FALSE
  BY <1>0, <1>7 DEF Lapse, BookingRow
<1>8. ASSUME \/ \E s \in Slots :
                  \/ OfferInsert(s) \/ OnlineWrite(s) \/ AvailabilityWrite(s)
                  \/ ApproveWrite(s) \/ RejectWrite(s) \/ RetryWrite(s)
             \/ \E x \in Washers : UpdateLocation(x)
             \/ UNCHANGED tables
      PROVE  FALSE
  BY <1>8 DEF OfferInsert, OnlineWrite, AvailabilityWrite, SetAvailability,
     ApproveWrite, RejectWrite, RetryWrite, DismissWrite, UpdateLocation, tables
<1> QED
  BY <1>3, <1>4, <1>5, <1>6, <1>7, <1>8, StepWrites

LEMMA VettedKept ==
  ASSUME IInv, Vetted, [Next]_vars, Ops \cap {"rejectWasher", "retryWasher"} = {}
  PROVE  Vetted'
<1> USE ForeignKeys DEF ForeignKeys
<1>1. ASSUME NEW t \in Slots, req'[t].at \in {"rejectWrite", "retryWrite"}
      PROVE  FALSE
  <2>1. \A w \in Washers : ~ RejectRead(t, w) /\ ~ RetryRead(t, w)
    BY DEF RejectRead, RetryRead, Begin
  <2>2. ASSUME NEW w \in Washers, AvailabilityRead(t, w) \/ ApproveRead(t, w)
        PROVE  FALSE
    BY <1>1, <2>2, Rows DEF AvailabilityRead, ApproveRead, Begin, Req
  <2>3. ASSUME NEW o \in Offers, OfferProfile(t, o) PROVE FALSE
    BY <1>1, <2>3, Rows DEF OfferProfile, Begin, Req
  <2>4. ~ ChooseOffer(t) /\ ~ OfferBooking(t)
    BY <1>1, Rows DEF ChooseOffer, OfferBooking, GoOn, Request
  <2> QED
    BY <1>1, <2>1, <2>2, <2>3, <2>4, RequestMoves DEF Vetted, Watched
\* A request that relies on a verified profile does so on one that stays verified.
<1>2. ASSUME NEW t \in Slots, req'[t].at \in {"offerBooking", "offerInsert"}
      PROVE  IsVerified(req[t].washer)'
  <2>0. ASSUME NEW w \in Washers, IsVerified(w), req'[t].washer = w
        PROVE  IsVerified(req[t].washer)'
    <3>1. IsVerified(w)'
      BY <2>0, VerifiedStays
    <3> QED
      BY <2>0, <3>1 DEF IsVerified
  <2>1. CASE req'[t] = req[t] \/ OfferBooking(t)
    <3>1. /\ req'[t].washer = req[t].washer
          /\ req[t].at \in {"offerBooking", "offerInsert"}
      BY <1>2, <2>1, Rows DEF OfferBooking, GoOn, Request, At
    <3>2. PICK w \in Washers : w = req[t].washer
      BY <3>1 DEF IInv, RequestsFit, RequestFits
    <3> QED
      BY <2>0, <3>1, <3>2 DEF Vetted
  <2>2. ASSUME NEW o \in Offers, OfferProfile(t, o)
        PROVE  IsVerified(req[t].washer)'
    <3>1. req'[t].washer = WasherOf[o] /\ IsVerified(WasherOf[o])
      BY <2>2, Rows DEF OfferProfile, Begin, Req
    <3> QED
      BY <2>0, <3>1
  <2>3. ASSUME NEW w \in Washers, \/ AvailabilityRead(t, w) \/ ApproveRead(t, w)
                                  \/ RejectRead(t, w) \/ RetryRead(t, w)
        PROVE  FALSE
    BY <1>2, <2>3, Rows DEF AvailabilityRead, ApproveRead, RejectRead, RetryRead,
       Begin, Req
  <2>4. ~ ChooseOffer(t)
    BY <1>2, Rows DEF ChooseOffer, GoOn, Request
  <2> QED
    BY <1>2, <2>1, <2>2, <2>3, <2>4, RequestMoves DEF Watched
<1>3. ASSUME NEW o \in Offers, LiveOffer(o)' PROVE IsVerified(WasherOf[o])'
  <2>1. CASE LiveOffer(o)
    BY <2>1, VerifiedStays DEF Vetted
  <2>2. ASSUME NEW s \in Slots, OfferInsert(s), req[s].offer = o
        PROVE  IsVerified(WasherOf[o])
    BY <2>2 DEF OfferInsert, At, Vetted, IInv, RequestsFit, RequestFits
  <2> QED
    BY <1>3, <2>1, <2>2, OfferMade, VerifiedStays
<1> QED
  BY <1>1, <1>2, <1>3 DEF Vetted

\* "Votre profil doit être vérifié avant de pouvoir prendre des commandes": however
\* requests overlap, as long as no verification is withdrawn a booking is given only
\* to a verified washer (OnlyVerifiedTakeOrders), although the verification is
\* looked at long before, when the offer is made.
THEOREM GivenToTheVerified ==
  ASSUME Ops \cap {"rejectWasher", "retryWasher"} = {}
  PROVE  Spec => OnlyVerifiedTakeOrders
<1>1. Init => Vetted
  BY DEF Init, Vetted, Idle, Req, LiveOffer, OfferStatus
<1>2. IInv /\ Vetted /\ [Next]_vars => Vetted'
  BY VettedKept
<1>3. IInv /\ Vetted /\ [Next]_vars =>
        [\A b \in Bookings, w \in Washers :
            booking'[b].washer = w /\ booking[b].washer # w
               => IsVerified(w)]_vars
  <2> SUFFICES ASSUME IInv, Vetted, [Next]_vars, NEW b \in Bookings,
                      NEW w \in Washers, booking'[b].washer = w,
                      booking[b].washer # w
               PROVE  IsVerified(w)
    OBVIOUS
  <2>1. PICK s \in Slots : ChooseWrite(s) /\ WasherOf[req[s].offer] = w
    BY BookingGiven
  <2> QED
    BY <2>1 DEF ChooseWrite, At, Vetted, IInv, RequestsFit, RequestFits
<1> QED
  BY <1>1, <1>2, <1>3, Invariance, PTL DEF Spec, OnlyVerifiedTakeOrders
=============================================================================
