---------------------------- MODULE Marketplace ----------------------------
(***************************************************************************)
(* The marketplace: bookings, the offers of the washers on them, the       *)
(* availability and the verification of the washers, and the removal of    *)
(* vehicles, as the services of src/src read and write them.               *)
(*                                                                         *)
(* A NestJS handler awaits each of its queries, so another request can run *)
(* between two of them.  A handler is therefore a request that lives in a  *)
(* slot: its first action reads and checks, later actions read more, its   *)
(* last action is the write.  One query, and one $transaction of writes,   *)
(* is one action.  The read and the write of an interactive transaction    *)
(* are two actions: under PostgreSQL's default Read Committed isolation a  *)
(* plain SELECT holds nothing that would stop another writer.              *)
(*                                                                         *)
(* What follows a handler's last write (cache invalidation, notifications) *)
(* changes no table of this module and is left out.  Ids are never reused: *)
(* the constants below are pools of ids, each with the foreign keys its    *)
(* row will have, and a row enters its table at most once.                 *)
(***************************************************************************)
EXTENDS Naturals, FiniteSets

CONSTANTS
    Clients,     \* users of role CLIENT
    Vehicles,    \* ids of vehicles
    Bookings,    \* ids of bookings
    Washers,     \* ids of washer profiles
    Offers,      \* ids of offers; an id also stands for the price proposed
    OwnerOf,     \* vehicle |-> Vehicle.userId
    VehicleOf,   \* booking |-> Booking.vehicleId
    BookingOf,   \* offer   |-> WasherOffer.bookingId
    WasherOf,    \* offer   |-> WasherOffer.washerId
    Approved,    \* the washers an administrator approved beforehand
    Slots,       \* requests that can be in flight at the same time
    Ops,         \* the operations that are called
    None         \* the database's NULL

Endpoints == {"create", "cancelByClient", "confirmCompletion", "chooseOffer",
              "makeOffer", "markArrived", "startWash", "completeWash",
              "cancelByWasher", "goOnline", "updateLocation",
              "updateAvailability", "approveWasher", "rejectWasher",
              "retryWasher", "removeVehicle", "expireStaleBookings"}

ASSUME ForeignKeys == /\ OwnerOf \in [Vehicles -> Clients]
                      /\ VehicleOf \in [Bookings -> Vehicles]
                      /\ BookingOf \in [Offers -> Bookings]
                      /\ WasherOf \in [Offers -> Washers]
ASSUME NullIsNoId == None \notin Bookings \cup Washers \cup Offers
ASSUME Environment == Approved \subseteq Washers /\ Ops \subseteq Endpoints

VARIABLES
    vehicles,    \* the rows of Vehicle
    booking,     \* the rows of Booking; a removed row keeps its last values
    offer,       \* the rows of WasherOffer: their status, or that there is none
    washer,      \* the rows of WasherProfile
    req          \* the request each slot is working on

vars == <<vehicles, booking, offer, washer, req>>
tables == <<vehicles, booking, offer, washer>>

-----------------------------------------------------------------------------
(***************************************************************************)
(* Tables.  acceptedAt is written exactly where washerId is, so it is not  *)
(* kept; arrivedAt, startedAt and completedAt are whether they are set;    *)
(* lapsed is whether expiresAt has passed; price is None for the suggested *)
(* price and the offer whose proposedPriceMAD was copied otherwise.        *)
(***************************************************************************)
BookingStatus == {"PENDING", "ACCEPTED", "ARRIVED", "IN_PROGRESS",
                  "AWAITING_CLIENT_CONFIRMATION", "COMPLETED", "CANCELLED"}
ActiveStatuses == BookingStatus \ {"COMPLETED", "CANCELLED"}
JobStatuses == ActiveStatuses \ {"PENDING"}
CancellationActor == {"CLIENT", "WASHER", "SYSTEM"}
OfferStatus == {"PENDING", "ACCEPTED", "REJECTED", "EXPIRED"}
WasherStatus == {"OFFLINE", "AVAILABLE", "BUSY"}
VerificationStatus == {"PENDING", "APPROVED", "REJECTED", "RETRY"}

BookingRow == [row: {"unborn", "live", "removed"}, status: BookingStatus,
               washer: Washers \cup {None}, price: Offers \cup {None},
               lapsed: BOOLEAN, arrived: BOOLEAN, started: BOOLEAN,
               completed: BOOLEAN, cancelledBy: CancellationActor \cup {None}]

\* isVerified is TRUE exactly when verificationStatus is APPROVED: every
\* writer sets both.
WasherRow == [status: WasherStatus, verification: VerificationStatus,
              located: BOOLEAN, total: Nat]

FreshBooking == [row |-> "unborn", status |-> "PENDING", washer |-> None,
                 price |-> None, lapsed |-> FALSE, arrived |-> FALSE,
                 started |-> FALSE, completed |-> FALSE, cancelledBy |-> None]

ClientOf(b) == OwnerOf[VehicleOf[b]]
Live(b) == booking[b].row = "live"
LiveOffer(o) == offer[o] \in OfferStatus
Active(b) == Live(b) /\ booking[b].status \in ActiveStatuses
IsVerified(w) == washer[w].verification = "APPROVED"

(***************************************************************************)
(* Requests.  at is the query the handler awaits next; the other fields    *)
(* are the locals it still needs.                                          *)
(***************************************************************************)
Stages == {"createInsert", "cancelWrite", "confirmWrite", "offerBooking",
           "offerInsert", "chooseOffer", "chooseWrite", "arriveWrite",
           "startWrite", "completeWrite", "withdrawWrite", "onlineWrite",
           "availableWrite", "offlineWrite", "approveWrite", "rejectWrite",
           "retryWrite", "expireNext"}

Request == [at: Stages \cup {"idle"}, booking: Bookings \cup {None},
            washer: Washers \cup {None}, offer: Offers \cup {None},
            todo: SUBSET Bookings]

Req(at, b, w, o) ==
    [at |-> at, booking |-> b, washer |-> w, offer |-> o, todo |-> {}]
Idle == Req("idle", None, None, None)

At(s, stage) == req[s].at = stage

\* A request of op arrives on a free slot, does its first read and goes on as r.
Begin(s, op, r) == /\ op \in Ops
                   /\ At(s, "idle")
                   /\ req' = [req EXCEPT ![s] = r]
                   /\ UNCHANGED tables

GoOn(s, stage) == /\ req' = [req EXCEPT ![s].at = stage]
                  /\ UNCHANGED tables

End(s) == req' = [req EXCEPT ![s] = Idle]

SetWasher(w, status) == washer' = [washer EXCEPT ![w].status = status]
SetStatus(b, status) == booking' = [booking EXCEPT ![b].status = status]

Init == /\ vehicles = Vehicles
        /\ booking = [b \in Bookings |-> FreshBooking]
        /\ offer = [o \in Offers |-> "unborn"]
        /\ washer = [w \in Washers |->
                       [status |-> "OFFLINE",
                        verification |-> IF w \in Approved THEN "APPROVED"
                                                           ELSE "PENDING",
                        located |-> FALSE, total |-> 0]]
        /\ req = [s \in Slots |-> Idle]
-----------------------------------------------------------------------------
(***************************************************************************)
(* BookingsService: the client creates, cancels and confirms.              *)
(***************************************************************************)
\* Seeded fault: only a booking still open counts as one in progress.
BugHasOpenBooking(c) ==
    \E b \in Bookings : /\ Live(b) /\ booking[b].status = "PENDING"
                        /\ ClientOf(b) = c

HasActiveBooking(c) == \E b \in Bookings : Active(b) /\ ClientOf(b) = c

CreateCheck(s, b) ==
    /\ booking[b].row = "unborn"
    /\ \A t \in Slots : req[t].booking # b
    /\ VehicleOf[b] \in vehicles
    /\ ~ HasActiveBooking(ClientOf(b))
    /\ Begin(s, "create", Req("createInsert", b, None, None))

\* The insert fails on its foreign key when the vehicle is gone by now.
CreateInsert(s) ==
    LET b == req[s].booking IN
    /\ At(s, "createInsert")
    /\ booking[b].row = "unborn"
    /\ VehicleOf[b] \in vehicles
    /\ booking' = [booking EXCEPT ![b] = [FreshBooking EXCEPT !.row = "live"]]
    /\ End(s)
    /\ UNCHANGED <<vehicles, offer, washer>>

\* Seeded fault: whatever is not over can be cancelled.
BugCancellable(b) == booking[b].status \in ActiveStatuses

Cancellable(b) == booking[b].status \in {"PENDING", "ACCEPTED"}

CancelRead(s, b) ==
    /\ Live(b)
    /\ Cancellable(b)
    /\ Begin(s, "cancelByClient",
             Req("cancelWrite", b, booking[b].washer, None))

\* The washer set free is the one read before the transaction.
CancelWrite(s) ==
    LET b == req[s].booking
        w == req[s].washer
    IN
    /\ At(s, "cancelWrite")
    /\ Live(b)
    /\ booking' = [booking EXCEPT ![b] =
                    [@ EXCEPT !.status = "CANCELLED",
                              !.cancelledBy = "CLIENT"]]
    /\ IF w = None THEN UNCHANGED washer ELSE SetWasher(w, "AVAILABLE")
    /\ End(s)
    /\ UNCHANGED <<vehicles, offer>>

ConfirmRead(s, b) ==
    /\ Live(b)
    /\ booking[b].status = "AWAITING_CLIENT_CONFIRMATION"
    /\ booking[b].washer # None
    /\ Begin(s, "confirmCompletion",
             Req("confirmWrite", b, booking[b].washer, None))

\* Seeded faults: the counter goes the wrong way; the washer is not set free.
BugDiscounted(row) ==
    [row EXCEPT !.status = "AVAILABLE", !.total = row.total - 1]
BugKeptBusy(row) == [row EXCEPT !.total = row.total + 1]

Credited(row) == [row EXCEPT !.status = "AVAILABLE", !.total = row.total + 1]

ConfirmWrite(s) ==
    LET b == req[s].booking
        w == req[s].washer
    IN
    /\ At(s, "confirmWrite")
    /\ Live(b)
    /\ SetStatus(b, "COMPLETED")
    /\ washer' = [washer EXCEPT ![w] = Credited(washer[w])]
    /\ End(s)
    /\ UNCHANGED <<vehicles, offer>>
-----------------------------------------------------------------------------
(***************************************************************************)
(* OffersService: a washer makes an offer, the client chooses one, and     *)
(* bookings nobody chose in time are closed.                               *)
(***************************************************************************)
OfferProfile(s, o) ==
    LET w == WasherOf[o] IN
    /\ offer[o] = "unborn"
    /\ \A t \in Slots : req[t].offer # o
    /\ IsVerified(w)
    /\ washer[w].status # "OFFLINE"
    /\ washer[w].located
    /\ Begin(s, "makeOffer", Req("offerBooking", BookingOf[o], w, o))

Choosable(b) == Live(b) /\ booking[b].status = "PENDING" /\ ~ booking[b].lapsed

OfferBooking(s) ==
    /\ At(s, "offerBooking")
    /\ Choosable(req[s].booking)
    /\ GoOn(s, "offerInsert")

\* The look-up of an existing offer, the unique index behind it and the
\* foreign key all refuse here.
OfferInsert(s) ==
    LET o == req[s].offer IN
    /\ At(s, "offerInsert")
    /\ offer[o] = "unborn"
    /\ Live(BookingOf[o])
    /\ ~ \E other \in Offers : /\ LiveOffer(other)
                               /\ BookingOf[other] = BookingOf[o]
                               /\ WasherOf[other] = WasherOf[o]
    /\ offer' = [offer EXCEPT ![o] = "PENDING"]
    /\ End(s)
    /\ UNCHANGED <<vehicles, booking, washer>>

\* The client names an offer it has seen on a booking of its own.
ChooseBooking(s, o) ==
    /\ offer[o] # "unborn"
    /\ Choosable(BookingOf[o])
    /\ Begin(s, "chooseOffer", Req("chooseOffer", BookingOf[o], WasherOf[o], o))

\* Seeded fault: a washer who is busy can be chosen.
BugFree(w) == washer[w].status # "OFFLINE"

Free(w) == washer[w].status = "AVAILABLE"

ChooseOffer(s) ==
    /\ At(s, "chooseOffer")
    /\ offer[req[s].offer] = "PENDING"
    /\ Free(req[s].washer)
    /\ GoOn(s, "chooseWrite")

\* Seeded faults: the chosen offer is rejected with the others; the others stay.
BugRejectsAll(x, o) ==
    IF BookingOf[x] = BookingOf[o] /\ offer[x] \in {"PENDING", "ACCEPTED"}
    THEN "REJECTED" ELSE offer[x]
BugRejectsNone(x, o) == IF x = o THEN "ACCEPTED" ELSE offer[x]

\* The status of offer x once o is chosen.
StatusOnceChosen(x, o) ==
    IF x = o THEN "ACCEPTED"
    ELSE IF BookingOf[x] = BookingOf[o] /\ offer[x] = "PENDING"
         THEN "REJECTED" ELSE offer[x]

\* Seeded fault: the price stays the suggested one.
BugAssigned(row, o) == [row EXCEPT !.status = "ACCEPTED", !.washer = WasherOf[o]]

Assigned(row, o) == [row EXCEPT !.status = "ACCEPTED",
                                !.washer = WasherOf[o],
                                !.price = o]

\* A batch: when the offer or the booking is gone, nothing is written.
ChooseWrite(s) ==
    LET o == req[s].offer
        b == req[s].booking
    IN
    /\ At(s, "chooseWrite")
    /\ LiveOffer(o)
    /\ Live(b)
    /\ offer' = [x \in Offers |-> StatusOnceChosen(x, o)]
    /\ booking' = [booking EXCEPT ![b] = Assigned(booking[b], o)]
    /\ SetWasher(WasherOf[o], "BUSY")
    /\ End(s)
    /\ UNCHANGED vehicles

ExpireList(s) ==
    LET expired == {b \in Bookings : /\ Live(b)
                                     /\ booking[b].status = "PENDING"
                                     /\ booking[b].lapsed}
    IN
    /\ expired # {}
    /\ Begin(s, "expireStaleBookings",
             [Idle EXCEPT !.at = "expireNext", !.todo = expired])

\* One transaction per booking of the list, whatever became of the booking.
ExpireNext(s, b) ==
    LET left == req[s].todo \ {b} IN
    /\ At(s, "expireNext")
    /\ b \in req[s].todo
    /\ Live(b)
    /\ booking' = [booking EXCEPT ![b] =
                    [@ EXCEPT !.status = "CANCELLED",
                              !.cancelledBy = "SYSTEM"]]
    /\ offer' = [x \in Offers |->
                   IF BookingOf[x] = b /\ offer[x] = "PENDING"
                   THEN "EXPIRED" ELSE offer[x]]
    /\ IF left = {} THEN End(s) ELSE req' = [req EXCEPT ![s].todo = left]
    /\ UNCHANGED <<vehicles, washer>>
-----------------------------------------------------------------------------
(***************************************************************************)
(* WasherService: the washer works on its booking, or gives it back.       *)
(***************************************************************************)
WasherRead(s, b, op, from, stage) ==
    /\ Live(b)
    /\ booking[b].washer # None
    /\ booking[b].status = from
    /\ Begin(s, op, Req(stage, b, booking[b].washer, None))

ArriveRead(s, b) == WasherRead(s, b, "markArrived", "ACCEPTED", "arriveWrite")
\* Seeded fault: the wash starts before the arrival is marked.
BugStartRead(s, b) == WasherRead(s, b, "startWash", "ACCEPTED", "startWrite")
StartRead(s, b) == WasherRead(s, b, "startWash", "ARRIVED", "startWrite")
\* Seeded fault: the wash is completed before it starts.
BugCompleteRead(s, b) ==
    WasherRead(s, b, "completeWash", "ARRIVED", "completeWrite")
CompleteRead(s, b) ==
    WasherRead(s, b, "completeWash", "IN_PROGRESS", "completeWrite")
WithdrawRead(s, b) ==
    WasherRead(s, b, "cancelByWasher", "ACCEPTED", "withdrawWrite")

ArriveWrite(s) ==
    LET b == req[s].booking IN
    /\ At(s, "arriveWrite")
    /\ Live(b)
    /\ booking' = [booking EXCEPT ![b] =
                    [@ EXCEPT !.status = "ARRIVED", !.arrived = TRUE]]
    /\ End(s)
    /\ UNCHANGED <<vehicles, offer, washer>>

StartWrite(s) ==
    LET b == req[s].booking IN
    /\ At(s, "startWrite")
    /\ Live(b)
    /\ booking' = [booking EXCEPT ![b] =
                    [@ EXCEPT !.status = "IN_PROGRESS", !.started = TRUE]]
    /\ End(s)
    /\ UNCHANGED <<vehicles, offer, washer>>

CompleteWrite(s) ==
    LET b == req[s].booking IN
    /\ At(s, "completeWrite")
    /\ Live(b)
    /\ booking' = [booking EXCEPT ![b] =
                    [@ EXCEPT !.status = "AWAITING_CLIENT_CONFIRMATION",
                              !.completed = TRUE]]
    /\ End(s)
    /\ UNCHANGED <<vehicles, offer, washer>>

\* Seeded faults: washerId is not cleared; arrivedAt is.
BugKeepsWasher(row) == [row EXCEPT !.status = "PENDING",
                                   !.cancelledBy = "WASHER", !.lapsed = FALSE]
BugForgetsArrival(row) ==
    [row EXCEPT !.status = "PENDING", !.washer = None,
                !.cancelledBy = "WASHER", !.lapsed = FALSE, !.arrived = FALSE]

Reopened(row) == [row EXCEPT !.status = "PENDING",
                             !.washer = None,
                             !.cancelledBy = "WASHER",
                             !.lapsed = FALSE]

\* The booking is open again for a new delay, every offer on it is deleted;
\* the price of the offer that was chosen stays.
WithdrawWrite(s) ==
    LET b == req[s].booking IN
    /\ At(s, "withdrawWrite")
    /\ Live(b)
    /\ booking' = [booking EXCEPT ![b] = Reopened(booking[b])]
    /\ offer' = [x \in Offers |->
                   IF BookingOf[x] = b /\ LiveOffer(x) THEN "deleted"
                                                       ELSE offer[x]]
    /\ SetWasher(req[s].washer, "AVAILABLE")
    /\ End(s)
    /\ UNCHANGED vehicles
-----------------------------------------------------------------------------
(***************************************************************************)
(* WasherService: availability and position.  The estimated time of        *)
(* arrival updateLocation recomputes is only displayed, and left out.      *)
(***************************************************************************)
\* Seeded fault: a busy washer may go online.
BugOnlineRead(s, w) ==
    /\ IsVerified(w)
    /\ Begin(s, "goOnline", Req("onlineWrite", None, w, None))

OnlineRead(s, w) ==
    /\ IsVerified(w)
    /\ washer[w].status # "BUSY"
    /\ Begin(s, "goOnline", Req("onlineWrite", None, w, None))

OnlineWrite(s) ==
    /\ At(s, "onlineWrite")
    /\ washer' = [washer EXCEPT ![req[s].washer] =
                    [@ EXCEPT !.status = "AVAILABLE", !.located = TRUE]]
    /\ End(s)
    /\ UNCHANGED <<vehicles, booking, offer>>

UpdateLocation(w) ==
    /\ "updateLocation" \in Ops
    /\ washer' = [washer EXCEPT ![w].located = TRUE]
    /\ UNCHANGED <<vehicles, booking, offer, req>>

\* Only going offline is refused to a busy washer.
AvailabilityRead(s, w) ==
    /\ IsVerified(w)
    /\ \/ Begin(s, "updateAvailability", Req("availableWrite", None, w, None))
       \/ /\ washer[w].status # "BUSY"
          /\ Begin(s, "updateAvailability", Req("offlineWrite", None, w, None))

\* The position is optional.
SetAvailability(s, stage, status) ==
    LET w == req[s].washer IN
    /\ At(s, stage)
    /\ \E located \in {washer[w].located, TRUE} :
          washer' = [washer EXCEPT ![w] = [@ EXCEPT !.status = status,
                                                    !.located = located]]
    /\ End(s)
    /\ UNCHANGED <<vehicles, booking, offer>>

AvailabilityWrite(s) == \/ SetAvailability(s, "availableWrite", "AVAILABLE")
                        \/ SetAvailability(s, "offlineWrite", "OFFLINE")
-----------------------------------------------------------------------------
(***************************************************************************)
(* AdminService verifies the washers; VehiclesService removes a vehicle.   *)
(***************************************************************************)
ApproveRead(s, w) ==
    /\ ~ IsVerified(w)
    /\ Begin(s, "approveWasher", Req("approveWrite", None, w, None))

ApproveWrite(s) ==
    LET w == req[s].washer IN
    /\ At(s, "approveWrite")
    /\ washer' = [washer EXCEPT ![w] =
                    [@ EXCEPT !.verification = "APPROVED",
                              !.status = "OFFLINE"]]
    /\ End(s)
    /\ UNCHANGED <<vehicles, booking, offer>>

RejectRead(s, w) ==
    /\ washer[w].verification # "REJECTED"
    /\ Begin(s, "rejectWasher", Req("rejectWrite", None, w, None))

RetryRead(s, w) ==
    /\ washer[w].verification # "REJECTED"
    /\ Begin(s, "retryWasher", Req("retryWrite", None, w, None))

\* Seeded fault: who is dismissed is also disconnected, and may be about to be
\* chosen.
BugDismissWrite(s, stage, verification) ==
    /\ At(s, stage)
    /\ washer' = [washer EXCEPT ![req[s].washer] =
                    [@ EXCEPT !.verification = verification,
                              !.status = "OFFLINE"]]
    /\ End(s)
    /\ UNCHANGED <<vehicles, booking, offer>>

DismissWrite(s, stage, verification) ==
    /\ At(s, stage)
    /\ washer' = [washer EXCEPT ![req[s].washer].verification = verification]
    /\ End(s)
    /\ UNCHANGED <<vehicles, booking, offer>>

RejectWrite(s) == DismissWrite(s, "rejectWrite", "REJECTED")
RetryWrite(s) == DismissWrite(s, "retryWrite", "RETRY")

\* The delete cascades to the bookings of the vehicle and to their offers;
\* the profiles of the washers stay as they are.
RemoveVehicle(v) ==
    /\ "removeVehicle" \in Ops
    /\ v \in vehicles
    /\ vehicles' = vehicles \ {v}
    /\ booking' = [b \in Bookings |->
                     IF VehicleOf[b] = v /\ Live(b)
                     THEN [booking[b] EXCEPT !.row = "removed"]
                     ELSE booking[b]]
    /\ offer' = [x \in Offers |->
                   IF VehicleOf[BookingOf[x]] = v /\ LiveOffer(x)
                   THEN "deleted" ELSE offer[x]]
    /\ UNCHANGED <<washer, req>>
-----------------------------------------------------------------------------
\* Time passes expiresAt.  Nothing reads it unless the booking is PENDING, and
\* what makes a booking PENDING again sets it anew.
Lapse(b) ==
    /\ Choosable(b)
    /\ booking' = [booking EXCEPT ![b].lapsed = TRUE]
    /\ UNCHANGED <<vehicles, offer, washer, req>>

\* A request ends without writing any more: a check throws, the row is gone, a
\* constraint or the database refuses, or the process dies.
Abort(s) ==
    /\ ~ At(s, "idle")
    /\ End(s)
    /\ UNCHANGED tables

ClientStep(s) == \/ \E b \in Bookings : \/ CreateCheck(s, b)
                                        \/ CancelRead(s, b)
                                        \/ ConfirmRead(s, b)
                 \/ \E o \in Offers : ChooseBooking(s, o)
                 \/ CreateInsert(s)
                 \/ CancelWrite(s)
                 \/ ConfirmWrite(s)
                 \/ ChooseOffer(s)
                 \/ ChooseWrite(s)

WasherStep(s) == \/ \E b \in Bookings : \/ ArriveRead(s, b)
                                        \/ StartRead(s, b)
                                        \/ CompleteRead(s, b)
                                        \/ WithdrawRead(s, b)
                 \/ \E o \in Offers : OfferProfile(s, o)
                 \/ \E w \in Washers : OnlineRead(s, w) \/ AvailabilityRead(s, w)
                 \/ OfferBooking(s)
                 \/ OfferInsert(s)
                 \/ ArriveWrite(s)
                 \/ StartWrite(s)
                 \/ CompleteWrite(s)
                 \/ WithdrawWrite(s)
                 \/ OnlineWrite(s)
                 \/ AvailabilityWrite(s)

AdminStep(s) == \/ \E w \in Washers : \/ ApproveRead(s, w)
                                      \/ RejectRead(s, w)
                                      \/ RetryRead(s, w)
                \/ ApproveWrite(s)
                \/ RejectWrite(s)
                \/ RetryWrite(s)

ExpireStep(s) == ExpireList(s) \/ \E b \in Bookings : ExpireNext(s, b)

Next == \/ \E s \in Slots : \/ ClientStep(s)
                            \/ WasherStep(s)
                            \/ AdminStep(s)
                            \/ ExpireStep(s)
                            \/ Abort(s)
        \/ \E w \in Washers : UpdateLocation(w)
        \/ \E v \in Vehicles : RemoveVehicle(v)
        \/ \E b \in Bookings : Lapse(b)

Spec == Init /\ [][Next]_vars
-----------------------------------------------------------------------------
(***************************************************************************)
(* What holds however requests overlap.                                    *)
(***************************************************************************)

\* Every table and every request in flight has the shape the schema and the
\* handlers give it.
TypeOK == /\ vehicles \subseteq Vehicles
          /\ booking \in [Bookings -> BookingRow]
          /\ offer \in [Offers -> OfferStatus \cup {"unborn", "deleted"}]
          /\ washer \in [Washers -> WasherRow]
          /\ req \in [Slots -> Request]

\* A booking never carries a washer without the offer that won: the offer exists,
\* is that washer's, on that booking, ACCEPTED, and its price is the booking's.
\* The update of chooseOffer is unconditional, so a second choice, a withdrawal
\* or a removal can come between its reads and its write.
AssignmentBacked ==
    \A b \in Bookings : Live(b) /\ booking[b].washer # None =>
        /\ booking[b].price \in Offers
        /\ BookingOf[booking[b].price] = b
        /\ WasherOf[booking[b].price] = booking[b].washer
        /\ offer[booking[b].price] = "ACCEPTED"

\* An open booking has no washer and no winning offer, so it can really be taken
\* by another washer; an accepted one has a washer who can arrive.  Stale writes
\* of the two sides may interleave in any order.
OpenXorAssigned ==
    \A b \in Bookings : Live(b) =>
        /\ booking[b].status = "PENDING" =>
             /\ booking[b].washer = None
             /\ \A o \in Offers : BookingOf[o] = b => offer[o] # "ACCEPTED"
        /\ booking[b].status = "ACCEPTED" => booking[b].washer # None

\* The status never runs ahead of the timestamps, and the timestamps are set in
\* order: nobody completes a wash that was not started, nor starts one before
\* arriving, even when a stale markArrived or startWash writes late.
MilestonesInOrder ==
    \A b \in Bookings :
        /\ booking[b].status = "ARRIVED" => booking[b].arrived
        /\ booking[b].status = "IN_PROGRESS" => booking[b].started
        /\ booking[b].status \in {"AWAITING_CLIENT_CONFIRMATION", "COMPLETED"}
             => booking[b].completed
        /\ booking[b].completed => booking[b].started
        /\ booking[b].started => booking[b].arrived

PriceAgreed(b) ==
    booking[b].price \in Offers /\ BookingOf[booking[b].price] = b

\* Work is done only at a price some washer offered on this very booking and the
\* client chose, never at the price getPriceForBooking suggested.
PriceAgreedBeforeWork ==
    \A b \in Bookings : booking[b].arrived => PriceAgreed(b)

(***************************************************************************)
(* The strengthening that makes them inductive: what a request in flight   *)
(* may still rely on when it writes, and that a row not inserted yet has   *)
(* left no trace.                                                          *)
(***************************************************************************)
RequestFits(r) ==
    /\ r.at \in {"createInsert", "cancelWrite", "confirmWrite", "arriveWrite",
                 "startWrite", "completeWrite", "withdrawWrite"}
          => r.booking \in Bookings
    /\ r.at \in {"confirmWrite", "withdrawWrite", "onlineWrite",
                 "availableWrite", "offlineWrite", "approveWrite",
                 "rejectWrite", "retryWrite"}
          => r.washer \in Washers
    /\ r.at \in {"offerBooking", "offerInsert", "chooseOffer", "chooseWrite"}
          => /\ r.offer \in Offers
             /\ r.booking = BookingOf[r.offer]
             /\ r.washer = WasherOf[r.offer]
    /\ r.at = "arriveWrite" => PriceAgreed(r.booking)
    /\ r.at = "startWrite" => booking[r.booking].arrived
    /\ r.at = "completeWrite" => booking[r.booking].started
    /\ r.at = "confirmWrite" => booking[r.booking].completed

RequestsFit == \A s \in Slots : RequestFits(req[s])

UnbornIsBlank ==
    \A b \in Bookings : booking[b].row = "unborn" =>
        /\ booking[b] = FreshBooking
        /\ \A o \in Offers : BookingOf[o] = b => ~ LiveOffer(o)

\* Every conjunct above together with what lets each action preserve them.
IInv == /\ TypeOK
        /\ RequestsFit
        /\ UnbornIsBlank
        /\ AssignmentBacked
        /\ OpenXorAssigned
        /\ MilestonesInOrder
        /\ PriceAgreedBeforeWork

\* Once the work has begun the price can move only to another offer on the same
\* booking, and no milestone is taken back by a late write.
MilestonesKept ==
    [][\A b \in Bookings :
          /\ booking[b].arrived => booking'[b].arrived
          /\ booking[b].started => booking'[b].started
          /\ booking[b].completed => booking'[b].completed
          /\ booking[b].price # None => booking'[b].price # None]_vars
-----------------------------------------------------------------------------
(***************************************************************************)
(* What holds when requests overlap and do not clash.  Three clashes are   *)
(* left out, and a row lock taken with the read would prevent each: of the *)
(* client in create, of the booking in whatever moves its status or adds   *)
(* an offer, of the profile in chooseOffer and in what sets availability.  *)
(* The code takes none; what each clash does to it is in the last section. *)
(***************************************************************************)
\* The stages of the requests that rely on the status of a booking and move it.
Moving == {"cancelWrite", "confirmWrite", "chooseOffer", "chooseWrite",
           "arriveWrite", "startWrite", "completeWrite", "withdrawWrite",
           "expireNext"}

Concerned(r) == IF r.at = "expireNext" THEN r.todo ELSE {r.booking}

\* Request r relies on what request q may write.
Clash(r, q) ==
    \/ /\ r.at = "createInsert" /\ q.at = "createInsert"
       /\ ClientOf(r.booking) = ClientOf(q.booking)
    \/ /\ r.at \in Moving \cup {"offerInsert"} /\ q.at \in Moving
       /\ Concerned(r) \cap Concerned(q) # {}
    \/ /\ r.at = "chooseWrite"
       /\ q.at \in {"chooseWrite", "onlineWrite", "offlineWrite",
                    "approveWrite"}
       /\ r.washer = q.washer

Apart == \A s, t \in Slots : s # t => ~ Clash(req[s], req[t])

\* The same handlers, none of which reads while another one clashes with it.
ApartSpec == Init /\ [][Next /\ Apart']_vars

\* What the writes of bookings and of availability rest on, of what a request in
\* flight has read, and is still so; a booking may be gone.  These are not all the
\* checks of the handlers: ChecksHold has the others.
StillSo(r) ==
    LET b == r.booking IN
    /\ r.at \in Moving \cup {"offerInsert"} =>
          \A x \in Concerned(r) : booking[x].row # "unborn"
    /\ r.at = "createInsert" => ~ HasActiveBooking(ClientOf(b))
    /\ r.at = "cancelWrite" /\ Live(b) =>
          Cancellable(b) /\ booking[b].washer = r.washer
    /\ r.at = "confirmWrite" /\ Live(b) =>
          /\ booking[b].status = "AWAITING_CLIENT_CONFIRMATION"
          /\ booking[b].washer = r.washer
    /\ r.at \in {"offerInsert", "chooseOffer", "chooseWrite"} /\ Live(b) =>
          booking[b].status = "PENDING"
    /\ r.at = "chooseWrite" => washer[r.washer].status = "AVAILABLE"
    /\ r.at = "arriveWrite" /\ Live(b) => booking[b].status = "ACCEPTED"
    /\ r.at = "startWrite" /\ Live(b) => booking[b].status = "ARRIVED"
    /\ r.at = "completeWrite" /\ Live(b) => booking[b].status = "IN_PROGRESS"
    /\ r.at = "withdrawWrite" /\ Live(b) =>
          booking[b].status = "ACCEPTED" /\ booking[b].washer = r.washer
    /\ r.at \in {"onlineWrite", "offlineWrite"} =>
          washer[r.washer].status # "BUSY"
    /\ r.at = "expireNext" =>
          \A x \in r.todo : Live(x) => booking[x].status = "PENDING"

ReadsStillSo == \A s \in Slots : StillSo(req[s])

(***************************************************************************)
(* The other checks are about a profile, and about fields that only some   *)
(* writers move.  Two requests about one profile clash when one of them    *)
(* checked what the other is about to change.                              *)
(***************************************************************************)
\* The stages that follow a check of isVerified.
Vetting == {"offerBooking", "offerInsert", "onlineWrite", "availableWrite",
            "offlineWrite"}
Offering == {"offerBooking", "offerInsert"}
Dismissing == {"rejectWrite", "retryWrite"}

ProfileClash(r, q) ==
    /\ r.washer = q.washer
    /\ \/ r.at \in Vetting /\ q.at \in Dismissing
       \/ r.at \in Offering /\ q.at \in {"offlineWrite", "approveWrite"}
       \/ r.at = "approveWrite" /\ q.at = "approveWrite"
       \/ r.at \in Dismissing /\ q.at = "rejectWrite"

ProfilesApart ==
    \A s, t \in Slots : s # t => ~ ProfileClash(req[s], req[t])

\* The handlers of ApartSpec, of which no two clash over a profile either.
FullyApartSpec == Init /\ [][Next /\ Apart' /\ ProfilesApart']_vars

\* What else the handlers check: isVerified in makeOffer, goOnline and
\* updateAvailability, OFFLINE and the position in makeOffer, verificationStatus
\* in the three decisions of an administrator, the offer in chooseOffer, the
\* washer of the booking in markArrived, startWash and completeWash, expiresAt in
\* expireStaleBookings.
ChecksHold(r) ==
    LET b == r.booking
        w == r.washer
    IN
    /\ r.at \in Vetting => IsVerified(w)
    /\ r.at \in Offering => washer[w].status # "OFFLINE" /\ washer[w].located
    /\ r.at = "approveWrite" => ~ IsVerified(w)
    /\ r.at \in Dismissing => washer[w].verification # "REJECTED"
    /\ r.at = "chooseWrite" /\ Live(b) => offer[r.offer] = "PENDING"
    /\ r.at \in {"arriveWrite", "startWrite", "completeWrite"} /\ Live(b) =>
          booking[b].washer = w
    /\ r.at = "expireNext" => \A x \in r.todo : Live(x) => booking[x].lapsed

\* What a handler checked of rows that still exist is so when it writes, although
\* its reads hold nothing and removals, positions and requests for other rows come
\* in between: Clash and ProfileClash are the only ways to write on a stale read.
\* Not meant: that expiresAt has not passed, as time passes whatever requests do;
\* the vehicle of create and the absence of an earlier offer in makeOffer, which
\* the foreign key and the unique index check again with the insert.
ChecksStillSo == \A s \in Slots : StillSo(req[s]) /\ ChecksHold(req[s])

Phase(b) == CASE booking[b].row = "unborn"  -> "unborn"
              [] booking[b].row = "removed" -> "removed"
              [] booking[b].row = "live"    -> booking[b].status

Lifecycle(b) == INSTANCE BookingLifecycle
                   WITH phase <- Phase(b), holder <- booking[b].washer

\* Every booking lives the life BookingLifecycle describes: the guards of all the
\* handlers together admit no other transition, COMPLETED and CANCELLED are final
\* and the washer changes only when a choice or a withdrawal is made.
\* The conjunction over b stands inside the box, where TLC evaluates it.
LifecycleRefined ==
    /\ \A b \in Bookings : Lifecycle(b)!LifeInit
    /\ [][\A b \in Bookings :
             [Lifecycle(b)!LifeNext]_(Lifecycle(b)!life)]_vars

\* create lets a client have one booking at a time that is not over yet.
OneActiveBookingPerClient ==
    \A b, other \in Bookings :
        /\ Active(b)
        /\ Active(other)
        /\ ClientOf(b) = ClientOf(other)
        => b = other

\* While a booking is assigned exactly one offer on it has won and none waits:
\* chooseOffer rejects the rest, makeOffer refuses new ones, and a withdrawal
\* leaves none behind for the next round.
WinnerTakesAll ==
    \A b \in Bookings : Live(b) /\ booking[b].status \in JobStatuses =>
        \A o \in Offers : BookingOf[o] = b =>
            /\ offer[o] # "PENDING"
            /\ offer[o] = "ACCEPTED" <=> o = booking[b].price

Job(b, w) == booking[b].washer = w /\ booking[b].status \in JobStatuses

\* A washer is BUSY only for a job it holds, or held when the vehicle was removed:
\* cancellation, withdrawal and confirmation each set it free.
BusyOnlyOnAJob ==
    \A w \in Washers : washer[w].status = "BUSY" =>
        \E b \in Bookings : booking[b].row # "unborn" /\ Job(b, w)

\* totalBookings counts the confirmed bookings of the washer, each once.
TotalCountsCompleted ==
    \A w \in Washers : washer[w].total =
        Cardinality({b \in Bookings : /\ booking[b].washer = w
                                      /\ booking[b].status = "COMPLETED"})

\* A washer holds at most one job, and is BUSY during it, so that goOnline and
\* chooseOffer keep it from a second one: the washer's status and the status of
\* two bookings of different clients must agree.
OneJobPerBusyWasher ==
    \A b, other \in Bookings : \A w \in Washers :
        Live(b) /\ Job(b, w) => /\ washer[w].status = "BUSY"
                                /\ Live(other) /\ Job(other, w) => b = other

\* updateAvailability to AVAILABLE and approveWasher set the status of a profile
\* whatever it is.
Resets == {"availableWrite", "approveWrite"}

\* A washer stays BUSY until its job ends.  Going AVAILABLE and a second approval
\* are what ends it before that, in the write of a request about that very washer;
\* only then can it be given another job, whose end sets it free too.
BusyUntilDone ==
    [][\A b \in Bookings, w \in Washers :
          /\ Live(b) /\ Job(b, w) /\ washer[w].status = "BUSY"
          /\ Live(b)' /\ Job(b, w)' /\ washer'[w].status # "BUSY"
          => \/ \E s \in Slots : /\ req[s].at \in Resets
                                 /\ req[s].washer = w
                                 /\ req'[s] = Idle
             \/ \E other \in Bookings \ {b} :
                   Live(other) /\ Job(other, w) /\ ~ Job(other, w)']_vars
-----------------------------------------------------------------------------
(***************************************************************************)
(* What the messages and comments of the source say, and does not hold.    *)
(***************************************************************************)

\* "Vous ne pouvez pas vous déconnecter pendant une réservation en cours": a
\* washer with a job is not OFFLINE (updateAvailability).
NotOfflineOnAJob ==
    \A b \in Bookings, w \in Washers :
        Live(b) /\ Job(b, w) => washer[w].status # "OFFLINE"

\* "Vous ne pouvez pas changer de statut pendant une réservation en cours", which
\* goOnline tells whoever is BUSY: a BUSY washer has a booking in progress.
BusyHasABooking ==
    \A w \in Washers : washer[w].status = "BUSY" =>
        \E b \in Bookings : Live(b) /\ Job(b, w)

\* "Votre profil doit être vérifié avant de pouvoir prendre des commandes": a
\* booking is given only to a washer whose profile is verified (goOnline).
OnlyVerifiedTakeOrders ==
    [][\A b \in Bookings, w \in Washers :
          booking'[b].washer = w /\ booking[b].washer # w => IsVerified(w)]_vars

\* "Ce laveur n'est plus disponible. Choisissez une autre offre.": a booking is
\* given only to a washer who is AVAILABLE at that moment (chooseOffer).
OnlyAvailableTakeOrders ==
    [][\A b \in Bookings, w \in Washers :
          booking'[b].washer = w /\ booking[b].washer # w
             => washer[w].status = "AVAILABLE"]_vars

\* "Cette réservation ne peut plus être annulée à ce stade": the client cancels a
\* booking only while it is PENDING or ACCEPTED (cancelByClient).
NoLateCancellation ==
    [][\A b \in Bookings :
          booking'[b].status = "CANCELLED" /\ booking[b].status # "CANCELLED"
             => booking[b].status \in {"PENDING", "ACCEPTED"}]_vars

\* "Le booking est ROUVERT en PENDING (pas annulé), pour qu'un autre laveur le
\* prenne": a booking that lost its washer is open, or over (cancelByWasher).
WithoutWasherIsOpen ==
    \A b \in Bookings : Live(b) /\ booking[b].washer = None =>
        booking[b].status \in {"PENDING", "CANCELLED"}

Work(s) == \/ CreateInsert(s) \/ CancelWrite(s) \/ ConfirmWrite(s)
           \/ ChooseOffer(s) \/ ChooseWrite(s) \/ OfferBooking(s)
           \/ OfferInsert(s) \/ ArriveWrite(s) \/ StartWrite(s)
           \/ CompleteWrite(s) \/ WithdrawWrite(s) \/ OnlineWrite(s)
           \/ AvailabilityWrite(s) \/ ApproveWrite(s) \/ RejectWrite(s)
           \/ RetryWrite(s) \/ \E b \in Bookings : ExpireNext(s, b)

\* The server works on every request it has; nothing makes a user send one.
FairSpec == Spec /\ \A s \in Slots : WF_vars(Work(s) \/ Abort(s))

\* "Tâche cron-like : on l'appellera périodiquement": a booking nobody chose in
\* time does not stay open for ever (expireStaleBookings).
StaleBookingsClose ==
    \A b \in Bookings :
        (Live(b) /\ booking[b].status = "PENDING" /\ booking[b].lapsed)
           ~> (~ Live(b) \/ booking[b].status # "PENDING"
                         \/ ~ booking[b].lapsed)
=============================================================================
