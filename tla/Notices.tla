------------------------------ MODULE Notices ------------------------------
(***************************************************************************)
(* What the handlers of Marketplace do after their last write: they drop   *)
(* cached lists of available bookings and hand notices to the queue.       *)
(*                                                                         *)
(* Nothing ties this to the commit.  Other requests may run while it goes  *)
(* on (create, notifyClient and the enqueueing of most notices are not     *)
(* even awaited), what it reads it reads after the commit, and it is lost  *)
(* when a query or the queue fails or the process dies.                    *)
(*                                                                         *)
(* Each write of Marketplace is therefore joined with the follow-ups it    *)
(* starts.  A follow-up is the sequence of the steps it still has to do,   *)
(* and each step is an action that may come at any later time.  A washer's *)
(* list is read from the cache, or queried and then stored.                *)
(*                                                                         *)
(* Two follow-ups are left out because no decision depends on them: the    *)
(* invitation of the washers nearby (NEW_BOOKING_NEARBY), and the notices  *)
(* of the administrator, whose invalidation is ReadThrough's.              *)
(***************************************************************************)
EXTENDS Marketplace, Sequences

CONSTANTS
    MaxPending,  \* bound: follow-ups under way when another write is made
    MaxLost      \* bound: failures

ASSUME Bounds == MaxPending \in Nat /\ MaxLost \in Nat
ASSUME NullIsNobody == None \notin CancellationActor

VARIABLES
    after,       \* the follow-ups under way
    lost,        \* what failed: follow-ups, from the step that did
    told,        \* the notices handed to the queue
    list,        \* washer |-> its cached list of available bookings, or None
    reading      \* slot |-> the list its getAvailableBookings will store

noticeVars == <<after, lost, told, list, reading>>
allVars == <<vars, noticeVars>>

-----------------------------------------------------------------------------
(***************************************************************************)
(* The notices of NotificationMessages.  about stands for the data and the *)
(* text: the booking, or the offer that was at stake.                      *)
(***************************************************************************)
NotificationPayload ==
    [type: {"WASHER_ARRIVED", "WASH_STARTED", "WASH_COMPLETED_BY_WASHER",
            "BOOKING_EXPIRED"}, to: Clients, about: Bookings]
      \cup [type: {"OFFER_RECEIVED", "BOOKING_CANCELLED_BY_WASHER"},
            to: Clients, about: Offers \cup {None}]
      \cup [type: {"BOOKING_CONFIRMED_BY_CLIENT",
                   "BOOKING_CANCELLED_BY_CLIENT"}, to: Washers, about: Bookings]
      \cup [type: {"OFFER_ACCEPTED", "OFFER_REJECTED"},
            to: Washers, about: Offers]

Notice(type, to, about) == [type |-> type, to |-> to, about |-> about]

OfferReceived(o) == Notice("OFFER_RECEIVED", ClientOf(BookingOf[o]), o)
OfferAccepted(o) == Notice("OFFER_ACCEPTED", WasherOf[o], o)
OfferRejected(o) == Notice("OFFER_REJECTED", WasherOf[o], o)
WasherArrived(b) == Notice("WASHER_ARRIVED", ClientOf(b), b)
WashStarted(b) == Notice("WASH_STARTED", ClientOf(b), b)
WashCompletedByWasher(b) == Notice("WASH_COMPLETED_BY_WASHER", ClientOf(b), b)
BookingConfirmedByClient(b, w) == Notice("BOOKING_CONFIRMED_BY_CLIENT", w, b)
BookingCancelledByClient(b, w) == Notice("BOOKING_CANCELLED_BY_CLIENT", w, b)
BookingCancelledByWasher(b, o) ==
    Notice("BOOKING_CANCELLED_BY_WASHER", ClientOf(b), o)
BookingExpired(b) == Notice("BOOKING_EXPIRED", ClientOf(b), b)

(***************************************************************************)
(* Follow-ups.  A step drops the lists of the washers who, tells notices,  *)
(* tells them if the booking on is still found, or looks for the offers    *)
(* rejected when the offer on was chosen, to tell the winner and the rest. *)
(***************************************************************************)
StepOf ==
    [do: {"drop"}, on: Bookings, who: SUBSET Washers, notices: {{}}]
      \cup [do: {"tell"}, on: {None}, who: {{}},
            notices: SUBSET NotificationPayload]
      \cup [do: {"tellIfLive"}, on: Bookings, who: {{}},
            notices: SUBSET NotificationPayload]
      \cup [do: {"tellChoice"}, on: Offers, who: {{}}, notices: {{}}]

\* A follow-up under way has a step left.
Follows == Seq(StepOf) \ {<<>>}

Step(do, on, who, notices) ==
    [do |-> do, on |-> on, who |-> who, notices |-> notices]

Drop(b, ws) == Step("drop", b, ws, {})
Tell(ns) == Step("tell", None, {}, ns)
TellIfLive(b, n) == Step("tellIfLive", b, {}, {n})
TellChoice(o) == Step("tellChoice", o, {}, {})

\* What each write leaves to do; the members of the set run side by side.
\* Seeded fault: the lists stay as they are.
BugAfterCreate(b) == {}
AfterCreate(b) == {<<Drop(b, Washers)>>}

\* Seeded fault: the one who cancelled is told.
BugAfterCancel(b, w) ==
    IF w = None THEN {}
    ELSE {<<Tell({BookingCancelledByClient(b, ClientOf(b))})>>}

\* The washer told is the one read before the transaction; no list is dropped.
AfterCancel(b, w) ==
    IF w = None THEN {} ELSE {<<Tell({BookingCancelledByClient(b, w)})>>}

AfterConfirm(b, w) == {<<Tell({BookingConfirmedByClient(b, w)})>>}

AfterOffer(o) == {<<Drop(BookingOf[o], {WasherOf[o]}),
                    TellIfLive(BookingOf[o], OfferReceived(o))>>}

AfterChoice(o) == {<<Drop(BookingOf[o], Washers), TellChoice(o)>>}

AfterTransition(b, notice) == {<<TellIfLive(b, notice)>>}

AfterWithdraw(b, o) ==
    {<<Drop(b, Washers), Tell({BookingCancelledByWasher(b, o)}),
       Drop(b, Washers)>>}

\* expireStaleBookings tells each client and drops the lists, twice, at the end.
AfterExpiry(b, last) ==
    LET tell == Tell({BookingExpired(b)})
        drop == Drop(b, Washers)
    IN  {IF last THEN <<tell, drop, drop>> ELSE <<tell>>}

Follow(fs) == /\ Cardinality(after) <= MaxPending
              /\ after' = after \cup fs
              /\ UNCHANGED <<lost, told, list, reading>>
-----------------------------------------------------------------------------
(***************************************************************************)
(* The steps of Marketplace, each write with what follows it.              *)
(***************************************************************************)
ClientWrite(s) ==
    LET b == req[s].booking
        w == req[s].washer
    IN  \/ CreateInsert(s) /\ Follow(AfterCreate(b))
        \/ CancelWrite(s) /\ Follow(AfterCancel(b, w))
        \/ ConfirmWrite(s) /\ Follow(AfterConfirm(b, w))
        \/ ChooseWrite(s) /\ Follow(AfterChoice(req[s].offer))

\* Seeded fault: markArrived sends the notice of startWash.
BugTransition(s, b) ==
    \/ ArriveWrite(s) /\ Follow(AfterTransition(b, WashStarted(b)))
    \/ StartWrite(s) /\ Follow(AfterTransition(b, WashStarted(b)))
    \/ CompleteWrite(s) /\ Follow(AfterTransition(b, WashCompletedByWasher(b)))

Transition(s, b) ==
    \/ ArriveWrite(s) /\ Follow(AfterTransition(b, WasherArrived(b)))
    \/ StartWrite(s) /\ Follow(AfterTransition(b, WashStarted(b)))
    \/ CompleteWrite(s) /\ Follow(AfterTransition(b, WashCompletedByWasher(b)))

WasherWrite(s) ==
    LET b == req[s].booking
    IN  \/ OfferInsert(s) /\ Follow(AfterOffer(req[s].offer))
        \/ Transition(s, b)
        \/ WithdrawWrite(s) /\ Follow(AfterWithdraw(b, booking[b].price))

ExpireWrite(s, b) ==
    ExpireNext(s, b) /\ Follow(AfterExpiry(b, req[s].todo = {b}))

\* The others have no follow-up of concern here.  The slot of a reader takes no
\* other request.
SilentStep(s) ==
    /\ reading[s] = None
    /\ \/ \E b \in Bookings : \/ CreateCheck(s, b) \/ CancelRead(s, b)
                              \/ ConfirmRead(s, b) \/ ArriveRead(s, b)
                              \/ StartRead(s, b) \/ CompleteRead(s, b)
                              \/ WithdrawRead(s, b)
       \/ \E o \in Offers : ChooseBooking(s, o) \/ OfferProfile(s, o)
       \/ \E w \in Washers : OnlineRead(s, w) \/ AvailabilityRead(s, w)
       \/ ChooseOffer(s) \/ OfferBooking(s) \/ OnlineWrite(s)
       \/ AvailabilityWrite(s) \/ AdminStep(s) \/ ExpireList(s) \/ Abort(s)
    /\ UNCHANGED noticeVars

Elsewhere == /\ \/ \E w \in Washers : UpdateLocation(w)
                \/ \E v \in Vehicles : RemoveVehicle(v)
                \/ \E b \in Bookings : Lapse(b)
             /\ UNCHANGED noticeVars
-----------------------------------------------------------------------------
(***************************************************************************)
(* The steps of the follow-ups.                                            *)
(***************************************************************************)
\* The first step of f is done; the steps more take its place.
GoOnWith(f, more) ==
    LET rest == more \o Tail(f)
    IN  after' = (after \ {f}) \cup ({rest} \ {<<>>})

Enqueue(f, ns) == /\ told' = told \cup ns
                  /\ GoOnWith(f, <<>>)
                  /\ UNCHANGED <<vars, lost, list, reading>>

DropLists(f) ==
    /\ Head(f).do = "drop"
    /\ list' = [w \in Washers |-> IF w \in Head(f).who THEN None ELSE list[w]]
    /\ GoOnWith(f, <<>>)
    /\ UNCHANGED <<vars, lost, told, reading>>

TellNow(f) == Head(f).do = "tell" /\ Enqueue(f, Head(f).notices)

\* notifyClient and makeOffer read the booking again and stop when it is gone.
TellOfLive(f) ==
    /\ Head(f).do = "tellIfLive"
    /\ Enqueue(f, IF Live(Head(f).on) THEN Head(f).notices ELSE {})

\* Seeded faults: all the others who have offered; those who still wait.
BugAllOthers(o) ==
    {x \in Offers : BookingOf[x] = BookingOf[o] /\ LiveOffer(x) /\ x # o}
BugWaiting(o) ==
    {x \in Offers : BookingOf[x] = BookingOf[o] /\ offer[x] = "PENDING"}

\* The rejected offers of the booking as they are when the query runs.
Losers(o) ==
    {x \in Offers : BookingOf[x] = BookingOf[o] /\ offer[x] = "REJECTED"}

LookForLosers(f) ==
    LET o == Head(f).on IN
    /\ Head(f).do = "tellChoice"
    /\ GoOnWith(f, <<Tell({OfferAccepted(o)}
                           \cup {OfferRejected(x) : x \in Losers(o)})>>)
    /\ UNCHANGED <<vars, lost, told, list, reading>>

CanFail == Cardinality(lost) < MaxLost

\* The queue or the cache refuses, which is caught: the rest goes on.
Refused(f) ==
    /\ CanFail
    /\ Head(f).do # "tellChoice"
    /\ lost' = lost \cup {<<Head(f)>>}
    /\ GoOnWith(f, <<>>)
    /\ UNCHANGED <<vars, told, list, reading>>

\* A query throws or the process dies: nothing of the rest is done.
Dies(f) ==
    /\ CanFail
    /\ lost' = lost \cup {f}
    /\ after' = after \ {f}
    /\ UNCHANGED <<vars, told, list, reading>>

FollowUp(f) == \/ DropLists(f) \/ TellNow(f) \/ TellOfLive(f)
               \/ LookForLosers(f) \/ Refused(f) \/ Dies(f)
-----------------------------------------------------------------------------
(***************************************************************************)
(* getAvailableBookings.                                                   *)
(***************************************************************************)
OpenTo(b, w) ==
    /\ Choosable(b)
    /\ ~ \E o \in Offers : /\ LiveOffer(o)
                           /\ BookingOf[o] = b
                           /\ WasherOf[o] = w

\* A washer with a position asks and nothing is cached for it.
QueryList(s, w) ==
    /\ At(s, "idle")
    /\ reading[s] = None
    /\ washer[w].located
    /\ list[w] = None
    /\ reading' = [reading EXCEPT ![s] =
                     [washer |-> w, found |-> {b \in Bookings : OpenTo(b, w)}]]
    /\ UNCHANGED <<vars, after, lost, told, list>>

StoreList(s) ==
    /\ reading[s] # None
    /\ list' = [list EXCEPT ![reading[s].washer] = reading[s].found]
    /\ reading' = [reading EXCEPT ![s] = None]
    /\ UNCHANGED <<vars, after, lost, told>>

\* The list has lived AVAILABLE_BOOKINGS_CACHE_TTL.
ListExpires(w) ==
    /\ list[w] # None
    /\ list' = [list EXCEPT ![w] = None]
    /\ UNCHANGED <<vars, after, lost, told, reading>>
-----------------------------------------------------------------------------
NInit == /\ Init
         /\ after = {}
         /\ lost = {}
         /\ told = {}
         /\ list = [w \in Washers |-> None]
         /\ reading = [s \in Slots |-> None]

NNext == \/ \E s \in Slots : \/ ClientWrite(s)
                             \/ WasherWrite(s)
                             \/ \E b \in Bookings : ExpireWrite(s, b)
                             \/ SilentStep(s)
                             \/ \E w \in Washers : QueryList(s, w)
                             \/ StoreList(s)
         \/ Elsewhere
         \/ \E f \in after : FollowUp(f)
         \/ \E w \in Washers : ListExpires(w)

NSpec == NInit /\ [][NNext]_allVars
-----------------------------------------------------------------------------
(***************************************************************************)
(* What holds however requests and follow-ups overlap.                     *)
(***************************************************************************)

\* A client is sent only what is for clients and a washer what is for washers,
\* whichever handler put the notice together; follow-ups and lists are well
\* formed.
NTypeOK ==
    /\ after \cup lost \subseteq Follows
    /\ told \subseteq NotificationPayload
    /\ list \in [Washers -> (SUBSET Bookings) \cup {None}]
    /\ reading \in
         [Slots -> [washer: Washers, found: SUBSET Bookings] \cup {None}]

Earned(n) ==
    LET row == booking[n.about] IN
    CASE n.type = "WASHER_ARRIVED" -> row.arrived
      [] n.type = "WASH_STARTED" -> row.started
      [] n.type \in {"WASH_COMPLETED_BY_WASHER", "BOOKING_CONFIRMED_BY_CLIENT"}
           -> row.completed
      [] OTHER -> TRUE

\* Nobody is told of progress that was not made: a notice of arrival, start,
\* completion or confirmation, however late it is sent and whatever was written
\* over the booking's status meanwhile, is about a booking with that milestone.
ProgressTrue == \A n \in told : Earned(n)

\* What is still to be sent is true already: with the types, this makes
\* ProgressTrue inductive.
NInv == /\ NTypeOK
        /\ ProgressTrue
        /\ \A f \in after : \A i \in DOMAIN f :
              \A n \in f[i].notices : Earned(n)

\* The steps that are to come or have failed.
Steps == UNION {{f[i] : i \in DOMAIN f} : f \in after \cup lost}

\* The notice is in the queue, or a step that sends it is to come or has failed.
Announced(n) == \/ n \in told
                \/ \E step \in Steps : n \in step.notices

ChoiceToTell(b) == \E step \in Steps : /\ step.do = "tellChoice"
                                       /\ BookingOf[step.on] = b

\* Whatever becomes of offers is heard of: the client hears of each, the winner
\* of its luck and the losers of theirs, although these are looked for after the
\* commit, when another choice or a later round may have come in between.
OffersTold ==
    \A o \in Offers :
        /\ LiveOffer(o) => Announced(OfferReceived(o))
        /\ offer[o] = "ACCEPTED" =>
             Announced(OfferAccepted(o)) \/ ChoiceToTell(BookingOf[o])
        /\ offer[o] = "REJECTED" =>
             Announced(OfferRejected(o)) \/ ChoiceToTell(BookingOf[o])
-----------------------------------------------------------------------------
(***************************************************************************)
(* What holds when requests do not clash before their commits, although    *)
(* what follows the commits overlaps with everything.  To the clashes of   *)
(* Marketplace the lists add one: a booking is opened, by create or by     *)
(* cancelByWasher, between the query of a list and its being stored.       *)
(***************************************************************************)
Opening == {"createInsert", "withdrawWrite"}

ReadersApart ==
    \A s, t \in Slots : reading[s] # None => req[t].at \notin Opening

NApartSpec == NInit /\ [][NNext /\ Apart' /\ ReadersApart']_allVars

\* What the other side must hear of the state of booking b.
Due(b) ==
    LET row == booking[b] IN
    CASE row.status = "ARRIVED" -> {WasherArrived(b)}
      [] row.status = "IN_PROGRESS" -> {WashStarted(b)}
      [] row.status = "AWAITING_CLIENT_CONFIRMATION" ->
           {WashCompletedByWasher(b)}
      [] row.status = "COMPLETED" ->
           {BookingConfirmedByClient(b, row.washer)}
      [] row.status = "CANCELLED" /\ row.cancelledBy = "SYSTEM"
           -> {BookingExpired(b)}
      [] row.status = "CANCELLED" /\ row.cancelledBy = "CLIENT"
           /\ row.washer # None
           -> {BookingCancelledByClient(b, row.washer)}
      [] row.status = "PENDING" /\ row.cancelledBy = "WASHER"
           -> {BookingCancelledByWasher(b, row.price)}
      [] OTHER -> {}

\* Whatever became of a booking, the washer who has it or the client whose it
\* is was told, will be, or a failure kept it from them: no handler changes a
\* status silently, and none addresses somebody who has nothing to do with it
\* any more.
StatusTold == \A b \in Bookings : Live(b) => \A n \in Due(b) : Announced(n)

\* What a notice says is so and stays so while the booking exists: an offer told
\* to be chosen was not rejected, one told to have lost was, and a booking told
\* to be paid, expired or cancelled by its client is.
NoticesTrue ==
    \A n \in told :
        LET row == booking[n.about] IN
        /\ n.type = "OFFER_ACCEPTED" =>
             offer[n.about] \in {"ACCEPTED", "deleted"}
        /\ n.type = "OFFER_REJECTED" =>
             offer[n.about] \in {"REJECTED", "deleted"}
        /\ n.type = "BOOKING_CONFIRMED_BY_CLIENT" =>
             row.status = "COMPLETED" /\ row.washer = n.to
        /\ n.type = "BOOKING_EXPIRED" =>
             row.status = "CANCELLED" /\ row.cancelledBy = "SYSTEM"
        /\ n.type = "BOOKING_CANCELLED_BY_CLIENT" =>
             row.status = "CANCELLED" /\ row.cancelledBy = "CLIENT"

\* A cached list misses no booking its washer could make an offer on, unless the
\* call that drops the list is still to come or failed: every handler that opens
\* a booking, to all or again to some, drops the lists that lack it.
ListsComplete ==
    \A w \in Washers : list[w] # None =>
        \A b \in Bookings : OpenTo(b, w) /\ b \notin list[w] =>
            \E step \in Steps : step.do = "drop" /\ w \in step.who
=============================================================================
