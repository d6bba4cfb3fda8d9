------------------------------ MODULE Ratings ------------------------------
(***************************************************************************)
(* Rating a finished wash, and the average of the washer it feeds:         *)
(* RatingsService.rateBooking.                                             *)
(*                                                                         *)
(* The handler reads the booking, then runs an interactive transaction     *)
(* that inserts the rating, aggregates the ratings of the washer and       *)
(* updates its profile.  Under PostgreSQL's Read Committed isolation the   *)
(* aggregate sees what is committed at that moment and the transaction's   *)
(* own insert, and no other transaction's.  avgRating is kept as the set   *)
(* of ratings it is the average of; a score is what a rating was given.    *)
(***************************************************************************)
EXTENDS Naturals, FiniteSets

CONSTANTS
    Bookings,    \* ids of bookings
    Washers,     \* ids of washer profiles
    WasherOf,    \* booking |-> Booking.washerId, or None
    Scores,      \* the scores a client can give
    Removable,   \* bookings whose vehicle the client may delete
    Slots,       \* requests that can be in flight at the same time
    None         \* the database's NULL

ASSUME BookingsHaveWashers == WasherOf \in [Bookings -> Washers \cup {None}]
ASSUME NullIsNothing == None \notin Bookings \cup Washers \cup Scores
ASSUME RemovableBookings == Removable \subseteq Bookings

VARIABLES
    status,   \* booking |-> whether it is still under way, COMPLETED or gone
    rating,   \* booking |-> the score of its committed rating, or None
    average,  \* washer  |-> the bookings whose ratings avgRating averages
    req       \* the request each slot is working on

vars == <<status, rating, average, req>>

Stages == {"insert", "aggregate", "update", "idle"}
Request == [at: Stages, booking: Bookings \cup {None},
            score: Scores \cup {None}, rated: SUBSET Bookings]

Idle == [at |-> "idle", booking |-> None, score |-> None, rated |-> {}]
At(s, stage) == req[s].at = stage
GoTo(s, stage) == req' = [req EXCEPT ![s].at = stage]

\* A rating inserted by a transaction that has not committed yet: its entry in
\* the unique index on bookingId, and its lock on the booking, hold others up.
Inserted(s) == req[s].at \in {"aggregate", "update"}
Pending(b) == \E s \in Slots : Inserted(s) /\ req[s].booking = b

\* The committed ratings of the bookings of w.
RatedOf(w) == {b \in Bookings : WasherOf[b] = w /\ rating[b] # None}

Init == /\ status = [b \in Bookings |-> "under way"]
        /\ rating = [b \in Bookings |-> None]
        /\ average = [w \in Washers |-> {}]
        /\ req = [s \in Slots |-> Idle]
-----------------------------------------------------------------------------
\* The wash ends, its completion is confirmed.
Complete(b) ==
    /\ status[b] = "under way"
    /\ status' = [status EXCEPT ![b] = "COMPLETED"]
    /\ UNCHANGED <<rating, average, req>>

\* The client deletes the vehicle: the delete cascades to the booking and to its
\* rating, and waits for a transaction that has inserted one.
Remove(b) ==
    /\ b \in Removable
    /\ status[b] # "removed"
    /\ ~ Pending(b)
    /\ status' = [status EXCEPT ![b] = "removed"]
    /\ rating' = [rating EXCEPT ![b] = None]
    /\ UNCHANGED <<average, req>>

RateRead(s, b, score) ==
    /\ At(s, "idle")
    /\ status[b] = "COMPLETED"
    /\ rating[b] = None
    /\ req' = [req EXCEPT ![s] = [at |-> "insert", booking |-> b,
                                  score |-> score, rated |-> {}]]
    /\ UNCHANGED <<status, rating, average>>

\* Seeded fault: a rating that is there already is overwritten.
BugInsertable(b) == status[b] # "removed" /\ ~ Pending(b)

\* The unique index and the foreign key let the insert through.
Insertable(b) == status[b] # "removed" /\ rating[b] = None /\ ~ Pending(b)

\* Without a washer the insert is all there is, and commits by itself.
InsertAlone(s) ==
    LET b == req[s].booking IN
    /\ At(s, "insert")
    /\ Insertable(b)
    /\ WasherOf[b] = None
    /\ rating' = [rating EXCEPT ![b] = req[s].score]
    /\ req' = [req EXCEPT ![s] = Idle]
    /\ UNCHANGED <<status, average>>

Insert(s) ==
    /\ At(s, "insert")
    /\ Insertable(req[s].booking)
    /\ WasherOf[req[s].booking] # None
    /\ GoTo(s, "aggregate")
    /\ UNCHANGED <<status, rating, average>>

\* Seeded faults: the aggregate runs outside the transaction; it sees the inserts
\* of others; it is not restricted to the washer.
BugSeenOutside(s) == RatedOf(WasherOf[req[s].booking])
BugSeenUncommitted(s) ==
    LET w == WasherOf[req[s].booking] IN
    RatedOf(w) \cup {b \in Bookings : WasherOf[b] = w /\ Pending(b)}
BugSeenOfAll(s) == {b \in Bookings : rating[b] # None} \cup {req[s].booking}

\* What the aggregate sees: what is committed, and its own insert.
Seen(s) == RatedOf(WasherOf[req[s].booking]) \cup {req[s].booking}

Aggregate(s) ==
    /\ At(s, "aggregate")
    /\ req' = [req EXCEPT ![s] = [@ EXCEPT !.at = "update", !.rated = Seen(s)]]
    /\ UNCHANGED <<status, rating, average>>

\* The update of the profile and the commit: nobody reads between the two what
\* the transaction wrote, and another update of the profile waits for both.
Update(s) ==
    LET b == req[s].booking IN
    /\ At(s, "update")
    /\ average' = [average EXCEPT ![WasherOf[b]] = req[s].rated]
    /\ rating' = [rating EXCEPT ![b] = req[s].score]
    /\ req' = [req EXCEPT ![s] = Idle]
    /\ UNCHANGED status

\* The insert is refused, the transaction times out or the process dies: what
\* the transaction did is rolled back.
Abort(s) ==
    /\ ~ At(s, "idle")
    /\ req' = [req EXCEPT ![s] = Idle]
    /\ UNCHANGED <<status, rating, average>>

Next == \/ \E b \in Bookings : Complete(b) \/ Remove(b)
        \/ \E s \in Slots : \/ \E b \in Bookings, score \in Scores :
                                  RateRead(s, b, score)
                            \/ InsertAlone(s)
                            \/ Insert(s)
                            \/ Aggregate(s)
                            \/ Update(s)
                            \/ Abort(s)

Spec == Init /\ [][Next]_vars
-----------------------------------------------------------------------------
(***************************************************************************)
(* Properties                                                              *)
(***************************************************************************)

\* Every table and every request has its shape.
TypeOK == /\ status \in [Bookings -> {"under way", "COMPLETED", "removed"}]
          /\ rating \in [Bookings -> Scores \cup {None}]
          /\ average \in [Washers -> SUBSET Bookings]
          /\ req \in [Slots -> Request]

\* Two requests may both find the booking unrated; only one of them is answered
\* with success.  A score given once is never replaced, only deleted with its
\* booking.
FirstScoreStands ==
    [][\A b \in Bookings :
          rating[b] # None /\ rating'[b] # rating[b]
             => status'[b] = "removed" /\ rating'[b] = None]_vars

\* An average counts only ratings of that washer that were committed, however the
\* transactions overlap: never one that was rolled back.
AverageOfOwnRatings ==
    \A w \in Washers : \A b \in average[w] :
        /\ WasherOf[b] = w
        /\ rating[b] # None \/ status[b] = "removed"

\* When averages of one washer are calculated one after the other and no booking
\* is deleted, avgRating is at any time the average of exactly the ratings that
\* are committed.
AverageExact ==
    \A w \in Washers : average[w] = RatedOf(w)

\* Whoever rated sees the rating in the average at once, unless a later one has
\* replaced it: a washer with a rating has an average that counts something.
RatedMeansAveraged ==
    \A w \in Washers : RatedOf(w) # {} => average[w] # {}

\* "Recalcule la moyenne sur tous les ratings du laveur": when no rating is being
\* given, the average counts every rating of the washer.
AverageCountsAll ==
    (\A s \in Slots : At(s, "idle")) =>
        \A w \in Washers : RatedOf(w) \subseteq average[w]
-----------------------------------------------------------------------------
(***************************************************************************)
(* What holds when no two averages of one washer are calculated at once.   *)
(* An average is calculated between what the aggregate saw and the commit  *)
(* of the update; a lock on the profile, taken before the aggregate, would *)
(* keep two of them apart.  Other overlaps, and removals, are allowed.     *)
(***************************************************************************)
AveragesApart ==
    \A s, t \in Slots :
        At(s, "update") /\ At(t, "update")
          /\ WasherOf[req[s].booking] = WasherOf[req[t].booking]
          => s = t

ApartSpec == Init /\ [][Next /\ AveragesApart']_vars

\* What the average counts, and what it will count once a transaction under way
\* has stored what it aggregated, leaves no committed rating out.
AllCounted ==
    /\ \A w \in Washers : RatedOf(w) \subseteq average[w]
    /\ \A s \in Slots : At(s, "update") =>
          RatedOf(WasherOf[req[s].booking]) \subseteq req[s].rated
-----------------------------------------------------------------------------
(***************************************************************************)
(* What makes the two invariants on averages inductive.                    *)
(***************************************************************************)
InFlight(r) ==
    /\ r.at # "idle" => r.booking \in Bookings /\ r.score \in Scores
    /\ r.at \in {"aggregate", "update"} =>
          WasherOf[r.booking] # None
    /\ r.at = "update" =>
          /\ r.booking \in r.rated
          /\ \A b \in r.rated \ {r.booking} :
                /\ WasherOf[b] = WasherOf[r.booking]
                /\ rating[b] # None \/ status[b] = "removed"

\* The unique index and the lock on the booking: an uncommitted rating is the only
\* one of its booking, and the booking is there.
UniqueInsert ==
    \A s \in Slots : Inserted(s) =>
        /\ rating[req[s].booking] = None
        /\ status[req[s].booking] # "removed"
        /\ \A t \in Slots : /\ Inserted(t)
                            /\ req[t].booking = req[s].booking
                            => t = s

\* What a transaction has inserted and seen still stands when it commits.
RatingsInv == /\ TypeOK
              /\ \A s \in Slots : InFlight(req[s])
              /\ UniqueInsert
              /\ AverageOfOwnRatings
              /\ RatedMeansAveraged
=============================================================================
