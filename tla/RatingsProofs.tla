--------------------------- MODULE RatingsProofs ---------------------------
(***************************************************************************)
(* Proofs about Ratings, for any number of bookings, washers and requests. *)
(***************************************************************************)
EXTENDS Ratings, TLAPS

USE BookingsHaveWashers, NullIsNothing, RemovableBookings

\* Initially nothing is rated and no request is in flight.
LEMMA RatingsInit == Init => RatingsInv
<1> SUFFICES ASSUME Init PROVE RatingsInv
  OBVIOUS
<1>1. TypeOK
  BY DEF Init, TypeOK, Request, Stages, Idle
<1>2. \A s \in Slots : InFlight(req[s])
  BY DEF Init, InFlight, Idle
<1>3. AverageOfOwnRatings /\ RatedMeansAveraged /\ UniqueInsert
  BY DEF Init, AverageOfOwnRatings, RatedMeansAveraged, RatedOf,
         UniqueInsert, Inserted, Idle
<1> QED
  BY <1>1, <1>2, <1>3 DEF RatingsInv

\* A committed rating stays, or goes with its booking.
RatingsKept == \A b \in Bookings : rating[b] # None \/ status[b] = "removed" =>
                                     rating'[b] # None \/ status'[b] = "removed"

\* What a step must keep for the requests it does not move on: their
\* transactions saw ratings that are committed still, or gone with a booking.
LEMMA OthersInFlight ==
    ASSUME RatingsInv, RatingsKept,
           \A t \in Slots : req'[t] = req[t] \/ req'[t] = Idle
    PROVE  \A t \in Slots : InFlight(req[t])'
<1> SUFFICES ASSUME NEW t \in Slots PROVE InFlight(req[t])'
  OBVIOUS
<1>1. CASE req'[t] = Idle
  BY <1>1 DEF InFlight, Idle
<1>2. CASE req'[t] = req[t]
  <2>1. InFlight(req[t]) /\ req[t] \in Request
    BY DEF RatingsInv, TypeOK
  <2> QED
    BY <1>2, <2>1 DEF InFlight, RatingsKept, Request
<1> QED
  BY <1>1, <1>2

\* The end of a wash and the removal of a booking keep the invariant.
LEMMA BookingSteps ==
    ASSUME RatingsInv, NEW b \in Bookings, Complete(b) \/ Remove(b)
    PROVE  RatingsInv'
<1> USE DEF RatingsInv
<1>1. TypeOK'
  BY DEF TypeOK, Complete, Remove
<1>2. RatingsKept
  BY DEF RatingsKept, TypeOK, Complete, Remove
<1>3. \A t \in Slots : InFlight(req[t])'
  BY <1>2, OthersInFlight DEF Complete, Remove
<1>4. AverageOfOwnRatings'
  BY <1>2 DEF RatingsKept, AverageOfOwnRatings, TypeOK, Complete, Remove
<1>5. RatedMeansAveraged'
  <2>1. average' = average
    BY DEF Complete, Remove
  <2>2. \A x \in Bookings : rating'[x] # None => rating[x] # None
    BY DEF TypeOK, Complete, Remove
  <2> QED
    BY <2>1, <2>2 DEF RatedMeansAveraged, RatedOf
<1>6. UniqueInsert'
  <2>1. req' = req
    BY DEF Complete, Remove
  <2>2. \A s \in Slots : Inserted(s)' <=> Inserted(s)
    BY <2>1 DEF Inserted
  <2>3. ASSUME NEW s \in Slots, Inserted(s)
        PROVE  /\ rating'[req[s].booking] = rating[req[s].booking]
               /\ status'[req[s].booking] # "removed"
    <3>1. req[s].booking \in Bookings /\ status[req[s].booking] # "removed"
      BY <2>3 DEF UniqueInsert, Inserted, InFlight
    <3>2. CASE Complete(b)
      BY <3>1, <3>2 DEF Complete, TypeOK
    <3>3. CASE Remove(b)
      <4>1. req[s].booking # b
        BY <2>3, <3>3 DEF Remove, Pending
      <4> QED
        BY <3>1, <3>3, <4>1 DEF Remove, TypeOK
    <3> QED
      BY <3>2, <3>3
  <2> QED
    BY <2>1, <2>2, <2>3 DEF UniqueInsert
<1> QED
  BY <1>1, <1>3, <1>4, <1>5, <1>6

\* The steps of a request that write no table keep it: reading, inserting what is
\* not committed yet, aggregating, and giving up.
LEMMA QuietSteps ==
    ASSUME RatingsInv, NEW s \in Slots,
           \/ \E b \in Bookings, score \in Scores : RateRead(s, b, score)
           \/ Insert(s)
           \/ Aggregate(s)
           \/ Abort(s)
    PROVE  RatingsInv'
<1> USE DEF RatingsInv, TypeOK
<1>1. UNCHANGED <<status, rating, average>>
  BY DEF RateRead, Insert, Aggregate, Abort
<1>2. req'[s] \in Request /\ InFlight(req'[s])
  <2>1. CASE \E b \in Bookings, score \in Scores : RateRead(s, b, score)
    <3>1. PICK b \in Bookings, score \in Scores : RateRead(s, b, score)
      BY <2>1
    <3> DEFINE r == [at |-> "insert", booking |-> b,
                     score |-> score, rated |-> {}]
    <3>2. req'[s] = r
      BY <3>1 DEF RateRead
    <3>3. r \in Request
      BY DEF Request, Stages
    <3>4. InFlight(r)
      BY DEF InFlight
    <3> QED
      BY <3>2, <3>3, <3>4
  <2>2. CASE Insert(s)
    <3>1. req'[s] = [req[s] EXCEPT !.at = "aggregate"]
      BY <2>2 DEF Insert, GoTo
    <3>2. req[s] \in Request /\ req[s].at = "insert" /\ InFlight(req[s])
      BY <2>2 DEF Insert, At
    <3>3. req'[s] \in Request /\ req'[s].at = "aggregate"
                              /\ req'[s].booking = req[s].booking
                              /\ req'[s].score = req[s].score
      BY <3>1, <3>2 DEF Request, Stages
    <3> QED
      BY <2>2, <3>2, <3>3 DEF Insert, InFlight
  <2>3. CASE Aggregate(s)
    <3> DEFINE own == req[s].booking
    <3>1. own \in Bookings /\ WasherOf[own] # None
      BY <2>3 DEF Aggregate, At, InFlight
    <3>2. Seen(s) \subseteq Bookings /\ own \in Seen(s)
      BY <3>1 DEF Seen, RatedOf
    <3>3. \A b \in Seen(s) \ {own} :
             WasherOf[b] = WasherOf[own] /\ rating[b] # None
      BY DEF Seen, RatedOf
    <3> QED
      BY <2>3, <3>1, <3>2, <3>3
      DEF Aggregate, At, Request, Stages, InFlight
  <2>4. CASE Abort(s)
    BY <2>4 DEF Abort, Idle, Request, Stages, InFlight
  <2> QED
    BY <2>1, <2>2, <2>3, <2>4
<1>3. \A t \in Slots \ {s} : req'[t] = req[t]
  BY DEF RateRead, Insert, GoTo, Aggregate, Abort
<1>4. req' \in [Slots -> Request]
  BY <1>2 DEF RateRead, Insert, GoTo, Aggregate, Abort
<1>5. ASSUME NEW t \in Slots PROVE InFlight(req[t])'
  <2>1. InFlight(req'[t])
    BY <1>2, <1>3
  <2> QED
    BY <1>1, <2>1 DEF InFlight
<1>6. UniqueInsert'
  <2>1. CASE Insert(s)
    <3>1. /\ req' = [req EXCEPT ![s].at = "aggregate"]
          /\ ~ Pending(req[s].booking)
          /\ rating[req[s].booking] = None
          /\ status[req[s].booking] # "removed"
      BY <2>1 DEF Insert, GoTo, Insertable
    <3>2. req'[s].booking = req[s].booking
      BY <3>1 DEF Request
    <3>3. \A t \in Slots : Inserted(t) => req[t].booking # req[s].booking
      BY <3>1 DEF Pending
    <3>4. \A t \in Slots \ {s} : Inserted(t)' <=> Inserted(t)
      BY <1>3 DEF Inserted
    <3> QED
      BY <1>1, <1>3, <3>1, <3>2, <3>3, <3>4 DEF UniqueInsert
  <2>2. CASE Aggregate(s)
    <3>0. req'[s] = [req[s] EXCEPT !.at = "update", !.rated = Seen(s)]
      BY <2>2 DEF Aggregate
    <3>1. \A t \in Slots : /\ Inserted(t)' <=> Inserted(t)
                           /\ req'[t].booking = req[t].booking
      <4>0. req[s] \in Request /\ req[s].at = "aggregate"
        BY <2>2 DEF Aggregate, At
      <4>1. req'[s].at = "update" /\ req'[s].booking = req[s].booking
        BY <3>0, <4>0 DEF Request
      <4> QED
        BY <1>3, <4>0, <4>1 DEF Inserted
    <3> QED
      BY <1>1, <3>1 DEF UniqueInsert
  <2>3. ASSUME ~ Inserted(s)' PROVE UniqueInsert'
    <3>1. \A t \in Slots : Inserted(t)' => t # s /\ Inserted(t)
      BY <1>3, <2>3 DEF Inserted
    <3> QED
      BY <1>1, <1>3, <3>1 DEF UniqueInsert
  <2>4. CASE \E b \in Bookings, score \in Scores : RateRead(s, b, score)
    <3>0. PICK b \in Bookings, score \in Scores : RateRead(s, b, score)
      BY <2>4
    <3>1. req'[s].at = "insert"
      BY <3>0 DEF RateRead
    <3>2. ~ Inserted(s)'
      BY <3>1 DEF Inserted
    <3> QED
      BY <2>3, <3>2
  <2>5. CASE Abort(s)
    <3>1. ~ Inserted(s)'
      BY <2>5 DEF Abort, Idle, Inserted
    <3> QED
      BY <2>3, <3>1
  <2> QED
    BY <2>1, <2>2, <2>4, <2>5
<1> QED
  BY <1>1, <1>4, <1>5, <1>6
  DEF AverageOfOwnRatings, RatedMeansAveraged, RatedOf

\* A commit keeps it: the rating that becomes visible is one its own transaction
\* counted, and every other one the transaction counted is committed.
LEMMA CommitSteps ==
    ASSUME RatingsInv, NEW s \in Slots, InsertAlone(s) \/ Update(s)
    PROVE  RatingsInv'
<1> DEFINE b == req[s].booking
<1> USE DEF RatingsInv
<1>1. b \in Bookings /\ req[s].score \in Scores
  BY DEF InsertAlone, Update, At, TypeOK, InFlight
<1>2. rating' = [rating EXCEPT ![b] = req[s].score]
  BY DEF InsertAlone, Update
<1>3. status' = status /\ req' = [req EXCEPT ![s] = Idle]
  BY DEF InsertAlone, Update
<1>0. UniqueInsert'
  <2>1. ~ Inserted(s)' /\ \A t \in Slots \ {s} : req'[t] = req[t]
    BY <1>3 DEF TypeOK, Inserted, Idle
  <2>2. \A t \in Slots \ {s} : Inserted(t) => req[t].booking # b
    BY DEF InsertAlone, Update, Insertable, Pending, At, UniqueInsert, Inserted
  <2>3. \A t \in Slots : Inserted(t)' => t # s /\ Inserted(t)
    BY <2>1 DEF Inserted
  <2>4. \A t \in Slots : Inserted(t) => req[t].booking \in Bookings
    BY DEF Inserted, InFlight
  <2> QED
    BY <1>1, <1>2, <1>3, <2>1, <2>2, <2>3, <2>4 DEF UniqueInsert, TypeOK
<1>4. CASE InsertAlone(s)
  <2>1. average' = average /\ WasherOf[b] = None
    BY <1>4 DEF InsertAlone
  <2>2. TypeOK'
    BY <1>1, <1>2, <1>3, <2>1 DEF TypeOK, Request, Stages, Idle
  <2>3. RatingsKept
    BY <1>1, <1>2, <1>3 DEF RatingsKept, TypeOK
  <2>4. AverageOfOwnRatings' /\ RatedMeansAveraged'
    <3>1. \A w \in Washers : RatedOf(w)' = RatedOf(w)
      BY <1>1, <1>2, <2>1 DEF RatedOf, TypeOK
    <3>2. RatedMeansAveraged'
      BY <2>1, <3>1 DEF RatedMeansAveraged
    <3>3. AverageOfOwnRatings'
      BY <2>1, <2>3 DEF AverageOfOwnRatings, RatingsKept, TypeOK
    <3> QED
      BY <3>2, <3>3
  <2>5. \A t \in Slots : InFlight(req[t])'
    BY <1>3, <2>3, OthersInFlight DEF TypeOK
  <2> QED
    BY <1>0, <2>2, <2>4, <2>5
<1>5. CASE Update(s)
  <2> DEFINE w == WasherOf[b]
             rated == req[s].rated
  <2>1. average' = [average EXCEPT ![w] = rated]
    BY <1>5 DEF Update
  <2>2. /\ w \in Washers
        /\ b \in rated
        /\ rated \subseteq Bookings
        /\ \A x \in rated \ {b} :
              /\ WasherOf[x] = w
              /\ rating[x] # None \/ status[x] = "removed"
    BY <1>1, <1>5 DEF Update, At, TypeOK, Request, InFlight
  <2>3. TypeOK'
    BY <1>1, <1>2, <1>3, <2>1, <2>2 DEF TypeOK, Request, Stages, Idle
  <2>4. \A x \in Bookings : rating[x] # None => rating'[x] # None
    BY <1>1, <1>2 DEF TypeOK
  <2>5. rating'[b] # None
    BY <1>1, <1>2 DEF TypeOK
  <2>6. AverageOfOwnRatings'
    BY <1>3, <2>1, <2>2, <2>4, <2>5 DEF AverageOfOwnRatings, TypeOK
  <2>7. RatedMeansAveraged'
    BY <1>1, <1>2, <2>1, <2>2 DEF RatedMeansAveraged, RatedOf, TypeOK
  <2>8. RatingsKept
    BY <1>1, <1>2, <1>3 DEF RatingsKept, TypeOK
  <2>9. \A t \in Slots : InFlight(req[t])'
    BY <1>3, <2>8, OthersInFlight DEF TypeOK
  <2> QED
    BY <1>0, <2>3, <2>6, <2>7, <2>9
<1> QED
  BY <1>4, <1>5

\* The invariant holds for ever, for any number of overlapping requests.
THEOREM RatingsInvariance == Spec => []RatingsInv
<1>1. Init => RatingsInv
  BY RatingsInit
<1>2. RatingsInv /\ [Next]_vars => RatingsInv'
  <2> SUFFICES ASSUME RatingsInv, [Next]_vars PROVE RatingsInv'
    OBVIOUS
  <2>1. CASE \E b \in Bookings : Complete(b) \/ Remove(b)
    BY <2>1, BookingSteps
  <2>2. CASE \E s \in Slots :
                \/ \E b \in Bookings, score \in Scores : RateRead(s, b, score)
                \/ Insert(s) \/ Aggregate(s) \/ Abort(s)
    BY <2>2, QuietSteps
  <2>3. CASE \E s \in Slots : InsertAlone(s) \/ Update(s)
    BY <2>3, CommitSteps
  <2>4. CASE UNCHANGED vars
    <3>1. \A s \in Slots : InFlight(req[s])'
      BY <2>4, OthersInFlight DEF RatingsKept, vars
    <3>2. UniqueInsert'
      BY <2>4 DEF vars, RatingsInv, UniqueInsert, Inserted
    <3> QED
      BY <2>4, <3>1, <3>2 DEF vars, RatingsInv, TypeOK, AverageOfOwnRatings,
                              RatedMeansAveraged, RatedOf
  <2> QED
    BY <2>1, <2>2, <2>3, <2>4 DEF Next
<1> QED
  BY <1>1, <1>2, PTL DEF Spec

\* No average ever counts a rating that was rolled back, or another washer's.
THEOREM AverageIsOfOwnRatings == Spec => []AverageOfOwnRatings
<1>1. RatingsInv => AverageOfOwnRatings
  BY DEF RatingsInv
<1> QED
  BY <1>1, RatingsInvariance, PTL

\* A washer somebody rated has an average of something.
THEOREM RatedIsAveraged == Spec => []RatedMeansAveraged
<1>1. RatingsInv => RatedMeansAveraged
  BY DEF RatingsInv
<1> QED
  BY <1>1, RatingsInvariance, PTL

\* A booking is rated once: the commit of a second rating would find its insert
\* refused or still waiting for the first.
THEOREM ScoreStands == Spec => FirstScoreStands
<1> DEFINE Stands(b) == rating[b] # None /\ rating'[b] # rating[b]
                           => status'[b] = "removed" /\ rating'[b] = None
<1>1. RatingsInv /\ [Next]_vars => [\A b \in Bookings : Stands(b)]_vars
  <2> SUFFICES ASSUME RatingsInv, Next, NEW b \in Bookings PROVE Stands(b)
    OBVIOUS
  <2>1. rating \in [Bookings -> Scores \cup {None}]
        /\ status \in [Bookings -> {"under way", "COMPLETED", "removed"}]
    BY DEF RatingsInv, TypeOK
  <2>2. CASE \E x \in Bookings : Complete(x) \/ Remove(x)
    BY <2>1, <2>2 DEF Complete, Remove
  <2>3. CASE \E s \in Slots :
                \/ \E x \in Bookings, score \in Scores : RateRead(s, x, score)
                \/ Insert(s) \/ Aggregate(s) \/ Abort(s)
    BY <2>3 DEF RateRead, Insert, Aggregate, Abort
  <2>4. ASSUME NEW s \in Slots, InsertAlone(s) \/ Update(s) PROVE Stands(b)
    <3>1. rating[req[s].booking] = None
      BY <2>4 DEF InsertAlone, Insertable, Update, At, RatingsInv,
                  UniqueInsert, Inserted
    <3>2. rating' = [rating EXCEPT ![req[s].booking] = req[s].score]
      BY <2>4 DEF InsertAlone, Update
    <3> QED
      BY <2>1, <3>1, <3>2
  <2> QED
    BY <2>2, <2>3, <2>4 DEF Next
<1> QED
  BY <1>1, RatingsInvariance, PTL DEF Spec, FirstScoreStands
-----------------------------------------------------------------------------
(***************************************************************************)
(* When no two averages of one washer are calculated at once.              *)
(***************************************************************************)

\* A step that keeps or takes away ratings of washers, and lets requests only go
\* on as they were, be given up or read anew, loses none.
LEMMA NothingNewToCount ==
    ASSUME AllCounted, UNCHANGED average,
           \A w \in Washers : RatedOf(w)' \subseteq RatedOf(w),
           \A t \in Slots : At(t, "update")' =>
               /\ At(t, "update") /\ req'[t] = req[t]
               /\ WasherOf[req[t].booking] \in Washers
    PROVE  AllCounted'
<1>1. \A w \in Washers : RatedOf(w)' \subseteq average'[w]
  BY DEF AllCounted
<1>2. ASSUME NEW t \in Slots, At(t, "update")'
      PROVE  RatedOf(WasherOf[req[t].booking])' \subseteq req'[t].rated
  <2> DEFINE w == WasherOf[req[t].booking]
  <2>1. At(t, "update") /\ req'[t] = req[t] /\ w \in Washers
    BY <1>2
  <2>2. RatedOf(w)' \subseteq RatedOf(w) /\ RatedOf(w) \subseteq req[t].rated
    BY <2>1 DEF AllCounted
  <2>3. WasherOf[req[t].booking]' = w
    BY <2>1
  <2> QED
    BY <2>1, <2>2, <2>3
<1> QED
  BY <1>1, <1>2 DEF AllCounted

\* A transaction that has aggregated is for a booking of a washer.
LEMMA UpdatesHaveWashers ==
    ASSUME RatingsInv, NEW t \in Slots, At(t, "update")
    PROVE  /\ req[t].booking \in Bookings
           /\ WasherOf[req[t].booking] \in Washers
           /\ req[t].booking \in req[t].rated
  BY DEF RatingsInv, InFlight, At

\* Every committed rating is in the average of its washer, and in every average
\* that is about to be stored: what is aggregated is all there is, and nobody
\* commits another rating of the washer before it is stored.
LEMMA AllCountedKept ==
    ASSUME RatingsInv, AllCounted, AveragesApart, [Next]_vars
    PROVE  AllCounted'
<1> USE DEF RatingsInv, TypeOK
<1>1. CASE UNCHANGED vars
  BY <1>1, NothingNewToCount, UpdatesHaveWashers DEF vars, RatedOf, At
<1>2. CASE \E b \in Bookings : Complete(b) \/ Remove(b)
  <2>1. PICK b \in Bookings : Complete(b) \/ Remove(b)
    BY <1>2
  <2>2. UNCHANGED <<average, req>>
    BY <2>1 DEF Complete, Remove
  <2>3. \A x \in Bookings : rating'[x] # None => rating[x] # None
    BY <2>1 DEF Complete, Remove
  <2> QED
    BY <2>2, <2>3, NothingNewToCount, UpdatesHaveWashers DEF RatedOf, At
<1>3. CASE \E s \in Slots :
              \/ \E b \in Bookings, score \in Scores : RateRead(s, b, score)
              \/ Insert(s) \/ Abort(s)
  <2>1. PICK s \in Slots :
              \/ \E b \in Bookings, score \in Scores : RateRead(s, b, score)
              \/ Insert(s) \/ Abort(s)
    BY <1>3
  <2>2. UNCHANGED <<rating, average>>
    BY <2>1 DEF RateRead, Insert, Abort
  <2>3. \A t \in Slots \ {s} : req'[t] = req[t]
    BY <2>1 DEF RateRead, Insert, Abort, GoTo
  <2>4. ~ At(s, "update")'
    <3>1. CASE Insert(s)
      <4>1. req' = [req EXCEPT ![s].at = "aggregate"]
        BY <3>1 DEF Insert, GoTo
      <4> QED
        BY <4>1 DEF At, Request
    <3>2. CASE Abort(s)
      BY <3>2 DEF Abort, At, Idle
    <3>3. CASE \E b \in Bookings, score \in Scores : RateRead(s, b, score)
      <4>1. PICK b \in Bookings, score \in Scores : RateRead(s, b, score)
        BY <3>3
      <4>2. req'[s].at = "insert"
        BY <4>1 DEF RateRead
      <4> QED
        BY <4>2 DEF At
    <3> QED
      BY <2>1, <3>1, <3>2, <3>3
  <2> QED
    BY <2>2, <2>3, <2>4, NothingNewToCount, UpdatesHaveWashers DEF RatedOf, At
<1>4. CASE \E s \in Slots : InsertAlone(s)
  <2>1. PICK s \in Slots : InsertAlone(s)
    BY <1>4
  <2>2. average' = average
    BY <2>1 DEF InsertAlone
  <2>3. \A x \in Bookings : WasherOf[x] # None => rating'[x] = rating[x]
    BY <2>1 DEF InsertAlone
  <2>4. ~ At(s, "update")' /\ \A t \in Slots \ {s} : req'[t] = req[t]
    BY <2>1 DEF InsertAlone, At, Idle
  <2>5. None \notin Washers
    OBVIOUS
  <2> QED
    BY <2>2, <2>3, <2>4, <2>5, NothingNewToCount, UpdatesHaveWashers
    DEF RatedOf, At
<1>5. CASE \E s \in Slots : Aggregate(s)
  <2>1. PICK s \in Slots : Aggregate(s)
    BY <1>5
  <2>2. UNCHANGED <<rating, average>>
    BY <2>1 DEF Aggregate
  <2>3. /\ req'[s].booking = req[s].booking /\ req'[s].rated = Seen(s)
        /\ \A t \in Slots \ {s} : req'[t] = req[t]
    BY <2>1 DEF Aggregate, Request
  <2>4. RatedOf(WasherOf[req[s].booking]) \subseteq req'[s].rated
    BY <2>3 DEF Seen
  <2> QED
    BY <2>2, <2>3, <2>4 DEF AllCounted, RatedOf, At
<1>6. CASE \E s \in Slots : Update(s)
  <2>1. PICK s \in Slots : Update(s)
    BY <1>6
  <2>0. /\ At(s, "update")
        /\ req[s].booking \in Bookings
        /\ WasherOf[req[s].booking] \in Washers
        /\ req[s].booking \in req[s].rated
    BY <2>1, UpdatesHaveWashers DEF Update
  <2>3. PICK b \in Bookings, w \in Washers :
           b = req[s].booking /\ w = WasherOf[b] /\ b \in req[s].rated
    BY <2>0
  <2>2. /\ At(s, "update")
        /\ average' = [average EXCEPT ![w] = req[s].rated]
        /\ rating' = [rating EXCEPT ![b] = req[s].score]
        /\ req' = [req EXCEPT ![s] = Idle]
    BY <2>1, <2>3 DEF Update
  <2>4. \A x \in Bookings : x # b => rating'[x] = rating[x]
    BY <2>2
  <2>5. RatedOf(w)' \subseteq RatedOf(w) \cup {b}
    BY <2>4 DEF RatedOf
  <2>6. \A v \in Washers : v # w => RatedOf(v)' = RatedOf(v)
    BY <2>3, <2>4 DEF RatedOf
  <2>7. ASSUME NEW v \in Washers PROVE RatedOf(v)' \subseteq average'[v]
    <3>1. CASE v = w
      BY <2>2, <2>3, <2>5, <3>1 DEF AllCounted
    <3>2. CASE v # w
      BY <2>2, <2>6, <3>2 DEF AllCounted
    <3> QED
      BY <3>1, <3>2
  <2>8. ASSUME NEW t \in Slots, At(t, "update")'
        PROVE  RatedOf(WasherOf[req[t].booking])' \subseteq req'[t].rated
    <3>1. t # s /\ req'[t] = req[t] /\ At(t, "update")
      BY <2>2, <2>8 DEF At, Idle
    <3>2. WasherOf[req[t].booking] \in Washers \ {w}
      BY <2>2, <2>3, <3>1, UpdatesHaveWashers DEF AveragesApart
    <3>3. RatedOf(WasherOf[req[t].booking]) \subseteq req[t].rated
      BY <3>1 DEF AllCounted
    <3>4. WasherOf[req[t].booking]' = WasherOf[req[t].booking]
      BY <3>1
    <3> QED
      BY <2>6, <3>1, <3>2, <3>3, <3>4
  <2> QED
    BY <2>7, <2>8 DEF AllCounted
<1> QED
  BY <1>1, <1>2, <1>3, <1>4, <1>5, <1>6 DEF Next

\* The same, as an invariant: no committed rating is missing from the average of
\* its washer, whatever else overlaps and whatever is removed.
LEMMA AllCountedInvariance == ApartSpec => []AllCounted
<1>1. Init => AllCounted /\ AveragesApart
  <2> SUFFICES ASSUME Init PROVE AllCounted /\ AveragesApart
    OBVIOUS
  <2>1. \A w : RatedOf(w) = {}
    BY DEF Init, RatedOf
  <2>2. \A s \in Slots : ~ At(s, "update")
    BY DEF Init, At, Idle
  <2> QED
    BY <2>1, <2>2 DEF AllCounted, AveragesApart
<1>2. RatingsInv /\ AllCounted /\ AveragesApart /\ [Next /\ AveragesApart']_vars
        => AllCounted' /\ AveragesApart'
  <2> SUFFICES ASSUME RatingsInv, AllCounted, AveragesApart,
                      [Next /\ AveragesApart']_vars
               PROVE  AllCounted' /\ AveragesApart'
    OBVIOUS
  <2>1. AllCounted'
    BY AllCountedKept
  <2>2. AveragesApart'
    BY DEF AveragesApart, At, vars
  <2> QED
    BY <2>1, <2>2
<1>3. ApartSpec => Spec
  BY PTL DEF ApartSpec, Spec
<1> QED
  BY <1>1, <1>2, <1>3, RatingsInvariance, PTL DEF ApartSpec

\* Behaviours in which averages are kept apart are those of the code in which two
\* of one washer are never calculated at once.
THEOREM KeptApart == Spec /\ []AveragesApart => ApartSpec
  BY PTL DEF Spec, ApartSpec

\* rateBooking: the average is over all ratings of the washer.
THEOREM EveryRatingCounts == ApartSpec => []AverageCountsAll
<1>1. AllCounted => AverageCountsAll
  BY DEF AllCounted, AverageCountsAll
<1> QED
  BY <1>1, AllCountedInvariance, PTL

\* And over nothing else: it counts only what is rated, unless it was removed.
THEOREM AverageIsExact ==
    ASSUME Removable = {}
    PROVE  ApartSpec => []AverageExact
<1> DEFINE NoneRemoved == \A b \in Bookings : status[b] # "removed"
<1>1. Init => NoneRemoved
  BY DEF Init
<1>2. RatingsInv /\ NoneRemoved /\ [Next]_vars => NoneRemoved'
  <2> SUFFICES ASSUME RatingsInv, NoneRemoved, [Next]_vars PROVE NoneRemoved'
    OBVIOUS
  <2>1. status' = status \/ \E b \in Bookings : Complete(b)
    BY DEF Next, Remove, RateRead, InsertAlone, Insert, Aggregate, Update,
           Abort, vars
  <2> QED
    BY <2>1 DEF RatingsInv, TypeOK, Complete
<1>3. ApartSpec => Spec
  BY PTL DEF ApartSpec, Spec
<1>4. RatingsInv /\ AllCounted /\ NoneRemoved => AverageExact
  <2> SUFFICES ASSUME RatingsInv, AllCounted, NoneRemoved, NEW w \in Washers
               PROVE  average[w] = RatedOf(w)
    BY DEF AverageExact
  <2>1. RatedOf(w) \subseteq average[w]
    BY DEF AllCounted
  <2>2. average[w] \subseteq Bookings
    BY DEF RatingsInv, TypeOK
  <2>3. \A b \in average[w] : WasherOf[b] = w /\ rating[b] # None
    BY <2>2 DEF RatingsInv, AverageOfOwnRatings
  <2> QED
    BY <2>1, <2>2, <2>3 DEF RatedOf
<1> HIDE DEF NoneRemoved
<1> QED
  BY <1>1, <1>2, <1>3, <1>4, RatingsInvariance, AllCountedInvariance, PTL
  DEF Spec
=============================================================================
