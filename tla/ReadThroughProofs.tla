------------------------- MODULE ReadThroughProofs -------------------------
(***************************************************************************)
(* Proofs about ReadThrough, for any bound on the versions, any time to    *)
(* live and any number of requests.                                        *)
(***************************************************************************)
EXTENDS ReadThrough, TLAPS

LEMMA StoredIsEntry ==
    ASSUME NEW v \in Versions
    PROVE  Stored(v) \in Entry /\ Stored(v).data = v
BY BoundsAreNumbers DEF Stored, Entry

\* A unit of time later an entry is still one, of the same data, or none.
LEMMA OlderIsEntry ==
    ASSUME NEW e \in Entry \cup {None}
    PROVE  /\ Older(e) \in Entry \cup {None}
           /\ Older(e) # None => e # None /\ Older(e).data = e.data
<1>1. CASE e = None \/ e.left = 1
      BY <1>1 DEF Older
<1>2. CASE e # None /\ e.left # 1
  <2>1. e \in Entry /\ e.left - 1 \in 1..TTL
        BY <1>2, BoundsAreNumbers DEF Entry
  <2>2. Older(e) = [e EXCEPT !.left = e.left - 1]
        BY <1>2 DEF Older
  <2> QED BY <1>2, <2>1, <2>2 DEF Entry
<1> QED BY <1>1, <1>2

\* Where a request goes next.
LEMMA StepFits ==
    ASSUME req \in [Slots -> Request], NEW s \in Slots,
           NEW at, NEW data, Step(s, at, data),
           \/ at = "set" /\ data \in Versions
           \/ at \in {"idle", "query", "del"} /\ data = None
    PROVE  /\ req' \in [Slots -> Request]
           /\ req'[s].at = at /\ req'[s].data = data
<1>1. [at |-> at, data |-> data] \in Request
      BY DEF Request
<1> QED BY <1>1 DEF Step

LEMMA SetHasData ==
    ASSUME req \in [Slots -> Request], NEW s \in Slots, At(s, "set")
    PROVE  req[s].data \in Versions
BY DEF At, Request

\* Everything has its shape, and no entry outlives its time to live (TypeOK).
THEOREM TypeCorrect == Spec => []TypeOK
<1>1. Init => TypeOK
      BY BoundsAreNumbers DEF Init, TypeOK, Versions, Idle, Request
<1>2. TypeOK /\ [Next]_vars => TypeOK'
  <2> SUFFICES ASSUME TypeOK, [Next]_vars PROVE TypeOK'
      OBVIOUS
  <2> USE DEF TypeOK
  <2>1. ASSUME NEW s \in Slots, LookUp(s) PROVE TypeOK'
        BY <2>1, StepFits DEF LookUp
  <2>2. ASSUME NEW s \in Slots, Query(s) PROVE TypeOK'
        BY <2>2, StepFits DEF Query
  <2>3. ASSUME NEW s \in Slots, Set(s) PROVE TypeOK'
    <3>1. Stored(req[s].data) \in Entry
          BY <2>3, SetHasData, StoredIsEntry DEF Set
    <3> QED BY <2>3, <3>1, StepFits DEF Set
  <2>4. ASSUME NEW s \in Slots, Change(s) PROVE TypeOK'
    <3>1. version' \in Versions
          BY <2>4, BoundsAreNumbers DEF Change, Versions
    <3> QED BY <2>4, <3>1, StepFits DEF Change
  <2>5. ASSUME NEW s \in Slots, Delete(s) PROVE TypeOK'
        BY <2>5, StepFits DEF Delete, RedisOnceDeleted
  <2>6. ASSUME NEW s \in Slots, Abort(s) PROVE TypeOK'
        BY <2>6, StepFits DEF Abort
  <2>7. CASE Disconnect
        BY <2>7 DEF Disconnect
  <2>8. CASE Tick
        BY <2>8, OlderIsEntry DEF Tick
  <2>9. CASE UNCHANGED vars
        BY <2>9 DEF vars
  <2>10. CASE SilentChange
        BY <2>10, BoundsAreNumbers DEF SilentChange, Versions
  <2>11. CASE Restart
    <3>1. Idle \in Request
          BY DEF Idle, Request
    <3> QED BY <2>11, <3>1 DEF Restart
  <2> QED BY <2>1, <2>2, <2>3, <2>4, <2>5, <2>6, <2>7, <2>8, <2>9, <2>10,
            <2>11 DEF Next
<1> QED BY <1>1, <1>2, PTL DEF Spec
-----------------------------------------------------------------------------
(***************************************************************************)
(* No fault, and no announced change between a query and the set that      *)
(* stores what it returned: what is cached is no older than the last       *)
(* announced change whenever no invalidation is due, and what is about to  *)
(* be stored never is.                                                     *)
(***************************************************************************)
HeedsChanges ==
    /\ AllInvalidated => (Found # None => Found.data >= announced)
    /\ NotOvertaken

\* A request that is not at its invalidation leaves the entry as it is, and the
\* data: an invalidation due stays due.
LEMMA EntryKept ==
    ASSUME HeedsChanges, NEW s \in Slots, ~ At(s, "del"),
           UNCHANGED <<version, announced, redis, memory, online>>,
           \A t \in Slots \ {s} : req'[t] = req[t]
    PROVE  AllInvalidated' => (Found' # None => Found'.data >= announced')
  BY DEF HeedsChanges, AllInvalidated, Found, At

\* "Clear available bookings cache" works as far as the code calls it: when
\* nothing fails and no announced change overtakes what a request is about to
\* store, nothing older than the last announced change is served once its
\* invalidation is done, however else readers, changes, silent ones too, and
\* invalidations overlap (Coherent).
THEOREM CoherentApart ==
    ASSUME ~ Faults
    PROVE  ApartSpec => []Coherent
<1>1. Init => HeedsChanges
      BY DEF Init, HeedsChanges, NotOvertaken, Found, At, Idle
<1>2. TypeOK /\ HeedsChanges /\ [Next /\ NotOvertaken']_vars => HeedsChanges'
  <2> SUFFICES ASSUME TypeOK, HeedsChanges, [Next /\ NotOvertaken']_vars
               PROVE  HeedsChanges'
      OBVIOUS
  <2>0. req \in [Slots -> Request]
        BY DEF TypeOK
  <2>1. NotOvertaken'
        BY DEF HeedsChanges, NotOvertaken, At, vars
  <2> DEFINE Good == AllInvalidated' =>
                        (Found' # None => Found'.data >= announced')
  <2>2. ASSUME NEW s \in Slots, LookUp(s) \/ Query(s) \/ Abort(s)
        PROVE  Good
    <3>1. ~ At(s, "del") /\ UNCHANGED <<version, announced, redis, memory, online>>
          BY <2>2 DEF LookUp, Query, Abort, At
    <3>2. \A t \in Slots \ {s} : req'[t] = req[t]
          BY <2>0, <2>2 DEF LookUp, Query, Abort, Step
    <3> QED BY <3>1, <3>2, EntryKept
  <2>3. ASSUME NEW s \in Slots, Set(s) PROVE Good
    <3>1. req[s].data >= announced /\ req[s].data \in Versions
          BY <2>0, <2>3, SetHasData DEF Set, HeedsChanges, NotOvertaken
    <3>2. Found' = Stored(req[s].data) /\ announced' = announced
          BY <2>3 DEF Set, Found
    <3> QED BY <3>1, <3>2, StoredIsEntry
  <2>4. ASSUME NEW s \in Slots, Change(s) PROVE Good
    <3>1. At(s, "del")'
          BY <2>0, <2>4, StepFits DEF Change, At
    <3> QED BY <3>1 DEF AllInvalidated
  <2>5. ASSUME NEW s \in Slots, Delete(s) PROVE Good
    <3>1. Found' = None
          BY <2>5 DEF Delete, RedisOnceDeleted, Found
    <3> QED BY <3>1
  <2>6. CASE Tick
    <3>1. Found' # None => Found # None /\ Found'.data = Found.data
          BY <2>6, OlderIsEntry DEF Tick, Found, TypeOK
    <3> QED BY <2>1, <2>6, <3>1 DEF Tick, HeedsChanges, AllInvalidated, At
  <2>7. CASE UNCHANGED vars
        BY <2>1, <2>7 DEF vars, HeedsChanges, AllInvalidated, At, Found
  <2>8. CASE SilentChange
        BY <2>1, <2>8 DEF SilentChange, HeedsChanges, AllInvalidated, At, Found
  <2>9. ~ Restart /\ ~ Disconnect
        BY DEF Restart, Disconnect
  <2>10. Good => HeedsChanges'
        BY <2>1 DEF HeedsChanges
  <2> QED BY <2>2, <2>3, <2>4, <2>5, <2>6, <2>7, <2>8, <2>9, <2>10 DEF Next
<1>3. HeedsChanges => Coherent
      BY DEF HeedsChanges, Coherent, Fresh
<1>4. ApartSpec => Spec
      BY PTL DEF ApartSpec, Spec
<1> QED BY <1>1, <1>2, <1>3, <1>4, TypeCorrect, PTL DEF ApartSpec

\* One request at a time is a case of that: no announced change overtakes it.
LEMMA AloneIsApart ==
    ASSUME ~ Faults, \A s, t \in Slots : s = t
    PROVE  Spec => ApartSpec
<1>1. Init => NotOvertaken
      BY DEF Init, NotOvertaken, At, Idle
<1>2. TypeOK /\ NotOvertaken /\ [Next]_vars => NotOvertaken'
  <2> SUFFICES ASSUME TypeOK, NotOvertaken, [Next]_vars,
                      NEW t \in Slots, At(t, "set")'
               PROVE  req'[t].data >= announced'
      BY DEF NotOvertaken
  <2>0. req \in [Slots -> Request]
        BY DEF TypeOK
  <2>1. ASSUME NEW s \in Slots, Query(s) PROVE req'[t].data >= announced'
        BY <2>0, <2>1, StepFits DEF Query, TypeOK, Versions
  <2>2. ASSUME NEW s \in Slots,
               LookUp(s) \/ Set(s) \/ Change(s) \/ Delete(s) \/ Abort(s)
        PROVE  FALSE
    <3>1. req'[s].at \in {"query", "idle", "del"}
          BY <2>0, <2>2, StepFits DEF LookUp, Set, Change, Delete, Abort
    <3>2. s = t
          OBVIOUS
    <3> QED BY <3>1, <3>2 DEF At
  <2>3. CASE Tick \/ SilentChange \/ UNCHANGED vars
        BY <2>3 DEF Tick, SilentChange, vars, NotOvertaken, At
  <2>4. ~ Restart /\ ~ Disconnect
        BY DEF Restart, Disconnect
  <2> QED BY <2>1, <2>2, <2>3, <2>4 DEF Next
<1> QED BY <1>1, <1>2, TypeCorrect, PTL DEF Spec, ApartSpec

\* Hence it holds with one request at a time and no fault, silent changes coming
\* at any point (Coherent).
THEOREM CoherentAlone ==
    ASSUME ~ Faults, \A s, t \in Slots : s = t
    PROVE  Spec => []Coherent
  BY CoherentApart, AloneIsApart, PTL
=============================================================================
