---------------------------- MODULE GarageProofs ----------------------------
(***************************************************************************)
(* Proofs about Garage, for any number of vehicles, spellings and plates   *)
(* and any finite number of overlapping requests.                          *)
(***************************************************************************)
EXTENDS Garage, FiniteSetTheorems, TLAPS

LEMMA RequestsAreRequests ==
    /\ Idle \in Request
    /\ \A at \in Stages, v \in Vehicles, p \in Spellings \cup {None} :
          Req(at, v, p) \in Request
BY DEF Idle, Req, Request

LEMMA RequestParts ==
    ASSUME NEW r \in Request, r.at # "idle"
    PROVE  /\ r.at \in Stages
           /\ r.vehicle \in Vehicles
           /\ r.plate \in Spellings \cup {None}
BY DEF Request

-----------------------------------------------------------------------------
(***************************************************************************)
(* The shape of tables and requests.                                       *)
(***************************************************************************)
LEMMA BeginKeepsShape ==
    ASSUME TypeOK, NEW s \in Slots, NEW r \in Request, Begin(s, r),
           r.at \in {"createInsert", "updateCheck"} => r.plate # None
    PROVE  TypeOK'
BY DEF TypeOK, Begin

LEMMA WriteKeepsShape ==
    ASSUME TypeOK, NEW s \in Slots, ~ At(s, "idle"),
           NEW p \in Spellings \cup {None}, Write(s, p)
    PROVE  TypeOK'
<1>1. req[s].vehicle \in Vehicles
      BY RequestParts DEF TypeOK, At
<1>2. plate' \in [Vehicles -> Spellings \cup {None}]
      BY <1>1 DEF TypeOK, Write
<1> QED BY <1>2, RequestsAreRequests DEF TypeOK, Write, Idle, Req

LEMMA ShapeKept == TypeOK /\ [Next]_vars => TypeOK'
<1> SUFFICES ASSUME TypeOK, [Next]_vars PROVE TypeOK'
    OBVIOUS
<1> USE NoneIsNoId
<1>1. ASSUME NEW s \in Slots, NEW v \in Vehicles, NEW p \in Spellings,
             CreateCheck(s, v, p)
      PROVE  TypeOK'
      BY <1>1, BeginKeepsShape, RequestsAreRequests DEF CreateCheck, Req, Stages
<1>2. ASSUME NEW s \in Slots, NEW v \in Vehicles, UpdateRead(s, v)
      PROVE  TypeOK'
  <2>1. ASSUME NEW p \in Spellings, Begin(s, Req("updateCheck", v, p))
        PROVE  TypeOK'
        BY <2>1, BeginKeepsShape, RequestsAreRequests DEF Req, Stages
  <2>2. CASE Begin(s, Req("updateWrite", v, None))
        BY <2>2, BeginKeepsShape, RequestsAreRequests DEF Req, Stages
  <2> QED BY <1>2, <2>1, <2>2 DEF UpdateRead
<1>3. ASSUME NEW s \in Slots, NEW v \in Vehicles, RemoveRead(s, v)
      PROVE  TypeOK'
      BY <1>3, BeginKeepsShape, RequestsAreRequests DEF RemoveRead, Req, Stages
<1>4. ASSUME NEW s \in Slots, UpdateCheck(s)
      PROVE  TypeOK'
  <2>1. [req[s] EXCEPT !.at = "updateWrite"] \in Request
        BY <1>4 DEF UpdateCheck, At, TypeOK, Request, Stages
  <2> QED BY <1>4, <2>1 DEF UpdateCheck, TypeOK
<1>5. ASSUME NEW s \in Slots, CreateInsert(s)
      PROVE  TypeOK'
      BY <1>5, WriteKeepsShape, RequestParts DEF CreateInsert, At, TypeOK
<1>6. ASSUME NEW s \in Slots, UpdateWrite(s)
      PROVE  TypeOK'
  <2>1. /\ req[s].vehicle \in Vehicles
        /\ req[s].plate \in Spellings \cup {None}
        BY <1>6, RequestParts DEF UpdateWrite, At, TypeOK
  <2>2. plate[req[s].vehicle] \in Spellings \cup {None}
        BY <2>1 DEF TypeOK
  <2> QED BY <1>6, <2>1, <2>2, WriteKeepsShape DEF UpdateWrite, At
<1>7. ASSUME NEW s \in Slots, RemoveWrite(s)
      PROVE  TypeOK'
      BY <1>7, WriteKeepsShape DEF RemoveWrite, At
<1>8. ASSUME NEW s \in Slots, Abort(s)
      PROVE  TypeOK'
      BY <1>8, RequestsAreRequests DEF Abort, TypeOK, Idle, Req
<1>9. CASE UNCHANGED vars
      BY <1>9 DEF vars, TypeOK
<1> QED BY <1>1, <1>2, <1>3, <1>4, <1>5, <1>6, <1>7, <1>8, <1>9 DEF Next

-----------------------------------------------------------------------------
(***************************************************************************)
(* A vehicle being inserted is the business of one request.                *)
(***************************************************************************)
\* A request that begins with a vehicle that has a row meets no insert.
LEMMA BeginKeepsOwn ==
    ASSUME TypeOK, NewIsOwn, NEW s \in Slots, NEW r, Begin(s, r),
           \/ r.at # "createInsert" /\ Live(r.vehicle)
           \/ /\ r.at = "createInsert"
              /\ ~ Live(r.vehicle)
              /\ \A t \in Slots : req[t].vehicle # r.vehicle
    PROVE  NewIsOwn'
BY DEF TypeOK, NewIsOwn, Begin, At, Live

\* The end of a request that changed no vehicle but its own.
LEMMA EndKeepsOwn ==
    ASSUME TypeOK, NewIsOwn, NEW s \in Slots,
           req' = [req EXCEPT ![s] = Idle],
           \A v \in Vehicles : v # req[s].vehicle => plate'[v] = plate[v]
    PROVE  NewIsOwn'
<1> SUFFICES ASSUME NEW u \in Slots, At(u, "createInsert")'
             PROVE  /\ ~ Live(req[u].vehicle)'
                    /\ \A t \in Slots \ {u} : req'[t].vehicle # req'[u].vehicle
    BY DEF NewIsOwn, At
<1>1. u # s /\ req'[u] = req[u] /\ At(u, "createInsert")
      BY DEF TypeOK, At, Idle, Req
<1>2. req[u].vehicle \in Vehicles
      BY <1>1, RequestParts DEF TypeOK, At
<1>3. /\ ~ Live(req[u].vehicle)
      /\ \A t \in Slots \ {u} : req[t].vehicle # req[u].vehicle
      BY <1>1 DEF NewIsOwn
<1>4. ~ Live(req[u].vehicle)'
      BY <1>1, <1>2, <1>3 DEF Live
<1>5. ASSUME NEW t \in Slots \ {u}
      PROVE  req'[t].vehicle # req'[u].vehicle
      BY <1>1, <1>2, <1>3, NoneIsNoId DEF TypeOK, Idle, Req
<1> QED BY <1>4, <1>5

LEMMA OwnKept == TypeOK /\ NewIsOwn /\ [Next]_vars => NewIsOwn'
<1> SUFFICES ASSUME TypeOK, NewIsOwn, [Next]_vars PROVE NewIsOwn'
    OBVIOUS
<1>1. ASSUME NEW s \in Slots, NEW v \in Vehicles, NEW p \in Spellings,
             CreateCheck(s, v, p)
      PROVE  NewIsOwn'
      BY <1>1, BeginKeepsOwn DEF CreateCheck, Req
<1>2. ASSUME NEW s \in Slots, NEW v \in Vehicles, UpdateRead(s, v)
      PROVE  NewIsOwn'
      BY <1>2, BeginKeepsOwn DEF UpdateRead, Req
<1>3. ASSUME NEW s \in Slots, NEW v \in Vehicles, RemoveRead(s, v)
      PROVE  NewIsOwn'
      BY <1>3, BeginKeepsOwn DEF RemoveRead, Req
<1>4. ASSUME NEW s \in Slots, UpdateCheck(s)
      PROVE  NewIsOwn'
      BY <1>4 DEF UpdateCheck, TypeOK, NewIsOwn, At, Live
<1>5. ASSUME NEW s \in Slots, NEW p, Write(s, p)
      PROVE  NewIsOwn'
      BY <1>5, EndKeepsOwn DEF Write, TypeOK
<1>6. ASSUME NEW s \in Slots, CreateInsert(s) \/ UpdateWrite(s) \/ RemoveWrite(s)
      PROVE  NewIsOwn'
      BY <1>5, <1>6 DEF CreateInsert, UpdateWrite, RemoveWrite
<1>7. ASSUME NEW s \in Slots, Abort(s)
      PROVE  NewIsOwn'
      BY <1>7, EndKeepsOwn DEF Abort
<1>8. CASE UNCHANGED vars
      BY <1>8 DEF vars, NewIsOwn, At, Live
<1> QED BY <1>1, <1>2, <1>3, <1>4, <1>6, <1>7, <1>8 DEF Next

-----------------------------------------------------------------------------
(***************************************************************************)
(* The bound.                                                              *)
(***************************************************************************)
Bounded(p) == /\ IsFiniteSet(Claims(p))
              /\ Cardinality(Claims(p)) <= Cardinality(Slots)

LEMMA FewerAreFew ==
    ASSUME NEW T, IsFiniteSet(T), Cardinality(T) <= Cardinality(Slots),
           NEW S, S \subseteq T
    PROVE  IsFiniteSet(S) /\ Cardinality(S) <= Cardinality(Slots)
<1>1. IsFiniteSet(S) /\ Cardinality(S) <= Cardinality(T)
      BY FS_Subset
<1>2. /\ Cardinality(S) \in Nat /\ Cardinality(T) \in Nat
      /\ Cardinality(Slots) \in Nat
      BY <1>1, FewSlots, FS_CardinalityType
<1> QED BY <1>1, <1>2

\* The vehicles the requests name are no more than the requests.
LEMMA NamedAreFew ==
    ASSUME NEW f, DOMAIN f = Slots, NEW S, S \subseteq {f[s] : s \in Slots}
    PROVE  IsFiniteSet(S) /\ Cardinality(S) <= Cardinality(Slots)
<1> DEFINE T == {f[s] : s \in Slots}
           g == [s \in Slots |-> f[s]]
<1>1. g \in Surjection(Slots, T)
      BY DEF Surjection
<1>2. IsFiniteSet(T) /\ Cardinality(T) <= Cardinality(Slots)
      BY <1>1, FewSlots, FS_Surjection
<1> QED BY <1>2, FewerAreFew

\* Sharers are among the claims.
LEMMA BoundedMeansFewSharers ==
    /\ (\A p \in Plates : Bounded(p)) => SharersBounded
    /\ (\A p \in Plates : Bounded(p)') => SharersBounded'
<1>1. \A p : Sharers(p) \subseteq Claims(p)
      BY DEF Sharers, Claims
<1>2. \A p : Sharers(p)' \subseteq Claims(p)'
      BY DEF Sharers, Claims
<1>3. (\A p \in Plates : Bounded(p)) => SharersBounded
      BY <1>1, FewerAreFew DEF SharersBounded, Bounded
<1>4. (\A p \in Plates : Bounded(p)') => SharersBounded'
      BY <1>2, FewerAreFew DEF SharersBounded, Bounded
<1> QED BY <1>3, <1>4

\* A step that adds no claim.
LEMMA FewerClaims ==
    ASSUME SharersBounded, NEW p \in Plates, Claims(p)' \subseteq Claims(p)
    PROVE  Bounded(p)'
BY FewerAreFew DEF SharersBounded, Bounded

\* A check that is passed: no vehicle with the plate is left but the one whose
\* plate was checked, so that whoever claims the plate is named by a request.
LEMMA CheckedIsBounded ==
    ASSUME TypeOK, NEW s \in Slots, NEW v \in Vehicles, NEW sp \in Spellings,
           ~ Conflict(v, sp), UNCHANGED plate,
           NEW r \in Request, r.vehicle = v, req' = [req EXCEPT ![s] = r]
    PROVE  Bounded(Normal[sp])'
<1> DEFINE p == Normal[sp]
           f == [t \in Slots |-> req'[t].vehicle]
<1>1. f[s] = v
      BY DEF TypeOK
<1>2. ASSUME NEW x \in Vehicles, Has(x, p)'
      PROVE  x = v
      BY <1>2 DEF Has, Conflict, Live
<1>3. ASSUME NEW x \in Vehicles, Claimed(x, p)'
      PROVE  \E t \in Slots : f[t] = x
      BY <1>3 DEF Claimed
<1>4. Claims(p)' \subseteq {f[t] : t \in Slots}
      BY <1>1, <1>2, <1>3 DEF Claims
<1> QED BY <1>4, NamedAreFew DEF Bounded

\* A new state of one request that claims nothing, or only what it claimed.
LEMMA RequestClaimsNoMore ==
    ASSUME TypeOK, NEW s \in Slots, NEW r, NEW p, UNCHANGED plate,
           req' = [req EXCEPT ![s] = r],
           Brings(r, p) => Brings(req[s], p) /\ r.vehicle = req[s].vehicle
    PROVE  Claims(p)' \subseteq Claims(p)
<1>1. ASSUME NEW x \in Vehicles, Claimed(x, p)'
      PROVE  Claimed(x, p)
      BY <1>1 DEF Claimed, TypeOK, Brings
<1>2. ASSUME NEW x \in Vehicles, Has(x, p)'
      PROVE  Has(x, p)
      BY <1>2 DEF Has, Live
<1> QED BY <1>1, <1>2 DEF Claims

\* A write of what the request claimed, of what was there, or of nothing.
LEMMA WriteClaimsNoMore ==
    ASSUME TypeOK, NEW s \in Slots, ~ At(s, "idle"), NEW p, NEW q,
           Write(s, q),
           \/ q = None
           \/ q = plate[req[s].vehicle]
           \/ Normal[q] = p => Brings(req[s], p)
    PROVE  Claims(p)' \subseteq Claims(p)
<1>1. req[s].vehicle \in Vehicles
      BY RequestParts DEF TypeOK, At
<1>2. ASSUME NEW x \in Vehicles, Claimed(x, p)'
      PROVE  Claimed(x, p)
      BY <1>2 DEF Claimed, TypeOK, Brings, Write, Idle, Req
<1>3. ASSUME NEW x \in Vehicles, Has(x, p)'
      PROVE  Has(x, p) \/ Claimed(x, p)
      BY <1>1, <1>3 DEF Has, Live, Write, TypeOK, Claimed
<1> QED BY <1>2, <1>3 DEF Claims

\* A request whose check was passed goes on with a plate to write: no other
\* vehicle had it.
Checked(p) ==
    \E s \in Slots, r \in Request :
        /\ Brings(r, p)
        /\ r.vehicle \in Vehicles
        /\ r.plate \in Spellings
        /\ ~ Conflict(r.vehicle, r.plate)
        /\ plate' = plate
        /\ req' = [req EXCEPT ![s] = r]

\* Only a check adds a claim.
LEMMA StepClaims ==
    ASSUME TypeOK, [Next]_vars, NEW p \in Plates
    PROVE  Claims(p)' \subseteq Claims(p) \/ Checked(p)
<1> DEFINE Goal == Claims(p)' \subseteq Claims(p) \/ Checked(p)
<1>1. ASSUME NEW s \in Slots, NEW v \in Vehicles, NEW sp \in Spellings,
             CreateCheck(s, v, sp)
      PROVE  Goal
  <2> DEFINE r == Req("createInsert", v, sp)
  <2>1. /\ r \in Request /\ r.vehicle = v /\ r.plate = sp
        /\ req' = [req EXCEPT ![s] = r]
        BY <1>1, RequestsAreRequests DEF CreateCheck, Begin, Req, Stages
  <2>2. ~ Conflict(v, sp) /\ plate' = plate
        BY <1>1 DEF CreateCheck, Begin
  <2>3. CASE Brings(r, p)
    <3> HIDE DEF r
    <3> QED BY <2>1, <2>2, <2>3 DEF Checked
  <2>4. CASE ~ Brings(r, p)
        BY <2>1, <2>2, <2>4, RequestClaimsNoMore
  <2> QED BY <2>3, <2>4
<1>2. ASSUME NEW s \in Slots, NEW r, Begin(s, r), ~ Brings(r, p)
      PROVE  Goal
      BY <1>2, RequestClaimsNoMore DEF Begin
<1>3. ASSUME NEW s \in Slots, NEW v \in Vehicles,
             UpdateRead(s, v) \/ RemoveRead(s, v)
      PROVE  Goal
  <2>1. /\ \A sp : ~ Brings(Req("updateCheck", v, sp), p)
        /\ ~ Brings(Req("updateWrite", v, None), p)
        /\ ~ Brings(Req("removeWrite", v, None), p)
        BY DEF Brings, Req
  <2> QED BY <1>2, <1>3, <2>1 DEF UpdateRead, RemoveRead
<1>4. ASSUME NEW s \in Slots, UpdateCheck(s)
      PROVE  Goal
  <2> DEFINE v == req[s].vehicle
             sp == req[s].plate
             r == [req[s] EXCEPT !.at = "updateWrite"]
  <2>1. /\ req[s] \in Request
        /\ req[s].at = "updateCheck"
        /\ sp \in Spellings
        /\ v \in Vehicles
        BY <1>4, RequestParts DEF UpdateCheck, At, TypeOK
  <2>2. /\ r \in Request
        /\ r.vehicle = v
        /\ r.plate = sp
        BY <2>1 DEF Request, Stages
  <2>3. ~ Conflict(v, sp) /\ plate' = plate /\ req' = [req EXCEPT ![s] = r]
        BY <1>4 DEF UpdateCheck
  <2>4. CASE Brings(r, p)
    <3> HIDE DEF r
    <3> QED BY <2>1, <2>2, <2>3, <2>4 DEF Checked
  <2>5. CASE ~ Brings(r, p)
        BY <2>3, <2>5, RequestClaimsNoMore
  <2> QED BY <2>4, <2>5
<1>5. ASSUME NEW s \in Slots, CreateInsert(s)
      PROVE  Goal
  <2>1. Normal[req[s].plate] = p => Brings(req[s], p)
        BY <1>5 DEF CreateInsert, At, Brings, TypeOK
  <2> QED BY <1>5, <2>1, WriteClaimsNoMore DEF CreateInsert, At
<1>6. ASSUME NEW s \in Slots, UpdateWrite(s)
      PROVE  Goal
  <2>1. CASE req[s].plate = None
        BY <1>6, <2>1, WriteClaimsNoMore DEF UpdateWrite, At
  <2>2. CASE req[s].plate # None
    <3>1. Normal[req[s].plate] = p => Brings(req[s], p)
          BY <1>6, <2>2 DEF UpdateWrite, At, Brings
    <3> QED BY <1>6, <2>2, <3>1, WriteClaimsNoMore DEF UpdateWrite, At
  <2> QED BY <2>1, <2>2
<1>7. ASSUME NEW s \in Slots, RemoveWrite(s)
      PROVE  Goal
      BY <1>7, WriteClaimsNoMore DEF RemoveWrite, At
<1>8. ASSUME NEW s \in Slots, Abort(s)
      PROVE  Goal
  <2>1. ~ Brings(Idle, p)
        BY DEF Brings, Idle, Req
  <2> QED BY <1>8, <2>1, RequestClaimsNoMore DEF Abort
<1>9. CASE UNCHANGED vars
      BY <1>9 DEF vars, Claims, Claimed, Has, Live, Brings
<1> QED BY <1>1, <1>3, <1>4, <1>5, <1>6, <1>7, <1>8, <1>9 DEF Next

LEMMA BoundKept == GarageInv /\ [Next]_vars => SharersBounded'
<1> SUFFICES ASSUME TypeOK, SharersBounded, [Next]_vars,
                    NEW p \in Plates
             PROVE  Bounded(p)'
  BY BoundedMeansFewSharers DEF GarageInv
<1>1. CASE Claims(p)' \subseteq Claims(p)
      BY <1>1, FewerClaims
<1>2. CASE Checked(p)
      BY <1>2, CheckedIsBounded DEF Checked, Brings
<1> QED BY <1>1, <1>2, StepClaims

-----------------------------------------------------------------------------
\* The inductive invariant (GarageInv) holds, however requests overlap.
THEOREM GarageInvariance == Spec => []GarageInv
<1>1. Init => GarageInv
  <2> SUFFICES ASSUME Init PROVE GarageInv
      OBVIOUS
  <2>1. TypeOK /\ NewIsOwn
        BY RequestsAreRequests DEF Init, TypeOK, NewIsOwn, At, Idle, Req
  <2>2. \A p \in Plates : Claims(p) = {}
        BY DEF Init, Claims, Has, Live, Claimed, Brings, Idle, Req
  <2>3. IsFiniteSet({}) /\ Cardinality({}) = 0 /\ Cardinality(Slots) \in Nat
        BY FewSlots, FS_EmptySet, FS_CardinalityType
  <2>4. \A p \in Plates : Bounded(p)
        BY <2>2, <2>3 DEF Bounded
  <2> QED BY <2>1, <2>4, BoundedMeansFewSharers DEF GarageInv
<1>2. GarageInv /\ [Next]_vars => GarageInv'
      BY ShapeKept, OwnKept, BoundKept DEF GarageInv
<1> QED BY <1>1, <1>2, PTL DEF Spec

\* However many vehicles there are and however long the service runs, those that
\* share a plate are no more than the requests that can overlap (SharersBounded).
THEOREM FewSharers == Spec => []SharersBounded
<1>1. GarageInv => SharersBounded
      BY DEF GarageInv
<1> QED BY <1>1, GarageInvariance, PTL
-----------------------------------------------------------------------------
(***************************************************************************)
(* When no two requests have one plate checked and not yet written.        *)
(***************************************************************************)

\* After a check nobody but the vehicle checked claims the plate.
LEMMA UniqueKept ==
    ASSUME TypeOK, PlatesUnique, [Next]_vars, PlatesApart'
    PROVE  PlatesUnique'
<1> SUFFICES ASSUME NEW p \in Plates,
                    NEW v \in Vehicles, NEW w \in Vehicles,
                    v \in Claims(p)', w \in Claims(p)'
             PROVE  v = w
    BY DEF PlatesUnique, Claims
<1>1. CASE Claims(p)' \subseteq Claims(p)
      BY <1>1 DEF PlatesUnique
<1>2. CASE Checked(p)
  <2>1. PICK s \in Slots, r \in Request :
                 /\ Brings(r, p)
                 /\ r.plate \in Spellings
                 /\ ~ Conflict(r.vehicle, r.plate)
                 /\ plate' = plate
                 /\ req' = [req EXCEPT ![s] = r]
        BY <1>2 DEF Checked
  <2>2. req'[s] = r /\ Normal[r.plate] = p
        BY <2>1 DEF TypeOK, Brings
  <2>3. ASSUME NEW x \in Vehicles, Has(x, p)'
        PROVE  x = r.vehicle
        BY <2>1, <2>2, <2>3 DEF Has, Conflict, Live
  <2>4. ASSUME NEW x \in Vehicles, Claimed(x, p)'
        PROVE  x = r.vehicle
    <3>1. PICK t \in Slots : req'[t].vehicle = x /\ Brings(req'[t], p)
          BY <2>4 DEF Claimed, Brings
    <3>2. Brings(req'[s], p)
          BY <2>1, <2>2
    <3>3. \A a, b \in Slots : a # b =>
             ~ (Brings(req'[a], p) /\ Brings(req'[b], p))
          BY DEF PlatesApart, Brings
    <3>4. t = s
          BY <3>1, <3>2, <3>3
    <3> QED BY <2>2, <3>1, <3>4
  <2> QED BY <2>3, <2>4 DEF Claims
<1> QED BY <1>1, <1>2, StepClaims

\* assertPlateAvailable: with a lock on the plate from its check to its write, no
\* two vehicles would have one plate, in whatever spelling (PlatesUnique).
THEOREM PlatesAreUnique == ApartSpec => []PlatesUnique
<1>1. Init => PlatesUnique
  <2>1. ASSUME Init PROVE \A p \in Plates : Claims(p) = {}
        BY <2>1 DEF Init, Claims, Has, Live, Claimed, Brings, Idle, Req
  <2> QED BY <2>1 DEF PlatesUnique
<1>2. GarageInv /\ PlatesUnique /\ [Next /\ PlatesApart']_vars
         => PlatesUnique'
  <2> SUFFICES ASSUME GarageInv, PlatesUnique, [Next /\ PlatesApart']_vars
               PROVE  PlatesUnique'
      OBVIOUS
  <2>1. CASE UNCHANGED vars
        BY <2>1 DEF vars, PlatesUnique, Claims, Claimed, Has, Live, Brings
  <2>2. CASE Next /\ PlatesApart'
        BY <2>2, UniqueKept DEF GarageInv
  <2> QED BY <2>1, <2>2
<1>3. ApartSpec => Spec
      BY PTL DEF ApartSpec, Spec
<1> QED BY <1>1, <1>2, <1>3, GarageInvariance, PTL DEF ApartSpec
=============================================================================
