------------------------------- MODULE Garage -------------------------------
(***************************************************************************)
(* VehiclesService: clients register vehicles, change their plates and     *)
(* remove them.  A plate is stored as it was typed and compared in a       *)
(* normalised form (no spaces or dashes, upper case).  The comparison is a *)
(* query over all vehicles, the write comes later, and no index stands     *)
(* behind them, so two requests can both find a plate free.                *)
(*                                                                         *)
(* The owner of a vehicle is the only one who can name it, so ownership    *)
(* restricts nothing here.  Brand, model, category and size are left out.  *)
(***************************************************************************)
EXTENDS Naturals, FiniteSets

CONSTANTS
    Vehicles,    \* ids of vehicles
    Spellings,   \* what users type as a plate
    Plates,      \* plates in their normalised form
    Normal,      \* spelling |-> its normalised form
    Slots,       \* requests that can be in flight at the same time
    None         \* no vehicle, no plate given

ASSUME Normalised == Normal \in [Spellings -> Plates]
ASSUME NoneIsNoId == None \notin Vehicles \cup Spellings
ASSUME FewSlots == IsFiniteSet(Slots)

VARIABLES
    plate,       \* vehicle |-> Vehicle.plate, or None when there is no row
    req          \* the request each slot is working on

vars == <<plate, req>>

Stages == {"createInsert", "updateCheck", "updateWrite", "removeWrite"}

Request == [at: Stages, vehicle: Vehicles, plate: Spellings \cup {None}]
             \cup [at: {"idle"}, vehicle: {None}, plate: {None}]

Req(at, v, p) == [at |-> at, vehicle |-> v, plate |-> p]
Idle == Req("idle", None, None)

At(s, stage) == req[s].at = stage
Live(v) == plate[v] # None

Init == /\ plate = [v \in Vehicles |-> None]
        /\ req = [s \in Slots |-> Idle]
-----------------------------------------------------------------------------
(***************************************************************************)
(* The endpoints.                                                          *)
(***************************************************************************)
Begin(s, r) == /\ At(s, "idle")
               /\ req' = [req EXCEPT ![s] = r]
               /\ UNCHANGED plate

\* The write of the request of s, which is then over.
Write(s, p) == /\ plate' = [plate EXCEPT ![req[s].vehicle] = p]
               /\ req' = [req EXCEPT ![s] = Idle]

\* Seeded fault: what was typed is compared as it is.
BugConflict(v, p) == \E other \in Vehicles \ {v} : plate[other] = p

\* Another vehicle has the plate p stands for (assertPlateAvailable).
Conflict(v, p) == \E other \in Vehicles \ {v} :
                     Live(other) /\ Normal[plate[other]] = Normal[p]

\* The id is new: no row and no request has it.
CreateCheck(s, v, p) ==
    /\ ~ Live(v)
    /\ \A t \in Slots : req[t].vehicle # v
    /\ ~ Conflict(v, p)
    /\ Begin(s, Req("createInsert", v, p))

CreateInsert(s) == /\ At(s, "createInsert")
                   /\ Write(s, req[s].plate)

\* Seeded fault: a plate that is left out is looked up as well.
BugUpdateRead(s, v) ==
    /\ Live(v)
    /\ \E p \in Spellings \cup {None} : Begin(s, Req("updateCheck", v, p))

\* An update may leave the plate out: then it is neither checked nor written.
UpdateRead(s, v) ==
    /\ Live(v)
    /\ \/ \E p \in Spellings : Begin(s, Req("updateCheck", v, p))
       \/ Begin(s, Req("updateWrite", v, None))

UpdateCheck(s) ==
    /\ At(s, "updateCheck")
    /\ ~ Conflict(req[s].vehicle, req[s].plate)
    /\ req' = [req EXCEPT ![s].at = "updateWrite"]
    /\ UNCHANGED plate

UpdateWrite(s) ==
    LET v == req[s].vehicle
        p == req[s].plate
    IN
    /\ At(s, "updateWrite")
    /\ Live(v)
    /\ Write(s, IF p = None THEN plate[v] ELSE p)

RemoveRead(s, v) == Live(v) /\ Begin(s, Req("removeWrite", v, None))

RemoveWrite(s) == /\ At(s, "removeWrite")
                  /\ Live(req[s].vehicle)
                  /\ Write(s, None)

\* A conflict, a row that is gone, a query that fails, the death of the process.
Abort(s) == /\ ~ At(s, "idle")
            /\ req' = [req EXCEPT ![s] = Idle]
            /\ UNCHANGED plate

Next == \E s \in Slots :
           \/ \E v \in Vehicles : \/ \E p \in Spellings : CreateCheck(s, v, p)
                                  \/ UpdateRead(s, v)
                                  \/ RemoveRead(s, v)
           \/ CreateInsert(s)
           \/ UpdateCheck(s)
           \/ UpdateWrite(s)
           \/ RemoveWrite(s)
           \/ Abort(s)

Spec == Init /\ [][Next]_vars
-----------------------------------------------------------------------------
(***************************************************************************)
(* Properties.                                                             *)
(***************************************************************************)
Has(v, p) == Live(v) /\ Normal[plate[v]] = p

\* Request r will write plate p: its check is behind it.
Brings(r, p) == /\ r.at \in {"createInsert", "updateWrite"}
                /\ r.plate # None
                /\ Normal[r.plate] = p

Sharers(p) == {v \in Vehicles : Has(v, p)}
Claimed(v, p) == \E s \in Slots : req[s].vehicle = v /\ Brings(req[s], p)
Claims(p) == {v \in Vehicles : Has(v, p) \/ Claimed(v, p)}

\* What is compared or inserted is a plate.
TypeOK == /\ plate \in [Vehicles -> Spellings \cup {None}]
          /\ req \in [Slots -> Request]
          /\ \A s \in Slots : req[s].at \in {"createInsert", "updateCheck"}
                               => req[s].plate # None

NewIsOwn ==
    \A s \in Slots : At(s, "createInsert") =>
        /\ ~ Live(req[s].vehicle)
        /\ \A t \in Slots \ {s} : req[t].vehicle # req[s].vehicle

\* "Cette plaque d'immatriculation est déjà enregistrée" is checked before
\* every write of a plate, but long before.  However long the service runs, the
\* vehicles that share a plate, in whatever spelling, and the requests that are
\* about to join them never exceed the requests that can overlap: a shared plate
\* admits no newcomer.
SharersBounded ==
    \A p \in Plates : /\ IsFiniteSet(Claims(p))
                      /\ Cardinality(Sharers(p)) <= Cardinality(Slots)
                      /\ Cardinality(Claims(p)) <= Cardinality(Slots)

\* With the types, and that nobody else works on a vehicle being inserted, it is
\* inductive: this is what a request still relies on long after its check.
GarageInv == TypeOK /\ NewIsOwn /\ SharersBounded
-----------------------------------------------------------------------------
(***************************************************************************)
(* What holds when no two requests have one plate checked and not yet      *)
(* written, which a unique index on the normalised plate would see to.     *)
(***************************************************************************)
PlatesApart ==
    \A s, t \in Slots : s # t =>
        \A p \in Plates : ~ (Brings(req[s], p) /\ Brings(req[t], p))

ApartSpec == Init /\ [][Next /\ PlatesApart']_vars

\* "Cette plaque d'immatriculation est déjà enregistrée": no two vehicles have
\* one plate, in whatever spelling.
PlatesUnique ==
    \A p \in Plates : \A v, w \in Claims(p) : v = w
=============================================================================
