------------------------ MODULE NotificationsProofs ------------------------
(***************************************************************************)
(* Proofs about Notifications, for any number of notifications, workers    *)
(* and push tokens.                                                        *)
(***************************************************************************)
EXTENDS Notifications, FiniteSetTheorems, TLAPS

\* What a worker that has a notification is doing.
LEMMA ActivityParts ==
    ASSUME NEW a \in Activity
    PROVE  /\ a.note \in Notes <=>
                a.at \in {"read", "push", "clear", "addReceipt"}
           /\ a.note # None => a.note \in Notes
           /\ a.note = None <=> a.at \in {"idle", "check", "erase"}
           /\ a.token \in Tokens \cup {None}
           /\ a.at \in {"check", "erase"} => a.token \in Tokens
           /\ a.stalled \in 0..MaxStalled
           /\ a.lock \in BOOLEAN
           /\ a.at = "idle" => ~ a.lock
<1>1. CASE a \in [at: {"read", "push", "clear", "addReceipt"}, note: Notes,
                   token: Tokens \cup {None}, stalled: {0}, lock: BOOLEAN]
      BY <1>1, NoNoteIsNone DEF MaxStalled
<1>2. CASE a \in [at: {"check", "erase"}, note: {None},
                   token: Tokens, stalled: 0..MaxStalled, lock: BOOLEAN]
      BY <1>2, NoNoteIsNone
<1>3. CASE a \in [at: {"idle"}, note: {None}, token: {None}, stalled: {0},
                   lock: {FALSE}]
  <2>1. /\ a.note = None /\ a.note \notin Notes /\ a.at = "idle"
        /\ a.token = None /\ a.stalled \in 0..MaxStalled
        BY <1>3, NoNoteIsNone DEF MaxStalled
  <2>2. a.lock = FALSE
        BY <1>3
  <2> QED BY <2>1, <2>2
<1> QED BY <1>1, <1>2, <1>3 DEF Activity

LEMMA IdleIsActivity == /\ Idle \in Activity /\ Idle.at = "idle"
                        /\ Idle.note = None /\ ~ Idle.lock
BY DEF Idle, Doing, Activity

\* The message a worker has still to send.
Pending(a) == IF a.at \in {"read", "push"} THEN 1 ELSE 0

LEMMA ToPushIsFinite ==
    ASSUME NEW n \in Notes
    PROVE  /\ IsFiniteSet(ToPush(n)) /\ Cardinality(ToPush(n)) \in Nat
           /\ IsFiniteSet(ToPush(n)') /\ Cardinality(ToPush(n)') \in Nat
<1>1. ToPush(n) \in SUBSET Workers /\ ToPush(n)' \in SUBSET Workers
      BY DEF ToPush
<1> QED BY <1>1, FewWorkers, FS_Subset, FS_CardinalityType

LEMMA OneElementMoves ==
    ASSUME NEW S, NEW T, NEW x, IsFiniteSet(S), IsFiniteSet(T),
           S \ {x} = T \ {x}
    PROVE  /\ (x \in S <=> x \in T) => Cardinality(T) = Cardinality(S)
           /\ x \in S /\ x \notin T => Cardinality(T) = Cardinality(S) - 1
           /\ x \notin S /\ x \in T => Cardinality(T) = Cardinality(S) + 1
<1>1. Cardinality(S) \in Nat /\ Cardinality(T) \in Nat
      BY FS_CardinalityType
<1>2. Cardinality(S \ {x}) =
         IF x \in S THEN Cardinality(S) - 1 ELSE Cardinality(S)
      BY FS_RemoveElement
<1>3. Cardinality(T \ {x}) =
         IF x \in T THEN Cardinality(T) - 1 ELSE Cardinality(T)
      BY FS_RemoveElement
<1> QED BY <1>1, <1>2, <1>3

\* One worker more or less has a message of a notification to send.
LEMMA OnePusherMoves ==
    ASSUME TypeOK, NEW w \in Workers, NEW a \in Activity, NEW n \in Notes,
           worker' = [worker EXCEPT ![w] = a],
           worker[w].note \in {None, n}, a.note \in {None, n}
    PROVE  Cardinality(ToPush(n)') =
              Cardinality(ToPush(n)) - Pending(worker[w]) + Pending(a)
<1>0. /\ worker[w] \in Activity /\ worker'[w] = a
      /\ \A v \in Workers \ {w} : worker'[v] = worker[v]
      BY DEF TypeOK
<1>1. ToPush(n) \ {w} = ToPush(n)' \ {w}
      BY <1>0 DEF ToPush, At
<1>2. (w \in ToPush(n) <=> Pending(worker[w]) = 1) /\ Pending(worker[w]) \in {0, 1}
      BY <1>0, ActivityParts DEF ToPush, At, Pending
<1>3. (w \in ToPush(n)' <=> Pending(a) = 1) /\ Pending(a) \in {0, 1}
      BY <1>0, ActivityParts DEF ToPush, At, Pending
<1>4. /\ (w \in ToPush(n) <=> w \in ToPush(n)')
            => Cardinality(ToPush(n)') = Cardinality(ToPush(n))
      /\ w \in ToPush(n) /\ w \notin ToPush(n)'
            => Cardinality(ToPush(n)') = Cardinality(ToPush(n)) - 1
      /\ w \notin ToPush(n) /\ w \in ToPush(n)'
            => Cardinality(ToPush(n)') = Cardinality(ToPush(n)) + 1
      BY <1>1, ToPushIsFinite, OneElementMoves
<1> QED BY <1>1, <1>2, <1>3, <1>4, ToPushIsFinite

-----------------------------------------------------------------------------
(***************************************************************************)
(* A worker does something about one notification: it has it, or takes it. *)
(***************************************************************************)
LEMMA Moves ==
    ASSUME NotesInv, NEW w \in Workers, NEW a \in Activity, NEW n \in Notes,
           NEW j \in Job, NEW p \in Nat,
           worker' = [worker EXCEPT ![w] = a],
           job' = [job EXCEPT ![n] = j],
           pushes' = [pushes EXCEPT ![n] = p],
           worker[w].note \in {None, n}, a.note \in {None, n},
           a.at \in {"push", "addReceipt"} => a.token \in Tokens,
           j.state = "active" <=>
              \/ a.note = n /\ a.lock
              \/ job[n].state = "active" /\ ~ Holds(w, n),
           a.note = n /\ a.lock => (job[n].state # "active" \/ Holds(w, n)),
           j.state # "failed" => j.made < Attempts /\ j.stalled <= MaxStalled,
           j.state = "failed" => j.made = Attempts \/ j.stalled > MaxStalled,
           p + Pending(a) + Paid(job[n])
              <= pushes[n] + Pending(worker[w]) + Paid(j),
           token' \in Tokens \cup {None}, dead' \subseteq Tokens,
           receipts' \in [Tokens \X (0..MaxStalled) -> Nat]
    PROVE  NotesInv'
<1>0. /\ worker'[w] = a /\ job'[n] = j /\ pushes'[n] = p
      /\ \A v \in Workers \ {w} : worker'[v] = worker[v]
      /\ \A m \in Notes \ {n} : job'[m] = job[m] /\ pushes'[m] = pushes[m]
      /\ n # None
      BY NoNoteIsNone DEF NotesInv, TypeOK
<1>1. TypeOK'
      BY <1>0 DEF NotesInv, TypeOK, At
<1>2. OneLock'
  <2>1. ASSUME NEW m \in Notes \ {n}, NEW v \in Workers
        PROVE  Holds(v, m)' <=> Holds(v, m)
        BY <1>0, NoNoteIsNone DEF Holds
  <2>2. \A m \in Notes \ {n} :
           /\ job'[m].state = "active" <=> \E v \in Workers : Holds(v, m)'
           /\ \A v, other \in Workers :
                 Holds(v, m)' /\ Holds(other, m)' => other = v
        BY <1>0, <2>1 DEF NotesInv, OneLock
  <2>3. /\ Holds(w, n)' <=> a.note = n /\ a.lock
        /\ \A v \in Workers \ {w} : Holds(v, n)' <=> Holds(v, n)
        BY <1>0 DEF Holds
  <2>4. \E v \in Workers : Holds(v, n)' => job'[n].state = "active"
        BY <1>0, <2>3 DEF NotesInv, OneLock
  <2>5. /\ job[n].state = "active" <=> \E v \in Workers : Holds(v, n)
        /\ \A v, other \in Workers : Holds(v, n) /\ Holds(other, n) => other = v
        BY DEF NotesInv, OneLock
  <2>6. job'[n].state = "active" <=> \E v \in Workers : Holds(v, n)'
    <3>1. CASE a.note = n /\ a.lock
          BY <1>0, <2>3, <3>1
    <3>2. CASE ~ (a.note = n /\ a.lock)
      <4>1. (\E v \in Workers : Holds(v, n)')
               <=> \E v \in Workers \ {w} : Holds(v, n)
            BY <2>3, <3>2
      <4>2. (\E v \in Workers \ {w} : Holds(v, n))
               <=> job[n].state = "active" /\ ~ Holds(w, n)
            BY <2>5
      <4> QED BY <1>0, <3>2, <4>1, <4>2
    <3> QED BY <3>1, <3>2
  <2>7. \A v, other \in Workers : Holds(v, n)' /\ Holds(other, n)' => other = v
        BY <2>3, <2>5
  <2> QED BY <2>2, <2>6, <2>7 DEF OneLock
<1>3. GivesUpLast'
      BY <1>0 DEF NotesInv, GivesUpLast
<1>4. Counted'
  <2>1. /\ job'[n].state # "failed" =>
             job'[n].made < Attempts /\ job'[n].stalled <= MaxStalled
        /\ pushes'[n] + Cardinality(ToPush(n)') <= Paid(job'[n])
    <3>1. Cardinality(ToPush(n)') =
             Cardinality(ToPush(n)) - Pending(worker[w]) + Pending(a)
          BY OnePusherMoves DEF NotesInv
    <3>2. pushes[n] + Cardinality(ToPush(n)) <= Paid(job[n])
          BY DEF NotesInv, Counted
    <3>3. /\ pushes[n] \in Nat /\ Paid(j) \in Nat /\ Paid(job[n]) \in Nat
          /\ Cardinality(ToPush(n)) \in Nat
          /\ Pending(a) \in Nat /\ Pending(worker[w]) \in Nat
          BY ToPushIsFinite
          DEF NotesInv, TypeOK, Paid, Job, Pending, Attempts, MaxStalled
    <3> QED BY <1>0, <3>1, <3>2, <3>3
  <2>2. ASSUME NEW m \in Notes \ {n}
        PROVE  ToPush(m)' = ToPush(m)
    <3>0. m # None /\ m # n
          BY NoNoteIsNone
    <3>1. \A v \in Workers : \/ worker'[v] = worker[v]
                             \/ worker[v].note # m /\ worker'[v].note # m
          BY <1>0, <3>0
    <3>2. \A v \in Workers : v \in ToPush(m)' <=> v \in ToPush(m)
          BY <3>1 DEF ToPush, At
    <3>3. ToPush(m) \subseteq Workers /\ ToPush(m)' \subseteq Workers
          BY DEF ToPush
    <3> QED BY <3>2, <3>3
  <2> QED BY <1>0, <2>1, <2>2 DEF NotesInv, Counted
<1> QED BY <1>1, <1>2, <1>3, <1>4 DEF NotesInv

\* What concerns no notification in the hands of a worker.
LEMMA Aside ==
    ASSUME NotesInv,
           \A v \in Workers : \/ worker'[v] = worker[v]
                              \/ worker[v].note = None /\ worker'[v].note = None,
           worker' \in [Workers -> Activity],
           token' \in Tokens \cup {None}, dead' \subseteq Tokens,
           receipts' \in [Tokens \X (0..MaxStalled) -> Nat],
           UNCHANGED <<job, pushes>>
    PROVE  NotesInv'
<1>1. TypeOK'
  <2>1. \A v \in Workers : At(v, "push")' \/ At(v, "addReceipt")' =>
                              worker'[v].token \in Tokens
        BY ActivityParts DEF NotesInv, TypeOK, At
  <2> QED BY <2>1 DEF NotesInv, TypeOK
<1>2. \A v \in Workers, m \in Notes :
         \/ worker'[v] = worker[v]
         \/ worker[v].note # m /\ worker'[v].note # m
      BY NoNoteIsNone
<1>3. \A v \in Workers, m \in Notes : Holds(v, m)' <=> Holds(v, m)
      BY <1>2 DEF Holds
<1>4. OneLock' /\ GivesUpLast'
      BY <1>3 DEF NotesInv, OneLock, GivesUpLast
<1>5. \A m \in Notes : ToPush(m)' = ToPush(m)
      BY <1>2 DEF ToPush, At
<1>6. Counted'
      BY <1>5 DEF NotesInv, Counted
<1> QED BY <1>1, <1>4, <1>6 DEF NotesInv

-----------------------------------------------------------------------------
(***************************************************************************)
(* The steps.                                                              *)
(***************************************************************************)

\* The state of a job of which a worker has, or had, the lock.
LEMMA InHand ==
    ASSUME NotesInv, NEW w \in Workers, worker[w].note \in Notes
    PROVE  LET n == worker[w].note
               j == job[n] IN
           /\ worker[w] \in Activity /\ worker[w].lock \in BOOLEAN
           /\ Pending(worker[w]) \in {0, 1}
           /\ j \in Job /\ pushes[n] \in Nat /\ Paid(j) \in Nat
           /\ job = [job EXCEPT ![n] = j]
           /\ pushes = [pushes EXCEPT ![n] = pushes[n]]
           /\ j.state # "failed" => j.made < Attempts /\ j.stalled <= MaxStalled
           /\ j.state = "failed" => j.made = Attempts \/ j.stalled > MaxStalled
           /\ Holds(w, n) <=> worker[w].lock
           /\ worker[w].lock => j.state = "active"
           /\ worker[w].lock => Paid(j) = j.made + j.stalled + 1
<1> DEFINE n == worker[w].note
           j == job[n]
<1>1. /\ worker[w] \in Activity /\ worker[w].lock \in BOOLEAN
      /\ Pending(worker[w]) \in {0, 1}
      /\ j \in Job /\ pushes[n] \in Nat
      /\ job = [job EXCEPT ![n] = j]
      /\ pushes = [pushes EXCEPT ![n] = pushes[n]]
      BY ActivityParts DEF NotesInv, TypeOK, Pending
<1>2. Paid(j) \in Nat
      BY <1>1 DEF Paid, Job
<1>3. /\ j.state # "failed" => j.made < Attempts /\ j.stalled <= MaxStalled
      /\ j.state = "failed" => j.made = Attempts \/ j.stalled > MaxStalled
      BY DEF NotesInv, Counted, GivesUpLast
<1>4. Holds(w, n) <=> worker[w].lock
      BY <1>1 DEF Holds
<1>5. worker[w].lock => j.state = "active"
      BY <1>4 DEF NotesInv, OneLock
<1>6. worker[w].lock => Paid(j) = j.made + j.stalled + 1
      BY <1>5 DEF Paid
<1> QED BY <1>1, <1>2, <1>3, <1>4, <1>5, <1>6

\* A worker lays its notification down, and the queue heeds it or not.
LEMMA LaidDown ==
    ASSUME NotesInv, NEW w \in Workers, worker[w].note \in Notes,
           NEW j, NEW p \in Nat,
           Reports(w, j),
           pushes' = [pushes EXCEPT ![worker[w].note] = p],
           p <= pushes[worker[w].note] + Pending(worker[w]),
           worker[w].lock =>
              /\ j \in Job /\ j.state \in {"waiting", "completed", "failed"}
              /\ j.state # "failed" =>
                    j.made < Attempts /\ j.stalled <= MaxStalled
              /\ j.state = "failed" =>
                    j.made = Attempts \/ j.stalled > MaxStalled
              /\ Paid(j) = Paid(job[worker[w].note]),
           token' \in Tokens \cup {None}, dead' \subseteq Tokens,
           receipts' \in [Tokens \X (0..MaxStalled) -> Nat]
    PROVE  NotesInv'
<1> DEFINE n == worker[w].note
           k == IF worker[w].lock THEN j ELSE job[n]
<1>1. worker' = [worker EXCEPT ![w] = Idle]
      BY DEF Reports, Rest
<1>2. job' = [job EXCEPT ![n] = k]
      BY InHand DEF Reports
<1>3. /\ k \in Job /\ Paid(k) = Paid(job[n]) /\ Paid(k) \in Nat
      /\ k.state # "failed" => k.made < Attempts /\ k.stalled <= MaxStalled
      /\ k.state = "failed" => k.made = Attempts \/ k.stalled > MaxStalled
      BY InHand
<1>4. k.state = "active" <=> job[n].state = "active" /\ ~ Holds(w, n)
      BY InHand
<1>5. Idle \in Activity /\ Idle.at = "idle" /\ Idle.note = None /\ ~ Idle.lock
      BY IdleIsActivity
<1>6. p + Pending(Idle) + Paid(job[n])
         <= pushes[n] + Pending(worker[w]) + Paid(k)
      BY <1>3, <1>5, InHand DEF Pending
<1>7. None # n
      BY NoNoteIsNone
<1> HIDE DEF k
<1> QED BY <1>1, <1>2, <1>3, <1>4, <1>5, <1>6, <1>7, Moves

LEMMA Finishes ==
    ASSUME NotesInv, NEW w \in Workers, worker[w].note \in Notes,
           Finish(w, "completed"),
           UNCHANGED pushes,
           token' \in Tokens \cup {None}, dead' \subseteq Tokens,
           receipts' \in [Tokens \X (0..MaxStalled) -> Nat]
    PROVE  NotesInv'
<1> DEFINE n == worker[w].note
           j == [job[n] EXCEPT !.state = "completed"]
<1>1. /\ j \in Job /\ j.state = "completed"
      /\ j.made = job[n].made /\ j.stalled = job[n].stalled
      BY InHand DEF Job, JobStates
<1>2. worker[w].lock => /\ Paid(j) = Paid(job[n])
                        /\ j.made < Attempts /\ j.stalled <= MaxStalled
      BY <1>1, InHand DEF Paid
<1>3. /\ Reports(w, j) /\ pushes' = [pushes EXCEPT ![n] = pushes[n]]
      /\ pushes[n] <= pushes[n] + Pending(worker[w]) /\ pushes[n] \in Nat
      BY InHand DEF Finish
<1> HIDE DEF j
<1> QED BY <1>1, <1>2, <1>3, LaidDown

LEMMA Throws ==
    ASSUME NotesInv, NEW w \in Workers, worker[w].note \in Notes,
           Throw(w), NEW p \in Nat,
           pushes' = [pushes EXCEPT ![worker[w].note] = p],
           p <= pushes[worker[w].note] + Pending(worker[w]),
           token' \in Tokens \cup {None}, dead' \subseteq Tokens,
           receipts' \in [Tokens \X (0..MaxStalled) -> Nat]
    PROVE  NotesInv'
<1> DEFINE n == worker[w].note
           j == Retried(job[n])
<1>1. ASSUME worker[w].lock
      PROVE  /\ j \in Job /\ j.state \in {"waiting", "failed"}
             /\ j.state # "failed" => j.made < Attempts /\ j.stalled <= MaxStalled
             /\ j.state = "failed" => j.made = Attempts
             /\ Paid(j) = Paid(job[n])
  <2>1. job[n] \in Job /\ job[n].made \in 0..2 /\ job[n].stalled \in 0..1
        BY <1>1, InHand DEF Job, Attempts, MaxStalled
  <2>2. /\ j.made = job[n].made + 1 /\ j.stalled = job[n].stalled
        /\ j.state = IF job[n].made + 1 < Attempts THEN "waiting" ELSE "failed"
        BY DEF Retried
  <2>3. j \in Job
        BY <2>1 DEF Retried, Job, JobStates, Attempts
  <2>4. Paid(job[n]) = job[n].made + job[n].stalled + 1
        BY <1>1, InHand
  <2>5. Paid(j) = j.made + j.stalled
        BY <2>1, <2>2 DEF Paid
  <2> HIDE DEF j
  <2> QED BY <2>1, <2>2, <2>3, <2>4, <2>5 DEF Attempts, MaxStalled
<1>2. Reports(w, j)
      BY DEF Throw
<1> HIDE DEF j
<1> QED BY <1>1, <1>2, LaidDown

\* The queue puts a notification back, whose worker dies or goes on without it.
LEMMA PutBack ==
    ASSUME NotesInv, NEW w \in Workers, SendPutBack(w), NEW a \in Activity,
           worker' = [worker EXCEPT ![w] = a],
           a.note \in {None, worker[w].note}, ~ a.lock,
           Pending(a) <= Pending(worker[w]),
           a.at \in {"push", "addReceipt"} => a.token \in Tokens,
           UNCHANGED <<token, dead, pushes>>,
           receipts' \in [Tokens \X (0..MaxStalled) -> Nat]
    PROVE  NotesInv'
<1> DEFINE n == worker[w].note
           j == IF worker[w].lock THEN Recovered(job[n]) ELSE job[n]
<1>0. n \in Notes /\ n # None
      BY ActivityParts, NoNoteIsNone DEF SendPutBack, NotesInv, TypeOK
<1>1. /\ j \in Job
      /\ worker[w].lock => j.state \in {"waiting", "failed"}
      /\ j.state # "failed" => j.made < Attempts /\ j.stalled <= MaxStalled
      /\ j.state = "failed" => j.made = Attempts \/ j.stalled > MaxStalled
      /\ Paid(j) = Paid(job[n])
  <2>1. CASE ~ worker[w].lock
        BY <1>0, <2>1, InHand
  <2>2. CASE worker[w].lock
    <3>1. /\ job[n] \in Job /\ job[n].made \in 0..2 /\ job[n].stalled \in 0..1
          /\ Paid(job[n]) = job[n].made + job[n].stalled + 1
          BY <1>0, <2>2, InHand DEF Job, Attempts, MaxStalled
    <3>2. /\ j.made = job[n].made /\ j.stalled = job[n].stalled + 1
          /\ j.state = IF job[n].stalled < MaxStalled THEN "waiting" ELSE "failed"
          BY <2>2 DEF Recovered
    <3>3. j \in Job
          BY <2>2, <3>1 DEF Recovered, Job, JobStates, MaxStalled
    <3>4. Paid(j) = j.made + j.stalled
          BY <3>1, <3>2 DEF Paid
    <3> HIDE DEF j
    <3> QED BY <3>1, <3>2, <3>3, <3>4 DEF Attempts, MaxStalled
  <2> QED BY <2>1, <2>2, <1>0, InHand
<1>2. job' = [job EXCEPT ![n] = j]
      BY <1>0, InHand DEF SendPutBack
<1>3. pushes' = [pushes EXCEPT ![n] = pushes[n]] /\ pushes[n] \in Nat
      BY <1>0, InHand
<1>4. j.state = "active" <=> job[n].state = "active" /\ ~ Holds(w, n)
      BY <1>0, <1>1, InHand
<1>5. pushes[n] + Pending(a) + Paid(job[n])
         <= pushes[n] + Pending(worker[w]) + Paid(j)
      BY <1>0, <1>1, InHand DEF Pending
<1>6. token' \in Tokens \cup {None} /\ dead' \subseteq Tokens
      BY DEF NotesInv, TypeOK
<1> HIDE DEF j
<1> QED BY <1>0, <1>1, <1>2, <1>3, <1>4, <1>5, <1>6, Moves

\* A worker goes on with its notification, having sent it or not.
LEMMA GoesOn ==
    ASSUME NotesInv, NEW w \in Workers, NEW a \in Activity, NEW p \in Nat,
           worker[w].note \in Notes,
           worker' = [worker EXCEPT ![w] = a],
           a.note = worker[w].note, a.lock = worker[w].lock,
           a.at \in {"push", "addReceipt"} => a.token \in Tokens,
           pushes' = [pushes EXCEPT ![worker[w].note] = p],
           p + Pending(a) <= pushes[worker[w].note] + Pending(worker[w]),
           UNCHANGED <<token, dead, job, receipts>>
    PROVE  NotesInv'
<1> DEFINE n == worker[w].note
           j == job[n]
<1>1. /\ j \in Job /\ job' = [job EXCEPT ![n] = j]
      /\ j.state # "failed" => j.made < Attempts /\ j.stalled <= MaxStalled
      /\ j.state = "failed" => j.made = Attempts \/ j.stalled > MaxStalled
      BY InHand
<1>2. /\ j.state = "active" <=> \/ a.note = n /\ a.lock
                                \/ j.state = "active" /\ ~ Holds(w, n)
      /\ a.note = n /\ a.lock => Holds(w, n)
      BY InHand
<1>3. p + Pending(a) + Paid(j) <= pushes[n] + Pending(worker[w]) + Paid(j)
      BY InHand DEF Pending
<1>4. /\ token' \in Tokens \cup {None} /\ dead' \subseteq Tokens
      /\ receipts' \in [Tokens \X (0..MaxStalled) -> Nat]
      BY DEF NotesInv, TypeOK
<1>5. p \in Nat /\ n \in Notes
      OBVIOUS
<1> QED BY <1>1, <1>2, <1>3, <1>4, <1>5, Moves

\* A note that waits is taken.
LEMMA Taken ==
    ASSUME NotesInv, NEW w \in Workers, NEW n \in Notes, Take(w, n)
    PROVE  NotesInv'
<1> DEFINE a == Doing("read", n, None, 0)
           j == [job[n] EXCEPT !.state = "active"]
<1>1. a \in Activity /\ a.note = n /\ a.at = "read" /\ a.lock
      BY DEF Activity, Doing
<1>2. /\ worker[w].at = "idle" /\ worker[w].note = None
      BY ActivityParts DEF Take, At, NotesInv, TypeOK
<1>3. /\ job[n] \in Job /\ job[n].state = "waiting"
      /\ pushes[n] \in Nat /\ pushes = [pushes EXCEPT ![n] = pushes[n]]
      /\ job[n].made < Attempts /\ job[n].stalled <= MaxStalled
      BY DEF Take, NotesInv, TypeOK, Counted
<1>4. /\ j \in Job /\ j.state = "active"
      /\ j.made = job[n].made /\ j.stalled = job[n].stalled
      BY <1>3 DEF Job, JobStates
<1>5. worker' = [worker EXCEPT ![w] = a] /\ job' = [job EXCEPT ![n] = j]
      BY DEF Take
<1>6. pushes[n] + Pending(a) + Paid(job[n])
         <= pushes[n] + Pending(worker[w]) + Paid(j)
  <2>1. Pending(a) = 1 /\ Pending(worker[w]) = 0
        BY <1>1, <1>2 DEF Pending
  <2>2. /\ Paid(j) = job[n].made + job[n].stalled + 1
        /\ Paid(job[n]) = job[n].made + job[n].stalled
        /\ job[n].made \in Nat /\ job[n].stalled \in Nat
        BY <1>3, <1>4 DEF Paid, Job
  <2> QED BY <2>1, <2>2, <1>3
<1>7. /\ token' \in Tokens \cup {None} /\ dead' \subseteq Tokens
      /\ receipts' \in [Tokens \X (0..MaxStalled) -> Nat]
      /\ pushes' = [pushes EXCEPT ![n] = pushes[n]]
      BY <1>3 DEF Take, NotesInv, TypeOK
<1> HIDE DEF a, j
<1> QED BY <1>1, <1>2, <1>3, <1>4, <1>5, <1>6, <1>7, Moves

\* One that is being sent.
LEMMA Sent ==
    ASSUME NotesInv, NEW w \in Workers,
           \/ SendRead(w) \/ PushAccepted(w) \/ PushRefused(w) \/ PushFailed(w)
           \/ ClearToken(w) \/ AddReceipt(w)
    PROVE  NotesInv'
<1> DEFINE n == worker[w].note
           p == pushes[n]
<1>0. n \in Notes
      BY ActivityParts
      DEF NotesInv, TypeOK, At, SendRead, PushAccepted, PushRefused, PushFailed,
          ClearToken, AddReceipt
<1>1. /\ p \in Nat /\ Pending(worker[w]) \in {0, 1}
      /\ p <= p + Pending(worker[w])
      BY <1>0, InHand
<1>2. /\ token \in Tokens \cup {None} /\ dead \subseteq Tokens
      /\ receipts \in [Tokens \X (0..MaxStalled) -> Nat]
      /\ pushes = [pushes EXCEPT ![n] = p]
      /\ worker[w] \in Activity
      BY DEF NotesInv, TypeOK
<1>3. ASSUME NEW stage \in {"push", "clear", "addReceipt"},
             worker[w].at \in {"read", "push"}
      PROVE  /\ [worker[w] EXCEPT !.at = stage] \in Activity
             /\ [worker[w] EXCEPT !.at = stage].note = n
             /\ [worker[w] EXCEPT !.at = stage].at = stage
             /\ [worker[w] EXCEPT !.at = stage].lock = worker[w].lock
             /\ [worker[w] EXCEPT !.at = stage].token = worker[w].token
      BY <1>0, <1>2, <1>3, NoNoteIsNone DEF Activity
<1>4. CASE SendRead(w)
  <2>1. CASE Finish(w, "completed")
        BY <2>1, <1>0, <1>2, <1>4, Finishes DEF SendRead
  <2>2. ASSUME NEW stage \in {"push", "clear"},
               worker' = [worker EXCEPT ![w] =
                            [worker[w] EXCEPT !.at = stage, !.token = token]],
               token \in Tokens,
               UNCHANGED job
        PROVE  NotesInv'
    <3> DEFINE a == [worker[w] EXCEPT !.at = stage, !.token = token]
    <3>1. /\ a \in Activity /\ a.note = n /\ a.lock = worker[w].lock
          /\ a.token \in Tokens
      <4>1. /\ worker[w] \in [at: {"read"}, note: Notes,
                               token: Tokens \cup {None}, stalled: {0},
                               lock: BOOLEAN]
            BY <1>0, <1>2, <1>4, NoNoteIsNone DEF SendRead, At, Activity
      <4>2. a \in [at: {stage}, note: Notes, token: Tokens, stalled: {0},
                   lock: BOOLEAN]
            BY <4>1, <2>2
      <4>3. a.note = n /\ a.lock = worker[w].lock
            BY <4>1
      <4> QED BY <4>2, <4>3 DEF Activity
    <3>2. Pending(worker[w]) = 1 /\ Pending(a) \in {0, 1}
          BY <1>4 DEF SendRead, At, Pending
    <3>3. /\ worker' = [worker EXCEPT ![w] = a]
          /\ UNCHANGED <<token, dead, job, receipts, pushes>>
          BY <2>2, <1>4 DEF SendRead
    <3> HIDE DEF a
    <3>4. p + Pending(a) <= p + Pending(worker[w])
          BY <3>2, <1>1
    <3> QED BY <3>1, <3>3, <3>4, <1>0, <1>1, <1>2, GoesOn
  <2>3. CASE /\ token \in Tokens
             /\ worker' = [worker EXCEPT ![w] =
                             [worker[w] EXCEPT !.at = IF token \in Malformed
                                                      THEN "clear" ELSE "push",
                                               !.token = token]]
             /\ UNCHANGED job
    <3>1. CASE token \in Malformed
          BY <2>2, <2>3, <3>1
    <3>2. CASE token \notin Malformed
          BY <2>2, <2>3, <3>2
    <3> QED BY <3>1, <3>2
  <2>4. CASE Throw(w)
        BY <2>4, <1>0, <1>1, <1>2, <1>4, Throws DEF SendRead
  <2> QED BY <2>1, <2>3, <2>4, <1>4 DEF SendRead
<1>5. CASE PushAccepted(w)
  <2> DEFINE a == [worker[w] EXCEPT !.at = "addReceipt"]
  <2>1. worker[w].token \in Tokens /\ Pending(worker[w]) = 1
        BY <1>5 DEF PushAccepted, NotesInv, TypeOK, Pending, At
  <2>2. /\ a \in Activity /\ a.note = n /\ a.at = "addReceipt"
        /\ a.lock = worker[w].lock /\ a.token \in Tokens
        BY <2>1, <1>3, <1>5 DEF PushAccepted, At
  <2>3. /\ worker' = [worker EXCEPT ![w] = a]
        /\ pushes' = [pushes EXCEPT ![n] = p + 1]
        /\ UNCHANGED <<token, dead, job, receipts>>
        BY <1>5 DEF PushAccepted, GoTo
  <2> HIDE DEF a
  <2>4. p + 1 + Pending(a) <= p + Pending(worker[w]) /\ p + 1 \in Nat
        BY <2>1, <2>2, <1>1 DEF Pending
  <2> QED BY <2>2, <2>3, <2>4, <1>0, GoesOn
<1>6. CASE PushRefused(w)
  <2>1. CASE Finish(w, "completed")
        BY <2>1, <1>0, <1>2, <1>6, Finishes DEF PushRefused
  <2>2. CASE GoTo(w, "clear") /\ UNCHANGED job
    <3> DEFINE a == [worker[w] EXCEPT !.at = "clear"]
    <3>1. /\ a \in Activity /\ a.note = n /\ a.at = "clear"
          /\ a.lock = worker[w].lock
          BY <1>3, <1>6 DEF PushRefused, At
    <3>2. /\ worker' = [worker EXCEPT ![w] = a]
          /\ UNCHANGED <<token, dead, job, receipts, pushes>>
          BY <2>2, <1>6 DEF PushRefused, GoTo
    <3> HIDE DEF a
    <3>3. p + Pending(a) <= p + Pending(worker[w])
          BY <3>1, <1>1 DEF Pending
    <3> QED BY <3>1, <3>2, <3>3, <1>0, <1>1, <1>2, GoesOn
  <2> QED BY <2>1, <2>2, <1>6 DEF PushRefused
<1>7. CASE PushFailed(w)
  <2>1. PICK sent \in {0, 1} : pushes' = [pushes EXCEPT ![n] = p + sent]
        BY <1>7 DEF PushFailed
  <2>2. p + sent \in Nat /\ p + sent <= p + Pending(worker[w])
        BY <1>1, <1>7 DEF PushFailed, At, Pending
  <2> QED BY <2>1, <2>2, <1>0, <1>2, <1>7, Throws DEF PushFailed
<1>8. CASE ClearToken(w)
  <2>1. CASE token' = None /\ Finish(w, "completed")
        BY <2>1, <1>0, <1>2, <1>8, Finishes DEF ClearToken
  <2>2. CASE UNCHANGED token /\ Throw(w)
        BY <2>2, <1>0, <1>1, <1>2, <1>8, Throws DEF ClearToken
  <2> QED BY <2>1, <2>2, <1>8 DEF ClearToken
<1>9. CASE AddReceipt(w)
  <2>1. receipts' \in [Tokens \X (0..MaxStalled) -> Nat]
    <3>1. PICK added \in {0, 1} :
             receipts' = [receipts EXCEPT ![<<worker[w].token, 0>>] = @ + added]
          BY <1>9 DEF AddReceipt
    <3>2. \A r \in Tokens \X (0..MaxStalled) : receipts[r] + added \in Nat
          BY <1>2
    <3> QED BY <3>1, <3>2, <1>2
  <2>2. CASE Finish(w, "completed")
        BY <2>1, <2>2, <1>0, <1>2, <1>9, Finishes DEF AddReceipt
  <2>3. CASE Throw(w)
        BY <2>1, <2>3, <1>0, <1>1, <1>2, <1>9, Throws DEF AddReceipt
  <2> QED BY <2>2, <2>3, <1>9 DEF AddReceipt
<1> QED BY <1>4, <1>5, <1>6, <1>7, <1>8, <1>9

\* A worker without a notification takes a receipt, sees to it, or loses it.
LEMMA ReceiptsAside ==
    ASSUME NotesInv, NEW w \in Workers, NEW a \in Activity,
           worker[w].note = None, a.note = None,
           worker' = [worker EXCEPT ![w] = a],
           token' \in Tokens \cup {None}, dead' \subseteq Tokens,
           receipts' \in [Tokens \X (0..MaxStalled) -> Nat],
           UNCHANGED <<job, pushes>>
    PROVE  NotesInv'
<1>1. \A v \in Workers : \/ worker'[v] = worker[v]
                         \/ worker[v].note = None /\ worker'[v].note = None
      BY DEF NotesInv, TypeOK
<1>2. worker' \in [Workers -> Activity]
      BY DEF NotesInv, TypeOK
<1> QED BY <1>1, <1>2, Aside

LEMMA ReceiptsPutBack ==
    ASSUME NotesInv, NEW w \in Workers, ReceiptPutBack(w)
    PROVE  receipts' \in [Tokens \X (0..MaxStalled) -> Nat]
<1>1. receipts \in [Tokens \X (0..MaxStalled) -> Nat]
      BY DEF NotesInv, TypeOK
<1>2. \A r \in Tokens \X (0..MaxStalled) : receipts[r] + 1 \in Nat
      BY <1>1
<1> QED BY <1>1, <1>2 DEF ReceiptPutBack

\* A receipt that is taken, or seen to.
LEMMA SeenTo ==
    ASSUME NotesInv, NEW w \in Workers,
           \/ \E t \in Tokens, k \in 0..MaxStalled : TakeReceipt(w, t, k)
           \/ CheckReceipt(w) \/ EraseToken(w)
    PROVE  NotesInv'
<1>0. /\ token \in Tokens \cup {None} /\ dead \subseteq Tokens
      /\ receipts \in [Tokens \X (0..MaxStalled) -> Nat]
      /\ worker[w] \in Activity
      BY DEF NotesInv, TypeOK
<1>1. worker[w].note = None
      BY <1>0, ActivityParts DEF At, TakeReceipt, CheckReceipt, EraseToken
<1>2. ASSUME NEW t \in Tokens, NEW k \in 0..MaxStalled, TakeReceipt(w, t, k)
      PROVE  NotesInv'
  <2>1. Doing("check", None, t, k) \in Activity
        BY DEF Activity, Doing
  <2>2. Doing("check", None, t, k).note = None
        BY DEF Doing
  <2>3. receipts' \in [Tokens \X (0..MaxStalled) -> Nat]
    <3>1. receipts[<<t, k>>] - 1 \in Nat
          BY <1>0, <1>2 DEF TakeReceipt
    <3> QED BY <3>1, <1>0, <1>2 DEF TakeReceipt
  <2> QED BY <2>1, <2>2, <2>3, <1>0, <1>1, <1>2, ReceiptsAside DEF TakeReceipt
<1>3. CASE CheckReceipt(w)
  <2>1. CASE Rest(w)
        BY <2>1, <1>0, <1>1, <1>3, IdleIsActivity, ReceiptsAside
        DEF CheckReceipt, Rest
  <2>2. CASE GoTo(w, "erase")
    <3>1. /\ [worker[w] EXCEPT !.at = "erase"] \in Activity
          /\ [worker[w] EXCEPT !.at = "erase"].note = None
          BY <1>0, <1>1, <1>3, NoNoteIsNone DEF CheckReceipt, At, Activity
    <3> QED BY <3>1, <2>2, <1>0, <1>1, <1>3, ReceiptsAside
            DEF CheckReceipt, GoTo
  <2> QED BY <2>1, <2>2, <1>3 DEF CheckReceipt
<1>4. CASE EraseToken(w)
      BY <1>0, <1>1, <1>4, IdleIsActivity, ReceiptsAside DEF EraseToken, Rest
<1> QED BY <1>2, <1>3, <1>4

\* A worker loses its lock, and goes on.
LEMMA Stalls ==
    ASSUME NotesInv, NEW w \in Workers, Stall(w)
    PROVE  NotesInv'
<1> DEFINE a == [worker[w] EXCEPT !.lock = FALSE]
<1>0. /\ token \in Tokens \cup {None} /\ dead \subseteq Tokens
      /\ receipts \in [Tokens \X (0..MaxStalled) -> Nat]
      /\ worker[w] \in Activity
      BY DEF NotesInv, TypeOK
<1>1. /\ a \in Activity /\ ~ a.lock /\ a.note = worker[w].note
      /\ a.at = worker[w].at /\ a.token = worker[w].token
      BY <1>0 DEF Activity
<1>2. worker' = [worker EXCEPT ![w] = a] /\ UNCHANGED <<token, dead, pushes>>
      BY DEF Stall
<1>3. a.at \in {"push", "addReceipt"} => a.token \in Tokens
      BY <1>1 DEF NotesInv, TypeOK, At
<1>4. Pending(a) <= Pending(worker[w])
      BY <1>1 DEF Pending
<1> HIDE DEF a
<1>5. CASE SendPutBack(w) /\ UNCHANGED receipts
      BY <1>0, <1>1, <1>2, <1>3, <1>4, <1>5, PutBack
<1>6. CASE ReceiptPutBack(w) /\ UNCHANGED job
  <2>1. worker[w].note = None
        BY <1>6 DEF ReceiptPutBack
  <2> QED BY <2>1, <1>0, <1>1, <1>2, <1>6, ReceiptsPutBack, ReceiptsAside
<1> QED BY <1>5, <1>6 DEF Stall

\* A worker dies.
LEMMA Crashes ==
    ASSUME NotesInv, NEW w \in Workers, Crash(w)
    PROVE  NotesInv'
<1>0. /\ token \in Tokens \cup {None} /\ dead \subseteq Tokens
      /\ receipts \in [Tokens \X (0..MaxStalled) -> Nat]
      BY DEF NotesInv, TypeOK
<1>1. /\ worker' = [worker EXCEPT ![w] = Idle]
      /\ UNCHANGED <<token, dead, pushes>>
      BY DEF Crash, Rest
<1>2. /\ Idle \in Activity /\ ~ Idle.lock /\ Idle.note = None
      /\ Idle.at \notin {"push", "addReceipt"}
      /\ Pending(Idle) <= Pending(worker[w])
      BY IdleIsActivity DEF Pending
<1>3. CASE SendPutBack(w) /\ UNCHANGED receipts
      BY <1>0, <1>1, <1>2, <1>3, PutBack
<1>4. CASE /\ SendPutBack(w)
           /\ receipts' = [receipts EXCEPT ![<<worker[w].token, 0>>] = @ + 1]
  <2>1. \A r \in Tokens \X (0..MaxStalled) : receipts[r] + 1 \in Nat
        BY <1>0
  <2>2. receipts' \in [Tokens \X (0..MaxStalled) -> Nat]
        BY <1>0, <1>4, <2>1
  <2> QED BY <1>1, <1>2, <1>4, <2>2, PutBack
<1>5. CASE ReceiptPutBack(w) /\ UNCHANGED job
  <2>1. worker[w].note = None
        BY <1>5 DEF ReceiptPutBack
  <2> QED BY <2>1, <1>0, <1>1, <1>2, <1>5, ReceiptsPutBack, ReceiptsAside
<1> QED BY <1>3, <1>4, <1>5 DEF Crash

\* Everything has its shape, a notification is in one pair of hands, is given up
\* only when its attempts or recoveries are used up, and its messages, those of
\* workers whose lock ran out too, are paid for by them (NotesInv), whatever
\* fails, stalls and dies.
THEOREM NotesInvariance == Spec => []NotesInv
<1>1. Init => NotesInv
  <2> SUFFICES ASSUME Init PROVE NotesInv
      OBVIOUS
  <2>1. TypeOK
        BY IdleIsActivity
        DEF Init, TypeOK, Job, JobStates, Attempts, MaxStalled, At
  <2>2. OneLock
        BY IdleIsActivity, NoNoteIsNone DEF Init, OneLock, Holds
  <2>3. GivesUpLast
        BY DEF Init, GivesUpLast
  <2>4. ASSUME NEW n \in Notes PROVE Cardinality(ToPush(n)) = 0
    <3>1. ToPush(n) = {}
          BY IdleIsActivity, NoNoteIsNone DEF Init, ToPush
    <3> QED BY <3>1, FS_EmptySet
  <2>5. Counted
        BY <2>4 DEF Init, Counted, Paid, Attempts, MaxStalled
  <2> QED BY <2>1, <2>2, <2>3, <2>5 DEF NotesInv
<1>2. NotesInv /\ [Next]_vars => NotesInv'
  <2> SUFFICES ASSUME NotesInv, [Next]_vars PROVE NotesInv'
      OBVIOUS
  <2>0. /\ token \in Tokens \cup {None} /\ dead \subseteq Tokens
        /\ receipts \in [Tokens \X (0..MaxStalled) -> Nat]
        /\ worker \in [Workers -> Activity]
        BY DEF NotesInv, TypeOK
  <2>1. ASSUME NEW t \in Tokens, RegisterPushToken(t) \/ Unregister(t)
        PROVE  NotesInv'
        BY <2>0, <2>1, Aside DEF RegisterPushToken, Unregister
  <2>2. CASE ClearPushToken
        BY <2>0, <2>2, Aside DEF ClearPushToken
  <2>3. ASSUME NEW n \in Notes, Enqueue(n)
        PROVE  NotesInv'
    <3>1. TypeOK'
          BY <2>3 DEF Enqueue, NotesInv, TypeOK, Job, JobStates, At
    <3>2. /\ job'[n].state = "waiting" /\ job'[n].made = job[n].made
          /\ job'[n].stalled = job[n].stalled
          /\ job[n].state = "unborn"
          /\ \A m \in Notes \ {n} : job'[m] = job[m]
          BY <2>3 DEF Enqueue, NotesInv, TypeOK, Job
    <3>3. OneLock' /\ GivesUpLast'
          BY <2>3, <3>2
          DEF Enqueue, NotesInv, OneLock, Holds, GivesUpLast
    <3>4. \A m \in Notes : ToPush(m)' = ToPush(m) /\ Paid(job'[m]) = Paid(job[m])
          BY <2>3, <3>2 DEF Enqueue, ToPush, At, Paid
    <3>5. Counted'
          BY <2>3, <3>2, <3>4 DEF Enqueue, NotesInv, Counted
    <3> QED BY <3>1, <3>3, <3>5 DEF NotesInv
  <2>4. ASSUME NEW w \in Workers, Work(w)
        PROVE  NotesInv'
        BY <2>4, Taken, Sent, SeenTo DEF Work
  <2>5. ASSUME NEW w \in Workers, Stall(w) \/ Crash(w)
        PROVE  NotesInv'
        BY <2>5, Stalls, Crashes
  <2>6. CASE UNCHANGED vars
        BY <2>0, <2>6, Aside DEF vars
  <2> QED BY <2>1, <2>2, <2>3, <2>4, <2>5, <2>6 DEF Next
<1> QED BY <1>1, <1>2, PTL DEF Spec

\* A notification is pushed at most once per attempt and recovery, the workers that
\* go on without their lock included (PushesBounded).
THEOREM FewPushes == Spec => []PushesBounded
<1>1. NotesInv => PushesBounded
  <2> SUFFICES ASSUME NotesInv, NEW n \in Notes
               PROVE  pushes[n] <= Attempts + job[n].stalled
      BY DEF PushesBounded
  <2>1. /\ job[n].made \in 0..Attempts /\ job[n].stalled \in Nat
        /\ pushes[n] \in Nat /\ Cardinality(ToPush(n)) \in Nat
        BY ToPushIsFinite DEF NotesInv, TypeOK, Job, MaxStalled
  <2>2. pushes[n] + Cardinality(ToPush(n)) <= Paid(job[n])
        BY DEF NotesInv, Counted
  <2>3. CASE job[n].state = "failed"
        BY <2>1, <2>2, <2>3 DEF Paid, Attempts
  <2>4. CASE job[n].state # "failed"
        BY <2>1, <2>2, <2>4 DEF NotesInv, Counted, Paid, Attempts
  <2> QED BY <2>3, <2>4
<1> QED BY <1>1, NotesInvariance, PTL

\* A notification is given up only after its last attempt or a second stall
\* (GivesUpLast).
THEOREM NotGivenUpEarly == Spec => []GivesUpLast
<1>1. NotesInv => GivesUpLast
      BY DEF NotesInv
<1> QED BY <1>1, NotesInvariance, PTL
-----------------------------------------------------------------------------
(***************************************************************************)
(* The tokens that are erased.                                             *)
(***************************************************************************)

\* A step that makes w condemn no token that is of use, and no other worker
\* anything new.
LEMMA CondemnedBy ==
    ASSUME TypeOK, UselessCondemned, NEW w \in Workers, dead' = dead,
           \A v \in Workers \ {w} : worker'[v] = worker[v],
           ErasedBy(w)' => worker'[w].token \in dead \cup Malformed
    PROVE  UselessCondemned'
  BY DEF UselessCondemned, ErasedBy, At

\* Expo and its receipts condemn the tokens of devices that are gone, for good,
\* and sendNow those that are no Expo tokens.
LEMMA CondemnedKept ==
    ASSUME TypeOK, UselessCondemned, [Next]_vars
    PROVE  UselessCondemned'
<1> USE DEF TypeOK
<1>0. ~ (Idle.at = "clear" \/ Idle.at = "erase")
      BY DEF Idle, Doing
<1>1. ASSUME NEW w \in Workers, worker' = [worker EXCEPT ![w] = Idle],
             dead' = dead
      PROVE  UselessCondemned'
      BY <1>0, <1>1, CondemnedBy DEF ErasedBy, At
<1>2. ASSUME NEW w \in Workers, NEW n \in Notes, Take(w, n)
      PROVE  UselessCondemned'
  <2>1. worker'[w].at = "read"
        BY <1>2 DEF Take, Doing
  <2> QED BY <1>2, <2>1, CondemnedBy DEF Take, ErasedBy, At
<1>3. ASSUME NEW w \in Workers, SendRead(w)
      PROVE  UselessCondemned'
  <2>1. CASE Rest(w)
        BY <1>1, <1>3, <2>1 DEF SendRead, Rest
  <2>2. CASE worker' = [worker EXCEPT ![w] =
                          [@ EXCEPT !.at = IF token \in Malformed THEN "clear"
                                                                 ELSE "push",
                                    !.token = token]]
    <3>1. /\ worker'[w].at = IF token \in Malformed THEN "clear" ELSE "push"
          /\ worker'[w].token = token
          BY <2>2 DEF Activity
    <3> QED BY <1>3, <2>2, <3>1, CondemnedBy DEF SendRead, ErasedBy, At
  <2> QED BY <1>3, <2>1, <2>2 DEF SendRead, Finish, Throw, Reports
<1>4. ASSUME NEW w \in Workers, PushAccepted(w)
      PROVE  UselessCondemned'
  <2>1. worker'[w].at = "addReceipt"
        BY <1>4 DEF PushAccepted, GoTo, Activity
  <2> QED BY <1>4, <2>1, CondemnedBy DEF PushAccepted, GoTo, ErasedBy, At
<1>5. ASSUME NEW w \in Workers, PushRefused(w)
      PROVE  UselessCondemned'
  <2>1. CASE Rest(w)
        BY <1>1, <1>5, <2>1 DEF PushRefused, Rest
  <2>2. CASE worker[w].token \in dead /\ GoTo(w, "clear")
    <3>1. worker'[w].token = worker[w].token
          BY <2>2 DEF GoTo, Activity
    <3> QED BY <1>5, <2>2, <3>1, CondemnedBy DEF PushRefused, GoTo
  <2> QED BY <1>5, <2>1, <2>2 DEF PushRefused, Finish, Reports
<1>6. ASSUME NEW w \in Workers,
             PushFailed(w) \/ ClearToken(w) \/ AddReceipt(w) \/ EraseToken(w)
               \/ Crash(w)
      PROVE  UselessCondemned'
  <2>1. worker' = [worker EXCEPT ![w] = Idle] /\ dead' = dead
        BY <1>6 DEF PushFailed, ClearToken, AddReceipt, EraseToken, Crash,
                    Finish, Throw, Reports, Rest
  <2> QED BY <1>1, <2>1
<1>7. ASSUME NEW w \in Workers, NEW t \in Tokens, NEW k \in 0..MaxStalled,
             TakeReceipt(w, t, k)
      PROVE  UselessCondemned'
  <2>1. worker'[w].at = "check"
        BY <1>7 DEF TakeReceipt, Doing
  <2> QED BY <1>7, <2>1, CondemnedBy DEF TakeReceipt, ErasedBy, At
<1>8. ASSUME NEW w \in Workers, CheckReceipt(w)
      PROVE  UselessCondemned'
  <2>1. CASE Rest(w)
        BY <1>1, <1>8, <2>1 DEF CheckReceipt, Rest
  <2>2. CASE RevealsDead(worker[w].token) /\ GoTo(w, "erase")
    <3>1. worker'[w].token = worker[w].token
          BY <2>2 DEF GoTo, Activity
    <3> QED BY <1>8, <2>2, <3>1, CondemnedBy
            DEF CheckReceipt, GoTo, RevealsDead
  <2> QED BY <1>8, <2>1, <2>2 DEF CheckReceipt
<1>9. CASE \/ \E t \in Tokens : RegisterPushToken(t) \/ Unregister(t)
           \/ ClearPushToken
           \/ \E n \in Notes : Enqueue(n)
           \/ UNCHANGED vars
  <2>1. worker' = worker /\ dead \subseteq dead'
        BY <1>9 DEF RegisterPushToken, Unregister, ClearPushToken, Enqueue, vars
  <2> QED BY <2>1 DEF UselessCondemned, ErasedBy, At
<1>10. ASSUME NEW w \in Workers, Stall(w)
       PROVE  UselessCondemned'
  <2>1. worker'[w].at = worker[w].at /\ worker'[w].token = worker[w].token
        BY <1>10 DEF Stall, Activity
  <2> QED BY <1>10, <2>1, CondemnedBy
          DEF Stall, UselessCondemned, ErasedBy, At
<1> QED BY <1>2, <1>3, <1>4, <1>5, <1>6, <1>7, <1>8, <1>9, <1>10 DEF Next, Work

\* A token a worker is about to erase was found to be of no use, and will be for
\* ever, whatever retries, stalls and crashes come between (UselessCondemned).
THEOREM OnlyUselessCondemned == Spec => []UselessCondemned
<1>1. Init => UselessCondemned
      BY DEF Init, UselessCondemned, ErasedBy, At, Idle, Doing
<1>2. NotesInv /\ UselessCondemned /\ [Next]_vars => UselessCondemned'
      BY CondemnedKept DEF NotesInv
<1> QED BY <1>1, <1>2, NotesInvariance, PTL DEF Spec

\* "Seul le receipt révèle un token mort": so the token of a live device can only
\* be erased when it was registered after the worker looked (LiveTokenKept).
THEOREM LiveTokensKept == ApartSpec => LiveTokenKept
<1>1. Init => StillLookedAt
      BY DEF Init, StillLookedAt, ErasedBy, At, Idle, Doing
<1>2. StillLookedAt /\ [Next /\ StillLookedAt']_vars => StillLookedAt'
      BY DEF StillLookedAt, ErasedBy, At, vars
<1>3. ApartSpec => Spec
      BY PTL DEF ApartSpec, Spec
<1> DEFINE Kept == \A w \in Workers :
                      /\ ErasedBy(w)
                      /\ worker'[w] = Idle
                      /\ token # None
                      /\ token' = None
                      => token \in dead \cup Malformed
<1>4. UselessCondemned /\ StillLookedAt => [Kept]_vars
      BY DEF UselessCondemned, StillLookedAt
<1> HIDE DEF Kept
<1>5. ApartSpec => [][Kept]_vars
      BY <1>1, <1>2, <1>3, <1>4, OnlyUselessCondemned, PTL DEF ApartSpec
<1> QED BY <1>5 DEF LiveTokenKept, Kept
=============================================================================
