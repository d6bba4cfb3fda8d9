--------------------------- MODULE Notifications ---------------------------
(***************************************************************************)
(* Push notifications to one user: the jobs NotificationsService puts in   *)
(* the queue, the workers of NotificationsProcessor, and the push token    *)
(* that UserService sets while they run.                                   *)
(*                                                                         *)
(* The queue (BullMQ), the push service (Expo) and the user's devices are  *)
(* outside src and modelled by how it uses them.  A job that throws is      *)
(* tried again until its attempts are used up.  A worker holds a lock on   *)
(* its job; when the lock runs out the queue puts the job back, once, be   *)
(* the worker dead or only slow: a slow one goes on beside the retry, and  *)
(* the queue ignores what it reports.  Expo may answer, refuse, or fail    *)
(* with the message sent or not.  Delays only say when a job may run, and  *)
(* are left out.                                                           *)
(***************************************************************************)
EXTENDS Naturals, FiniteSets

CONSTANTS
    Notes,      \* jobs "send": the notifications enqueued for the user
    Workers,    \* processes that take jobs
    Tokens,     \* push tokens the user's devices can have
    Malformed,  \* those that are no Expo push token
    None        \* the database's NULL

Attempts == 3         \* attempts of a "send" job; of a "checkReceipt" job: one
MaxStalled == 1       \* how often the queue recovers a job (its default)

ASSUME TokensAreTokens == Malformed \subseteq Tokens /\ None \notin Tokens
ASSUME NoNoteIsNone == None \notin Notes
ASSUME FewWorkers == IsFiniteSet(Workers)

VARIABLES
    token,      \* User.pushToken
    dead,       \* the tokens whose device has unregistered
    job,        \* the jobs "send"
    receipts,   \* the waiting jobs "checkReceipt": how many for messages to a
                \* token, that stalled so many times
    pushes,     \* note  |-> how many messages were handed to Expo for it
    worker      \* what each worker is doing

vars == <<token, dead, job, receipts, pushes, worker>>

-----------------------------------------------------------------------------
JobStates == {"unborn", "waiting", "active", "completed", "failed"}
Job == [state: JobStates, made: 0..Attempts, stalled: 0..(MaxStalled + 1)]

\* A worker sends, sees to a receipt, or has nothing to do; the job it was given
\* is its own while it holds the lock.
Activity ==
    [at: {"read", "push", "clear", "addReceipt"}, note: Notes,
     token: Tokens \cup {None}, stalled: {0}, lock: BOOLEAN]
      \cup [at: {"check", "erase"}, note: {None},
            token: Tokens, stalled: 0..MaxStalled, lock: BOOLEAN]
      \cup [at: {"idle"}, note: {None}, token: {None}, stalled: {0},
            lock: {FALSE}]

Doing(at, n, t, k) ==
    [at |-> at, note |-> n, token |-> t, stalled |-> k, lock |-> at # "idle"]
Idle == Doing("idle", None, None, 0)
At(w, stage) == worker[w].at = stage
GoTo(w, stage) == worker' = [worker EXCEPT ![w].at = stage]
Rest(w) == worker' = [worker EXCEPT ![w] = Idle]

Init == /\ token = None
        /\ dead = {}
        /\ job = [n \in Notes |->
                    [state |-> "unborn", made |-> 0, stalled |-> 0]]
        /\ receipts = [r \in Tokens \X (0..MaxStalled) |-> 0]
        /\ pushes = [n \in Notes |-> 0]
        /\ worker = [w \in Workers |-> Idle]
-----------------------------------------------------------------------------
(***************************************************************************)
(* The user and its devices                                                *)
(***************************************************************************)
RegisterPushToken(t) ==
    /\ t \notin dead
    /\ token' = t
    /\ UNCHANGED <<dead, job, receipts, pushes, worker>>

ClearPushToken ==
    /\ token # None
    /\ token' = None
    /\ UNCHANGED <<dead, job, receipts, pushes, worker>>

\* The application is removed from a device, or its token replaced.
Unregister(t) ==
    /\ t \notin dead
    /\ dead' = dead \cup {t}
    /\ UNCHANGED <<token, job, receipts, pushes, worker>>

Enqueue(n) ==
    /\ job[n].state = "unborn"
    /\ job' = [job EXCEPT ![n].state = "waiting"]
    /\ UNCHANGED <<token, dead, receipts, pushes, worker>>
-----------------------------------------------------------------------------
(***************************************************************************)
(* The worker                                                              *)
(***************************************************************************)
Take(w, n) ==
    /\ At(w, "idle")
    /\ job[n].state = "waiting"
    /\ job' = [job EXCEPT ![n].state = "active"]
    /\ worker' = [worker EXCEPT ![w] = Doing("read", n, None, 0)]
    /\ UNCHANGED <<token, dead, receipts, pushes>>

\* What a worker reports of its job counts only as long as it holds the lock.
Reports(w, j) == /\ job' = IF worker[w].lock
                           THEN [job EXCEPT ![worker[w].note] = j] ELSE job
                 /\ Rest(w)

Finish(w, state) == Reports(w, [job[worker[w].note] EXCEPT !.state = state])

\* Seeded faults: the attempts never run out; an attempt is not counted; one
\* attempt fewer is made; the job is not put back.
BugEndless(j) == [j EXCEPT !.made = j.made + 1, !.state = "waiting"]
BugUncounted(j) == [j EXCEPT !.state = "waiting"]
BugGivesUpEarly(j) ==
    [j EXCEPT !.made = j.made + 1,
              !.state = IF j.made + 2 < Attempts THEN "waiting" ELSE "failed"]
BugLeftActive(j) == [j EXCEPT !.made = j.made + 1]

\* What the queue makes of a job that threw.
Retried(j) ==
    [state |-> IF j.made + 1 < Attempts THEN "waiting" ELSE "failed",
     made |-> j.made + 1, stalled |-> j.stalled]

Throw(w) == Reports(w, Retried(job[worker[w].note]))

\* sendNow reads the token; without one there is nothing to do, and one that is
\* no Expo token is erased.
SendRead(w) ==
    /\ At(w, "read")
    /\ \/ /\ token = None
          /\ Finish(w, "completed")
       \/ /\ token \in Tokens
          /\ worker' = [worker EXCEPT ![w] =
                          [@ EXCEPT !.at = IF token \in Malformed THEN "clear"
                                                                 ELSE "push",
                                    !.token = token]]
          /\ UNCHANGED job
       \/ Throw(w)
    /\ UNCHANGED <<token, dead, receipts, pushes>>

\* Expo takes the message and gives a ticket, even for a token that is dead.
PushAccepted(w) ==
    /\ At(w, "push")
    /\ pushes' = [pushes EXCEPT ![worker[w].note] = @ + 1]
    /\ GoTo(w, "addReceipt")
    /\ UNCHANGED <<token, dead, job, receipts>>

\* Expo refuses: only DeviceNotRegistered, of a dead token, erases the token.
PushRefused(w) ==
    /\ At(w, "push")
    /\ \/ Finish(w, "completed")
       \/ /\ worker[w].token \in dead
          /\ GoTo(w, "clear")
          /\ UNCHANGED job
    /\ UNCHANGED <<token, dead, receipts, pushes>>

\* The call fails, and nobody knows whether the message was sent.
PushFailed(w) ==
    /\ At(w, "push")
    /\ \E sent \in {0, 1} :
          pushes' = [pushes EXCEPT ![worker[w].note] = @ + sent]
    /\ Throw(w)
    /\ UNCHANGED <<token, dead, receipts>>

\* The token erased is whatever the user has by now.
ClearToken(w) ==
    /\ At(w, "clear")
    /\ \/ token' = None /\ Finish(w, "completed")
       \/ UNCHANGED token /\ Throw(w)
    /\ UNCHANGED <<dead, receipts, pushes>>

\* queue.add stands inside the try: when it fails, with or without effect, a
\* message already sent is sent again.
AddReceipt(w) ==
    LET t == worker[w].token IN
    /\ At(w, "addReceipt")
    /\ \E added \in {0, 1} :
          /\ receipts' = [receipts EXCEPT ![<<t, 0>>] = @ + added]
          /\ \/ added = 1 /\ Finish(w, "completed")
             \/ Throw(w)
    /\ UNCHANGED <<token, dead, pushes>>

TakeReceipt(w, t, k) ==
    /\ At(w, "idle")
    /\ receipts[<<t, k>>] > 0
    /\ receipts' = [receipts EXCEPT ![<<t, k>>] = @ - 1]
    /\ worker' = [worker EXCEPT ![w] = Doing("check", None, t, k)]
    /\ UNCHANGED <<token, dead, job, pushes>>

RevealsDead(t) == t \in dead

\* The receipt says nothing, or that the device is gone; a failed look-up is not
\* tried again.
CheckReceipt(w) ==
    /\ At(w, "check")
    /\ \/ Rest(w)
       \/ RevealsDead(worker[w].token) /\ GoTo(w, "erase")
    /\ UNCHANGED <<token, dead, job, receipts, pushes>>

\* Here too the token erased is whatever the user has by now.
EraseToken(w) ==
    /\ At(w, "erase")
    /\ token' \in {None, token}
    /\ Rest(w)
    /\ UNCHANGED <<dead, job, receipts, pushes>>

\* What the queue makes of a job whose lock has run out: it puts it back if that
\* has not happened before.
Recovered(j) ==
    [state |-> IF j.stalled < MaxStalled THEN "waiting" ELSE "failed",
     made |-> j.made, stalled |-> j.stalled + 1]

SendPutBack(w) ==
    /\ worker[w].note # None
    /\ job' = IF worker[w].lock
              THEN [job EXCEPT ![worker[w].note] = Recovered(@)] ELSE job

ReceiptPutBack(w) ==
    LET k == worker[w].stalled IN
    /\ worker[w].note = None
    /\ receipts' = IF worker[w].lock /\ k < MaxStalled
                   THEN [receipts EXCEPT ![<<worker[w].token, k + 1>>] = @ + 1]
                   ELSE receipts

\* The worker is so slow that its lock runs out, and goes on without it.
Stall(w) ==
    /\ worker[w].lock
    /\ worker' = [worker EXCEPT ![w].lock = FALSE]
    /\ \/ SendPutBack(w) /\ UNCHANGED receipts
       \/ ReceiptPutBack(w) /\ UNCHANGED job
    /\ UNCHANGED <<token, dead, pushes>>

\* The process dies; a receipt may just have been added.
Crash(w) ==
    /\ ~ At(w, "idle")
    /\ Rest(w)
    /\ \/ SendPutBack(w) /\ UNCHANGED receipts
       \/ /\ SendPutBack(w)
          /\ At(w, "addReceipt")
          /\ receipts' = [receipts EXCEPT ![<<worker[w].token, 0>>] = @ + 1]
       \/ ReceiptPutBack(w) /\ UNCHANGED job
    /\ UNCHANGED <<token, dead, pushes>>

Work(w) == \/ \E n \in Notes : Take(w, n)
           \/ SendRead(w)
           \/ PushAccepted(w) \/ PushRefused(w) \/ PushFailed(w)
           \/ ClearToken(w)
           \/ AddReceipt(w)
           \/ \E t \in Tokens, k \in 0..MaxStalled : TakeReceipt(w, t, k)
           \/ CheckReceipt(w)
           \/ EraseToken(w)

Next == \/ \E t \in Tokens : RegisterPushToken(t) \/ Unregister(t)
        \/ ClearPushToken
        \/ \E n \in Notes : Enqueue(n)
        \/ \E w \in Workers : Work(w) \/ Stall(w) \/ Crash(w)

Spec == Init /\ [][Next]_vars

\* The workers go on as long as there is something to do.
FairSpec == Spec /\ \A w \in Workers : WF_vars(Work(w))
-----------------------------------------------------------------------------
(***************************************************************************)
(* Properties                                                              *)
(***************************************************************************)

\* Everything has its shape; a worker with a token to push to or a receipt to add
\* has read it.
TypeOK == /\ token \in Tokens \cup {None}
          /\ dead \subseteq Tokens
          /\ job \in [Notes -> Job]
          /\ receipts \in [Tokens \X (0..MaxStalled) -> Nat]
          /\ pushes \in [Notes -> Nat]
          /\ worker \in [Workers -> Activity]
          /\ \A w \in Workers : At(w, "push") \/ At(w, "addReceipt") =>
                                worker[w].token \in Tokens

\* The user is disturbed at most once per attempt and recovery, although a failed
\* call or a failed queue.add leaves the message sent and the job to be retried,
\* and a slow worker still sends what its retry sends too.
PushesBounded ==
    \A n \in Notes : pushes[n] <= Attempts + job[n].stalled

\* The queue gives a notification up only after the last attempt, or a second
\* stall, never earlier.
GivesUpLast ==
    \A n \in Notes : job[n].state = "failed" =>
        job[n].made = Attempts \/ job[n].stalled > MaxStalled

(***************************************************************************)
(* What makes these inductive: an active job is in one pair of hands, a    *)
(* job that is not failed has an attempt and a recovery left, and its      *)
(* messages, sent or still to be sent by whatever worker, are paid for by  *)
(* its attempts and its recoveries, but the one of the attempt that is not *)
(* over or was the last.                                                   *)
(***************************************************************************)
Holds(w, n) == worker[w].note = n /\ worker[w].lock

OneLock ==
    \A n \in Notes :
        /\ job[n].state = "active" <=> \E w \in Workers : Holds(w, n)
        /\ \A w, other \in Workers : Holds(w, n) /\ Holds(other, n) => other = w

ToPush(n) == {w \in Workers : /\ worker[w].note = n
                              /\ At(w, "read") \/ At(w, "push")}

Paid(j) == j.made + j.stalled
             + (IF j.state \in {"active", "completed"} THEN 1 ELSE 0)

Counted ==
    \A n \in Notes :
        /\ job[n].state # "failed" =>
             job[n].made < Attempts /\ job[n].stalled <= MaxStalled
        /\ pushes[n] + Cardinality(ToPush(n)) <= Paid(job[n])

NotesInv == TypeOK /\ OneLock /\ GivesUpLast /\ Counted

ErasedBy(w) == At(w, "clear") \/ At(w, "erase")

\* "Seul le receipt révèle un token mort": a worker erases no token that is that
\* of a live device (checkReceipt, sendNow).
LiveTokenKept ==
    [][\A w \in Workers :
          /\ ErasedBy(w)
          /\ worker'[w] = Idle
          /\ token # None
          /\ token' = None
          => token \in dead \cup Malformed]_vars

\* Every notification enqueued is sent or given up, whatever fails.
NotesSettle ==
    \A n \in Notes : job[n].state = "waiting"
                        ~> job[n].state \in {"completed", "failed"}
-----------------------------------------------------------------------------
(***************************************************************************)
(* What it takes for LiveTokenKept: that the user registers no other token *)
(* before a worker has erased the one it looked at.                        *)
(***************************************************************************)
\* Only tokens that are of no use are about to be erased.
UselessCondemned ==
    \A w \in Workers : ErasedBy(w) => worker[w].token \in dead \cup Malformed

StillLookedAt ==
    \A w \in Workers : ErasedBy(w) => token \in {None, worker[w].token}

ApartSpec == Init /\ [][Next /\ StillLookedAt']_vars
=============================================================================
