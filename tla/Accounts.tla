------------------------------ MODULE Accounts ------------------------------
(***************************************************************************)
(* Accounts opened and passwords reset with a code sent by SMS: AuthService*)
(* and InfobipService, and UserService.changePassword.                     *)
(*                                                                         *)
(* A handler is a request in a slot that awaits one query at a time.  The  *)
(* rows of OtpCode are numbered as they are created, so a later code has a *)
(* greater number; two codes are taken to differ.  A user submits codes    *)
(* that were delivered.  Emails, profiles, photographs and hashes are left *)
(* out: what they can do to a request is make it fail.                     *)
(***************************************************************************)
EXTENDS Naturals, FiniteSets

CONSTANTS
    Phones,     \* phone numbers
    MaxCodes,   \* bound: the codes generated in all
    Slots,      \* requests that can be in flight at the same time
    None        \* the database's NULL

ASSUME CodesAreCounted == MaxCodes \in Nat
ASSUME NoneIsNothing == None \notin Phones \cup Nat

VARIABLES
    code,       \* the rows of OtpCode
    account,    \* phone |-> the code its User was created with, or None
    password,   \* phone |-> what the password hash was last set with, or None
    req         \* the request each slot is working on

vars == <<code, account, password, req>>
tables == <<code, account, password>>

-----------------------------------------------------------------------------
Codes == 1..MaxCodes
Purposes == {"PHONE_VERIFICATION", "PASSWORD_RESET"}

\* age: expiresAt is 5 minutes after the creation; a code is old when so much
\* time has passed since that nobody would call its verification recent.
Ages == {"fresh", "expired", "old"}
CodeRow == [row: {"unborn", "live", "deleted"}, phone: Phones \cup {None},
            purpose: Purposes, verified: BOOLEAN, age: Ages,
            delivered: BOOLEAN]

FreshCode == [row |-> "unborn", phone |-> None,
              purpose |-> "PHONE_VERIFICATION", verified |-> FALSE,
              age |-> "fresh", delivered |-> FALSE]

\* A password is known by the code it was set with; changePassword needs none.
Changed == 0
PasswordValue == {Changed} \cup Codes \cup {None}

Stages == {"idle", "sendInsert", "sms", "verifyWrite", "consume", "checkFree",
           "createUser", "setPassword", "changeWrite"}
Request == [at: Stages, phone: Phones \cup {None}, purpose: Purposes,
            code: Codes \cup {None}, password: PasswordValue]

Req(at, p, purpose, n) == [at |-> at, phone |-> p, purpose |-> purpose,
                           code |-> n, password |-> None]
Idle == Req("idle", None, "PHONE_VERIFICATION", None)

At(s, stage) == req[s].at = stage
Begin(s, r) == /\ At(s, "idle")
               /\ req' = [req EXCEPT ![s] = r]
               /\ UNCHANGED tables
GoOn(s, stage) == req' = [req EXCEPT ![s].at = stage]
End(s) == req' = [req EXCEPT ![s] = Idle]

Init == /\ code = [n \in Codes |-> FreshCode]
        /\ account = [p \in Phones |-> None]
        /\ password = [p \in Phones |-> None]
        /\ req = [s \in Slots |-> Idle]
-----------------------------------------------------------------------------
\* sendOtp: a reset needs an account, a verification a phone that has none.
SendCheck(s, p, purpose) ==
    /\ IF purpose = "PASSWORD_RESET" THEN account[p] # None
                                     ELSE account[p] = None
    /\ Begin(s, Req("sendInsert", p, purpose, None))

SendInsert(s, n) ==
    /\ At(s, "sendInsert")
    /\ code[n].row = "unborn"
    /\ \A m \in 1..(n - 1) : code[m].row # "unborn"
    /\ code' = [code EXCEPT ![n] =
                  [FreshCode EXCEPT !.row = "live",
                                    !.phone = req[s].phone,
                                    !.purpose = req[s].purpose]]
    /\ req' = [req EXCEPT ![s] = [@ EXCEPT !.at = "sms", !.code = n]]
    /\ UNCHANGED <<account, password>>

\* The provider takes the message.  When it does not, the row stays: Abort.
SendSms(s) ==
    /\ At(s, "sms")
    /\ code' = [code EXCEPT ![req[s].code].delivered = TRUE]
    /\ End(s)
    /\ UNCHANGED <<account, password>>

\* The code a submitted one is compared with: the newest that is not verified and
\* has not expired.
Expected(n) ==
    LET Candidate(m) == /\ code[m].row = "live"
                        /\ code[m].phone = code[n].phone
                        /\ code[m].purpose = code[n].purpose
                        /\ ~ code[m].verified
                        /\ code[m].age = "fresh"
    IN  Candidate(n) /\ \A m \in Codes : Candidate(m) => m <= n

VerifyRead(s, n) ==
    /\ code[n].delivered
    /\ Expected(n)
    /\ Begin(s, Req("verifyWrite", code[n].phone, code[n].purpose, n))

VerifyWrite(s) ==
    /\ At(s, "verifyWrite")
    /\ code[req[s].code].row = "live"
    /\ code' = [code EXCEPT ![req[s].code].verified = TRUE]
    /\ End(s)
    /\ UNCHANGED <<account, password>>

\* Seeded faults: a code verified for one purpose serves another; an unverified
\* one serves.
BugAnyPurpose(n, p, purpose) ==
    LET Candidate(m) == /\ code[m].row = "live"
                        /\ code[m].phone = p
                        /\ code[m].verified
    IN  Candidate(n) /\ \A m \in Codes : Candidate(m) => m <= n
BugUnverified(n, p, purpose) ==
    LET Candidate(m) == /\ code[m].row = "live"
                        /\ code[m].phone = p
                        /\ code[m].purpose = purpose
    IN  Candidate(n) /\ \A m \in Codes : Candidate(m) => m <= n

\* What consumeVerifiedOtp finds: the newest verified code, of whatever age.
LatestVerified(n, p, purpose) ==
    LET Candidate(m) == /\ code[m].row = "live"
                        /\ code[m].phone = p
                        /\ code[m].purpose = purpose
                        /\ code[m].verified
    IN  Candidate(n) /\ \A m \in Codes : Candidate(m) => m <= n

\* registerClient, registerWasher and resetPassword all begin by consuming a code
\* of the purpose they need.
ConsumeRead(s, p, purpose) ==
    \E n \in Codes : /\ LatestVerified(n, p, purpose)
                     /\ Begin(s, Req("consume", p, purpose, n))

RegisterRead(s, p) == ConsumeRead(s, p, "PHONE_VERIFICATION")
ResetRead(s, p) == ConsumeRead(s, p, "PASSWORD_RESET")

\* Seeded fault: deleting a row that is gone is no error.
BugDeletable(n) == code[n].row # "unborn"

\* delete throws when another request has deleted the row in the meantime.
Deletable(n) == code[n].row = "live"

Consume(s) ==
    LET n == req[s].code IN
    /\ At(s, "consume")
    /\ Deletable(n)
    /\ code' = [code EXCEPT ![n].row = "deleted"]
    /\ GoOn(s, IF req[s].purpose = "PASSWORD_RESET" THEN "setPassword"
                                                    ELSE "checkFree")
    /\ UNCHANGED <<account, password>>

CheckFree(s) ==
    /\ At(s, "checkFree")
    /\ account[req[s].phone] = None
    /\ GoOn(s, "createUser")
    /\ UNCHANGED tables

\* Seeded fault: without the unique index the phone is checked only beforehand.
BugPhoneUnique(p) == TRUE

\* User.phone is unique.
PhoneUnique(p) == account[p] = None

CreateUser(s) ==
    LET p == req[s].phone IN
    /\ At(s, "createUser")
    /\ PhoneUnique(p)
    /\ account' = [account EXCEPT ![p] = req[s].code]
    /\ password' = [password EXCEPT ![p] = req[s].code]
    /\ End(s)
    /\ UNCHANGED code

SetPassword(s) ==
    LET p == req[s].phone IN
    /\ At(s, "setPassword")
    /\ account[p] # None
    /\ password' = [password EXCEPT ![p] = req[s].code]
    /\ End(s)
    /\ UNCHANGED <<code, account>>

\* changePassword compares the current password with the one it reads.
ChangeRead(s, p) ==
    /\ account[p] # None
    /\ Begin(s, [Req("changeWrite", p, "PASSWORD_RESET", None)
                   EXCEPT !.password = password[p]])

ChangeWrite(s) ==
    /\ At(s, "changeWrite")
    /\ password' = [password EXCEPT ![req[s].phone] = Changed]
    /\ End(s)
    /\ UNCHANGED <<code, account>>

\* Time passes.
Age(n) ==
    /\ code[n].row = "live"
    /\ code[n].age # "old"
    /\ code' = [code EXCEPT ![n].age =
                  IF code[n].age = "fresh" THEN "expired" ELSE "old"]
    /\ UNCHANGED <<account, password, req>>

\* A request ends without writing any more: a check or a query throws, an
\* external service refuses, or the process dies.
Abort(s) ==
    /\ ~ At(s, "idle")
    /\ End(s)
    /\ UNCHANGED tables

Next == \/ \E s \in Slots :
              \/ \E p \in Phones : \/ \E purpose \in Purposes :
                                         SendCheck(s, p, purpose)
                                   \/ RegisterRead(s, p)
                                   \/ ResetRead(s, p)
                                   \/ ChangeRead(s, p)
              \/ \E n \in Codes : SendInsert(s, n) \/ VerifyRead(s, n)
              \/ SendSms(s)
              \/ VerifyWrite(s)
              \/ Consume(s)
              \/ CheckFree(s)
              \/ CreateUser(s)
              \/ SetPassword(s)
              \/ ChangeWrite(s)
              \/ Abort(s)
        \/ \E n \in Codes : Age(n)

Spec == Init /\ [][Next]_vars
-----------------------------------------------------------------------------
(***************************************************************************)
(* Properties                                                              *)
(***************************************************************************)

\* Every table and every request has its shape.
TypeOK == /\ code \in [Codes -> CodeRow]
          /\ account \in [Phones -> Codes \cup {None}]
          /\ password \in [Phones -> PasswordValue]
          /\ req \in [Slots -> Request]

\* A request past consumeVerifiedOtp has the code n to itself.
Holds(s, n) == /\ req[s].at \in {"checkFree", "createUser", "setPassword"}
               /\ req[s].code = n

\* "Usage unique": however requests race for a verified code, at most one gets it,
\* and a code that opened an account or set a password serves nobody again.
UsedOnce ==
    \A n \in Codes :
        /\ \A s, t \in Slots : Holds(s, n) /\ Holds(t, n) => s = t
        /\ \A s \in Slots, p \in Phones :
              Holds(s, n) => account[p] # n /\ password[p] # n
        /\ \A p, q \in Phones :
              account[p] = n /\ (account[q] = n \/ password[q] = n) => p = q

Backs(n, p, purpose) == /\ code[n].phone = p
                        /\ code[n].purpose = purpose
                        /\ code[n].verified
                        /\ code[n].row = "deleted"

\* An account exists only for a phone whose owner verified a code sent to it to
\* register, and a password comes from that code, from one verified to reset it,
\* or from its owner: a code for one purpose or phone never serves another.
AccountsBacked ==
    \A p \in Phones :
        /\ account[p] # None => Backs(account[p], p, "PHONE_VERIFICATION")
        /\ password[p] \in Codes \ {account[p]} =>
              Backs(password[p], p, "PASSWORD_RESET")

\* Two registrations of a phone can both pass ensurePhoneIsFree; the second never
\* replaces the account of the first.
AccountStays ==
    [][\A p \in Phones : account[p] # None => account'[p] = account[p]]_vars

(***************************************************************************)
(* What makes UsedOnce and AccountsBacked inductive: what a request knows  *)
(* of the code it has found, consumed, or is about to mark.                *)
(***************************************************************************)
RequestFits(r) ==
    /\ r.at \notin {"idle", "verifyWrite"} => r.phone \in Phones
    /\ r.at \in {"sms", "verifyWrite", "consume"} =>
          r.code \in Codes /\ code[r.code].row # "unborn"
    /\ r.at = "consume" => /\ code[r.code].phone = r.phone
                           /\ code[r.code].purpose = r.purpose
                           /\ code[r.code].verified
    /\ r.at \in {"checkFree", "createUser", "setPassword"} =>
          r.code \in Codes /\ Backs(r.code, r.phone, r.purpose)
    /\ r.at \in {"checkFree", "createUser"} => r.purpose = "PHONE_VERIFICATION"
    /\ r.at = "setPassword" => r.purpose = "PASSWORD_RESET"

\* Every conjunct together.
AccountsInv == /\ TypeOK
               /\ \A s \in Slots : RequestFits(req[s])
               /\ UsedOnce
               /\ AccountsBacked
-----------------------------------------------------------------------------
(***************************************************************************)
(* What the messages and comments of the source say, and does not hold     *)
(* unless requests or messages behave (the next section).                  *)
(***************************************************************************)

\* "Vérifie qu'un OTP a été validé récemment": no request consumes a code that
\* was verified long ago (consumeVerifiedOtp).
OnlyRecentCodes ==
    [][\A n \in Codes :
          code[n].row = "live" /\ code'[n].row = "deleted"
             => code[n].age # "old"]_vars

Sending(p, purpose) ==
    \E s \in Slots : /\ req[s].at \in {"sendInsert", "sms"}
                     /\ req[s].phone = p
                     /\ req[s].purpose = purpose

\* "Votre code WashGo est ... Il expire dans 5 minutes": the last code delivered,
\* still unexpired, is the one verifyOtp expects, unless it was verified already
\* or another one is on its way (sendOtp).
DeliveredCodeWorks ==
    \A n \in Codes :
        /\ code[n].row = "live"
        /\ code[n].delivered
        /\ code[n].age = "fresh"
        /\ ~ code[n].verified
        /\ ~ Sending(code[n].phone, code[n].purpose)
        /\ \A m \in (n + 1)..MaxCodes :
              ~ (/\ code[m].delivered
                 /\ code[m].phone = code[n].phone
                 /\ code[m].purpose = code[n].purpose)
        => Expected(n)

\* "Mot de passe actuel incorrect": changePassword replaces only the password it
\* was given, never one set since (changePassword).
ChangesCurrentPassword ==
    [][\A s \in Slots : ChangeWrite(s) =>
          password[req[s].phone] = req[s].password]_vars
-----------------------------------------------------------------------------
(***************************************************************************)
(* What it takes for two of them to be true.                               *)
(***************************************************************************)
\* Nobody sets the password of a phone while changePassword, which has compared
\* the one before, is about to replace it.
PasswordsApart ==
    \A s, t \in Slots :
        /\ At(s, "changeWrite")
        /\ req[t].at \in {"changeWrite", "setPassword"}
        /\ req[s].phone = req[t].phone
        => s = t

ApartSpec == Init /\ [][Next /\ PasswordsApart']_vars

\* The provider takes every message, and no process dies while one is sent.
DeliverySpec ==
    Init /\ [][Next /\ \A s \in Slots : At(s, "sms") => ~ Abort(s)]_vars

\* A code that has not reached its phone is being sent.
UndeliveredIsSent ==
    \A n \in Codes : code[n].row = "live" /\ ~ code[n].delivered =>
        \E s \in Slots : /\ At(s, "sms")
                          /\ req[s].code = n
                          /\ req[s].phone = code[n].phone
                          /\ req[s].purpose = code[n].purpose

\* What changePassword has compared is still the password.
ComparedIsCurrent ==
    \A s \in Slots : At(s, "changeWrite") =>
        /\ account[req[s].phone] # None
        /\ password[req[s].phone] = req[s].password
=============================================================================
