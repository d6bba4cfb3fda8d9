--------------------------- MODULE AccountsProofs ---------------------------
(***************************************************************************)
(* Proofs about Accounts, for any number of phones, codes and requests.    *)
(***************************************************************************)
EXTENDS Accounts, TLAPS

\* Rows are not taken back: a code keeps its phone and its purpose, and a
\* verified or deleted one stays so.
CodesKept ==
    \A n \in Codes : code[n].row # "unborn" =>
        /\ code'[n].row # "unborn"
        /\ code'[n].phone = code[n].phone
        /\ code'[n].purpose = code[n].purpose
        /\ code[n].verified => code'[n].verified
        /\ code[n].row = "deleted" => code'[n].row = "deleted"

\* No request has a code to itself that it did not have before.
NoNewHolder == \A s \in Slots : \A n \in Codes : Holds(s, n)' => Holds(s, n)

\* A step that keeps the codes, writes no account, and moves one request on to r,
\* keeps the invariant if r fits and holds nothing it did not hold.
LEMMA StepPreserves ==
    ASSUME AccountsInv, TypeOK', CodesKept, NoNewHolder,
           account' = account, password' = password,
           NEW s \in Slots, \A t \in Slots \ {s} : req'[t] = req[t],
           RequestFits(req[s])'
    PROVE  AccountsInv'
<1>1. ASSUME NEW t \in Slots PROVE RequestFits(req[t])'
  <2>1. CASE t = s
    BY <2>1
  <2>2. CASE t # s
    <3>1. RequestFits(req[t]) /\ req'[t] = req[t]
      BY <2>2 DEF AccountsInv
    <3> QED
      BY <3>1 DEF RequestFits, CodesKept, Backs
  <2> QED
    BY <2>1, <2>2
<1>2. UsedOnce'
  BY DEF AccountsInv, UsedOnce, NoNewHolder
<1>3. AccountsBacked'
  BY DEF AccountsInv, AccountsBacked, CodesKept, Backs, TypeOK
<1> QED
  BY <1>1, <1>2, <1>3 DEF AccountsInv

\* Initially there is no code, no account and no request.
LEMMA AccountsInit == Init => AccountsInv
<1> SUFFICES ASSUME Init PROVE AccountsInv
  OBVIOUS
<1>1. TypeOK
  BY DEF Init, TypeOK, FreshCode, CodeRow, Purposes, Ages, PasswordValue,
         Idle, Req, Request, Stages
<1>2. \A s \in Slots : RequestFits(req[s])
  BY DEF Init, RequestFits, Idle, Req
<1>3. UsedOnce
  BY NoneIsNothing DEF Init, UsedOnce, Holds, Idle, Req, Codes
<1>4. AccountsBacked
  BY NoneIsNothing DEF Init, AccountsBacked, Codes
<1> QED
  BY <1>1, <1>2, <1>3, <1>4 DEF AccountsInv

\* A read finds what its request needs later, and starts with no code of its own.
LEMMA ReadPreserves ==
    ASSUME AccountsInv, NEW s \in Slots, NEW r \in Request,
           req' = [req EXCEPT ![s] = r], UNCHANGED tables,
           RequestFits(r), r.at \notin {"checkFree", "createUser", "setPassword"}
    PROVE  AccountsInv'
<1> USE DEF tables
<1>1. TypeOK' /\ req'[s] = r /\ \A t \in Slots \ {s} : req'[t] = req[t]
  BY DEF AccountsInv, TypeOK
<1>2. CodesKept
  BY DEF CodesKept
<1>3. NoNewHolder
  BY <1>1 DEF NoNewHolder, Holds
<1>4. RequestFits(req[s])'
  <2>1. RequestFits(req'[s])
    BY <1>1
  <2> QED
    BY <2>1 DEF RequestFits, Backs
<1> QED
  BY <1>1, <1>2, <1>3, <1>4, StepPreserves

\* The first step of every request, and the end of one that gives up.
LEMMA ReadsAndAbort ==
    ASSUME AccountsInv, NEW s \in Slots,
           \/ \E p \in Phones : \/ \E purpose \in Purposes :
                                      SendCheck(s, p, purpose)
                                \/ RegisterRead(s, p)
                                \/ ResetRead(s, p)
                                \/ ChangeRead(s, p)
           \/ \E n \in Codes : VerifyRead(s, n)
           \/ Abort(s)
    PROVE  AccountsInv'
<1> USE DEF Begin, Req
<1>1. code \in [Codes -> CodeRow] /\ password \in [Phones -> PasswordValue]
  BY DEF AccountsInv, TypeOK
<1>2. ASSUME NEW p \in Phones, NEW purpose \in Purposes,
             SendCheck(s, p, purpose)
      PROVE  AccountsInv'
  <2> DEFINE r == Req("sendInsert", p, purpose, None)
  <2>1. r \in Request /\ RequestFits(r)
    BY DEF Request, Stages, PasswordValue, RequestFits
  <2> QED
    BY <1>2, <2>1, ReadPreserves DEF SendCheck
<1>3. ASSUME NEW p \in Phones, NEW purpose \in Purposes,
             ConsumeRead(s, p, purpose)
      PROVE  AccountsInv'
  <2>1. PICK n \in Codes : /\ LatestVerified(n, p, purpose)
                           /\ Begin(s, Req("consume", p, purpose, n))
    BY <1>3 DEF ConsumeRead
  <2> DEFINE r == Req("consume", p, purpose, n)
  <2>2. r \in Request /\ RequestFits(r)
    BY <2>1 DEF LatestVerified, Request, Stages, PasswordValue, RequestFits
  <2> QED
    BY <2>1, <2>2, ReadPreserves
<1>4. ASSUME NEW p \in Phones, ChangeRead(s, p)
      PROVE  AccountsInv'
  <2> DEFINE r == [Req("changeWrite", p, "PASSWORD_RESET", None)
                     EXCEPT !.password = password[p]]
  <2>1. r \in Request /\ RequestFits(r)
    BY <1>1 DEF Request, Stages, Purposes, RequestFits
  <2>2. r.at = "changeWrite"
    OBVIOUS
  <2> QED
    BY <1>4, <2>1, <2>2, ReadPreserves DEF ChangeRead
<1>5. ASSUME NEW n \in Codes, VerifyRead(s, n)
      PROVE  AccountsInv'
  <2> DEFINE r == Req("verifyWrite", code[n].phone, code[n].purpose, n)
  <2>1. code[n].row = "live"
    BY <1>5 DEF VerifyRead, Expected
  <2>2. r \in Request /\ RequestFits(r)
    BY <1>1, <2>1 DEF Request, Stages, PasswordValue, RequestFits, CodeRow
  <2> QED
    BY <1>5, <2>2, ReadPreserves DEF VerifyRead
<1>6. CASE Abort(s)
  <2>1. Idle \in Request /\ RequestFits(Idle) /\ Idle.at = "idle"
    BY DEF Idle, Request, Stages, Purposes, PasswordValue, RequestFits
  <2> QED
    BY <1>6, <2>1, ReadPreserves DEF Abort, End
<1> QED
  BY <1>2, <1>3, <1>4, <1>5, <1>6 DEF RegisterRead, ResetRead, Purposes

\* What the writes to OtpCode do to the type of the table.
LEMMA CodeWriteTyped ==
    ASSUME TypeOK, NEW n \in Codes, NEW row \in CodeRow,
           code' = [code EXCEPT ![n] = row]
    PROVE  code' \in [Codes -> CodeRow]
BY DEF TypeOK

\* The writes to OtpCode that give no code away.
LEMMA CodeWrites ==
    ASSUME AccountsInv, NEW s \in Slots,
           \/ \E n \in Codes : SendInsert(s, n)
           \/ SendSms(s)
           \/ VerifyWrite(s)
    PROVE  AccountsInv'
<1> USE DEF AccountsInv
<1>1. /\ code \in [Codes -> CodeRow] /\ req \in [Slots -> Request]
      /\ req[s] \in Request /\ RequestFits(req[s])
  BY DEF TypeOK
<1>2. Idle \in Request /\ Idle.at = "idle"
  BY DEF Idle, Req, Request, Stages, Purposes, PasswordValue
<1>3. ASSUME NEW n \in Codes, SendInsert(s, n)
      PROVE  AccountsInv'
  <2> DEFINE row == [FreshCode EXCEPT !.row = "live", !.phone = req[s].phone,
                                      !.purpose = req[s].purpose]
             r == [req[s] EXCEPT !.at = "sms", !.code = n]
  <2>1. /\ code' = [code EXCEPT ![n] = row]
        /\ req' = [req EXCEPT ![s] = r]
        /\ UNCHANGED <<account, password>>
        /\ code[n].row = "unborn"
        /\ req[s].phone \in Phones
    BY <1>1, <1>3 DEF SendInsert, At, RequestFits
  <2>2. row \in CodeRow /\ row.row = "live"
    BY <1>1 DEF FreshCode, CodeRow, Ages, Request
  <2>3. r \in Request /\ r.at = "sms" /\ r.code = n /\ r.phone = req[s].phone
    BY <1>1 DEF Request, Stages
  <2>4. TypeOK'
    BY <1>1, <2>1, <2>2, <2>3, CodeWriteTyped DEF TypeOK
  <2>5. CodesKept
    BY <1>1, <2>1, <2>2 DEF CodesKept
  <2>6. req'[s] = r /\ \A t \in Slots \ {s} : req'[t] = req[t]
    BY <1>1, <2>1
  <2>7. NoNewHolder
    BY <2>3, <2>6 DEF NoNewHolder, Holds
  <2>8. RequestFits(req[s])'
    BY <1>1, <2>1, <2>2, <2>3, <2>6 DEF RequestFits
  <2> QED
    BY <2>1, <2>4, <2>5, <2>6, <2>7, <2>8, StepPreserves
<1>4. CASE SendSms(s) \/ VerifyWrite(s)
  <2> DEFINE n == req[s].code
  <2>1. n \in Codes
    BY <1>1, <1>4 DEF SendSms, VerifyWrite, At, RequestFits
  <2>2. PICK row \in CodeRow : /\ code' = [code EXCEPT ![n] = row]
                               /\ row.row = code[n].row
                               /\ row.phone = code[n].phone
                               /\ row.purpose = code[n].purpose
                               /\ code[n].verified => row.verified
    <3>1. code[n] \in CodeRow
      BY <1>1, <2>1
    <3>2. CASE SendSms(s)
      <4> DEFINE row == [code[n] EXCEPT !.delivered = TRUE]
      <4>1. /\ row \in CodeRow /\ row.row = code[n].row
            /\ row.phone = code[n].phone /\ row.purpose = code[n].purpose
            /\ row.verified = code[n].verified
        BY <3>1 DEF CodeRow
      <4>2. code' = [code EXCEPT ![n] = row]
        BY <3>2 DEF SendSms
      <4> QED
        BY <4>1, <4>2
    <3>3. CASE VerifyWrite(s)
      <4> DEFINE row == [code[n] EXCEPT !.verified = TRUE]
      <4>1. /\ row \in CodeRow /\ row.row = code[n].row
            /\ row.phone = code[n].phone /\ row.purpose = code[n].purpose
            /\ row.verified
        BY <3>1 DEF CodeRow
      <4>2. code' = [code EXCEPT ![n] = row]
        BY <3>3 DEF VerifyWrite
      <4> QED
        BY <4>1, <4>2
    <3> QED
      BY <1>4, <3>2, <3>3
  <2>3. req' = [req EXCEPT ![s] = Idle] /\ UNCHANGED <<account, password>>
    BY <1>4 DEF SendSms, VerifyWrite, End
  <2>4. TypeOK'
    BY <1>1, <1>2, <2>1, <2>2, <2>3, CodeWriteTyped DEF TypeOK
  <2>5. CodesKept
    BY <1>1, <2>1, <2>2 DEF CodesKept
  <2>6. req'[s] = Idle /\ \A t \in Slots \ {s} : req'[t] = req[t]
    BY <1>1, <2>3
  <2>7. NoNewHolder
    BY <1>2, <2>6 DEF NoNewHolder, Holds
  <2>8. RequestFits(req[s])'
    BY <1>2, <2>6 DEF RequestFits
  <2> QED
    BY <2>3, <2>4, <2>5, <2>6, <2>7, <2>8, StepPreserves
<1> QED
  BY <1>3, <1>4

\* Time only makes codes older.
LEMMA AgePreserves ==
    ASSUME AccountsInv, NEW n \in Codes, Age(n)
    PROVE  AccountsInv'
<1> USE DEF AccountsInv
<1> DEFINE row == [code[n] EXCEPT !.age = IF code[n].age = "fresh"
                                          THEN "expired" ELSE "old"]
<1>1. code[n] \in CodeRow /\ code \in [Codes -> CodeRow]
  BY DEF TypeOK
<1>2. /\ row \in CodeRow /\ row.row = code[n].row
      /\ row.phone = code[n].phone /\ row.purpose = code[n].purpose
      /\ row.verified = code[n].verified
  BY <1>1 DEF CodeRow, Ages
<1>3. code' = [code EXCEPT ![n] = row] /\ UNCHANGED <<account, password, req>>
  BY DEF Age
<1>4. TypeOK'
  BY <1>2, <1>3, CodeWriteTyped DEF TypeOK
<1>5. \A m \in Codes : /\ code'[m].row = code[m].row
                       /\ code'[m].phone = code[m].phone
                       /\ code'[m].purpose = code[m].purpose
                       /\ code'[m].verified = code[m].verified
  BY <1>1, <1>2, <1>3
<1>6. UsedOnce' /\ AccountsBacked'
  BY <1>3, <1>5 DEF UsedOnce, Holds, AccountsBacked, Backs
<1>7. ASSUME NEW t \in Slots PROVE RequestFits(req[t])'
  <2>1. RequestFits(req[t]) /\ req'[t] = req[t]
    BY <1>3
  <2> QED
    BY <1>5, <2>1 DEF RequestFits, Backs
<1> QED
  BY <1>4, <1>6, <1>7

\* The delete gives the code to one request: whoever has a code already, as a
\* request, an account or a password, has one whose row is deleted.
LEMMA ConsumePreserves ==
    ASSUME AccountsInv, NEW s \in Slots, Consume(s)
    PROVE  AccountsInv'
<1> USE DEF AccountsInv
<1> DEFINE n == req[s].code
           row == [code[n] EXCEPT !.row = "deleted"]
           stage == IF req[s].purpose = "PASSWORD_RESET" THEN "setPassword"
                                                         ELSE "checkFree"
           r == [req[s] EXCEPT !.at = stage]
<1>1. /\ code \in [Codes -> CodeRow] /\ req \in [Slots -> Request]
      /\ req[s] \in Request /\ RequestFits(req[s]) /\ req[s].at = "consume"
  BY DEF TypeOK, Consume, At
<1>2. /\ n \in Codes /\ code[n].row = "live" /\ code[n] \in CodeRow
      /\ code[n].phone = req[s].phone /\ code[n].purpose = req[s].purpose
      /\ code[n].verified
  BY <1>1 DEF Consume, Deletable, RequestFits
<1>3. /\ row \in CodeRow /\ row.row = "deleted"
      /\ row.phone = code[n].phone /\ row.purpose = code[n].purpose
      /\ row.verified = code[n].verified
  BY <1>2 DEF CodeRow
<1>4. /\ r \in Request /\ r.at = stage /\ r.code = n
      /\ r.phone = req[s].phone /\ r.purpose = req[s].purpose
  BY <1>1 DEF Request, Stages
<1>5. /\ code' = [code EXCEPT ![n] = row] /\ req' = [req EXCEPT ![s] = r]
      /\ UNCHANGED <<account, password>>
  BY DEF Consume, GoOn
<1>6. TypeOK'
  BY <1>2, <1>3, <1>4, <1>5, CodeWriteTyped DEF TypeOK
<1>7. CodesKept
  BY <1>1, <1>2, <1>3, <1>5 DEF CodesKept
<1>8. req'[s] = r /\ code'[n] = row /\ \A t \in Slots \ {s} : req'[t] = req[t]
  BY <1>1, <1>2, <1>5
<1>9. ASSUME NEW t \in Slots PROVE RequestFits(req[t])'
  <2>1. CASE t = s
    <3>1. req'[t] = r
      BY <1>8, <2>1
    <3>2. /\ r.code \in Codes
          /\ code'[r.code].row = "deleted"
          /\ code'[r.code].phone = r.phone
          /\ code'[r.code].purpose = r.purpose
          /\ code'[r.code].verified
      BY <1>2, <1>3, <1>4, <1>8
    <3>3. r.phone \in Phones
      BY <1>1, <1>4 DEF RequestFits
    <3>4. \/ r.at = "setPassword" /\ r.purpose = "PASSWORD_RESET"
          \/ r.at = "checkFree" /\ r.purpose = "PHONE_VERIFICATION"
      BY <1>1, <1>4 DEF Request, Purposes
    <3> HIDE DEF r
    <3> QED
      BY <3>1, <3>2, <3>3, <3>4 DEF RequestFits, Backs
  <2>2. CASE t # s
    <3>1. RequestFits(req[t]) /\ req'[t] = req[t]
      BY <1>8, <2>2
    <3> QED
      BY <1>7, <3>1 DEF RequestFits, CodesKept, Backs
  <2> QED
    BY <2>1, <2>2
<1>10. /\ \A t \in Slots : ~ Holds(t, n)
       /\ \A p \in Phones : account[p] # n /\ password[p] # n
  <2>1. ASSUME NEW t \in Slots, Holds(t, n) PROVE FALSE
    <3>1. RequestFits(req[t])
      OBVIOUS
    <3> QED
      BY <1>2, <2>1, <3>1 DEF Holds, RequestFits, Backs
  <2>2. ASSUME NEW p \in Phones PROVE account[p] # n
    BY <1>2, NoneIsNothing DEF AccountsBacked, Backs, Codes
  <2>3. ASSUME NEW p \in Phones PROVE password[p] # n
    BY <1>2, <2>2 DEF AccountsBacked, Backs
  <2> QED
    BY <2>1, <2>2, <2>3
<1>11. UsedOnce'
  <2>1. \A t \in Slots \ {s}, m \in Codes :
           Holds(t, m)' => Holds(t, m) /\ m # n
    BY <1>8, <1>10 DEF Holds
  <2>2. \A m \in Codes : Holds(s, m)' => m = n
    BY <1>4, <1>8 DEF Holds
  <2> QED
    BY <1>2, <1>5, <1>10, <2>1, <2>2 DEF UsedOnce
<1>12. AccountsBacked'
  BY <1>5, <1>7 DEF AccountsBacked, CodesKept, Backs, TypeOK
<1> QED
  BY <1>6, <1>9, <1>11, <1>12

\* Checking that the phone is free keeps the code.
LEMMA CheckFreePreserves ==
    ASSUME AccountsInv, NEW s \in Slots, CheckFree(s)
    PROVE  AccountsInv'
<1> USE DEF AccountsInv
<1> DEFINE r == [req[s] EXCEPT !.at = "createUser"]
<1>1. /\ req \in [Slots -> Request] /\ req[s] \in Request
      /\ RequestFits(req[s]) /\ req[s].at = "checkFree"
  BY DEF TypeOK, CheckFree, At
<1>2. /\ r \in Request /\ r.at = "createUser" /\ r.code = req[s].code
      /\ r.phone = req[s].phone /\ r.purpose = req[s].purpose
  BY <1>1 DEF Request, Stages
<1>3. req' = [req EXCEPT ![s] = r] /\ UNCHANGED tables
  BY DEF CheckFree, GoOn
<1>4. TypeOK' /\ req'[s] = r /\ \A t \in Slots \ {s} : req'[t] = req[t]
  BY <1>1, <1>2, <1>3 DEF TypeOK, tables
<1>5. CodesKept
  BY <1>3 DEF CodesKept, tables
<1>6. NoNewHolder
  BY <1>1, <1>2, <1>4 DEF NoNewHolder, Holds
<1>7. RequestFits(req[s])'
  BY <1>1, <1>2, <1>3, <1>4 DEF RequestFits, Backs, tables
<1> QED
  BY <1>3, <1>4, <1>5, <1>6, <1>7, StepPreserves DEF tables

\* The code a request writes into an account or a password was its own, and the
\* request gives it up.
LEMMA AccountWrites ==
    ASSUME AccountsInv, NEW s \in Slots,
           CreateUser(s) \/ SetPassword(s) \/ ChangeWrite(s)
    PROVE  AccountsInv'
<1> USE DEF AccountsInv
<1> DEFINE n == req[s].code
           p == req[s].phone
<1>1. /\ req \in [Slots -> Request] /\ req[s] \in Request
      /\ RequestFits(req[s])
      /\ account \in [Phones -> Codes \cup {None}]
      /\ password \in [Phones -> PasswordValue]
  BY DEF TypeOK
<1>2. req' = [req EXCEPT ![s] = Idle] /\ code' = code
  BY DEF CreateUser, SetPassword, ChangeWrite, End
<1>3. Idle \in Request /\ Idle.at = "idle"
  BY DEF Idle, Req, Request, Stages, Purposes, PasswordValue
<1>4. \A t \in Slots : RequestFits(req[t])'
  <2> SUFFICES ASSUME NEW t \in Slots PROVE RequestFits(req[t])'
    OBVIOUS
  <2>1. req'[t] = Idle \/ (req'[t] = req[t] /\ RequestFits(req[t]))
    BY <1>1, <1>2
  <2> QED
    BY <1>2, <1>3, <2>1 DEF RequestFits, Backs
<1>5. \A t \in Slots, m \in Codes : Holds(t, m)' => t # s /\ Holds(t, m)
  BY <1>1, <1>2, <1>3 DEF Holds
<1>6. p \in Phones
  BY <1>1 DEF CreateUser, SetPassword, ChangeWrite, At, RequestFits
<1>7. CASE CreateUser(s)
  <2>1. n \in Codes /\ Holds(s, n) /\ Backs(n, p, "PHONE_VERIFICATION")
    BY <1>1, <1>7 DEF CreateUser, At, RequestFits, Holds
  <2>2. /\ account' = [account EXCEPT ![p] = n]
        /\ password' = [password EXCEPT ![p] = n]
    BY <1>7 DEF CreateUser
  <2>3. TypeOK'
    BY <1>1, <1>2, <1>3, <2>1, <2>2 DEF TypeOK, PasswordValue
  <2>4. UsedOnce'
    BY <1>1, <1>5, <1>6, <2>1, <2>2 DEF UsedOnce
  <2>5. AccountsBacked'
    BY <1>1, <1>2, <1>6, <2>1, <2>2 DEF AccountsBacked, Backs
  <2> QED
    BY <1>4, <2>3, <2>4, <2>5
<1>8. CASE SetPassword(s)
  <2>1. n \in Codes /\ Holds(s, n) /\ Backs(n, p, "PASSWORD_RESET")
    BY <1>1, <1>8 DEF SetPassword, At, RequestFits, Holds
  <2>2. account' = account /\ password' = [password EXCEPT ![p] = n]
    BY <1>8 DEF SetPassword
  <2>3. TypeOK'
    BY <1>1, <1>2, <1>3, <2>1, <2>2 DEF TypeOK, PasswordValue
  <2>4. UsedOnce'
    BY <1>1, <1>5, <1>6, <2>1, <2>2 DEF UsedOnce
  <2>5. AccountsBacked'
    BY <1>1, <1>2, <1>6, <2>1, <2>2 DEF AccountsBacked, Backs
  <2> QED
    BY <1>4, <2>3, <2>4, <2>5
<1>9. CASE ChangeWrite(s)
  <2>1. account' = account /\ password' = [password EXCEPT ![p] = Changed]
    BY <1>9 DEF ChangeWrite
  <2>2. Changed \notin Codes /\ Changed \in PasswordValue
    BY DEF Changed, Codes, PasswordValue
  <2>3. TypeOK'
    BY <1>1, <1>2, <1>3, <2>1, <2>2 DEF TypeOK
  <2>4. UsedOnce'
    BY <1>1, <1>5, <1>6, <2>1, <2>2 DEF UsedOnce
  <2>5. AccountsBacked'
    BY <1>1, <1>2, <1>6, <2>1, <2>2 DEF AccountsBacked, Backs
  <2> QED
    BY <1>4, <2>3, <2>4, <2>5
<1> QED
  BY <1>7, <1>8, <1>9

\* The invariant holds for ever, whatever requests overlap.
THEOREM AccountsInvariance == Spec => []AccountsInv
<1>1. Init => AccountsInv
  BY AccountsInit
<1>2. AccountsInv /\ [Next]_vars => AccountsInv'
  <2> SUFFICES ASSUME AccountsInv, [Next]_vars PROVE AccountsInv'
    OBVIOUS
  <2>1. ASSUME NEW s \in Slots,
               \/ \E p \in Phones : \/ \E purpose \in Purposes :
                                          SendCheck(s, p, purpose)
                                    \/ RegisterRead(s, p)
                                    \/ ResetRead(s, p)
                                    \/ ChangeRead(s, p)
               \/ \E n \in Codes : VerifyRead(s, n)
               \/ Abort(s)
        PROVE  AccountsInv'
    BY <2>1, ReadsAndAbort
  <2>2. ASSUME NEW s \in Slots,
               \/ \E n \in Codes : SendInsert(s, n)
               \/ SendSms(s) \/ VerifyWrite(s)
        PROVE  AccountsInv'
    BY <2>2, CodeWrites
  <2>3. ASSUME NEW s \in Slots, Consume(s) \/ CheckFree(s)
        PROVE  AccountsInv'
    BY <2>3, ConsumePreserves, CheckFreePreserves
  <2>4. ASSUME NEW s \in Slots, CreateUser(s) \/ SetPassword(s) \/ ChangeWrite(s)
        PROVE  AccountsInv'
    BY <2>4, AccountWrites
  <2>5. CASE \E n \in Codes : Age(n)
    BY <2>5, AgePreserves
  <2>6. CASE UNCHANGED vars
    BY <2>6 DEF vars, AccountsInv, TypeOK, RequestFits, UsedOnce, Holds,
                AccountsBacked, Backs
  <2> QED
    BY <2>1, <2>2, <2>3, <2>4, <2>5, <2>6 DEF Next
<1> QED
  BY <1>1, <1>2, PTL DEF Spec

\* A code serves at most one request, account or password.
THEOREM CodesUsedOnce == Spec => []UsedOnce
<1>1. AccountsInv => UsedOnce
  BY DEF AccountsInv
<1> QED
  BY <1>1, AccountsInvariance, PTL

\* Accounts and passwords come from codes verified for that phone and purpose.
THEOREM AccountsAreBacked == Spec => []AccountsBacked
<1>1. AccountsInv => AccountsBacked
  BY DEF AccountsInv
<1> QED
  BY <1>1, AccountsInvariance, PTL

\* An account is never replaced by that of a later registration.
THEOREM AccountKept == Spec => AccountStays
<1> DEFINE Kept == \A p \in Phones : account[p] # None
                                       => account'[p] = account[p]
<1>1. AccountsInv /\ [Next]_vars => [Kept]_vars
  <2> SUFFICES ASSUME AccountsInv, Next PROVE Kept
    OBVIOUS
  <2>1. ASSUME NEW s \in Slots, CreateUser(s) PROVE Kept
    <3>1. account[req[s].phone] = None
      BY <2>1 DEF CreateUser, PhoneUnique
    <3>2. account' = [account EXCEPT ![req[s].phone] = req[s].code]
      BY <2>1 DEF CreateUser
    <3> QED
      BY <3>1, <3>2 DEF AccountsInv, TypeOK
  <2>2. ASSUME NEW s \in Slots,
               \/ \E n \in Codes : SendInsert(s, n)
               \/ SendSms(s) \/ VerifyWrite(s) \/ Consume(s) \/ CheckFree(s)
               \/ SetPassword(s) \/ ChangeWrite(s) \/ Abort(s)
        PROVE  account' = account
    BY <2>2 DEF SendInsert, SendSms, VerifyWrite, Consume, CheckFree,
                SetPassword, ChangeWrite, Abort, tables
  <2>3. ASSUME NEW s \in Slots,
               \/ \E p \in Phones : \/ \E purpose \in Purposes :
                                          SendCheck(s, p, purpose)
                                    \/ RegisterRead(s, p)
                                    \/ ResetRead(s, p)
                                    \/ ChangeRead(s, p)
               \/ \E n \in Codes : VerifyRead(s, n)
        PROVE  account' = account
    BY <2>3 DEF SendCheck, RegisterRead, ResetRead, ConsumeRead, ChangeRead,
                VerifyRead, Begin, tables
  <2>4. ASSUME NEW n \in Codes, Age(n) PROVE account' = account
    BY <2>4 DEF Age
  <2> QED
    BY <2>1, <2>2, <2>3, <2>4 DEF Next
<1> QED
  BY <1>1, AccountsInvariance, PTL DEF Spec, AccountStays
-----------------------------------------------------------------------------
(***************************************************************************)
(* What it takes for the messages of the source to be true.                *)
(***************************************************************************)

\* The steps that write no password: all but three.
Unwritten == password' = password

LEMMA PasswordWriters ==
    ASSUME [Next]_vars
    PROVE  \/ Unwritten
           \/ \E s \in Slots : CreateUser(s) \/ SetPassword(s) \/ ChangeWrite(s)
  BY DEF Next, Unwritten, vars, tables, SendCheck, SendInsert, SendSms,
         VerifyRead, VerifyWrite, RegisterRead, ResetRead, ConsumeRead, Consume,
         CheckFree, ChangeRead, Age, Abort, Begin

\* Who is at the write of changePassword was there before, or just compared.
LEMMA Comparing ==
    ASSUME TypeOK, [Next]_vars, NEW s \in Slots, At(s, "changeWrite")'
    PROVE  \/ /\ At(s, "changeWrite") /\ req'[s] = req[s]
              /\ ~ CreateUser(s) /\ ~ SetPassword(s) /\ ~ ChangeWrite(s)
           \/ \E p \in Phones :
                 /\ account[p] # None /\ UNCHANGED tables
                 /\ req'[s].phone = p /\ req'[s].password = password[p]
<1> USE DEF TypeOK
<1>1. ASSUME NEW t \in Slots, NEW p \in Phones, ChangeRead(t, p), t = s
      PROVE  /\ account[p] # None /\ UNCHANGED tables
             /\ req'[s].phone = p /\ req'[s].password = password[p]
  BY <1>1 DEF ChangeRead, Begin, Req
<1>2. ASSUME NEW t \in Slots, t = s,
             \/ \E p \in Phones : \/ \E purpose \in Purposes :
                                        SendCheck(t, p, purpose)
                                  \/ RegisterRead(t, p)
                                  \/ ResetRead(t, p)
             \/ \E n \in Codes : VerifyRead(t, n)
      PROVE  FALSE
  <2>1. req'[s].at \in {"sendInsert", "consume", "verifyWrite"}
    BY <1>2 DEF SendCheck, RegisterRead, ResetRead, ConsumeRead, VerifyRead,
                Begin, Req
  <2> QED
    BY <2>1 DEF At
<1>3. ASSUME NEW t \in Slots, t = s,
             \/ \E n \in Codes : SendInsert(t, n)
             \/ Consume(t) \/ CheckFree(t)
      PROVE  FALSE
  <2>1. req[s] \in Request
    OBVIOUS
  <2>2. \A stage : GoOn(s, stage) => req'[s].at = stage
    BY <2>1 DEF GoOn, Request
  <2>3. ASSUME NEW n \in Codes, SendInsert(s, n) PROVE req'[s].at = "sms"
    BY <2>1, <2>3 DEF SendInsert, Request
  <2>4. req'[s].at \in {"sms", "setPassword", "checkFree", "createUser"}
    BY <1>3, <2>2, <2>3 DEF Consume, CheckFree
  <2> QED
    BY <2>4 DEF At
<1>4. ASSUME NEW t \in Slots, t = s,
             \/ SendSms(t) \/ VerifyWrite(t) \/ CreateUser(t)
             \/ SetPassword(t) \/ ChangeWrite(t) \/ Abort(t)
      PROVE  FALSE
  <2>1. req'[s] = Idle
    BY <1>4 DEF SendSms, VerifyWrite, CreateUser, SetPassword, ChangeWrite,
                Abort, End
  <2> QED
    BY <2>1 DEF At, Idle, Req
<1>5. ASSUME NEW t \in Slots, t # s,
             \/ \E p \in Phones : \/ \E purpose \in Purposes :
                                        SendCheck(t, p, purpose)
                                  \/ RegisterRead(t, p)
                                  \/ ResetRead(t, p)
                                  \/ ChangeRead(t, p)
             \/ \E n \in Codes : SendInsert(t, n) \/ VerifyRead(t, n)
             \/ SendSms(t) \/ VerifyWrite(t) \/ Consume(t) \/ CheckFree(t)
             \/ CreateUser(t) \/ SetPassword(t) \/ ChangeWrite(t) \/ Abort(t)
      PROVE  req'[s] = req[s]
  BY <1>5 DEF SendCheck, RegisterRead, ResetRead, ConsumeRead, ChangeRead,
              SendInsert, VerifyRead, SendSms, VerifyWrite, Consume, CheckFree,
              CreateUser, SetPassword, ChangeWrite, Abort, Begin, GoOn, End
<1>6. ASSUME \/ \E n \in Codes : Age(n)
             \/ UNCHANGED vars
      PROVE  req'[s] = req[s]
  BY <1>6 DEF Age, vars
<1>7. CASE req'[s] = req[s]
  <2>1. At(s, "changeWrite")
    BY <1>7 DEF At
  <2>2. ~ CreateUser(s) /\ ~ SetPassword(s) /\ ~ ChangeWrite(s)
    BY <1>4
  <2> QED
    BY <1>7, <2>1, <2>2
<1> QED
  BY <1>1, <1>2, <1>3, <1>4, <1>5, <1>6, <1>7 DEF Next

\* What changePassword compared stays: no other request may write the password
\* of its phone, which has its account already.
LEMMA ComparedKept ==
    ASSUME AccountsInv, ComparedIsCurrent, PasswordsApart, [Next]_vars
    PROVE  ComparedIsCurrent'
<1> SUFFICES ASSUME NEW s \in Slots, At(s, "changeWrite")'
             PROVE  /\ account'[req'[s].phone] # None
                    /\ password'[req'[s].phone] = req'[s].password
  BY DEF ComparedIsCurrent
<1> USE DEF AccountsInv
<1>1. CASE \E p \in Phones :
              /\ account[p] # None /\ UNCHANGED tables
              /\ req'[s].phone = p /\ req'[s].password = password[p]
  BY <1>1 DEF tables
<1>2. CASE /\ At(s, "changeWrite") /\ req'[s] = req[s]
           /\ ~ CreateUser(s) /\ ~ SetPassword(s) /\ ~ ChangeWrite(s)
  <2> DEFINE p == req[s].phone
  <2>1. account[p] # None /\ password[p] = req[s].password
    BY <1>2 DEF ComparedIsCurrent
  <2>2. p \in Phones
    BY <1>2 DEF At, RequestFits
  <2>3. ASSUME NEW t \in Slots,
               CreateUser(t) \/ SetPassword(t) \/ ChangeWrite(t)
        PROVE  /\ req[t].phone # p
               /\ password'[p] = password[p] /\ account'[p] = account[p]
    <3>1. t # s
      BY <1>2, <2>3
    <3>2. req[t].phone # p
      BY <1>2, <2>1, <2>3, <3>1
      DEF CreateUser, PhoneUnique, SetPassword, ChangeWrite, At, PasswordsApart
    <3>3. /\ \/ account' = account
             \/ account' = [account EXCEPT ![req[t].phone] = req[t].code]
          /\ \/ password' = [password EXCEPT ![req[t].phone] = req[t].code]
             \/ password' = [password EXCEPT ![req[t].phone] = Changed]
      BY <2>3 DEF CreateUser, SetPassword, ChangeWrite
    <3> QED
      BY <2>2, <3>2, <3>3 DEF TypeOK
  <2>4. account' = account \/ \E t \in Slots : CreateUser(t)
    BY DEF Next, vars, tables, SendCheck, SendInsert, SendSms, VerifyRead,
           VerifyWrite, RegisterRead, ResetRead, ConsumeRead, Consume,
           CheckFree, SetPassword, ChangeRead, ChangeWrite, Age, Abort, Begin
  <2>5. password'[p] = password[p] /\ account'[p] = account[p]
    BY <2>3, <2>4, PasswordWriters DEF Unwritten
  <2> QED
    BY <1>2, <2>1, <2>5
<1> QED
  BY <1>1, <1>2, Comparing

\* "Mot de passe actuel incorrect": when nobody sets the password between the
\* comparison and the write, changePassword replaces the password it compared
\* (ChangesCurrentPassword).
THEOREM CurrentPasswordChanged == ApartSpec => ChangesCurrentPassword
<1>1. Init => ComparedIsCurrent /\ PasswordsApart
  BY DEF Init, ComparedIsCurrent, PasswordsApart, At, Idle, Req
<1>2. AccountsInv /\ ComparedIsCurrent /\ PasswordsApart
        /\ [Next /\ PasswordsApart']_vars
        => ComparedIsCurrent' /\ PasswordsApart'
  <2> SUFFICES ASSUME AccountsInv, ComparedIsCurrent, PasswordsApart,
                      [Next /\ PasswordsApart']_vars
               PROVE  ComparedIsCurrent' /\ PasswordsApart'
    OBVIOUS
  <2>1. PasswordsApart'
    BY DEF PasswordsApart, At, vars
  <2> QED
    BY <2>1, ComparedKept
<1>3. ApartSpec => Spec
  BY PTL DEF ApartSpec, Spec
<1> DEFINE Current == \A s \in Slots : ChangeWrite(s) =>
                         password[req[s].phone] = req[s].password
<1>4. ComparedIsCurrent => [Current]_vars
  BY DEF ComparedIsCurrent, ChangeWrite
<1> QED
  BY <1>1, <1>2, <1>3, <1>4, AccountsInvariance, PTL
  DEF ApartSpec, ChangesCurrentPassword

\* A code that is still to be delivered was so before.
NoneLost ==
    \A n \in Codes : code'[n].row = "live" /\ ~ code'[n].delivered =>
        /\ code[n].row = "live" /\ ~ code[n].delivered
        /\ code'[n].phone = code[n].phone
        /\ code'[n].purpose = code[n].purpose

\* A step that loses none, of a request that sends nothing, or of time.
LEMMA SendersKept ==
    ASSUME UndeliveredIsSent, NoneLost,
           \A t \in Slots : At(t, "sms") => req'[t] = req[t]
    PROVE  UndeliveredIsSent'
<1> SUFFICES ASSUME NEW n \in Codes,
                    code'[n].row = "live", ~ code'[n].delivered
             PROVE  \E s \in Slots : /\ At(s, "sms")'
                                     /\ req'[s].code = n
                                     /\ req'[s].phone = code'[n].phone
                                     /\ req'[s].purpose = code'[n].purpose
  BY DEF UndeliveredIsSent
<1>1. PICK s \in Slots : /\ At(s, "sms")
                         /\ req[s].code = n
                         /\ req[s].phone = code[n].phone
                         /\ req[s].purpose = code[n].purpose
  BY DEF UndeliveredIsSent, NoneLost
<1>2. req'[s] = req[s]
  BY <1>1
<1> QED
  BY <1>1, <1>2 DEF At, NoneLost

\* Every code that is not delivered is being sent, when sending never fails.
LEMMA SendingKept ==
    ASSUME TypeOK, UndeliveredIsSent,
           [Next /\ \A s \in Slots : At(s, "sms") => ~ Abort(s)]_vars
    PROVE  UndeliveredIsSent'
<1> USE DEF TypeOK
<1>1. ASSUME NEW s \in Slots,
             \/ \E p \in Phones : \/ \E purpose \in Purposes :
                                        SendCheck(s, p, purpose)
                                  \/ RegisterRead(s, p)
                                  \/ ResetRead(s, p)
                                  \/ ChangeRead(s, p)
             \/ \E n \in Codes : VerifyRead(s, n)
             \/ CheckFree(s) \/ CreateUser(s) \/ SetPassword(s)
             \/ ChangeWrite(s)
             \/ Abort(s) /\ ~ At(s, "sms")
      PROVE  UndeliveredIsSent'
  <2>1. code' = code /\ ~ At(s, "sms")
    BY <1>1 DEF SendCheck, RegisterRead, ResetRead, ConsumeRead, ChangeRead,
                VerifyRead, CheckFree, CreateUser, SetPassword, ChangeWrite,
                Abort, Begin, At, tables
  <2>2. \A t \in Slots : t # s => req'[t] = req[t]
    BY <1>1 DEF SendCheck, RegisterRead, ResetRead, ConsumeRead, ChangeRead,
                VerifyRead, CheckFree, CreateUser, SetPassword, ChangeWrite,
                Abort, Begin, GoOn, End
  <2> QED
    BY <2>1, <2>2, SendersKept DEF NoneLost
<1>2. ASSUME NEW s \in Slots, VerifyWrite(s) \/ Consume(s)
      PROVE  UndeliveredIsSent'
  <2>1. ~ At(s, "sms") /\ \A t \in Slots : t # s => req'[t] = req[t]
    BY <1>2 DEF VerifyWrite, Consume, At, GoOn, End
  <2>2. NoneLost
    <3>1. \/ code' = [code EXCEPT ![req[s].code].verified = TRUE]
          \/ code' = [code EXCEPT ![req[s].code].row = "deleted"]
      BY <1>2 DEF VerifyWrite, Consume
    <3> QED
      BY <3>1 DEF NoneLost, CodeRow
  <2> QED
    BY <2>1, <2>2, SendersKept
<1>3. ASSUME NEW n \in Codes, Age(n)
      PROVE  UndeliveredIsSent'
  <2>1. NoneLost
    BY <1>3 DEF Age, NoneLost, CodeRow
  <2> QED
    BY <1>3, <2>1, SendersKept DEF Age
<1>4. ASSUME NEW s \in Slots, NEW n \in Codes, SendInsert(s, n)
      PROVE  UndeliveredIsSent'
  <2>1. /\ ~ At(s, "sms")
        /\ \A t \in Slots : t # s => req'[t] = req[t]
    BY <1>4 DEF SendInsert, At
  <2>2. \A m \in Codes : m # n => code'[m] = code[m]
    BY <1>4 DEF SendInsert
  <2>3. code'[n].phone = req[s].phone /\ code'[n].purpose = req[s].purpose
    BY <1>4 DEF SendInsert, FreshCode
  <2>4. /\ At(s, "sms")' /\ req'[s].code = n
        /\ req'[s].phone = req[s].phone /\ req'[s].purpose = req[s].purpose
    <3>1. req[s] \in Request
      OBVIOUS
    <3> QED
      BY <1>4, <3>1 DEF SendInsert, At, Request
  <2>5. ASSUME NEW m \in Codes, m # n,
               code'[m].row = "live", ~ code'[m].delivered
        PROVE  \E t \in Slots : /\ At(t, "sms")'
                                /\ req'[t].code = m
                                /\ req'[t].phone = code'[m].phone
                                /\ req'[t].purpose = code'[m].purpose
    <3>1. PICK t \in Slots : /\ At(t, "sms")
                             /\ req[t].code = m
                             /\ req[t].phone = code[m].phone
                             /\ req[t].purpose = code[m].purpose
      BY <2>2, <2>5 DEF UndeliveredIsSent
    <3> QED
      BY <2>1, <2>2, <2>5, <3>1 DEF At
  <2> QED
    BY <2>3, <2>4, <2>5 DEF UndeliveredIsSent
<1>5. ASSUME NEW s \in Slots, SendSms(s)
      PROVE  UndeliveredIsSent'
  <2> DEFINE n == req[s].code
  <2>1. /\ code' = [code EXCEPT ![n].delivered = TRUE]
        /\ \A t \in Slots : t # s => req'[t] = req[t]
    BY <1>5 DEF SendSms, End
  <2>2. ASSUME NEW m \in Codes, code'[m].row = "live", ~ code'[m].delivered
        PROVE  \E t \in Slots : /\ At(t, "sms")'
                                /\ req'[t].code = m
                                /\ req'[t].phone = code'[m].phone
                                /\ req'[t].purpose = code'[m].purpose
    <3>1. m # n /\ code'[m] = code[m]
      BY <2>1, <2>2 DEF CodeRow
    <3>2. PICK t \in Slots : /\ At(t, "sms")
                             /\ req[t].code = m
                             /\ req[t].phone = code[m].phone
                             /\ req[t].purpose = code[m].purpose
      BY <2>2, <3>1 DEF UndeliveredIsSent
    <3> QED
      BY <2>1, <3>1, <3>2 DEF At
  <2> QED
    BY <2>2 DEF UndeliveredIsSent
<1>6. CASE UNCHANGED vars
  BY <1>6, SendersKept DEF vars, NoneLost
<1> QED
  BY <1>1, <1>2, <1>3, <1>4, <1>5, <1>6 DEF Next

\* "Il expire dans 5 minutes": when every message reaches its phone, the last
\* code delivered is the one that is expected (DeliveredCodeWorks), however many
\* were asked for and however requests overlap.
THEOREM LastCodeWorks == DeliverySpec => []DeliveredCodeWorks
<1>1. Init => UndeliveredIsSent
  BY DEF Init, UndeliveredIsSent, FreshCode
<1>2. AccountsInv /\ UndeliveredIsSent
        /\ [Next /\ \A s \in Slots : At(s, "sms") => ~ Abort(s)]_vars
        => UndeliveredIsSent'
  BY SendingKept DEF AccountsInv
<1>3. UndeliveredIsSent => DeliveredCodeWorks
  <2> SUFFICES ASSUME UndeliveredIsSent, NEW n \in Codes,
                      code[n].row = "live",
                      code[n].age = "fresh",
                      ~ code[n].verified,
                      ~ Sending(code[n].phone, code[n].purpose),
                      \A m \in (n + 1)..MaxCodes :
                         ~ (/\ code[m].delivered
                            /\ code[m].phone = code[n].phone
                            /\ code[m].purpose = code[n].purpose)
               PROVE  Expected(n)
    BY DEF DeliveredCodeWorks
  <2>1. ASSUME NEW m \in Codes, code[m].row = "live",
               code[m].phone = code[n].phone,
               code[m].purpose = code[n].purpose
        PROVE  m <= n
    <3>1. code[m].delivered
      BY <2>1 DEF UndeliveredIsSent, Sending, At
    <3>2. m \notin (n + 1)..MaxCodes
      BY <2>1, <3>1
    <3> QED
      BY <3>2, CodesAreCounted DEF Codes
  <2> QED
    BY <2>1 DEF Expected
<1>4. DeliverySpec => Spec
  BY PTL DEF DeliverySpec, Spec
<1> QED
  BY <1>1, <1>2, <1>3, <1>4, AccountsInvariance, PTL DEF DeliverySpec
=============================================================================
