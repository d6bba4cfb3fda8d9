--------------------------- MODULE CarouselProofs ---------------------------
(***************************************************************************)
(* Proofs about Carousel, for any number of slides, administrators and     *)
(* applications.                                                           *)
(***************************************************************************)
EXTENDS Carousel, TLAPS

LEMMA RequestsAreRequests ==
    /\ Idle \in Request
    /\ Req("emit", None, None) \in Request
    /\ \A at \in {"createWrite", "updateWrite", "deleteWrite"},
          v \in Slides, ch \in Change : Req(at, v, ch) \in Request
    /\ Row \subseteq Change
BY DEF Idle, Req, Request, Change, Row

LEMMA RequestParts ==
    ASSUME NEW r \in Request
    PROVE  /\ r.at \in {"createWrite", "updateWrite", "deleteWrite"} =>
                r.slide \in Slides /\ r.with \in Change
           /\ r.at \in {"createWrite", "updateWrite", "deleteWrite",
                        "idle", "emit"}
BY DEF Request

LEMMA UpdatedIsWhole ==
    ASSUME NEW row \in Row, NEW ch \in Change
    PROVE  Updated(row, ch) \in Row
BY DEF Updated, Given, Row, Change

LEMMA ActiveIsScreen ==
    ASSUME TypeOK
    PROVE  Active \in Screen /\ Active # None
<1>1. ASSUME NEW v \in Slides, Exists(v)
      PROVE  slide[v].look \in Looks
      BY <1>1 DEF TypeOK, Exists, Row
<1>2. Active \subseteq [slide: Slides, look: Looks]
      BY <1>1 DEF Active
<1> QED BY <1>2, NoneIsNoAnswer DEF Screen

\* What each request in flight is allowed to be when one of them changes.
LEMMA OneRequestChanges ==
    ASSUME TypeOK, NEW s \in Slots, NEW r \in Request,
           r.at = "createWrite" => r.with \in Row,
           req' = [req EXCEPT ![s] = r]
    PROVE  /\ req' \in [Slots -> Request]
           /\ \A t \in Slots : At(t, "createWrite")' => req'[t].with \in Row
BY DEF TypeOK, At

\* Tables, requests, events and screens keep their shape (TypeOK).
THEOREM TypeCorrect == Spec => []TypeOK
<1>1. Init => TypeOK
      BY RequestsAreRequests
      DEF Init, TypeOK, Idle, Req, At, Screen
<1>2. TypeOK /\ [Next]_vars => TypeOK'
  <2> SUFFICES ASSUME TypeOK, [Next]_vars PROVE TypeOK'
      OBVIOUS
  <2>1. ASSUME NEW s \in Slots, NEW r \in Request, Begin(s, r),
               r.at = "createWrite" => r.with \in Row
        PROVE  TypeOK'
    <3>1. /\ req' \in [Slots -> Request]
          /\ \A t \in Slots : At(t, "createWrite")' => req'[t].with \in Row
          BY <2>1, OneRequestChanges DEF Begin
    <3> QED BY <2>1, <3>1 DEF TypeOK, Begin, eventVars
  <2>2. ASSUME NEW s \in Slots, NEW row \in Row \cup {None}, Write(s, row),
               req[s].at \in {"createWrite", "updateWrite", "deleteWrite"}
        PROVE  TypeOK'
    <3>1. /\ req' \in [Slots -> Request]
          /\ \A t \in Slots : At(t, "createWrite")' => req'[t].with \in Row
          BY <2>2, OneRequestChanges, RequestsAreRequests DEF Write, Req
    <3>2. slide' \in [Slides -> Row \cup {None}]
          BY <2>2, RequestParts DEF TypeOK, Write
    <3> QED BY <2>2, <3>1, <3>2 DEF TypeOK, Write, eventVars
  <2>3. ASSUME NEW s \in Slots, NEW v \in Slides, NEW row \in Row,
               CreateUpload(s, v, row)
        PROVE  TypeOK'
        BY <2>1, <2>3, RequestsAreRequests DEF CreateUpload, Req
  <2>4. ASSUME NEW s \in Slots, NEW v \in Slides, NEW ch \in Change,
               UpdateRead(s, v, ch)
        PROVE  TypeOK'
        BY <2>1, <2>4, RequestsAreRequests DEF UpdateRead, Req
  <2>5. ASSUME NEW s \in Slots, NEW v \in Slides, DeleteRead(s, v)
        PROVE  TypeOK'
        BY <2>1, <2>5, RequestsAreRequests DEF DeleteRead, Req, Change
  <2>6. ASSUME NEW s \in Slots, CreateWrite(s)
        PROVE  TypeOK'
        BY <2>2, <2>6 DEF CreateWrite, At, TypeOK
  <2>7. ASSUME NEW s \in Slots, UpdateWrite(s)
        PROVE  TypeOK'
    <3>1. req[s].slide \in Slides /\ req[s].with \in Change
          BY <2>7, RequestParts DEF UpdateWrite, At, TypeOK
    <3>2. slide[req[s].slide] \in Row
          BY <2>7, <3>1 DEF UpdateWrite, Exists, TypeOK
    <3> QED BY <2>2, <2>7, <3>1, <3>2, UpdatedIsWhole DEF UpdateWrite, At
  <2>8. ASSUME NEW s \in Slots, DeleteWrite(s)
        PROVE  TypeOK'
        BY <2>2, <2>8 DEF DeleteWrite, At
  <2>9. ASSUME NEW s \in Slots, Emit(s)
        PROVE  TypeOK'
    <3>1. /\ req' \in [Slots -> Request]
          /\ \A t \in Slots : At(t, "createWrite")' => req'[t].with \in Row
          BY <2>9, OneRequestChanges, RequestsAreRequests DEF Emit, Idle, Req
    <3> QED BY <2>9, <3>1 DEF TypeOK, Emit
  <2>10. ASSUME NEW s \in Slots, Abort(s)
         PROVE  TypeOK'
    <3>1. /\ req' \in [Slots -> Request]
          /\ \A t \in Slots : At(t, "createWrite")' => req'[t].with \in Row
          BY <2>10, OneRequestChanges, RequestsAreRequests DEF Abort, Idle, Req
    <3> QED BY <2>10, <3>1 DEF TypeOK, Abort
  <2>11. ASSUME NEW c \in Watchers, GetActiveSlides(c)
         PROVE  TypeOK'
    <3>1. answer' \in [Watchers -> Screen \cup {None}]
          BY <2>11, ActiveIsScreen DEF TypeOK, GetActiveSlides
    <3> QED BY <2>11, <3>1 DEF TypeOK, GetActiveSlides, serverVars, At
  <2>12. ASSUME NEW c \in Watchers, Show(c)
         PROVE  TypeOK'
    <3>1. shown' \in [Watchers -> Screen]
          BY <2>12 DEF TypeOK, Show
    <3>2. answer' \in [Watchers -> Screen \cup {None}]
          BY <2>12 DEF TypeOK, Show
    <3> QED BY <2>12, <3>1, <3>2 DEF TypeOK, Show, serverVars, eventVars, At
  <2>13. CASE UNCHANGED vars
         BY <2>13 DEF TypeOK, vars, At
  <2> QED BY <2>3, <2>4, <2>5, <2>6, <2>7, <2>8, <2>9, <2>10, <2>11, <2>12,
             <2>13 DEF Next
<1> QED BY <1>1, <1>2, PTL DEF Spec

-----------------------------------------------------------------------------
\* A request that leaves the slides alone, and no event is due to it, changes
\* nothing for the applications.
LEMMA ServerStepKeeps ==
    ASSUME TypeOK, OldScreensAreTold, NEW s \in Slots, NEW r,
           ~ At(s, "emit"),
           req' = [req EXCEPT ![s] = r],
           UNCHANGED <<slide, notified, missed, answer, shown>>
    PROVE  OldScreensAreTold'
<1>1. EventDue => EventDue'
      BY DEF TypeOK, EventDue, At
<1>2. Active' = Active
      BY DEF Active, Exists
<1>3. \A c \in Watchers : NextScreen(c)' = NextScreen(c)
      BY DEF NextScreen
<1> QED BY <1>1, <1>2, <1>3 DEF OldScreensAreTold

LEMMA WriteKeeps ==
    ASSUME TypeOK, NEW s \in Slots, NEW row, Write(s, row)
    PROVE  OldScreensAreTold'
<1>1. EventDue'
      BY DEF Write, EventDue, At, Req, TypeOK
<1> QED BY <1>1 DEF OldScreensAreTold

\* No order of writes, events, questions and answers leaves an application with
\* an old screen and nothing to come (OldScreensAreTold).
THEOREM OldScreensTold == Spec => []OldScreensAreTold
<1>1. Init => OldScreensAreTold
      BY DEF Init, OldScreensAreTold
<1>2. TypeOK /\ OldScreensAreTold /\ [Next]_vars => OldScreensAreTold'
  <2> SUFFICES ASSUME TypeOK, OldScreensAreTold, [Next]_vars
               PROVE  OldScreensAreTold'
      OBVIOUS
  <2>1. ASSUME NEW s \in Slots, NEW r, Begin(s, r)
        PROVE  OldScreensAreTold'
        BY <2>1, ServerStepKeeps DEF Begin, At, eventVars
  <2>2. ASSUME NEW s \in Slots, Emit(s)
        PROVE  OldScreensAreTold'
        BY <2>2 DEF Emit, OldScreensAreTold
  <2>3. ASSUME NEW s \in Slots, Abort(s)
        PROVE  OldScreensAreTold'
    <3>1. CASE At(s, "emit")
          BY <2>3, <3>1 DEF Abort, OldScreensAreTold
    <3>2. CASE ~ At(s, "emit")
          BY <2>3, <3>2, ServerStepKeeps DEF Abort
    <3> QED BY <3>1, <3>2
  <2>4. ASSUME NEW c \in Watchers, GetActiveSlides(c)
        PROVE  OldScreensAreTold'
    <3>1. Active' = Active /\ EventDue' = EventDue
          BY <2>4 DEF GetActiveSlides, serverVars, Active, Exists, EventDue, At
    <3>2. NextScreen(c)' = Active'
          BY <2>4, <3>1, ActiveIsScreen
          DEF GetActiveSlides, NextScreen, TypeOK
    <3>3. \A d \in Watchers \ {c} : /\ NextScreen(d)' = NextScreen(d)
                                    /\ d \in notified => d \in notified'
          BY <2>4 DEF GetActiveSlides, NextScreen, TypeOK
    <3> QED BY <2>4, <3>1, <3>2, <3>3 DEF OldScreensAreTold, GetActiveSlides
  <2>5. ASSUME NEW c \in Watchers, Show(c)
        PROVE  OldScreensAreTold'
    <3>1. Active' = Active /\ EventDue' = EventDue
          BY <2>5 DEF Show, serverVars, Active, Exists, EventDue, At
    <3>2. \A d \in Watchers : NextScreen(d)' = NextScreen(d)
          BY <2>5 DEF Show, NextScreen, TypeOK
    <3> QED BY <2>5, <3>1, <3>2 DEF OldScreensAreTold, Show, eventVars
  <2>6. CASE UNCHANGED vars
    <3>1. Active' = Active /\ EventDue' = EventDue
          BY <2>6 DEF vars, Active, Exists, EventDue, At
    <3>2. \A d \in Watchers : NextScreen(d)' = NextScreen(d)
          BY <2>6 DEF vars, NextScreen
    <3> QED BY <2>6, <3>1, <3>2 DEF OldScreensAreTold, vars
  <2>7. ASSUME NEW s \in Slots, CreateWrite(s) \/ UpdateWrite(s) \/ DeleteWrite(s)
        PROVE  OldScreensAreTold'
        BY <2>7, WriteKeeps DEF CreateWrite, UpdateWrite, DeleteWrite
  <2>8. ASSUME NEW s \in Slots, NEW v \in Slides,
               \/ \E row \in Row : CreateUpload(s, v, row)
               \/ \E ch \in Change : UpdateRead(s, v, ch)
               \/ DeleteRead(s, v)
        PROVE  OldScreensAreTold'
        BY <2>1, <2>8 DEF CreateUpload, UpdateRead, DeleteRead
  <2> QED BY <2>2, <2>3, <2>4, <2>5, <2>6, <2>7, <2>8 DEF Next
<1> QED BY <1>1, <1>2, TypeCorrect, PTL DEF Spec
=============================================================================
