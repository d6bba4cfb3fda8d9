------------------------------ MODULE Carousel ------------------------------
(***************************************************************************)
(* The carousel of the client application.  An administrator creates,      *)
(* changes and deletes slides (AdminService; CarouselService repeats these *)
(* methods and nobody calls them); after each write the gateway emits      *)
(* carousel.updated to all sockets.  The event says only that something    *)
(* changed, so whoever receives it asks for the active slides again.       *)
(*                                                                         *)
(* The write, the event, its delivery, the query it causes and the answer  *)
(* are five moments, and other administrators go on between them.          *)
(***************************************************************************)
EXTENDS Naturals

CONSTANTS
    Slides,      \* ids of slides
    Looks,       \* image, texts and order of a slide
    Slots,       \* requests of administrators that can be in flight
    Watchers,    \* client applications with a socket
    None         \* no row, nothing given, no answer under way

ASSUME NoneIsNoValue == None \notin Slides \cup Looks \cup BOOLEAN
ASSUME NoneIsNoAnswer ==
    \A screen \in SUBSET [slide: Slides, look: Looks] : screen # None

VARIABLES
    slide,       \* id |-> its CarouselSlide, or None when there is no row
    req,         \* the request each slot is working on
    notified,    \* watchers that have an event to react to
    missed,      \* watchers whose last event did not reach them
    answer,      \* watcher |-> the answer on its way to it, or None
    shown        \* watcher |-> the slides it shows

vars == <<slide, req, notified, missed, answer, shown>>
serverVars == <<slide, req>>
eventVars == <<notified, missed>>
watcherVars == <<notified, answer, shown>>

Row == [look: Looks, active: BOOLEAN]
Change == [look: Looks \cup {None}, active: BOOLEAN \cup {None}]
Screen == SUBSET [slide: Slides, look: Looks]

Request ==
    [at: {"createWrite", "updateWrite", "deleteWrite"},
     slide: Slides, with: Change]
      \cup [at: {"idle", "emit"}, slide: {None}, with: {None}]

Req(at, v, ch) == [at |-> at, slide |-> v, with |-> ch]
Idle == Req("idle", None, None)

At(s, stage) == req[s].at = stage
Exists(v) == slide[v] # None

\* getActiveSlides.
Active == {[slide |-> v, look |-> slide[v].look] :
             v \in {x \in Slides : Exists(x) /\ slide[x].active}}

\* A watcher asks when it starts.
Init == /\ slide = [v \in Slides |-> None]
        /\ req = [s \in Slots |-> Idle]
        /\ notified = Watchers
        /\ missed = {}
        /\ answer = [c \in Watchers |-> None]
        /\ shown = [c \in Watchers |-> {}]
-----------------------------------------------------------------------------
(***************************************************************************)
(* The administrators.  The image is uploaded while a request stands       *)
(* before its write.                                                       *)
(***************************************************************************)
Begin(s, r) == /\ At(s, "idle")
               /\ req' = [req EXCEPT ![s] = r]
               /\ UNCHANGED <<slide, eventVars, answer, shown>>

\* A write; the event is emitted when the handler goes on.
Write(s, row) ==
    /\ slide' = [slide EXCEPT ![req[s].slide] = row]
    /\ req' = [req EXCEPT ![s] = Req("emit", None, None)]
    /\ UNCHANGED <<eventVars, answer, shown>>

\* The id is new: no row and no request has it.
CreateUpload(s, v, row) == /\ ~ Exists(v)
                           /\ \A t \in Slots : req[t].slide # v
                           /\ Begin(s, Req("createWrite", v, row))

CreateWrite(s) == At(s, "createWrite") /\ Write(s, req[s].with)

UpdateRead(s, v, change) == /\ Exists(v)
                            /\ Begin(s, Req("updateWrite", v, change))

Given(new, old) == IF new = None THEN old ELSE new

\* Seeded fault: a field that is not given is cleared.
BugUpdated(row, change) == change

Updated(row, change) == [look |-> Given(change.look, row.look),
                         active |-> Given(change.active, row.active)]

UpdateWrite(s) ==
    LET v == req[s].slide IN
    /\ At(s, "updateWrite")
    /\ Exists(v)
    /\ Write(s, Updated(slide[v], req[s].with))

DeleteRead(s, v) ==
    /\ Exists(v)
    /\ Begin(s, Req("deleteWrite", v, [look |-> None, active |-> None]))

\* Seeded fault: nobody is told of a slide that is gone.
BugDeleteWrite(s) ==
    /\ At(s, "deleteWrite")
    /\ Exists(req[s].slide)
    /\ slide' = [slide EXCEPT ![req[s].slide] = None]
    /\ req' = [req EXCEPT ![s] = Idle]
    /\ UNCHANGED <<eventVars, answer, shown>>

DeleteWrite(s) == /\ At(s, "deleteWrite")
                  /\ Exists(req[s].slide)
                  /\ Write(s, None)

\* emitCarouselUpdate: those it does not reach are never sent it again.
Emit(s) ==
    /\ At(s, "emit")
    /\ \E reached \in SUBSET Watchers :
          /\ notified' = notified \cup reached
          /\ missed' = Watchers \ reached
    /\ req' = [req EXCEPT ![s] = Idle]
    /\ UNCHANGED <<slide, answer, shown>>

\* The upload or a query fails, the row is gone, or the process dies: then an
\* event that was due reaches nobody.
Abort(s) ==
    /\ ~ At(s, "idle")
    /\ req' = [req EXCEPT ![s] = Idle]
    /\ missed' = IF At(s, "emit") THEN Watchers ELSE missed
    /\ UNCHANGED <<slide, notified, answer, shown>>
-----------------------------------------------------------------------------
(***************************************************************************)
(* The applications.                                                       *)
(***************************************************************************)
\* One question at a time; the answer is what the query finds.
GetActiveSlides(c) == /\ c \in notified
                      /\ answer[c] = None
                      /\ answer' = [answer EXCEPT ![c] = Active]
                      /\ notified' = notified \ {c}
                      /\ UNCHANGED <<serverVars, missed, shown>>

Show(c) == /\ answer[c] # None
           /\ shown' = [shown EXCEPT ![c] = answer[c]]
           /\ answer' = [answer EXCEPT ![c] = None]
           /\ UNCHANGED <<serverVars, eventVars>>

Next == \/ \E s \in Slots :
             \/ \E v \in Slides : \/ \E row \in Row : CreateUpload(s, v, row)
                                  \/ \E ch \in Change : UpdateRead(s, v, ch)
                                  \/ DeleteRead(s, v)
             \/ CreateWrite(s)
             \/ UpdateWrite(s)
             \/ DeleteWrite(s)
             \/ Emit(s)
             \/ Abort(s)
        \/ \E c \in Watchers : GetActiveSlides(c) \/ Show(c)

Spec == Init /\ [][Next]_vars
-----------------------------------------------------------------------------
(***************************************************************************)
(* Properties.                                                             *)
(***************************************************************************)

\* Rows are whole, whatever part of them an update gives; what is asked for,
\* under way and shown is a set of slides.
TypeOK == /\ slide \in [Slides -> Row \cup {None}]
          /\ req \in [Slots -> Request]
          /\ \A s \in Slots : At(s, "createWrite") => req[s].with \in Row
          /\ notified \subseteq Watchers
          /\ missed \subseteq Watchers
          /\ answer \in [Watchers -> Screen \cup {None}]
          /\ shown \in [Watchers -> Screen]

EventDue == \E s \in Slots : At(s, "emit")

NextScreen(c) == IF answer[c] = None THEN shown[c] ELSE answer[c]

\* Whoever has, or is about to have, something else on the screen than the
\* active slides will be told to ask again, unless the last event did not reach
\* it: no order of writes, events and answers leaves an application with an old
\* screen and nothing to come.
OldScreensAreTold ==
    \A c \in Watchers : NextScreen(c) # Active =>
        EventDue \/ c \in notified \/ c \in missed
=============================================================================
