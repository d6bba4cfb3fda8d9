--------------------------- MODULE NoticesProofs ----------------------------
(***************************************************************************)
(* Proofs about Notices, for any instance and however many follow-ups and  *)
(* failures.  Every step of Notices is one of Marketplace or leaves its    *)
(* tables alone, so all that is proved there holds here; on it rests that  *)
(* nobody is told of progress that was not made.                           *)
(***************************************************************************)
EXTENDS Notices, MarketplaceProofs

LEMMA StepsAreSteps == NNext => [Next]_vars
<1> SUFFICES ASSUME NNext PROVE [Next]_vars
    OBVIOUS
<1>1. ASSUME NEW s \in Slots, ClientWrite(s)
      PROVE  Next
      BY <1>1 DEF ClientWrite, Next, ClientStep
<1>2. ASSUME NEW s \in Slots, WasherWrite(s)
      PROVE  Next
      BY <1>2 DEF WasherWrite, Transition, Next, WasherStep
<1>3. ASSUME NEW s \in Slots, NEW b \in Bookings, ExpireWrite(s, b)
      PROVE  Next
      BY <1>3 DEF ExpireWrite, Next, ExpireStep
<1>4. ASSUME NEW s \in Slots, SilentStep(s)
      PROVE  Next
      BY <1>4 DEF SilentStep, Next, ClientStep, WasherStep, ExpireStep
<1>5. CASE Elsewhere
      BY <1>5 DEF Elsewhere, Next
<1>6. ASSUME NEW f \in after, FollowUp(f)
      PROVE  UNCHANGED vars
      BY <1>6 DEF FollowUp, DropLists, TellNow, TellOfLive, Enqueue,
                  LookForLosers, Refused, Dies
<1>7. ASSUME NEW s \in Slots, NEW w \in Washers,
             QueryList(s, w)
      PROVE  UNCHANGED vars
      BY <1>7 DEF QueryList
<1>8. ASSUME NEW s \in Slots, StoreList(s)
      PROVE  UNCHANGED vars
      BY <1>8 DEF StoreList
<1>9. ASSUME NEW w \in Washers, ListExpires(w)
      PROVE  UNCHANGED vars
      BY <1>9 DEF ListExpires
<1> QED BY <1>1, <1>2, <1>3, <1>4, <1>5, <1>6, <1>7, <1>8, <1>9 DEF NNext

\* What follows the commits disturbs nothing: with it the service still does
\* only what Marketplace allows.
THEOREM NoticesImplementMarketplace == NSpec => Spec
<1>1. NInit => Init
      BY DEF NInit
<1>2. [NNext]_allVars => [Next]_vars
      BY StepsAreSteps DEF allVars
<1> QED BY <1>1, <1>2, PTL DEF NSpec, Spec

\* So are they when requests do not clash.
LEMMA NoticesUnclashed == NSpec /\ []Apart => []Unclashed
BY NoticesImplementMarketplace, UnclashingIsApart, UnclashedInvariance, PTL

-----------------------------------------------------------------------------
(***************************************************************************)
(* Follow-ups that are well formed and tell nothing untrue.                *)
(***************************************************************************)
\* The notices of a follow-up are true once the step is made.
Honest(f) == \A i \in DOMAIN f : \A n \in f[i].notices : Earned(n)

LEMMA ClientOfBooking ==
    ASSUME ForeignKeys, NEW b \in Bookings
    PROVE  ClientOf(b) \in Clients
BY DEF ForeignKeys, ClientOf

\* The steps a handler puts together are steps.
LEMMA StepsTyped ==
    /\ \A b \in Bookings, ws \in SUBSET Washers : Drop(b, ws) \in StepOf
    /\ \A ns \in SUBSET NotificationPayload : Tell(ns) \in StepOf
    /\ \A b \in Bookings, n \in NotificationPayload : TellIfLive(b, n) \in StepOf
    /\ \A o \in Offers : TellChoice(o) \in StepOf
BY DEF Drop, Tell, TellIfLive, TellChoice, Step, StepOf

\* So are the notices.
LEMMA NoticesTyped ==
    ASSUME ForeignKeys
    PROVE  /\ \A o \in Offers :
                {OfferReceived(o), OfferAccepted(o), OfferRejected(o)}
                  \subseteq NotificationPayload
           /\ \A b \in Bookings :
                /\ {WasherArrived(b), WashStarted(b), WashCompletedByWasher(b),
                    BookingExpired(b)} \subseteq NotificationPayload
                /\ \A w \in Washers :
                     {BookingConfirmedByClient(b, w),
                      BookingCancelledByClient(b, w)}
                       \subseteq NotificationPayload
                /\ \A o \in Offers \cup {None} :
                     BookingCancelledByWasher(b, o) \in NotificationPayload
<1>1. ASSUME NEW o \in Offers
      PROVE  {OfferReceived(o), OfferAccepted(o), OfferRejected(o)}
                \subseteq NotificationPayload
  <2>1. ClientOf(BookingOf[o]) \in Clients /\ WasherOf[o] \in Washers
        BY ClientOfBooking DEF ForeignKeys
  <2> QED BY <2>1 DEF NotificationPayload, OfferReceived, OfferAccepted,
                      OfferRejected, Notice
<1>2. ASSUME NEW b \in Bookings
      PROVE  {WasherArrived(b), WashStarted(b), WashCompletedByWasher(b),
              BookingExpired(b)} \subseteq NotificationPayload
      BY ClientOfBooking
      DEF NotificationPayload, WasherArrived, WashStarted,
          WashCompletedByWasher, BookingExpired, Notice
<1>3. ASSUME NEW b \in Bookings, NEW w \in Washers
      PROVE  {BookingConfirmedByClient(b, w), BookingCancelledByClient(b, w)}
                \subseteq NotificationPayload
      BY DEF NotificationPayload, BookingConfirmedByClient,
             BookingCancelledByClient, Notice
<1>4. ASSUME NEW b \in Bookings, NEW o \in Offers \cup {None}
      PROVE  BookingCancelledByWasher(b, o) \in NotificationPayload
      BY ClientOfBooking DEF NotificationPayload, BookingCancelledByWasher, Notice
<1> QED BY <1>1, <1>2, <1>3, <1>4

LEMMA SequencesTyped ==
    ASSUME NEW S
    PROVE  /\ \A x \in S : <<x>> \in Seq(S) \ {<<>>}
           /\ \A x, y \in S : <<x, y>> \in Seq(S) \ {<<>>}
           /\ \A x, y, z \in S : <<x, y, z>> \in Seq(S) \ {<<>>}
OBVIOUS

\* A write with follow-ups that are well formed and honest once it is made.
LEMMA FollowKeeps ==
    ASSUME NInv, NEW fs, Follow(fs), fs \subseteq Follows,
           \A f \in fs : Honest(f)',
           \A n \in NotificationPayload : Earned(n) => Earned(n)'
    PROVE  NInv'
<1>1. NTypeOK'
      BY DEF NInv, NTypeOK, Follow
<1>2. ProgressTrue'
      BY DEF NInv, NTypeOK, ProgressTrue, Follow
<1>3. ASSUME NEW f \in after, NEW i \in DOMAIN f, NEW n \in f[i].notices
      PROVE  Earned(n)'
  <2>1. f \in Seq(StepOf) /\ f[i] \in StepOf
        BY <1>3 DEF NInv, NTypeOK, Follows
  <2>2. n \in NotificationPayload
        BY <2>1, <1>3 DEF StepOf
  <2> QED BY <1>3, <2>2 DEF NInv
<1>4. \A f \in after' : \A i \in DOMAIN f : \A n \in f[i].notices : Earned(n)'
      BY <1>3 DEF Follow, Honest
<1> QED BY <1>1, <1>2, <1>4 DEF NInv

\* A step of a follow-up, with more to do in its place.
LEMMA GoOnWithKeeps ==
    ASSUME NInv, NEW f \in after, NEW more \in Seq(StepOf), GoOnWith(f, more),
           Honest(more), UNCHANGED booking
    PROVE  /\ after' \subseteq Follows
           /\ \A g \in after' : \A i \in DOMAIN g :
                \A n \in g[i].notices : Earned(n)'
<1> DEFINE rest == more \o Tail(f)
<1>1. f \in Seq(StepOf) /\ f # <<>> /\ Honest(f)
      BY DEF NInv, NTypeOK, Follows, Honest
<1>2. Tail(f) \in Seq(StepOf) /\ Honest(Tail(f))
      BY <1>1 DEF Honest
<1>3. rest \in Seq(StepOf)
      BY <1>2
<1>4. Honest(rest)
  <2> SUFFICES ASSUME NEW i \in DOMAIN rest, NEW n \in rest[i].notices
               PROVE  Earned(n)
      BY DEF Honest
  <2>1. CASE i \in 1..Len(more)
    <3>1. rest[i] = more[i] /\ i \in DOMAIN more
          BY <1>2, <2>1
    <3> QED BY <3>1 DEF Honest
  <2>2. CASE i \notin 1..Len(more)
    <3>1. /\ rest[i] = Tail(f)[i - Len(more)]
          /\ i - Len(more) \in DOMAIN Tail(f)
          BY <1>2, <2>2
    <3> QED BY <1>2, <3>1 DEF Honest
  <2> QED BY <2>1, <2>2
<1> HIDE DEF rest
<1>5. after' = (after \ {f}) \cup ({rest} \ {<<>>})
      BY DEF GoOnWith, rest
<1>6. \A n : Earned(n)' = Earned(n)
      BY DEF Earned
<1>7. after' \subseteq Follows
      BY <1>3, <1>5 DEF NInv, NTypeOK, Follows
<1>8. ASSUME NEW g \in after', NEW i \in DOMAIN g, NEW n \in g[i].notices
      PROVE  Earned(n)'
      BY <1>4, <1>5, <1>6, <1>8 DEF NInv, Honest
<1> QED BY <1>7, <1>8

-----------------------------------------------------------------------------
(***************************************************************************)
(* The writes.                                                             *)
(***************************************************************************)
Milestones == {"WASHER_ARRIVED", "WASH_STARTED", "WASH_COMPLETED_BY_WASHER",
               "BOOKING_CONFIRMED_BY_CLIENT"}

\* What was true to tell stays true.
LEMMA EarnedStays ==
    ASSUME IInv, [Next]_vars, NEW n \in NotificationPayload, Earned(n)
    PROVE  Earned(n)'
<1>1. CASE n.type \in Milestones
  <2>1. n.about \in Bookings
        BY <1>1 DEF NotificationPayload, Milestones
  <2>2. Kept(n.about)
        BY <2>1, NextKeeps
  <2> QED BY <1>1, <2>2 DEF Earned, Kept, Milestones
<1>2. CASE n.type \notin Milestones
      BY <1>2 DEF Earned, Milestones
<1> QED BY <1>1, <1>2

\* A notice of anything else needs no milestone.
LEMMA OthersAreEarned ==
    ASSUME NEW n, n.type \notin Milestones
    PROVE  Earned(n) /\ Earned(n)'
BY DEF Earned, Milestones

LEMMA HonestSteps ==
    /\ \A b, ws : Drop(b, ws).notices = {}
    /\ \A ns : Tell(ns).notices = ns
    /\ \A b, n : TellIfLive(b, n).notices = {n}
    /\ \A o : TellChoice(o).notices = {}
BY DEF Drop, Tell, TellIfLive, TellChoice, Step

LEMMA OtherNotices ==
    /\ \A o : OfferReceived(o).type \notin Milestones
    /\ \A o : OfferAccepted(o).type \notin Milestones
    /\ \A o : OfferRejected(o).type \notin Milestones
    /\ \A b, w : BookingCancelledByClient(b, w).type \notin Milestones
    /\ \A b, o : BookingCancelledByWasher(b, o).type \notin Milestones
    /\ \A b : BookingExpired(b).type \notin Milestones
BY DEF Milestones, Notice, OfferReceived, OfferAccepted, OfferRejected,
       BookingCancelledByClient, BookingCancelledByWasher, BookingExpired

LEMMA ClientWriteKeeps ==
    ASSUME IInv, NInv, NEW s \in Slots, ClientWrite(s)
    PROVE  NInv'
<1> USE ForeignKeys, NullIsNoId
<1> DEFINE b == req[s].booking
           w == req[s].washer
<1>1. \A n \in NotificationPayload : Earned(n) => Earned(n)'
  <2>1. [Next]_vars
        BY DEF ClientWrite, Next, ClientStep
  <2> QED BY <2>1, EarnedStays
<1>2. req[s] \in Request /\ RequestFits(req[s])
      BY DEF IInv, TypeOK, RequestsFit
<1>3. CASE CreateInsert(s) /\ Follow(AfterCreate(b))
  <2>1. b \in Bookings
        BY <1>2, <1>3 DEF CreateInsert, At, RequestFits
  <2>2. AfterCreate(b) \subseteq Follows
        BY <2>1, StepsTyped, SequencesTyped DEF AfterCreate, Follows
  <2>3. \A f \in AfterCreate(b) : Honest(f)'
        BY HonestSteps DEF AfterCreate, Honest
  <2> QED BY <1>1, <1>3, <2>2, <2>3, FollowKeeps
<1>4. CASE CancelWrite(s) /\ Follow(AfterCancel(b, w))
  <2>1. b \in Bookings /\ w \in Washers \cup {None}
        BY <1>2, <1>4 DEF CancelWrite, At, RequestFits, Request
  <2>2. AfterCancel(b, w) \subseteq Follows
    <3>1. CASE w = None
          BY <3>1 DEF AfterCancel
    <3>2. CASE w \in Washers
      <4>1. {BookingCancelledByClient(b, w)} \in SUBSET NotificationPayload
            BY <2>1, <3>2, NoticesTyped
      <4>2. Tell({BookingCancelledByClient(b, w)}) \in StepOf
            BY <4>1, StepsTyped
      <4>3. AfterCancel(b, w) = {<<Tell({BookingCancelledByClient(b, w)})>>}
            BY <3>2 DEF AfterCancel
      <4> QED BY <4>2, <4>3, SequencesTyped DEF Follows
    <3> QED BY <2>1, <3>1, <3>2
  <2>3. \A f \in AfterCancel(b, w) : Honest(f)'
        BY HonestSteps, OtherNotices, OthersAreEarned DEF AfterCancel, Honest
  <2> QED BY <1>1, <1>4, <2>2, <2>3, FollowKeeps
<1>5. CASE ConfirmWrite(s) /\ Follow(AfterConfirm(b, w))
  <2>1. b \in Bookings /\ w \in Washers /\ booking[b].completed
        BY <1>2, <1>5 DEF ConfirmWrite, At, RequestFits
  <2>2. AfterConfirm(b, w) \subseteq Follows
        BY <2>1, StepsTyped, SequencesTyped, NoticesTyped
        DEF AfterConfirm, Follows
  <2>3. BookingConfirmedByClient(b, w) \in NotificationPayload
        BY <2>1, NoticesTyped
  <2>4. Earned(BookingConfirmedByClient(b, w))
        BY <2>1 DEF Earned, BookingConfirmedByClient, Notice
  <2>5. \A f \in AfterConfirm(b, w) : Honest(f)'
        BY <1>1, <2>3, <2>4, HonestSteps DEF AfterConfirm, Honest
  <2> QED BY <1>1, <1>5, <2>2, <2>5, FollowKeeps
<1>6. CASE ChooseWrite(s) /\ Follow(AfterChoice(req[s].offer))
  <2> DEFINE o == req[s].offer
  <2>1. o \in Offers /\ BookingOf[o] \in Bookings
        BY <1>2, <1>6 DEF ChooseWrite, At, RequestFits, ForeignKeys
  <2>2. AfterChoice(o) \subseteq Follows
        BY <2>1, StepsTyped, SequencesTyped DEF AfterChoice, Follows
  <2>3. \A f \in AfterChoice(o) : Honest(f)'
        BY HonestSteps DEF AfterChoice, Honest
  <2> QED BY <1>1, <1>6, <2>2, <2>3, FollowKeeps
<1> QED BY <1>3, <1>4, <1>5, <1>6 DEF ClientWrite

LEMMA TransitionKeeps ==
    ASSUME IInv, NInv, NEW s \in Slots, NEW b \in Bookings,
           b = req[s].booking, Transition(s, b)
    PROVE  NInv'
<1> USE ForeignKeys, NullIsNoId
<1>1. \A n \in NotificationPayload : Earned(n) => Earned(n)'
  <2>1. [Next]_vars
        BY DEF Transition, Next, WasherStep
  <2> QED BY <2>1, EarnedStays
<1>2. booking \in [Bookings -> BookingRow] /\ booking[b] \in BookingRow
      BY DEF IInv, TypeOK
<1>3. {WasherArrived(b), WashStarted(b), WashCompletedByWasher(b)}
         \subseteq NotificationPayload
      BY NoticesTyped
<1>4. ASSUME NEW n \in NotificationPayload, Earned(n)',
             Follow(AfterTransition(b, n))
      PROVE  NInv'
  <2>1. AfterTransition(b, n) \subseteq Follows
        BY <1>4, StepsTyped, SequencesTyped DEF AfterTransition, Follows
  <2>2. \A f \in AfterTransition(b, n) : Honest(f)'
        BY <1>4, HonestSteps DEF AfterTransition, Honest
  <2> QED BY <1>1, <1>4, <2>1, <2>2, FollowKeeps
<1>5. CASE ArriveWrite(s) /\ Follow(AfterTransition(b, WasherArrived(b)))
  <2>1. booking'[b].arrived
        BY <1>2, <1>5 DEF ArriveWrite, BookingRow
  <2>2. Earned(WasherArrived(b))'
        BY <2>1 DEF Earned, WasherArrived, Notice
  <2> QED BY <1>3, <1>4, <1>5, <2>2
<1>6. CASE StartWrite(s) /\ Follow(AfterTransition(b, WashStarted(b)))
  <2>1. booking'[b].started
        BY <1>2, <1>6 DEF StartWrite, BookingRow
  <2>2. Earned(WashStarted(b))'
        BY <2>1 DEF Earned, WashStarted, Notice
  <2> QED BY <1>3, <1>4, <1>6, <2>2
<1>7. CASE /\ CompleteWrite(s)
           /\ Follow(AfterTransition(b, WashCompletedByWasher(b)))
  <2>1. booking'[b].completed
        BY <1>2, <1>7 DEF CompleteWrite, BookingRow
  <2>2. Earned(WashCompletedByWasher(b))'
        BY <2>1 DEF Earned, WashCompletedByWasher, Notice
  <2> QED BY <1>3, <1>4, <1>7, <2>2
<1> QED BY <1>5, <1>6, <1>7 DEF Transition

LEMMA WasherWriteKeeps ==
    ASSUME IInv, NInv, NEW s \in Slots, WasherWrite(s)
    PROVE  NInv'
<1> USE ForeignKeys, NullIsNoId
<1> DEFINE b == req[s].booking
<1>1. \A n \in NotificationPayload : Earned(n) => Earned(n)'
  <2>1. [Next]_vars
        BY DEF WasherWrite, Transition, Next, WasherStep
  <2> QED BY <2>1, EarnedStays
<1>2. req[s] \in Request /\ RequestFits(req[s])
      BY DEF IInv, TypeOK, RequestsFit
<1>3. booking \in [Bookings -> BookingRow]
      BY DEF IInv, TypeOK
<1>4. CASE OfferInsert(s) /\ Follow(AfterOffer(req[s].offer))
  <2> DEFINE o == req[s].offer
  <2>1. /\ o \in Offers /\ BookingOf[o] \in Bookings
        /\ WasherOf[o] \in Washers
        BY <1>2, <1>4 DEF OfferInsert, At, RequestFits, ForeignKeys
  <2>2. OfferReceived(o) \in NotificationPayload
        BY <2>1, NoticesTyped
  <2>3. AfterOffer(o) \subseteq Follows
        BY <2>1, <2>2, StepsTyped, SequencesTyped DEF AfterOffer, Follows
  <2>4. \A f \in AfterOffer(o) : Honest(f)'
        BY HonestSteps, OtherNotices, OthersAreEarned DEF AfterOffer, Honest
  <2> QED BY <1>1, <1>4, <2>3, <2>4, FollowKeeps
<1>6. CASE Transition(s, b)
  <2>1. b \in Bookings
        BY <1>2, <1>6 DEF Transition, ArriveWrite, StartWrite, CompleteWrite,
                          At, RequestFits
  <2> QED BY <1>6, <2>1, TransitionKeeps
<1>7. CASE WithdrawWrite(s) /\ Follow(AfterWithdraw(b, booking[b].price))
  <2> DEFINE o == booking[b].price
  <2>1. b \in Bookings
        BY <1>2, <1>7 DEF WithdrawWrite, At, RequestFits
  <2>2. o \in Offers \cup {None}
        BY <1>3, <2>1 DEF BookingRow
  <2>3. {BookingCancelledByWasher(b, o)} \in SUBSET NotificationPayload
        BY <2>1, <2>2, NoticesTyped
  <2>4. AfterWithdraw(b, o) \subseteq Follows
        BY <2>1, <2>3, StepsTyped, SequencesTyped DEF AfterWithdraw, Follows
  <2>5. \A f \in AfterWithdraw(b, o) : Honest(f)'
        BY HonestSteps, OtherNotices, OthersAreEarned DEF AfterWithdraw, Honest
  <2> QED BY <1>1, <1>7, <2>4, <2>5, FollowKeeps
<1> QED BY <1>4, <1>6, <1>7 DEF WasherWrite

LEMMA ExpireWriteKeeps ==
    ASSUME IInv, NInv, NEW s \in Slots, NEW b \in Bookings, ExpireWrite(s, b)
    PROVE  NInv'
<1> USE ForeignKeys, NullIsNoId
<1> DEFINE last == req[s].todo = {b}
           tell == Tell({BookingExpired(b)})
           drop == Drop(b, Washers)
<1>1. \A n \in NotificationPayload : Earned(n) => Earned(n)'
  <2>1. [Next]_vars
        BY DEF ExpireWrite, Next, ExpireStep
  <2> QED BY <2>1, EarnedStays
<1>2. {BookingExpired(b)} \in SUBSET NotificationPayload
      BY NoticesTyped
<1>3. tell \in StepOf /\ drop \in StepOf
      BY <1>2, StepsTyped
<1>4. AfterExpiry(b, last) \subseteq {<<tell, drop, drop>>, <<tell>>}
      BY DEF AfterExpiry
<1>5. AfterExpiry(b, last) \subseteq Follows
  <2> HIDE DEF tell, drop
  <2>1. {<<tell, drop, drop>>, <<tell>>} \subseteq Follows
        BY <1>3, SequencesTyped DEF Follows
  <2> QED BY <1>4, <2>1
<1>6. \A f \in AfterExpiry(b, last) : Honest(f)'
      BY <1>4, HonestSteps, OtherNotices, OthersAreEarned DEF Honest
<1> QED BY <1>1, <1>5, <1>6, FollowKeeps DEF ExpireWrite

-----------------------------------------------------------------------------
(***************************************************************************)
(* The steps of the follow-ups, and the lists.                             *)
(***************************************************************************)
LEMMA FollowUpKeeps ==
    ASSUME NInv, NEW f \in after, FollowUp(f)
    PROVE  NInv'
<1> USE ForeignKeys
<1>1. /\ f \in Seq(StepOf) /\ f # <<>> /\ Head(f) \in StepOf
      /\ \A n \in Head(f).notices : Earned(n)
      BY DEF NInv, NTypeOK, Follows
<1>2. Head(f).notices \subseteq NotificationPayload
      BY <1>1 DEF StepOf
<1>3. UNCHANGED vars
      BY DEF FollowUp, DropLists, TellNow, TellOfLive, Enqueue, LookForLosers,
             Refused, Dies
<1>4. \A n : Earned(n)' = Earned(n)
      BY <1>3 DEF Earned, vars
<1>5. Honest(<<>>) /\ <<>> \in Seq(StepOf)
      BY DEF Honest
<1>6. ASSUME GoOnWith(f, <<>>)
      PROVE  /\ after' \subseteq Follows
             /\ \A g \in after' : \A i \in DOMAIN g :
                  \A n \in g[i].notices : Earned(n)'
      BY <1>3, <1>5, <1>6, GoOnWithKeeps DEF vars
<1>7. CASE DropLists(f)
  <2>1. list' \in [Washers -> (SUBSET Bookings) \cup {None}]
        BY <1>7 DEF NInv, NTypeOK, DropLists
  <2> QED BY <1>4, <1>6, <1>7, <2>1 DEF NInv, NTypeOK, ProgressTrue, DropLists
<1>8. ASSUME NEW ns \in SUBSET Head(f).notices, Enqueue(f, ns)
      PROVE  NInv'
  <2>1. told' = told \cup ns /\ UNCHANGED <<lost, list, reading>>
        BY <1>8 DEF Enqueue
  <2>2. /\ after' \subseteq Follows
        /\ \A g \in after' : \A i \in DOMAIN g :
             \A n \in g[i].notices : Earned(n)'
        BY <1>6, <1>8 DEF Enqueue
  <2> QED BY <1>1, <1>2, <1>4, <1>8, <2>1, <2>2 DEF NInv, NTypeOK, ProgressTrue
<1>9. CASE TellNow(f) \/ TellOfLive(f)
      BY <1>8, <1>9 DEF TellNow, TellOfLive
<1>10. CASE LookForLosers(f)
  <2> DEFINE o == Head(f).on
             ns == {OfferAccepted(o)} \cup {OfferRejected(x) : x \in Losers(o)}
             more == <<Tell(ns)>>
  <2>1. o \in Offers
        BY <1>1, <1>10 DEF LookForLosers, StepOf
  <2>2. ns \subseteq NotificationPayload
        BY <2>1, NoticesTyped DEF Losers
  <2>3. more \in Seq(StepOf)
        BY <2>2, StepsTyped, SequencesTyped
  <2>4. \A n \in ns : Earned(n)
        BY OtherNotices, OthersAreEarned
  <2>5. Honest(more)
        BY <2>4, HonestSteps DEF Honest
  <2>6. /\ after' \subseteq Follows
        /\ \A g \in after' : \A i \in DOMAIN g :
             \A n \in g[i].notices : Earned(n)'
        BY <1>3, <1>10, <2>3, <2>5, GoOnWithKeeps DEF LookForLosers, vars
  <2> QED BY <1>4, <1>10, <2>6 DEF NInv, NTypeOK, ProgressTrue, LookForLosers
<1>11. CASE Refused(f)
  <2>1. <<Head(f)>> \in Follows
        BY <1>1, SequencesTyped DEF Follows
  <2> QED BY <1>4, <1>6, <1>11, <2>1 DEF NInv, NTypeOK, ProgressTrue, Refused
<1>12. CASE Dies(f)
       BY <1>4, <1>12 DEF NInv, NTypeOK, ProgressTrue, Dies
<1> QED BY <1>7, <1>9, <1>10, <1>11, <1>12 DEF FollowUp

LEMMA ListsKeep ==
    ASSUME NInv, UNCHANGED <<vars, after, lost, told>>,
           list' \in [Washers -> (SUBSET Bookings) \cup {None}],
           reading' \in
             [Slots -> [washer: Washers, found: SUBSET Bookings] \cup {None}]
    PROVE  NInv'
<1>1. \A n : Earned(n)' = Earned(n)
      BY DEF Earned, vars
<1> QED BY <1>1 DEF NInv, NTypeOK, ProgressTrue

LEMMA ReadersKeep ==
    ASSUME NInv,
           \/ \E s \in Slots : \/ \E w \in Washers : QueryList(s, w)
                               \/ StoreList(s)
           \/ \E w \in Washers : ListExpires(w)
    PROVE  NInv'
<1>1. ASSUME NEW s \in Slots, NEW w \in Washers, QueryList(s, w)
      PROVE  NInv'
      BY <1>1, ListsKeep DEF QueryList, NInv, NTypeOK
<1>2. ASSUME NEW s \in Slots, StoreList(s)
      PROVE  NInv'
  <2>1. /\ reading[s].washer \in Washers
        /\ reading[s].found \subseteq Bookings
        BY <1>2 DEF StoreList, NInv, NTypeOK
  <2> QED BY <1>2, <2>1, ListsKeep DEF StoreList, NInv, NTypeOK
<1>3. ASSUME NEW w \in Washers, ListExpires(w)
      PROVE  NInv'
      BY <1>3, ListsKeep DEF ListExpires, NInv, NTypeOK
<1> QED BY <1>1, <1>2, <1>3

-----------------------------------------------------------------------------
LEMMA QuietKeeps ==
    ASSUME IInv, NInv, [Next]_vars, UNCHANGED noticeVars
    PROVE  NInv'
<1>1. \A n \in NotificationPayload : Earned(n) => Earned(n)'
      BY EarnedStays
<1>2. ASSUME NEW f \in after, NEW i \in DOMAIN f, NEW n \in f[i].notices
      PROVE  Earned(n)'
  <2>1. f[i] \in StepOf
        BY <1>2 DEF NInv, NTypeOK, Follows
  <2> QED BY <1>1, <1>2, <2>1 DEF NInv, StepOf
<1> QED BY <1>1, <1>2 DEF NInv, NTypeOK, ProgressTrue, noticeVars

\* Follow-ups are well formed and what they tell, or will, is true (NInv).
THEOREM NoticesInvariance == NSpec => []NInv
<1>1. NInit => NInv
      BY DEF NInit, NInv, NTypeOK, ProgressTrue
<1>2. IInv /\ NInv /\ [NNext]_allVars => NInv'
  <2> SUFFICES ASSUME IInv, NInv, [NNext]_allVars PROVE NInv'
      OBVIOUS
  <2>1. ASSUME NEW s \in Slots, SilentStep(s)
        PROVE  NInv'
    <3>1. [Next]_vars
          BY <2>1, StepsAreSteps DEF NNext
    <3> QED BY <2>1, <3>1, QuietKeeps DEF SilentStep
  <2>2. CASE Elsewhere
    <3>1. [Next]_vars
          BY <2>2, StepsAreSteps DEF NNext
    <3> QED BY <2>2, <3>1, QuietKeeps DEF Elsewhere
  <2>3. CASE UNCHANGED allVars
        BY <2>3, QuietKeeps DEF allVars
  <2> QED BY <2>1, <2>2, <2>3, ClientWriteKeeps, WasherWriteKeeps,
             ExpireWriteKeeps, FollowUpKeeps, ReadersKeep DEF NNext
<1> QED BY <1>1, <1>2, NoticesImplementMarketplace, Invariance, PTL DEF NSpec

\* Nobody is told of progress that was not made (ProgressTrue), however many
\* requests overlap and however late what follows their commits is done.
THEOREM OnlyProgressIsTold == NSpec => []ProgressTrue
<1>1. NInv => ProgressTrue
      BY DEF NInv
<1> QED BY <1>1, NoticesInvariance, PTL
-----------------------------------------------------------------------------
(***************************************************************************)
(* The steps that are to come or have failed.                              *)
(***************************************************************************)
StepsOf(fs) == UNION {{f[i] : i \in DOMAIN f} : f \in fs}

\* The steps each write adds.
LEMMA StepsOfWrites ==
    /\ \A b : StepsOf(AfterCreate(b)) = {Drop(b, Washers)}
    /\ \A b, w : StepsOf(AfterCancel(b, w)) =
                   IF w = None THEN {} ELSE {Tell({BookingCancelledByClient(b, w)})}
    /\ \A b, w : StepsOf(AfterConfirm(b, w)) =
                   {Tell({BookingConfirmedByClient(b, w)})}
    /\ \A o : StepsOf(AfterOffer(o)) =
                   {Drop(BookingOf[o], {WasherOf[o]}),
                    TellIfLive(BookingOf[o], OfferReceived(o))}
    /\ \A o : StepsOf(AfterChoice(o)) = {Drop(BookingOf[o], Washers), TellChoice(o)}
    /\ \A b, n : StepsOf(AfterTransition(b, n)) = {TellIfLive(b, n)}
    /\ \A b, o : StepsOf(AfterWithdraw(b, o)) =
                   {Drop(b, Washers), Tell({BookingCancelledByWasher(b, o)})}
    /\ \A b, last : /\ Tell({BookingExpired(b)}) \in StepsOf(AfterExpiry(b, last))
                    /\ StepsOf(AfterExpiry(b, last)) \subseteq
                         {Tell({BookingExpired(b)}), Drop(b, Washers)}
<1>1. \A x : StepsOf({<<x>>}) = {x}
      BY DEF StepsOf
<1>2. \A x, y : StepsOf({<<x, y>>}) = {x, y}
      BY DEF StepsOf
<1>3. \A x, y, z : StepsOf({<<x, y, z>>}) = {x, y, z}
      BY DEF StepsOf
<1>4. StepsOf({}) = {}
      BY DEF StepsOf
<1>5. ASSUME NEW b, NEW w
      PROVE  /\ StepsOf(AfterCreate(b)) = {Drop(b, Washers)}
             /\ StepsOf(AfterCancel(b, w)) =
                   IF w = None THEN {} ELSE {Tell({BookingCancelledByClient(b, w)})}
             /\ StepsOf(AfterConfirm(b, w)) =
                   {Tell({BookingConfirmedByClient(b, w)})}
      BY <1>1, <1>4 DEF AfterCreate, AfterCancel, AfterConfirm
<1>6. ASSUME NEW o
      PROVE  /\ StepsOf(AfterOffer(o)) =
                   {Drop(BookingOf[o], {WasherOf[o]}),
                    TellIfLive(BookingOf[o], OfferReceived(o))}
             /\ StepsOf(AfterChoice(o)) =
                   {Drop(BookingOf[o], Washers), TellChoice(o)}
      BY <1>2 DEF AfterOffer, AfterChoice
<1>7. ASSUME NEW b, NEW n
      PROVE  StepsOf(AfterTransition(b, n)) = {TellIfLive(b, n)}
      BY <1>1 DEF AfterTransition
<1>8. ASSUME NEW b, NEW o
      PROVE  StepsOf(AfterWithdraw(b, o)) =
               {Drop(b, Washers), Tell({BookingCancelledByWasher(b, o)})}
  <2> DEFINE drop == Drop(b, Washers)
             tell == Tell({BookingCancelledByWasher(b, o)})
  <2>1. AfterWithdraw(b, o) = {<<drop, tell, drop>>}
        BY DEF AfterWithdraw
  <2> HIDE DEF drop, tell
  <2>2. StepsOf({<<drop, tell, drop>>}) = {drop, tell, drop}
        BY <1>3
  <2>3. StepsOf(AfterWithdraw(b, o)) = {drop, tell}
        BY <2>1, <2>2
  <2> QED BY <2>3 DEF drop, tell
<1>9. ASSUME NEW b, NEW last
      PROVE  /\ Tell({BookingExpired(b)}) \in StepsOf(AfterExpiry(b, last))
             /\ StepsOf(AfterExpiry(b, last)) \subseteq
                   {Tell({BookingExpired(b)}), Drop(b, Washers)}
  <2> DEFINE drop == Drop(b, Washers)
             tell == Tell({BookingExpired(b)})
  <2>1. AfterExpiry(b, last) = {IF last THEN <<tell, drop, drop>> ELSE <<tell>>}
        BY DEF AfterExpiry
  <2> HIDE DEF drop, tell
  <2>2. CASE last
    <3>1. AfterExpiry(b, last) = {<<tell, drop, drop>>}
          BY <2>1, <2>2
    <3>2. StepsOf({<<tell, drop, drop>>}) = {tell, drop, drop}
          BY <1>3
    <3>3. StepsOf(AfterExpiry(b, last)) = {tell, drop}
          BY <3>1, <3>2
    <3> QED BY <3>3 DEF drop, tell
  <2>3. CASE ~ last
    <3>1. AfterExpiry(b, last) = {<<tell>>}
          BY <2>1, <2>3
    <3>2. StepsOf({<<tell>>}) = {tell}
          BY <1>1
    <3>3. StepsOf(AfterExpiry(b, last)) = {tell}
          BY <3>1, <3>2
    <3> QED BY <3>3 DEF drop, tell
  <2> QED BY <2>2, <2>3
<1> QED BY <1>5, <1>6, <1>7, <1>8, <1>9

LEMMA StepsAre == Steps = StepsOf(after \cup lost)
BY DEF Steps, StepsOf

LEMMA StepsAreTyped == NTypeOK => Steps \subseteq StepOf
<1> SUFFICES ASSUME NTypeOK, NEW f \in after \cup lost, NEW i \in DOMAIN f
             PROVE  f[i] \in StepOf
    BY DEF Steps
<1>1. f \in Seq(StepOf)
      BY DEF NTypeOK, Follows
<1> QED BY <1>1

\* A write adds its own.
LEMMA FollowAdds ==
    ASSUME NEW fs, Follow(fs)
    PROVE  /\ Steps' = Steps \cup StepsOf(fs)
           /\ UNCHANGED <<told, list, reading>>
<1>1. after' \cup lost' = (after \cup lost) \cup fs
      BY DEF Follow
<1>2. Steps' = StepsOf(after' \cup lost')
      BY DEF Steps, StepsOf
<1>3. StepsOf((after \cup lost) \cup fs) = StepsOf(after \cup lost) \cup StepsOf(fs)
      BY DEF StepsOf
<1> QED BY <1>1, <1>2, <1>3, StepsAre DEF Follow

\* A follow-up that goes on keeps all but its first step.
LEMMA GoOnAdds ==
    ASSUME NTypeOK, NEW f \in after, NEW more \in Seq(StepOf), GoOnWith(f, more),
           lost \subseteq lost', lost' \subseteq lost \cup {<<Head(f)>>}
    PROVE  /\ \A x \in Steps : x \in Steps' \/ x = Head(f)
           /\ \A i \in DOMAIN more : more[i] \in Steps'
           /\ \A x \in Steps' : x \in Steps \/ \E i \in DOMAIN more : x = more[i]
<1> DEFINE rest == more \o Tail(f)
<1>1. f \in Seq(StepOf) /\ f # <<>> /\ Tail(f) \in Seq(StepOf)
      BY DEF NTypeOK, Follows
<1>2. /\ rest \in Seq(StepOf)
      /\ DOMAIN rest = 1..(Len(more) + Len(f) - 1)
      /\ \A i \in 1..Len(more) : rest[i] = more[i]
      /\ \A i \in 2..Len(f) : rest[Len(more) + i - 1] = f[i]
      /\ \A j \in DOMAIN rest : j > Len(more) =>
            /\ j - Len(more) + 1 \in DOMAIN f
            /\ rest[j] = f[j - Len(more) + 1]
      BY <1>1
<1>3. after' = (after \ {f}) \cup ({rest} \ {<<>>})
      BY DEF GoOnWith
<1>4. DOMAIN more = 1..Len(more) /\ DOMAIN f = 1..Len(f) /\ f[1] = Head(f)
      BY <1>1
<1> HIDE DEF rest
<1>5. \A j \in DOMAIN rest : rest[j] \in Steps'
  <2> SUFFICES ASSUME NEW j \in DOMAIN rest PROVE rest[j] \in Steps'
      OBVIOUS
  <2>1. rest # <<>>
        BY <1>2
  <2>2. rest \in after'
        BY <1>3, <2>1
  <2> QED BY <2>2 DEF Steps
<1>6. ASSUME NEW x \in Steps PROVE x \in Steps' \/ x = Head(f)
  <2>1. PICK g \in after \cup lost : \E i \in DOMAIN g : x = g[i]
        BY DEF Steps
  <2>2. CASE g \in after' \cup lost'
        BY <2>1, <2>2 DEF Steps
  <2>3. CASE g = f
    <3>1. PICK i \in 1..Len(f) : x = f[i]
          BY <1>4, <2>1, <2>3
    <3>2. CASE i = 1
          BY <1>4, <3>1, <3>2
    <3>3. CASE i # 1
      <4>1. i \in 2..Len(f) /\ Len(more) + i - 1 \in DOMAIN rest
            BY <1>1, <1>2, <3>1, <3>3
      <4> QED BY <1>2, <1>5, <3>1, <4>1
    <3> QED BY <3>2, <3>3
  <2> QED BY <1>3, <2>2, <2>3
<1>7. \A i \in DOMAIN more : more[i] \in Steps'
  <2> SUFFICES ASSUME NEW i \in DOMAIN more PROVE more[i] \in Steps'
      OBVIOUS
  <2>1. i \in DOMAIN rest /\ rest[i] = more[i]
        BY <1>1, <1>2, <1>4
  <2> QED BY <1>5, <2>1
<1>8. ASSUME NEW x \in Steps'
      PROVE  x \in Steps \/ \E i \in DOMAIN more : x = more[i]
  <2>1. \A i \in DOMAIN f : f[i] \in Steps
        BY DEF Steps
  <2>2. PICK g \in after' \cup lost' : \E i \in DOMAIN g : x = g[i]
        BY DEF Steps
  <2>3. CASE g \in after \cup lost
        BY <2>2, <2>3 DEF Steps
  <2>4. CASE g = rest
    <3>1. PICK j \in DOMAIN rest : x = rest[j]
          BY <2>2, <2>4
    <3>2. CASE j \in 1..Len(more)
          BY <1>2, <1>4, <3>1, <3>2
    <3>3. CASE j > Len(more)
          BY <1>2, <2>1, <3>1, <3>3
    <3> QED BY <1>2, <3>1, <3>2, <3>3
  <2>5. CASE g = <<Head(f)>>
    <3>1. x = Head(f) /\ 1 \in DOMAIN f
          BY <1>1, <1>4, <2>2, <2>5
    <3> QED BY <1>4, <2>1, <3>1
  <2> QED BY <1>3, <2>2, <2>3, <2>4, <2>5
<1> QED BY <1>6, <1>7, <1>8

\* What a step that is neither to come nor failed has done.
Did(x) ==
    /\ x.do = "drop" => \A w \in x.who : list'[w] = None
    /\ x.do = "tell" => x.notices \subseteq told'
    /\ x.do = "tellIfLive" /\ Live(x.on) => x.notices \subseteq told'
    /\ x.do = "tellChoice" =>
          \E y \in Steps' : /\ OfferAccepted(x.on) \in y.notices
                            /\ \A o \in Losers(x.on) : OfferRejected(o) \in y.notices

\* The step that tellChoice leaves.
TellsChoice(y, o) ==
    y = Tell({OfferAccepted(o)} \cup {OfferRejected(x) : x \in Losers(o)})

LEMMA FollowUpDoes ==
    ASSUME NTypeOK, NEW f \in after, FollowUp(f)
    PROVE  /\ UNCHANGED <<vars, reading>>
           /\ told \subseteq told'
           /\ \A n \in told' : n \in told \/ \E x \in Steps : n \in x.notices
           /\ \A w \in Washers : list'[w] \in {list[w], None}
           /\ \A x \in Steps : x \in Steps' \/ Did(x)
           /\ \A y \in Steps' :
                 \/ y \in Steps
                 \/ \E x \in Steps : x.do = "tellChoice" /\ TellsChoice(y, x.on)
<1> USE ForeignKeys
<1>1. f \in Seq(StepOf) /\ f # <<>> /\ Head(f) \in StepOf /\ <<>> \in Seq(StepOf)
      BY DEF NTypeOK, Follows
<1>2. Head(f) \in Steps
  <2>1. 1 \in DOMAIN f /\ f[1] = Head(f)
        BY <1>1
  <2> QED BY <2>1 DEF Steps
<1>3. ASSUME GoOnWith(f, <<>>),
             lost \subseteq lost', lost' \subseteq lost \cup {<<Head(f)>>}
      PROVE  /\ \A x \in Steps : x \in Steps' \/ x = Head(f)
             /\ Steps' \subseteq Steps
  <2>1. DOMAIN <<>> = {}
        OBVIOUS
  <2> QED BY <1>1, <1>3, <2>1, GoOnAdds
<1>4. CASE DropLists(f)
  <2>1. Did(Head(f))
        BY <1>1, <1>4 DEF DropLists, Did, StepOf
  <2> QED BY <1>3, <1>4, <2>1 DEF DropLists
<1>5. CASE TellNow(f)
  <2>1. Did(Head(f))
        BY <1>5 DEF TellNow, Enqueue, Did
  <2> QED BY <1>2, <1>3, <1>5, <2>1 DEF TellNow, Enqueue
<1>6. CASE TellOfLive(f)
  <2>1. Did(Head(f))
        BY <1>6 DEF TellOfLive, Enqueue, Did
  <2> QED BY <1>2, <1>3, <1>6, <2>1 DEF TellOfLive, Enqueue
<1>7. CASE LookForLosers(f)
  <2> DEFINE o == Head(f).on
             ns == {OfferAccepted(o)} \cup {OfferRejected(x) : x \in Losers(o)}
             more == <<Tell(ns)>>
  <2>1. o \in Offers
        BY <1>1, <1>7 DEF LookForLosers, StepOf
  <2>2. ns \subseteq NotificationPayload
        BY <2>1, NoticesTyped DEF Losers
  <2>3. more \in Seq(StepOf)
        BY <2>2, StepsTyped, SequencesTyped
  <2>4. DOMAIN more = {1} /\ more[1] = Tell(ns)
        OBVIOUS
  <2>5. /\ \A x \in Steps : x \in Steps' \/ x = Head(f)
        /\ Tell(ns) \in Steps'
        /\ \A x \in Steps' : x \in Steps \/ x = Tell(ns)
    <3> HIDE DEF more, ns, o
    <3>1. GoOnWith(f, more) /\ lost' = lost
          BY <1>7 DEF LookForLosers, more, ns, o
    <3> QED BY <2>3, <2>4, <3>1, GoOnAdds
  <2>6. Did(Head(f))
        BY <1>7, <2>5, HonestSteps DEF LookForLosers, Did
  <2>7. \A y \in Steps' : y \in Steps \/ TellsChoice(y, o)
        BY <2>5 DEF TellsChoice
  <2> QED BY <1>2, <1>7, <2>5, <2>6, <2>7 DEF LookForLosers
<1>8. CASE Refused(f)
  <2>1. <<Head(f)>> \in lost'
        BY <1>8 DEF Refused
  <2>2. 1 \in DOMAIN <<Head(f)>> /\ <<Head(f)>>[1] = Head(f)
        OBVIOUS
  <2>3. Head(f) \in Steps'
        BY <2>1, <2>2 DEF Steps
  <2> QED BY <1>3, <1>8, <2>3 DEF Refused
<1>9. CASE Dies(f)
  <2>1. after' \cup lost' = after \cup lost
        BY <1>9 DEF Dies
  <2>2. Steps' = Steps
        BY <2>1 DEF Steps
  <2> QED BY <1>9, <2>2 DEF Dies
<1> QED BY <1>4, <1>5, <1>6, <1>7, <1>8, <1>9 DEF FollowUp

-----------------------------------------------------------------------------
(***************************************************************************)
(* Whatever became of a booking or an offer is announced.                  *)
(***************************************************************************)
\* The notice is sent only if b is still found.
Concerns(n, b) ==
    \/ n.type = "OFFER_RECEIVED" /\ BookingOf[n.about] = b
    \/ /\ n.type \in {"WASHER_ARRIVED", "WASH_STARTED",
                      "WASH_COMPLETED_BY_WASHER"}
       /\ n.about = b

\* What is told of a booking that is still found is about that booking.
OwnBookings ==
    \A x \in Steps : x.do = "tellIfLive" =>
        \A n \in x.notices : Concerns(n, x.on)

\* An announcement is not taken back as long as its booking is there.
LEMMA AnnouncedStays ==
    ASSUME NTypeOK, OwnBookings, NEW f \in after, FollowUp(f), NEW n,
           Announced(n), \A b \in Bookings : Concerns(n, b) => Live(b)
    PROVE  Announced(n)'
<1>1. CASE n \in told
      BY <1>1, FollowUpDoes DEF Announced
<1>2. ASSUME NEW x \in Steps, n \in x.notices
      PROVE  Announced(n)'
  <2>1. x \in StepOf
        BY StepsAreTyped
  <2>2. CASE x \in Steps'
        BY <1>2, <2>2 DEF Announced
  <2>3. CASE Did(x)
    <3>1. x.do \in {"tell", "tellIfLive"}
          BY <1>2, <2>1 DEF StepOf
    <3>2. x.do = "tellIfLive" => Live(x.on)
          BY <1>2, <2>1 DEF OwnBookings, StepOf
    <3> QED BY <1>2, <2>3, <3>1, <3>2 DEF Did, Announced
  <2> QED BY <2>2, <2>3, FollowUpDoes
<1> QED BY <1>1, <1>2 DEF Announced

\* Nor by a write.
LEMMA AnnouncedGrows ==
    ASSUME Steps \subseteq Steps', told \subseteq told', NEW n, Announced(n)
    PROVE  Announced(n)'
BY DEF Announced

LEMMA StepShapes ==
    /\ \A b, ws : Drop(b, ws).do = "drop" /\ Drop(b, ws).who = ws
    /\ \A ns : Tell(ns).do = "tell"
    /\ \A b, n : TellIfLive(b, n).do = "tellIfLive" /\ TellIfLive(b, n).on = b
    /\ \A o : TellChoice(o).do = "tellChoice" /\ TellChoice(o).on = o
BY DEF Drop, Tell, TellIfLive, TellChoice, Step

\* The steps that only tell if the booking is found are about it.
OwnSteps(fs) == \A x \in StepsOf(fs) : x.do = "tellIfLive" =>
                    \A n \in x.notices : Concerns(n, x.on)

LEMMA WritesOwn ==
    /\ \A b : OwnSteps(AfterCreate(b))
    /\ \A b, w : OwnSteps(AfterCancel(b, w)) /\ OwnSteps(AfterConfirm(b, w))
    /\ \A o : OwnSteps(AfterOffer(o)) /\ OwnSteps(AfterChoice(o))
    /\ \A b : /\ OwnSteps(AfterTransition(b, WasherArrived(b)))
              /\ OwnSteps(AfterTransition(b, WashStarted(b)))
              /\ OwnSteps(AfterTransition(b, WashCompletedByWasher(b)))
    /\ \A b, o : OwnSteps(AfterWithdraw(b, o))
    /\ \A b, last : OwnSteps(AfterExpiry(b, last))
<1> DEFINE Own(x) == x.do = "tellIfLive" => \A n \in x.notices : Concerns(n, x.on)
<1>1. \A b, ws : Own(Drop(b, ws))
      BY StepShapes
<1>2. \A ns : Own(Tell(ns))
      BY StepShapes
<1>3. \A o : Own(TellChoice(o))
      BY StepShapes
<1>4. \A b, n : Concerns(n, b) => Own(TellIfLive(b, n))
      BY StepShapes, HonestSteps
<1>5. ASSUME NEW fs PROVE OwnSteps(fs) <=> \A x \in StepsOf(fs) : Own(x)
      BY DEF OwnSteps
<1> HIDE DEF Own
<1>6. ASSUME NEW b, NEW w
      PROVE  /\ OwnSteps(AfterCreate(b)) /\ OwnSteps(AfterCancel(b, w))
             /\ OwnSteps(AfterConfirm(b, w))
  <2>1. StepsOf(AfterCreate(b)) = {Drop(b, Washers)}
        BY StepsOfWrites
  <2>2. StepsOf(AfterCancel(b, w)) \subseteq {Tell({BookingCancelledByClient(b, w)})}
        BY StepsOfWrites
  <2>3. StepsOf(AfterConfirm(b, w)) = {Tell({BookingConfirmedByClient(b, w)})}
        BY StepsOfWrites
  <2> QED BY <1>1, <1>2, <1>5, <2>1, <2>2, <2>3
<1>7. ASSUME NEW o PROVE OwnSteps(AfterOffer(o)) /\ OwnSteps(AfterChoice(o))
  <2>1. Concerns(OfferReceived(o), BookingOf[o])
        BY DEF Concerns, OfferReceived, Notice
  <2>2. StepsOf(AfterOffer(o)) = {Drop(BookingOf[o], {WasherOf[o]}),
                                  TellIfLive(BookingOf[o], OfferReceived(o))}
        BY StepsOfWrites
  <2>3. StepsOf(AfterChoice(o)) = {Drop(BookingOf[o], Washers), TellChoice(o)}
        BY StepsOfWrites
  <2> QED BY <1>1, <1>3, <1>4, <1>5, <2>1, <2>2, <2>3
<1>8. ASSUME NEW b
      PROVE  /\ OwnSteps(AfterTransition(b, WasherArrived(b)))
             /\ OwnSteps(AfterTransition(b, WashStarted(b)))
             /\ OwnSteps(AfterTransition(b, WashCompletedByWasher(b)))
  <2>1. /\ Concerns(WasherArrived(b), b)
        /\ Concerns(WashStarted(b), b)
        /\ Concerns(WashCompletedByWasher(b), b)
        BY DEF Concerns, WasherArrived, WashStarted, WashCompletedByWasher, Notice
  <2>2. \A n : StepsOf(AfterTransition(b, n)) = {TellIfLive(b, n)}
        BY StepsOfWrites
  <2> QED BY <1>4, <1>5, <2>1, <2>2
<1>9. ASSUME NEW b, NEW o PROVE OwnSteps(AfterWithdraw(b, o))
  <2>1. StepsOf(AfterWithdraw(b, o)) =
          {Drop(b, Washers), Tell({BookingCancelledByWasher(b, o)})}
        BY StepsOfWrites
  <2> QED BY <1>1, <1>2, <1>5, <2>1
<1>10. ASSUME NEW b, NEW last PROVE OwnSteps(AfterExpiry(b, last))
  <2>1. StepsOf(AfterExpiry(b, last)) \subseteq
          {Tell({BookingExpired(b)}), Drop(b, Washers)}
        BY StepsOfWrites
  <2> QED BY <1>1, <1>2, <1>5, <2>1
<1> QED BY <1>6, <1>7, <1>8, <1>9, <1>10

\* What a step of NNext is to the follow-ups.
LEMMA NoticeKinds ==
    ASSUME [NNext]_allVars
    PROVE  \/ \E s \in Slots :
                 ClientWrite(s) \/ WasherWrite(s)
                 \/ \E b \in Bookings : ExpireWrite(s, b)
           \/ /\ UNCHANGED <<after, lost, told>>
              /\ \/ UNCHANGED <<booking, offer>>
                 \/ \E v \in Vehicles : RemoveVehicle(v)
                 \/ \E b \in Bookings : Lapse(b)
           \/ \E f \in after : FollowUp(f)
<1>1. ASSUME NEW s \in Slots, SilentStep(s)
      PROVE  UNCHANGED <<after, lost, told, booking, offer>>
      BY <1>1 DEF SilentStep, noticeVars, tables, Begin, GoOn, CreateCheck,
         CancelRead, ConfirmRead, ArriveRead, StartRead, CompleteRead,
         WithdrawRead, WasherRead, ChooseBooking, OfferProfile, OnlineRead,
         AvailabilityRead, ChooseOffer, OfferBooking, OnlineWrite,
         AvailabilityWrite, SetAvailability, AdminStep, ApproveRead, RejectRead,
         RetryRead, ApproveWrite, RejectWrite, RetryWrite, DismissWrite,
         ExpireList, Abort
<1>2. CASE Elsewhere
      BY <1>2 DEF Elsewhere, noticeVars, UpdateLocation
<1>3. ASSUME NEW s \in Slots, NEW w \in Washers, QueryList(s, w)
      PROVE  UNCHANGED <<after, lost, told, booking, offer>>
      BY <1>3 DEF QueryList, vars
<1>4. ASSUME NEW s \in Slots, StoreList(s)
      PROVE  UNCHANGED <<after, lost, told, booking, offer>>
      BY <1>4 DEF StoreList, vars
<1>5. ASSUME NEW w \in Washers, ListExpires(w)
      PROVE  UNCHANGED <<after, lost, told, booking, offer>>
      BY <1>5 DEF ListExpires, vars
<1>6. CASE UNCHANGED allVars
      BY <1>6 DEF allVars, noticeVars, vars
<1> QED BY <1>1, <1>2, <1>3, <1>4, <1>5, <1>6 DEF NNext

\* A write, by what it adds.
Adds(fs) == /\ Steps' = Steps \cup StepsOf(fs)
            /\ OwnSteps(fs)
            /\ UNCHANGED <<told, list, reading>>

LEMMA WriteKinds ==
    ASSUME NEW s \in Slots,
           ClientWrite(s) \/ WasherWrite(s)
           \/ \E b \in Bookings : ExpireWrite(s, b)
    PROVE  LET b == req[s].booking
               w == req[s].washer
               o == req[s].offer
           IN  \/ CreateInsert(s) /\ Adds(AfterCreate(b))
               \/ CancelWrite(s) /\ Adds(AfterCancel(b, w))
               \/ ConfirmWrite(s) /\ Adds(AfterConfirm(b, w))
               \/ ChooseWrite(s) /\ Adds(AfterChoice(o))
               \/ OfferInsert(s) /\ Adds(AfterOffer(o))
               \/ ArriveWrite(s) /\ Adds(AfterTransition(b, WasherArrived(b)))
               \/ StartWrite(s) /\ Adds(AfterTransition(b, WashStarted(b)))
               \/ /\ CompleteWrite(s)
                  /\ Adds(AfterTransition(b, WashCompletedByWasher(b)))
               \/ WithdrawWrite(s) /\ Adds(AfterWithdraw(b, booking[b].price))
               \/ \E x \in Bookings : \E last \in BOOLEAN :
                     ExpireNext(s, x) /\ Adds(AfterExpiry(x, last))
<1>1. \A fs : Follow(fs) /\ OwnSteps(fs) => Adds(fs)
      BY FollowAdds DEF Adds
<1>2. CASE ClientWrite(s)
      BY <1>1, <1>2, WritesOwn DEF ClientWrite
<1>3. CASE WasherWrite(s)
      BY <1>1, <1>3, WritesOwn DEF WasherWrite, Transition
<1>4. ASSUME NEW x \in Bookings, ExpireWrite(s, x)
      PROVE  \E last \in BOOLEAN : ExpireNext(s, x) /\ Adds(AfterExpiry(x, last))
  <2> DEFINE last == req[s].todo = {x}
  <2>1. last \in BOOLEAN /\ ExpireNext(s, x) /\ Follow(AfterExpiry(x, last))
        BY <1>4 DEF ExpireWrite
  <2>2. Adds(AfterExpiry(x, last))
        BY <1>1, <2>1, WritesOwn
  <2> QED BY <2>1, <2>2
<1> QED BY <1>2, <1>3, <1>4

LEMMA OwnBookingsKept ==
    ASSUME NTypeOK, OwnBookings, [NNext]_allVars
    PROVE  OwnBookings'
<1>1. ASSUME NEW s \in Slots,
             ClientWrite(s) \/ WasherWrite(s)
             \/ \E b \in Bookings : ExpireWrite(s, b)
      PROVE  OwnBookings'
  <2>1. \E fs : Adds(fs)
        BY <1>1, WriteKinds
  <2> QED BY <2>1 DEF Adds, OwnSteps, OwnBookings
<1>2. CASE UNCHANGED <<after, lost, told>>
      BY <1>2 DEF OwnBookings, Steps
<1>3. ASSUME NEW f \in after, FollowUp(f)
      PROVE  OwnBookings'
  <2>1. \A y \in Steps' : y \in Steps \/ \E o : TellsChoice(y, o)
        BY <1>3, FollowUpDoes
  <2>2. \A y, o : TellsChoice(y, o) => y.do = "tell"
        BY StepShapes DEF TellsChoice
  <2> QED BY <2>1, <2>2 DEF OwnBookings
<1> QED BY <1>1, <1>2, <1>3, NoticeKinds

-----------------------------------------------------------------------------
(***************************************************************************)
(* Offers, however many requests overlap.                                  *)
(***************************************************************************)
\* An offer in its table has its booking in its own.
OffersLive == \A o \in Offers : LiveOffer(o) => Live(BookingOf[o])

\* The look-up after the choice of o is to come, or failed.
WillTell(o) == \E x \in Steps : x.do = "tellChoice" /\ x.on = o

OfferTold(o) ==
    /\ LiveOffer(o) => Announced(OfferReceived(o))
    /\ offer[o] = "ACCEPTED" => Announced(OfferAccepted(o)) \/ WillTell(o)
    /\ offer[o] = "REJECTED" =>
         Announced(OfferRejected(o)) \/ ChoiceToTell(BookingOf[o])

OffersInv == OwnBookings /\ OffersLive /\ \A o \in Offers : OfferTold(o)

\* A step keeps an offer's announcements if its status does not get worse.
LEMMA OfferStays ==
    ASSUME Steps \subseteq Steps', told \subseteq told', NEW o \in Offers,
           OfferTold(o),
           LiveOffer(o)' => LiveOffer(o),
           offer'[o] = "ACCEPTED" => offer[o] = "ACCEPTED",
           offer'[o] = "REJECTED" => offer[o] = "REJECTED"
    PROVE  OfferTold(o)'
<1>1. \A n : Announced(n) => Announced(n)'
      BY AnnouncedGrows
<1>2. WillTell(o) => WillTell(o)'
      BY DEF WillTell
<1>3. ChoiceToTell(BookingOf[o]) => ChoiceToTell(BookingOf[o])'
      BY DEF ChoiceToTell
<1>4. /\ OfferReceived(o)' = OfferReceived(o)
      /\ OfferAccepted(o)' = OfferAccepted(o)
      /\ OfferRejected(o)' = OfferRejected(o)
      BY DEF OfferReceived, OfferAccepted, OfferRejected, ClientOf, Notice
<1> QED BY <1>1, <1>2, <1>3, <1>4 DEF OfferTold

\* makeOffer tells the client of its offer.
LEMMA InsertTold ==
    ASSUME IInv, OffersInv, NEW s \in Slots, OfferInsert(s),
           Adds(AfterOffer(req[s].offer))
    PROVE  OffersLive' /\ \A o \in Offers : OfferTold(o)'
<1>0. PICK x : x = req[s].offer
      OBVIOUS
<1>1. x \in Offers /\ offer' = [offer EXCEPT ![x] = "PENDING"] /\ Live(BookingOf[x])
      BY <1>0 DEF OfferInsert, At, IInv, RequestsFit, RequestFits
<1>2. offer'[x] = "PENDING" /\ \A o \in Offers : o # x => offer'[o] = offer[o]
      BY <1>1, Rows
<1>3. TellIfLive(BookingOf[x], OfferReceived(x)) \in Steps'
      BY <1>0, StepsOfWrites DEF Adds
<1>4. Announced(OfferReceived(x))'
      BY <1>3, HonestSteps DEF Announced
<1>5. OfferTold(x)'
      BY <1>2, <1>4 DEF OfferTold
<1>6. ASSUME NEW o \in Offers, o # x PROVE OfferTold(o)'
      BY <1>2, <1>6, OfferStays DEF OffersInv, Adds, LiveOffer
<1>7. OffersLive'
      BY <1>1, <1>2 DEF OfferInsert, OffersInv, OffersLive, LiveOffer, Live
<1> QED BY <1>5, <1>6, <1>7

\* chooseOffer leaves the look-up of the one it accepts and of those it rejects.
LEMMA ChoiceTold ==
    ASSUME IInv, OffersInv, NEW s \in Slots, ChooseWrite(s),
           Adds(AfterChoice(req[s].offer))
    PROVE  OffersLive' /\ \A o \in Offers : OfferTold(o)'
<1>0. PICK c : c = req[s].offer
      OBVIOUS
<1>1. /\ c \in Offers
      /\ \A o \in Offers : offer'[o] = StatusOnceChosen(o, c)
      /\ LiveOffer(c)
      BY <1>0 DEF ChooseWrite, At, IInv, RequestsFit, RequestFits
<1>2. TellChoice(c) \in Steps' /\ Steps \subseteq Steps' /\ told' = told
      BY <1>0, StepsOfWrites DEF Adds
<1>3. WillTell(c)' /\ ChoiceToTell(BookingOf[c])'
      BY <1>2, StepShapes DEF WillTell, ChoiceToTell
<1>4. \A o \in Offers : LiveOffer(o)' => LiveOffer(o)
      BY <1>1, Rows DEF LiveOffer, StatusOnceChosen
<1>5. ASSUME NEW o \in Offers PROVE OfferTold(o)'
  <2>1. CASE o = c
    <3>1. offer'[c] = "ACCEPTED"
          BY <1>1 DEF StatusOnceChosen
    <3>2. Announced(OfferReceived(c))'
          BY <1>1, <1>2, AnnouncedGrows DEF OffersInv, OfferTold
    <3> QED BY <1>3, <2>1, <3>1, <3>2 DEF OfferTold
  <2>2. CASE o # c /\ BookingOf[o] = BookingOf[c] /\ offer[o] = "PENDING"
    <3>1. offer'[o] = "REJECTED"
          BY <1>1, <2>2 DEF StatusOnceChosen
    <3>2. Announced(OfferReceived(o))'
          BY <1>2, <2>2, AnnouncedGrows
          DEF OffersInv, OfferTold, LiveOffer, OfferStatus
    <3> QED BY <1>3, <2>2, <3>1, <3>2 DEF OfferTold
  <2>3. CASE offer'[o] = offer[o]
        BY <1>2, <2>3, OfferStays DEF OffersInv, LiveOffer
  <2> QED BY <1>1, <2>1, <2>2, <2>3 DEF StatusOnceChosen
<1>6. \A b \in Bookings : Live(b) => Live(b)'
      BY Rows DEF ChooseWrite, Live, Assigned, BookingRow
<1>7. OffersLive'
      BY <1>4, <1>6, ForeignKeys DEF OffersInv, OffersLive
<1> QED BY <1>5, <1>7

\* Other steps insert, accept and reject none.
LEMMA OthersTold ==
    ASSUME OffersInv, Steps \subseteq Steps', told \subseteq told',
           \A o \in Offers : offer'[o] \in {offer[o], "EXPIRED", "deleted"},
           \A o \in Offers : LiveOffer(o)' => LiveOffer(o) /\ Live(BookingOf[o])'
    PROVE  OffersLive' /\ \A o \in Offers : OfferTold(o)'
<1>1. ASSUME NEW o \in Offers PROVE OfferTold(o)'
      BY <1>1, OfferStays DEF OffersInv
<1>2. OffersLive'
      BY DEF OffersLive
<1> QED BY <1>1, <1>2

\* The look-up finds whoever is rejected by then, and the others had been told.
LEMMA FollowUpTold ==
    ASSUME NTypeOK, OffersInv, NEW f \in after, FollowUp(f)
    PROVE  OffersLive' /\ \A o \in Offers : OfferTold(o)'
<1> USE ForeignKeys
<1>1. UNCHANGED <<booking, offer>> /\ told \subseteq told'
      BY FollowUpDoes DEF vars
<1>2. OffersLive'
      BY <1>1 DEF OffersInv, OffersLive, LiveOffer, Live
<1>3. ASSUME NEW o \in Offers PROVE OfferTold(o)'
  <2>1. /\ LiveOffer(o)' = LiveOffer(o) /\ offer'[o] = offer[o]
        /\ BookingOf[o] \in Bookings /\ OfferTold(o)
        BY <1>1 DEF LiveOffer, OffersInv
  <2>2. LiveOffer(o) => Announced(OfferReceived(o))'
    <3>1. \A b : Concerns(OfferReceived(o), b) => b = BookingOf[o]
          BY DEF Concerns, OfferReceived, Notice
    <3> QED BY <2>1, <3>1, AnnouncedStays DEF OffersInv, OffersLive, OfferTold
  <2>3. /\ Announced(OfferAccepted(o)) => Announced(OfferAccepted(o))'
        /\ Announced(OfferRejected(o)) => Announced(OfferRejected(o))'
    <3>1. \A b : /\ ~ Concerns(OfferAccepted(o), b)
                 /\ ~ Concerns(OfferRejected(o), b)
          BY DEF Concerns, OfferAccepted, OfferRejected, Notice
    <3> QED BY <3>1, AnnouncedStays DEF OffersInv
  <2>4. WillTell(o) => WillTell(o)' \/ Announced(OfferAccepted(o))'
    <3> SUFFICES ASSUME NEW x \in Steps, x.do = "tellChoice", x.on = o
                 PROVE  WillTell(o)' \/ Announced(OfferAccepted(o))'
        BY DEF WillTell
    <3>1. CASE x \in Steps'
          BY <3>1 DEF WillTell
    <3>2. CASE Did(x)
          BY <3>2 DEF Did, Announced
    <3> QED BY <3>1, <3>2, FollowUpDoes
  <2>5. offer[o] = "REJECTED" /\ ChoiceToTell(BookingOf[o]) =>
          ChoiceToTell(BookingOf[o])' \/ Announced(OfferRejected(o))'
    <3> SUFFICES ASSUME offer[o] = "REJECTED", NEW x \in Steps,
                        x.do = "tellChoice", BookingOf[x.on] = BookingOf[o]
                 PROVE  \/ ChoiceToTell(BookingOf[o])'
                        \/ Announced(OfferRejected(o))'
        BY DEF ChoiceToTell
    <3>1. CASE x \in Steps'
          BY <3>1 DEF ChoiceToTell
    <3>2. CASE Did(x)
      <4>1. o \in Losers(x.on)
            BY DEF Losers
      <4> QED BY <3>2, <4>1 DEF Did, Announced
    <3> QED BY <3>1, <3>2, FollowUpDoes
  <2> QED BY <2>1, <2>2, <2>3, <2>4, <2>5 DEF OfferTold
<1> QED BY <1>2, <1>3

LEMMA OffersInvKept ==
    ASSUME IInv, NTypeOK, OffersInv, [NNext]_allVars
    PROVE  OffersInv'
<1> USE ForeignKeys
<1>1. OwnBookings'
      BY OwnBookingsKept DEF OffersInv
<1>2. ASSUME NEW s \in Slots,
             ClientWrite(s) \/ WasherWrite(s)
             \/ \E b \in Bookings : ExpireWrite(s, b)
      PROVE  OffersLive' /\ \A o \in Offers : OfferTold(o)'
  <2>0. \A fs : Adds(fs) => Steps \subseteq Steps' /\ told \subseteq told'
        BY DEF Adds
  <2>1. CASE \/ CreateInsert(s) \/ CancelWrite(s) \/ ConfirmWrite(s)
             \/ ArriveWrite(s) \/ StartWrite(s) \/ CompleteWrite(s)
    <3>1. offer' = offer
          BY <2>1 DEF CreateInsert, CancelWrite, ConfirmWrite, ArriveWrite,
                      StartWrite, CompleteWrite
    <3>2. \A b \in Bookings : Live(b) => Live(b)'
      <4> SUFFICES ASSUME NEW b \in Bookings, Live(b) PROVE Live(b)'
          OBVIOUS
      <4>1. booking \in [Bookings -> BookingRow] /\ booking[b] \in BookingRow
            BY Rows
      <4> USE <4>1 DEF Live, BookingRow
      <4>2. CASE CreateInsert(s)
            BY <4>2 DEF CreateInsert, FreshBooking
      <4>3. CASE CancelWrite(s)
            BY <4>3 DEF CancelWrite
      <4>4. CASE ConfirmWrite(s)
            BY <4>4 DEF ConfirmWrite, SetStatus
      <4>5. CASE ArriveWrite(s)
            BY <4>5 DEF ArriveWrite
      <4>6. CASE StartWrite(s)
            BY <4>6 DEF StartWrite
      <4>7. CASE CompleteWrite(s)
            BY <4>7 DEF CompleteWrite
      <4> QED BY <2>1, <4>2, <4>3, <4>4, <4>5, <4>6, <4>7
    <3>3. Steps \subseteq Steps' /\ told \subseteq told'
          BY <1>2, <2>0, WriteKinds
    <3>4. \A o \in Offers : LiveOffer(o)' => LiveOffer(o) /\ Live(BookingOf[o])'
          BY <3>1, <3>2 DEF LiveOffer, OffersInv, OffersLive
    <3> QED BY <3>1, <3>3, <3>4, OthersTold
  <2>2. CASE WithdrawWrite(s)
    <3>1. \A o \in Offers : offer'[o] \in {offer[o], "deleted"}
          BY <2>2 DEF WithdrawWrite
    <3>2. \A b \in Bookings : Live(b) => Live(b)'
      <4>1. booking \in [Bookings -> BookingRow]
            BY Rows
      <4> QED BY <2>2, <4>1 DEF WithdrawWrite, Reopened, Live, BookingRow
    <3>3. Steps \subseteq Steps' /\ told \subseteq told'
          BY <1>2, <2>0, WriteKinds
    <3>4. \A o \in Offers : LiveOffer(o)' => LiveOffer(o) /\ Live(BookingOf[o])'
          BY <3>1, <3>2 DEF LiveOffer, OfferStatus, OffersInv, OffersLive
    <3> QED BY <3>1, <3>3, <3>4, OthersTold
  <2>3. ASSUME NEW b \in Bookings, ExpireNext(s, b)
        PROVE  OffersLive' /\ \A o \in Offers : OfferTold(o)'
    <3>1. \A o \in Offers : \/ offer'[o] = offer[o]
                            \/ offer[o] = "PENDING" /\ offer'[o] = "EXPIRED"
          BY <2>3 DEF ExpireNext
    <3>2. \A x \in Bookings : Live(x) => Live(x)'
      <4>1. booking \in [Bookings -> BookingRow]
            BY Rows
      <4> QED BY <2>3, <4>1 DEF ExpireNext, Live, BookingRow
    <3>3. Steps \subseteq Steps' /\ told \subseteq told'
          BY <1>2, <2>0, WriteKinds
    <3>4. \A o \in Offers : LiveOffer(o)' => LiveOffer(o) /\ Live(BookingOf[o])'
          BY <3>1, <3>2 DEF LiveOffer, OfferStatus, OffersInv, OffersLive
    <3> QED BY <3>1, <3>3, <3>4, OthersTold
  <2>4. CASE ChooseWrite(s) /\ Adds(AfterChoice(req[s].offer))
        BY <2>4, ChoiceTold
  <2>5. CASE OfferInsert(s) /\ Adds(AfterOffer(req[s].offer))
        BY <2>5, InsertTold
  <2> QED BY <1>2, <2>1, <2>2, <2>3, <2>4, <2>5, WriteKinds
<1>3. ASSUME UNCHANGED <<after, lost, told>>,
             \/ UNCHANGED <<booking, offer>>
             \/ \E v \in Vehicles : RemoveVehicle(v)
             \/ \E b \in Bookings : Lapse(b)
      PROVE  OffersLive' /\ \A o \in Offers : OfferTold(o)'
  <2>1. Steps' = Steps /\ told' = told
        BY <1>3 DEF Steps
  <2>2. CASE UNCHANGED <<booking, offer>>
    <3>1. \A o \in Offers : /\ offer'[o] = offer[o]
                            /\ LiveOffer(o)' => LiveOffer(o) /\ Live(BookingOf[o])'
          BY <2>2 DEF LiveOffer, Live, OffersInv, OffersLive
    <3> QED BY <2>1, <3>1, OthersTold
  <2>3. ASSUME NEW v \in Vehicles, RemoveVehicle(v)
        PROVE  OffersLive' /\ \A o \in Offers : OfferTold(o)'
    <3>1. \A o \in Offers : /\ offer'[o] \in {offer[o], "deleted"}
                            /\ LiveOffer(o)' => /\ LiveOffer(o)
                                                /\ VehicleOf[BookingOf[o]] # v
          BY <2>3 DEF RemoveVehicle, LiveOffer, OfferStatus
    <3>2. \A b \in Bookings : VehicleOf[b] # v /\ Live(b) => Live(b)'
          BY <2>3 DEF RemoveVehicle, Live
    <3> QED BY <2>1, <3>1, <3>2, OthersTold DEF OffersInv, OffersLive
  <2>4. ASSUME NEW b \in Bookings, Lapse(b)
        PROVE  OffersLive' /\ \A o \in Offers : OfferTold(o)'
    <3>1. offer' = offer
          BY <2>4 DEF Lapse
    <3>2. \A x \in Bookings : Live(x) => Live(x)'
      <4>1. booking \in [Bookings -> BookingRow]
            BY Rows
      <4> QED BY <2>4, <4>1 DEF Lapse, Live, BookingRow
    <3> QED BY <2>1, <3>1, <3>2, OthersTold DEF LiveOffer, OffersInv, OffersLive
  <2> QED BY <1>3, <2>2, <2>3, <2>4
<1>4. ASSUME NEW f \in after, FollowUp(f)
      PROVE  OffersLive' /\ \A o \in Offers : OfferTold(o)'
      BY <1>4, FollowUpTold
<1> QED BY <1>1, <1>2, <1>3, <1>4, NoticeKinds DEF OffersInv

\* However requests overlap, the client hears of each offer, the winner of its luck
\* and the losers of theirs, unless a failure keeps it from them (OffersTold).
THEOREM OffersHear == NSpec => []OffersTold
<1>1. NInit => OffersInv
      BY DEF NInit, Init, OffersInv, OwnBookings, OffersLive, OfferTold, Steps,
             LiveOffer, OfferStatus
<1>2. IInv /\ NInv /\ OffersInv /\ [NNext]_allVars => OffersInv'
      BY OffersInvKept DEF NInv
<1>3. OffersInv => OffersTold
  <2>1. \A o \in Offers : WillTell(o) => ChoiceToTell(BookingOf[o])
        BY DEF WillTell, ChoiceToTell
  <2> QED BY <2>1 DEF OffersInv, OfferTold, OffersTold
<1> QED BY <1>1, <1>2, <1>3, NoticesInvariance, NoticesImplementMarketplace,
           Invariance, PTL DEF NSpec
-----------------------------------------------------------------------------
(***************************************************************************)
(* Requests that do not clash: what became of a booking.                   *)
(***************************************************************************)
\* What a notice due is about.
LEMMA DueConcerns ==
    ASSUME NEW b, NEW n \in Due(b), NEW x, Concerns(n, x)
    PROVE  x = b
BY DEF Due, Concerns, WasherArrived, WashStarted, WashCompletedByWasher,
       BookingConfirmedByClient, BookingCancelledByClient,
       BookingCancelledByWasher, BookingExpired, Notice

\* A booking of which nothing is to be told anew.
Unmoved(b) == /\ Live(b)' => Live(b)
              /\ booking'[b].status = booking[b].status
              /\ booking'[b].cancelledBy = booking[b].cancelledBy
              /\ booking'[b].washer = booking[b].washer
              /\ booking'[b].price = booking[b].price

BookingTold(b) == Live(b) => \A n \in Due(b) : Announced(n)

LEMMA UnmovedTold ==
    ASSUME Steps \subseteq Steps', told \subseteq told', NEW b \in Bookings,
           Unmoved(b), BookingTold(b)
    PROVE  BookingTold(b)'
<1>1. Due(b)' = Due(b)
      BY DEF Unmoved, Due, WasherArrived, WashStarted, WashCompletedByWasher,
             BookingConfirmedByClient, BookingCancelledByClient,
             BookingCancelledByWasher, BookingExpired, Notice, ClientOf
<1>2. \A n : Announced(n) => Announced(n)'
      BY AnnouncedGrows
<1> QED BY <1>1, <1>2 DEF BookingTold, Unmoved

\* A write to booking b that announces what is due of it then.
LEMMA WriteTold ==
    ASSUME StatusTold, NEW b \in Bookings, NEW row,
           booking' = [booking EXCEPT ![b] = row],
           booking \in [Bookings -> BookingRow],
           NEW fs, Adds(fs),
           \A n \in Due(b)' : \E x \in StepsOf(fs) : n \in x.notices
    PROVE  StatusTold'
<1>1. BookingTold(b)'
      BY DEF Adds, BookingTold, Announced
<1>2. ASSUME NEW x \in Bookings, x # b PROVE BookingTold(x)'
      BY <1>2, UnmovedTold DEF Unmoved, Live, Adds, StatusTold, BookingTold
<1> QED BY <1>1, <1>2 DEF StatusTold, BookingTold

LEMMA WritesTold ==
    ASSUME IInv, ReadsStillSo, StatusTold, NEW s \in Slots,
           ClientWrite(s) \/ WasherWrite(s)
           \/ \E b \in Bookings : ExpireWrite(s, b)
    PROVE  StatusTold'
<1> USE ForeignKeys, NullIsNoId
<1>1. booking \in [Bookings -> BookingRow] /\ req[s] \in Request /\ RequestFits(req[s])
      BY Rows DEF IInv, RequestsFit
<1>0. PICK b, w, o : b = req[s].booking /\ w = req[s].washer /\ o = req[s].offer
      OBVIOUS
<1>2. CASE CreateInsert(s) /\ Adds(AfterCreate(b))
  <2>1. b \in Bookings
        BY <1>0, <1>1, <1>2 DEF CreateInsert, At, RequestFits
  <2> DEFINE row == [FreshBooking EXCEPT !.row = "live"]
  <2>2. booking' = [booking EXCEPT ![b] = row]
        BY <1>0, <1>2 DEF CreateInsert
  <2>3. booking'[b].status = "PENDING" /\ booking'[b].cancelledBy = None
        BY <1>1, <2>1, <2>2 DEF FreshBooking
  <2>4. None # "WASHER"
        BY NullIsNobody DEF CancellationActor
  <2>5. Due(b)' = {}
        BY <2>3, <2>4 DEF Due
  <2> QED BY <1>1, <1>2, <2>1, <2>2, <2>5, WriteTold
<1>3. CASE CancelWrite(s) /\ Adds(AfterCancel(b, w))
  <2>1. b \in Bookings /\ Live(b) /\ booking[b].washer = w
        BY <1>0, <1>1, <1>3 DEF CancelWrite, At, RequestFits, ReadsStillSo, StillSo
  <2>2. PICK row : /\ row = [booking[b] EXCEPT !.status = "CANCELLED",
                                               !.cancelledBy = "CLIENT"]
                   /\ booking' = [booking EXCEPT ![b] = row]
        BY <1>0, <1>3 DEF CancelWrite
  <2>3. /\ booking'[b].status = "CANCELLED" /\ booking'[b].cancelledBy = "CLIENT"
        /\ booking'[b].washer = w
        BY <1>1, <2>1, <2>2 DEF BookingRow
  <2>4. Due(b)' \subseteq IF w = None THEN {} ELSE {BookingCancelledByClient(b, w)}
        BY <2>3 DEF Due
  <2>5. w # None => Tell({BookingCancelledByClient(b, w)}) \in StepsOf(AfterCancel(b, w))
        BY StepsOfWrites
  <2>6. \A n \in Due(b)' : \E x \in StepsOf(AfterCancel(b, w)) : n \in x.notices
        BY <2>4, <2>5, HonestSteps
  <2> QED BY <1>1, <1>3, <2>1, <2>2, <2>6, WriteTold
<1>4. CASE ConfirmWrite(s) /\ Adds(AfterConfirm(b, w))
  <2>1. b \in Bookings /\ Live(b) /\ booking[b].washer = w
        BY <1>0, <1>1, <1>4 DEF ConfirmWrite, At, RequestFits, ReadsStillSo, StillSo
  <2>2. PICK row : /\ row = [booking[b] EXCEPT !.status = "COMPLETED"]
                   /\ booking' = [booking EXCEPT ![b] = row]
        BY <1>0, <1>4 DEF ConfirmWrite, SetStatus
  <2>3. booking'[b].status = "COMPLETED" /\ booking'[b].washer = w
        BY <1>1, <2>1, <2>2 DEF BookingRow
  <2>4. Due(b)' = {BookingConfirmedByClient(b, w)}
        BY <2>3 DEF Due
  <2>5. Tell({BookingConfirmedByClient(b, w)}) \in StepsOf(AfterConfirm(b, w))
        BY StepsOfWrites
  <2>6. \A n \in Due(b)' : \E x \in StepsOf(AfterConfirm(b, w)) : n \in x.notices
        BY <2>4, <2>5, HonestSteps
  <2> QED BY <1>1, <1>4, <2>1, <2>2, <2>6, WriteTold
<1>5. CASE ChooseWrite(s) /\ Adds(AfterChoice(o))
  <2>1. b \in Bookings
        BY <1>0, <1>1, <1>5 DEF ChooseWrite, At, RequestFits
  <2>2. PICK row : /\ row = Assigned(booking[b], o)
                   /\ booking' = [booking EXCEPT ![b] = row]
        BY <1>0, <1>5 DEF ChooseWrite
  <2>3. booking'[b].status = "ACCEPTED"
        BY <1>1, <2>1, <2>2 DEF BookingRow, Assigned
  <2>4. Due(b)' = {}
        BY <2>3 DEF Due
  <2> QED BY <1>1, <1>5, <2>1, <2>2, <2>4, WriteTold
<1>6. CASE OfferInsert(s) /\ Adds(AfterOffer(o))
  <2>1. booking' = booking
        BY <1>6 DEF OfferInsert
  <2>2. ASSUME NEW x \in Bookings PROVE BookingTold(x)'
        BY <1>6, <2>1, UnmovedTold DEF Unmoved, Live, Adds, StatusTold, BookingTold
  <2> QED BY <2>2 DEF StatusTold, BookingTold
<1>7. ASSUME NEW n, NEW row, b \in Bookings, Due(b)' = {n},
             booking' = [booking EXCEPT ![b] = row], Adds(AfterTransition(b, n))
      PROVE  StatusTold'
  <2>1. TellIfLive(b, n) \in StepsOf(AfterTransition(b, n))
        BY StepsOfWrites
  <2>2. \A m \in Due(b)' : \E x \in StepsOf(AfterTransition(b, n)) : m \in x.notices
        BY <1>7, <2>1, HonestSteps
  <2> QED BY <1>1, <1>7, <2>2, WriteTold
<1>8. CASE ArriveWrite(s) /\ Adds(AfterTransition(b, WasherArrived(b)))
  <2>1. b \in Bookings
        BY <1>0, <1>1, <1>8 DEF ArriveWrite, At, RequestFits
  <2>2. PICK row : /\ row = [booking[b] EXCEPT !.status = "ARRIVED", !.arrived = TRUE]
                   /\ booking' = [booking EXCEPT ![b] = row]
        BY <1>0, <1>8 DEF ArriveWrite
  <2>3. booking'[b].status = "ARRIVED"
        BY <1>1, <2>1, <2>2 DEF BookingRow
  <2>4. Due(b)' = {WasherArrived(b)}
        BY <2>3 DEF Due, WasherArrived, Notice, ClientOf
  <2> QED BY <1>7, <1>8, <2>1, <2>2, <2>4
<1>9. CASE StartWrite(s) /\ Adds(AfterTransition(b, WashStarted(b)))
  <2>1. b \in Bookings
        BY <1>0, <1>1, <1>9 DEF StartWrite, At, RequestFits
  <2>2. PICK row : /\ row = [booking[b] EXCEPT !.status = "IN_PROGRESS",
                                               !.started = TRUE]
                   /\ booking' = [booking EXCEPT ![b] = row]
        BY <1>0, <1>9 DEF StartWrite
  <2>3. booking'[b].status = "IN_PROGRESS"
        BY <1>1, <2>1, <2>2 DEF BookingRow
  <2>4. Due(b)' = {WashStarted(b)}
        BY <2>3 DEF Due, WashStarted, Notice, ClientOf
  <2> QED BY <1>7, <1>9, <2>1, <2>2, <2>4
<1>10. CASE CompleteWrite(s) /\ Adds(AfterTransition(b, WashCompletedByWasher(b)))
  <2>1. b \in Bookings
        BY <1>0, <1>1, <1>10 DEF CompleteWrite, At, RequestFits
  <2>2. PICK row : /\ row = [booking[b] EXCEPT
                               !.status = "AWAITING_CLIENT_CONFIRMATION",
                               !.completed = TRUE]
                   /\ booking' = [booking EXCEPT ![b] = row]
        BY <1>0, <1>10 DEF CompleteWrite
  <2>3. booking'[b].status = "AWAITING_CLIENT_CONFIRMATION"
        BY <1>1, <2>1, <2>2 DEF BookingRow
  <2>4. Due(b)' = {WashCompletedByWasher(b)}
        BY <2>3 DEF Due, WashCompletedByWasher, Notice, ClientOf
  <2> QED BY <1>7, <1>10, <2>1, <2>2, <2>4
<1>11. ASSUME NEW price, price = booking[b].price,
              WithdrawWrite(s), Adds(AfterWithdraw(b, price))
       PROVE  StatusTold'
  <2>1. b \in Bookings
        BY <1>0, <1>1, <1>11 DEF WithdrawWrite, At, RequestFits
  <2>2. PICK row : /\ row = Reopened(booking[b])
                   /\ booking' = [booking EXCEPT ![b] = row]
        BY <1>0, <1>11 DEF WithdrawWrite
  <2>3. /\ booking'[b].status = "PENDING" /\ booking'[b].cancelledBy = "WASHER"
        /\ booking'[b].price = price
        BY <1>1, <1>11, <2>1, <2>2 DEF BookingRow, Reopened
  <2>4. Due(b)' = {BookingCancelledByWasher(b, price)}
        BY <2>3 DEF Due, BookingCancelledByWasher, Notice, ClientOf
  <2>5. Tell({BookingCancelledByWasher(b, price)}) \in StepsOf(AfterWithdraw(b, price))
        BY StepsOfWrites
  <2>6. \A n \in Due(b)' : \E x \in StepsOf(AfterWithdraw(b, price)) : n \in x.notices
        BY <2>4, <2>5, HonestSteps
  <2> QED BY <1>1, <1>11, <2>1, <2>2, <2>6, WriteTold
<1>12. ASSUME NEW c \in Bookings, NEW last \in BOOLEAN, ExpireNext(s, c),
              Adds(AfterExpiry(c, last))
       PROVE  StatusTold'
  <2>2. PICK row : /\ row = [booking[c] EXCEPT !.status = "CANCELLED",
                                               !.cancelledBy = "SYSTEM"]
                   /\ booking' = [booking EXCEPT ![c] = row]
        BY <1>12 DEF ExpireNext
  <2>3. booking'[c].status = "CANCELLED" /\ booking'[c].cancelledBy = "SYSTEM"
        BY <1>1, <1>12, <2>2 DEF BookingRow
  <2>4. Due(c)' = {BookingExpired(c)}
        BY <2>3 DEF Due, BookingExpired, Notice, ClientOf
  <2>5. Tell({BookingExpired(c)}) \in StepsOf(AfterExpiry(c, last))
        BY StepsOfWrites
  <2>6. \A n \in Due(c)' : \E x \in StepsOf(AfterExpiry(c, last)) : n \in x.notices
        BY <2>4, <2>5, HonestSteps
  <2> QED BY <1>1, <1>12, <2>2, <2>6, WriteTold
<1> QED BY <1>0, <1>2, <1>3, <1>4, <1>5, <1>6, <1>8, <1>9, <1>10, <1>11, <1>12,
           WriteKinds

\* Steps that move no booking.
LEMMA AsideUnmoved ==
    ASSUME IInv, NEW b \in Bookings,
           \/ UNCHANGED <<booking, offer>>
           \/ \E v \in Vehicles : RemoveVehicle(v)
           \/ \E x \in Bookings : Lapse(x)
    PROVE  Unmoved(b)
<1>1. booking \in [Bookings -> BookingRow] /\ booking[b] \in BookingRow
      BY Rows
<1>2. CASE UNCHANGED <<booking, offer>>
      BY <1>2 DEF Unmoved, Live
<1>3. ASSUME NEW v \in Vehicles, RemoveVehicle(v) PROVE Unmoved(b)
      BY <1>1, <1>3 DEF RemoveVehicle, Unmoved, Live, BookingRow
<1>4. ASSUME NEW x \in Bookings, Lapse(x) PROVE Unmoved(b)
      BY <1>1, <1>4 DEF Lapse, Unmoved, Live, BookingRow
<1> QED BY <1>2, <1>3, <1>4

LEMMA StatusToldKept ==
    ASSUME IInv, ReadsStillSo, NTypeOK, OwnBookings, StatusTold, [NNext]_allVars
    PROVE  StatusTold'
<1>1. ASSUME NEW s \in Slots,
             ClientWrite(s) \/ WasherWrite(s)
             \/ \E b \in Bookings : ExpireWrite(s, b)
      PROVE  StatusTold'
      BY <1>1, WritesTold
<1>2. ASSUME UNCHANGED <<after, lost, told>>,
             \/ UNCHANGED <<booking, offer>>
             \/ \E v \in Vehicles : RemoveVehicle(v)
             \/ \E b \in Bookings : Lapse(b)
      PROVE  StatusTold'
  <2>1. Steps' = Steps
        BY <1>2 DEF Steps
  <2>2. ASSUME NEW b \in Bookings PROVE BookingTold(b)'
        BY <1>2, <2>1, AsideUnmoved, UnmovedTold DEF StatusTold, BookingTold
  <2> QED BY <2>2 DEF StatusTold, BookingTold
<1>3. ASSUME NEW f \in after, FollowUp(f)
      PROVE  StatusTold'
  <2> SUFFICES ASSUME NEW b \in Bookings, Live(b)', NEW n \in Due(b)'
               PROVE  Announced(n)'
      BY DEF StatusTold
  <2>1. booking' = booking
        BY <1>3, FollowUpDoes DEF vars
  <2>2. Live(b) /\ Due(b)' = Due(b)
        BY <2>1 DEF Live, Due, WasherArrived, WashStarted, WashCompletedByWasher,
                    BookingConfirmedByClient, BookingCancelledByClient,
                    BookingCancelledByWasher, BookingExpired, Notice, ClientOf
  <2>3. Announced(n) /\ \A x \in Bookings : Concerns(n, x) => Live(x)
        BY <2>2, DueConcerns DEF StatusTold
  <2> QED BY <1>3, <2>3, AnnouncedStays
<1> QED BY <1>1, <1>2, <1>3, NoticeKinds

\* As long as requests do not clash, whatever became of a booking, whoever has to
\* hear of it was told, will be, or a failure kept it from them (StatusTold).
THEOREM StatusHeard == NSpec /\ []Apart => []StatusTold
<1>1. NInit => OwnBookings /\ StatusTold
      BY DEF NInit, Init, OwnBookings, StatusTold, Steps, Live, FreshBooking
<1>2. Unclashed /\ NInv /\ OwnBookings /\ StatusTold /\ [NNext]_allVars
        => (OwnBookings /\ StatusTold)'
      BY OwnBookingsKept, StatusToldKept DEF Unclashed, NInv
<1> QED BY <1>1, <1>2, NoticesInvariance, NoticesUnclashed, PTL DEF NSpec
-----------------------------------------------------------------------------
(***************************************************************************)
(* Requests that do not clash: what is told is so, and stays so.           *)
(***************************************************************************)
\* The offer about to be chosen has been neither chosen nor rejected.
ChoiceOpen == \A s \in Slots : At(s, "chooseWrite") =>
                  offer[req[s].offer] \in {"PENDING", "deleted"}

\* Without a clash nobody else chooses or rejects the offer about to be chosen.
LEMMA ChoiceSpared ==
    ASSUME IInv, ReadsStillSo, Apart, [Next]_vars, NEW t \in Slots,
           At(t, "chooseWrite"), req'[t] = req[t],
           offer[req[t].offer] \in {"PENDING", "deleted"}
    PROVE  offer'[req[t].offer] \in {"PENDING", "deleted"}
<1> DEFINE o == req[t].offer
<1>1. /\ o \in Offers /\ req[t].booking = BookingOf[o] /\ BookingOf[o] \in Bookings
      /\ offer \in [Offers -> OfferStatus \cup {"unborn", "deleted"}]
  <2>1. RequestFits(req[t]) /\ req[t].at = "chooseWrite"
        BY DEF IInv, RequestsFit, At
  <2>2. o \in Offers /\ req[t].booking = BookingOf[o]
        BY <2>1 DEF RequestFits
  <2> QED BY <2>2, Rows, ForeignKeys DEF ForeignKeys
<1>2. ASSUME NEW s \in Slots, s # t, req[s].at \in Moving
      PROVE  BookingOf[o] \notin Concerned(req[s])
  <2>1. req[t].at \in Moving /\ BookingOf[o] \in Concerned(req[t])
        BY <1>1 DEF At, Moving, Concerned
  <2>2. ~ Clash(req[t], req[s])
        BY <1>2 DEF Apart
  <2>3. Concerned(req[t]) \cap Concerned(req[s]) = {}
        BY <1>2, <2>1, <2>2 DEF Clash
  <2> QED BY <2>1, <2>3
<1>3. ASSUME NEW s \in Slots, ChooseWrite(s)
      PROVE  offer'[o] \in {"PENDING", "deleted"}
  <2>1. s # t
    <3>1. req'[s].at = "idle"
          BY <1>3, Rows DEF ChooseWrite, End, Idle, Req
    <3> QED BY <3>1 DEF At
  <2>2. BookingOf[req[s].offer] # BookingOf[o]
        BY <1>2, <1>3, <2>1 DEF ChooseWrite, At, Moving, Concerned, IInv,
           RequestsFit, RequestFits
  <2> QED BY <1>1, <1>3, <2>2 DEF ChooseWrite, StatusOnceChosen
<1>4. ASSUME NEW s \in Slots, NEW b \in Bookings, ExpireNext(s, b)
      PROVE  offer'[o] \in {"PENDING", "deleted"}
  <2>1. s # t /\ BookingOf[o] # b
        BY <1>2, <1>4 DEF ExpireNext, At, Moving, Concerned
  <2> QED BY <1>1, <1>4, <2>1 DEF ExpireNext
<1>5. ASSUME NEW s \in Slots, WithdrawWrite(s) \/ OfferInsert(s)
      PROVE  offer'[o] \in {"PENDING", "deleted"}
      BY <1>1, <1>5 DEF WithdrawWrite, OfferInsert
<1>6. ASSUME NEW v \in Vehicles, RemoveVehicle(v)
      PROVE  offer'[o] \in {"PENDING", "deleted"}
      BY <1>1, <1>6 DEF RemoveVehicle
<1>7. ASSUME NEW s \in Slots,
             \/ CreateInsert(s) \/ CancelWrite(s) \/ ConfirmWrite(s)
             \/ ArriveWrite(s) \/ StartWrite(s) \/ CompleteWrite(s)
      PROVE  offer' = offer
      BY <1>7 DEF CreateInsert, CancelWrite, ConfirmWrite, ArriveWrite, StartWrite,
         CompleteWrite
<1>8. ASSUME NEW b \in Bookings, Lapse(b)
      PROVE  offer' = offer
      BY <1>8 DEF Lapse
<1> QED BY <1>3, <1>4, <1>5, <1>6, <1>7, <1>8, StepKinds DEF tables, ProfileWriting

LEMMA ChoiceOpenKept ==
    ASSUME IInv, ReadsStillSo, Apart, ChoiceOpen, [Next]_vars
    PROVE  ChoiceOpen'
<1> SUFFICES ASSUME NEW t \in Slots, At(t, "chooseWrite")'
             PROVE  offer'[req'[t].offer] \in {"PENDING", "deleted"}
    BY DEF ChoiceOpen, At
<1>1. CASE req'[t] = req[t]
      BY <1>1, ChoiceSpared DEF ChoiceOpen, At
<1>2. CASE ChooseOffer(t)
  <2>1. req'[t].offer = req[t].offer /\ offer[req[t].offer] = "PENDING"
        BY <1>2, Rows DEF ChooseOffer, GoOn, Request
  <2> QED BY <1>2, <2>1 DEF ChooseOffer, GoOn, tables
<1>3. ASSUME \/ \E o \in Offers : OfferProfile(t, o)
             \/ \E w \in Washers : \/ AvailabilityRead(t, w) \/ ApproveRead(t, w)
                                   \/ RejectRead(t, w) \/ RetryRead(t, w)
      PROVE  FALSE
      BY <1>3, Rows DEF OfferProfile, AvailabilityRead, ApproveRead, RejectRead,
         RetryRead, Begin, Req, At
<1>4. ~ OfferBooking(t)
      BY Rows DEF OfferBooking, GoOn, Request, At
<1> QED BY <1>1, <1>2, <1>3, <1>4, RequestMoves DEF At, Watched

\* Accepted or rejected, an offer stays so until it is deleted.
LEMMA OffersFinal ==
    ASSUME IInv, ReadsStillSo, ChoiceOpen, [Next]_vars, NEW o \in Offers,
           offer[o] \in {"ACCEPTED", "REJECTED", "deleted"}
    PROVE  offer'[o] \in {offer[o], "deleted"}
<1>1. ASSUME NEW s \in Slots, ChooseWrite(s)
      PROVE  offer'[o] = offer[o]
  <2>1. /\ o # req[s].offer
        /\ offer'[o] = StatusOnceChosen(o, req[s].offer)
        BY <1>1 DEF ChooseWrite, ChoiceOpen, LiveOffer, OfferStatus, At
  <2> QED BY <2>1 DEF StatusOnceChosen
<1>2. ASSUME NEW s \in Slots, OfferInsert(s)
      PROVE  offer'[o] = offer[o]
      BY <1>2, Rows DEF OfferInsert
<1>3. ASSUME NEW s \in Slots, WithdrawWrite(s)
      PROVE  offer'[o] \in {offer[o], "deleted"}
      BY <1>3 DEF WithdrawWrite
<1>4. ASSUME NEW s \in Slots, NEW b \in Bookings, ExpireNext(s, b)
      PROVE  offer'[o] = offer[o]
      BY <1>4 DEF ExpireNext
<1>5. ASSUME NEW v \in Vehicles, RemoveVehicle(v)
      PROVE  offer'[o] \in {offer[o], "deleted"}
      BY <1>5 DEF RemoveVehicle
<1>6. ASSUME NEW s \in Slots,
             \/ CreateInsert(s) \/ CancelWrite(s) \/ ConfirmWrite(s)
             \/ ArriveWrite(s) \/ StartWrite(s) \/ CompleteWrite(s)
      PROVE  offer' = offer
      BY <1>6 DEF CreateInsert, CancelWrite, ConfirmWrite, ArriveWrite, StartWrite,
         CompleteWrite
<1>7. ASSUME NEW b \in Bookings, Lapse(b)
      PROVE  offer' = offer
      BY <1>7 DEF Lapse
<1> QED BY <1>1, <1>2, <1>3, <1>4, <1>5, <1>6, <1>7, StepKinds
        DEF tables, ProfileWriting

\* A booking that is over stays as it is.
LEMMA BookingsFinal ==
    ASSUME IInv, ReadsStillSo, [Next]_vars, NEW b \in Bookings,
           booking[b].status \in {"COMPLETED", "CANCELLED"}
    PROVE  /\ booking'[b].status = booking[b].status
           /\ booking'[b].washer = booking[b].washer
           /\ booking'[b].cancelledBy = booking[b].cancelledBy
<1> DEFINE Same == /\ booking'[b].status = booking[b].status
                   /\ booking'[b].washer = booking[b].washer
                   /\ booking'[b].cancelledBy = booking[b].cancelledBy
<1>1. ASSUME NEW x \in Bookings, NEW row,
             booking' = [booking EXCEPT ![x] = row],
             Live(x) => booking[x].status \notin {"COMPLETED", "CANCELLED"},
             Live(x) \/ booking[x] = FreshBooking
      PROVE  Same
  <2>1. x # b
        BY <1>1 DEF FreshBooking
  <2> QED BY <1>1, <2>1, Rows
<1> USE ForeignKeys DEF At, IInv, RequestsFit, RequestFits
<1>2. ASSUME NEW s \in Slots, CreateInsert(s)
      PROVE  Same
      BY <1>1, <1>2 DEF CreateInsert, UnbornIsBlank
<1>3. ASSUME NEW s \in Slots, CancelWrite(s)
      PROVE  Same
      BY <1>1, <1>3 DEF CancelWrite, ReadsStillSo, StillSo, Cancellable
<1>4. ASSUME NEW s \in Slots, ConfirmWrite(s)
      PROVE  Same
      BY <1>1, <1>4 DEF ConfirmWrite, SetStatus, ReadsStillSo, StillSo
<1>5. ASSUME NEW s \in Slots, ArriveWrite(s) \/ StartWrite(s) \/ CompleteWrite(s)
      PROVE  Same
  <2> DEFINE x == req[s].booking
  <2>1. x \in Bookings /\ Live(x)
        BY <1>5 DEF ArriveWrite, StartWrite, CompleteWrite
  <2>2. booking[x].status \notin {"COMPLETED", "CANCELLED"}
        BY <1>5, <2>1 DEF ArriveWrite, StartWrite, CompleteWrite, ReadsStillSo,
           StillSo
  <2>3. PICK row : booking' = [booking EXCEPT ![x] = row]
        BY <1>5 DEF ArriveWrite, StartWrite, CompleteWrite
  <2> QED BY <1>1, <2>1, <2>2, <2>3
<1>6. ASSUME NEW s \in Slots, ChooseWrite(s)
      PROVE  Same
      BY <1>1, <1>6 DEF ChooseWrite, ReadsStillSo, StillSo
<1>7. ASSUME NEW s \in Slots, WithdrawWrite(s)
      PROVE  Same
      BY <1>1, <1>7 DEF WithdrawWrite, ReadsStillSo, StillSo
<1>8. ASSUME NEW s \in Slots, NEW x \in Bookings, ExpireNext(s, x)
      PROVE  Same
      BY <1>1, <1>8 DEF ExpireNext, ReadsStillSo, StillSo
<1>9. ASSUME \/ \E v \in Vehicles : RemoveVehicle(v)
             \/ \E x \in Bookings : Lapse(x)
      PROVE  Same
      BY <1>9, AsideUnmoved DEF Unmoved
<1>10. ASSUME NEW s \in Slots, OfferInsert(s)
       PROVE  booking' = booking
      BY <1>10 DEF OfferInsert
<1> QED BY <1>2, <1>3, <1>4, <1>5, <1>6, <1>7, <1>8, <1>9, <1>10, StepKinds
        DEF tables, ProfileWriting

\* The notice says what is so.
IsSo(n) ==
    LET row == booking[n.about] IN
    /\ n.type = "OFFER_ACCEPTED" => offer[n.about] \in {"ACCEPTED", "deleted"}
    /\ n.type = "OFFER_REJECTED" => offer[n.about] \in {"REJECTED", "deleted"}
    /\ n.type = "BOOKING_CONFIRMED_BY_CLIENT" =>
         row.status = "COMPLETED" /\ row.washer = n.to
    /\ n.type = "BOOKING_EXPIRED" =>
         row.status = "CANCELLED" /\ row.cancelledBy = "SYSTEM"
    /\ n.type = "BOOKING_CANCELLED_BY_CLIENT" =>
         row.status = "CANCELLED" /\ row.cancelledBy = "CLIENT"

LEMMA IsSoStays ==
    ASSUME IInv, ReadsStillSo, ChoiceOpen, [Next]_vars,
           NEW n \in NotificationPayload, IsSo(n)
    PROVE  IsSo(n)'
<1>1. CASE n.type \in {"OFFER_ACCEPTED", "OFFER_REJECTED"}
  <2>1. n.about \in Offers
        BY <1>1 DEF NotificationPayload
  <2> QED BY <1>1, <2>1, OffersFinal DEF IsSo
<1>2. CASE n.type \in {"BOOKING_CONFIRMED_BY_CLIENT", "BOOKING_EXPIRED",
                       "BOOKING_CANCELLED_BY_CLIENT"}
  <2>1. n.about \in Bookings
        BY <1>2 DEF NotificationPayload
  <2> QED BY <1>2, <2>1, BookingsFinal DEF IsSo
<1>3. CASE n.type \notin {"OFFER_ACCEPTED", "OFFER_REJECTED",
                          "BOOKING_CONFIRMED_BY_CLIENT", "BOOKING_EXPIRED",
                          "BOOKING_CANCELLED_BY_CLIENT"}
      BY <1>3 DEF IsSo
<1> QED BY <1>1, <1>2, <1>3

\* What a step will tell is so already.
StepIsSo(x) == /\ \A n \in x.notices : IsSo(n)
               /\ x.do = "tellChoice" => offer[x.on] \in {"ACCEPTED", "deleted"}

SoInv == /\ ChoiceOpen
         /\ \A n \in told : IsSo(n)
         /\ \A x \in Steps : StepIsSo(x)

LEMMA StepIsSoStays ==
    ASSUME IInv, ReadsStillSo, ChoiceOpen, [Next]_vars, NEW x \in StepOf,
           StepIsSo(x)
    PROVE  StepIsSo(x)'
<1>1. x.notices \subseteq NotificationPayload
      BY DEF StepOf
<1>2. x.do = "tellChoice" => x.on \in Offers
      BY DEF StepOf
<1> QED BY <1>1, <1>2, IsSoStays, OffersFinal DEF StepIsSo

\* What the writes add is so once they are made.
LEMMA AddedIsSo ==
    ASSUME IInv, ReadsStillSo, NEW s \in Slots,
           ClientWrite(s) \/ WasherWrite(s)
           \/ \E b \in Bookings : ExpireWrite(s, b)
    PROVE  \E fs : Adds(fs) /\ \A x \in StepsOf(fs) : StepIsSo(x)'
<1> USE ForeignKeys
<1>0. PICK b, w, o : b = req[s].booking /\ w = req[s].washer /\ o = req[s].offer
      OBVIOUS
<1>1. booking \in [Bookings -> BookingRow] /\ RequestFits(req[s])
      BY Rows DEF IInv, RequestsFit
<1>2. \A c, ws : StepIsSo(Drop(c, ws))'
      BY StepShapes, HonestSteps DEF StepIsSo
<1>3. \A n : IsSo(n)' => StepIsSo(Tell({n}))'
      BY StepShapes, HonestSteps DEF StepIsSo
<1>4. CASE CreateInsert(s) /\ Adds(AfterCreate(b))
  <2>1. StepsOf(AfterCreate(b)) = {Drop(b, Washers)}
        BY StepsOfWrites
  <2> QED BY <1>2, <1>4, <2>1
<1>5. CASE CancelWrite(s) /\ Adds(AfterCancel(b, w))
  <2>1. b \in Bookings
        BY <1>0, <1>1, <1>5 DEF CancelWrite, At, RequestFits
  <2>2. booking'[b].status = "CANCELLED" /\ booking'[b].cancelledBy = "CLIENT"
        BY <1>0, <1>1, <1>5, <2>1 DEF CancelWrite, BookingRow
  <2>3. IsSo(BookingCancelledByClient(b, w))'
        BY <2>2 DEF IsSo, BookingCancelledByClient, Notice
  <2>4. StepsOf(AfterCancel(b, w)) \subseteq {Tell({BookingCancelledByClient(b, w)})}
        BY StepsOfWrites
  <2> QED BY <1>3, <1>5, <2>3, <2>4
<1>6. CASE ConfirmWrite(s) /\ Adds(AfterConfirm(b, w))
  <2>1. b \in Bookings /\ booking[b].washer = w
        BY <1>0, <1>1, <1>6 DEF ConfirmWrite, At, RequestFits, ReadsStillSo, StillSo
  <2>2. booking'[b].status = "COMPLETED" /\ booking'[b].washer = w
        BY <1>0, <1>1, <1>6, <2>1 DEF ConfirmWrite, SetStatus, BookingRow
  <2>3. IsSo(BookingConfirmedByClient(b, w))'
        BY <2>2 DEF IsSo, BookingConfirmedByClient, Notice
  <2>4. StepsOf(AfterConfirm(b, w)) = {Tell({BookingConfirmedByClient(b, w)})}
        BY StepsOfWrites
  <2> QED BY <1>3, <1>6, <2>3, <2>4
<1>7. CASE ChooseWrite(s) /\ Adds(AfterChoice(o))
  <2>1. o \in Offers /\ offer'[o] = "ACCEPTED"
        BY <1>0, <1>1, <1>7 DEF ChooseWrite, At, RequestFits, StatusOnceChosen
  <2>2. StepIsSo(TellChoice(o))'
        BY <2>1, StepShapes, HonestSteps DEF StepIsSo
  <2>3. StepsOf(AfterChoice(o)) = {Drop(BookingOf[o], Washers), TellChoice(o)}
        BY StepsOfWrites
  <2> QED BY <1>2, <1>7, <2>2, <2>3
<1>8. CASE OfferInsert(s) /\ Adds(AfterOffer(o))
  <2>1. IsSo(OfferReceived(o))'
        BY DEF IsSo, OfferReceived, Notice
  <2>2. StepsOf(AfterOffer(o)) = {Drop(BookingOf[o], {WasherOf[o]}),
                                  TellIfLive(BookingOf[o], OfferReceived(o))}
        BY StepsOfWrites
  <2>3. /\ StepIsSo(Drop(BookingOf[o], {WasherOf[o]}))'
        /\ StepIsSo(TellIfLive(BookingOf[o], OfferReceived(o)))'
        BY <1>2, <2>1, StepShapes, HonestSteps DEF StepIsSo
  <2> QED BY <1>8, <2>2, <2>3
<1>9. CASE \/ ArriveWrite(s) /\ Adds(AfterTransition(b, WasherArrived(b)))
           \/ StartWrite(s) /\ Adds(AfterTransition(b, WashStarted(b)))
           \/ /\ CompleteWrite(s)
              /\ Adds(AfterTransition(b, WashCompletedByWasher(b)))
  <2>1. /\ IsSo(WasherArrived(b))' /\ IsSo(WashStarted(b))'
        /\ IsSo(WashCompletedByWasher(b))'
        BY DEF IsSo, WasherArrived, WashStarted, WashCompletedByWasher, Notice
  <2>2. \A n : StepsOf(AfterTransition(b, n)) = {TellIfLive(b, n)}
        BY StepsOfWrites
  <2>3. ASSUME NEW n, IsSo(n)', Adds(AfterTransition(b, n))
        PROVE  \E fs : Adds(fs) /\ \A x \in StepsOf(fs) : StepIsSo(x)'
    <3>1. StepIsSo(TellIfLive(b, n))'
          BY <2>3, StepShapes, HonestSteps DEF StepIsSo
    <3>2. \A x \in StepsOf(AfterTransition(b, n)) : StepIsSo(x)'
          BY <2>2, <3>1
    <3> QED BY <2>3, <3>2
  <2> QED BY <1>9, <2>1, <2>3
<1>10. ASSUME NEW price, Adds(AfterWithdraw(b, price))
       PROVE  \E fs : Adds(fs) /\ \A x \in StepsOf(fs) : StepIsSo(x)'
  <2>1. IsSo(BookingCancelledByWasher(b, price))'
        BY DEF IsSo, BookingCancelledByWasher, Notice
  <2>2. StepsOf(AfterWithdraw(b, price)) =
          {Drop(b, Washers), Tell({BookingCancelledByWasher(b, price)})}
        BY StepsOfWrites
  <2> QED BY <1>2, <1>3, <1>10, <2>1, <2>2
<1>11. ASSUME NEW c \in Bookings, NEW last \in BOOLEAN, ExpireNext(s, c),
              Adds(AfterExpiry(c, last))
       PROVE  \E fs : Adds(fs) /\ \A x \in StepsOf(fs) : StepIsSo(x)'
  <2>1. booking'[c].status = "CANCELLED" /\ booking'[c].cancelledBy = "SYSTEM"
        BY <1>1, <1>11 DEF ExpireNext, BookingRow
  <2>2. IsSo(BookingExpired(c))'
        BY <2>1 DEF IsSo, BookingExpired, Notice
  <2>3. StepsOf(AfterExpiry(c, last)) \subseteq
          {Tell({BookingExpired(c)}), Drop(c, Washers)}
        BY StepsOfWrites
  <2> QED BY <1>2, <1>3, <1>11, <2>2, <2>3
<1> QED BY <1>0, <1>4, <1>5, <1>6, <1>7, <1>8, <1>9, <1>10, <1>11, WriteKinds

LEMMA SoInvKept ==
    ASSUME IInv, ReadsStillSo, Apart, NInv, SoInv, [NNext]_allVars
    PROVE  SoInv'
<1>1. [Next]_vars
      BY StepsAreSteps DEF allVars
<1>2. ChoiceOpen'
      BY <1>1, ChoiceOpenKept DEF SoInv
<1>3. \A n \in told : IsSo(n)'
      BY <1>1, IsSoStays DEF SoInv, NInv, NTypeOK
<1>4. \A x \in Steps : StepIsSo(x)'
      BY <1>1, StepIsSoStays, StepsAreTyped DEF SoInv, NInv
<1>5. ASSUME NEW s \in Slots,
             ClientWrite(s) \/ WasherWrite(s)
             \/ \E b \in Bookings : ExpireWrite(s, b)
      PROVE  SoInv'
  <2>1. PICK fs : Adds(fs) /\ \A x \in StepsOf(fs) : StepIsSo(x)'
        BY <1>5, AddedIsSo
  <2>2. Steps' = Steps \cup StepsOf(fs) /\ told' = told
        BY <2>1 DEF Adds
  <2> QED BY <1>2, <1>3, <1>4, <2>1, <2>2 DEF SoInv
<1>6. ASSUME UNCHANGED <<after, lost, told>>
      PROVE  SoInv'
  <2>1. Steps' = Steps
        BY <1>6 DEF Steps
  <2> QED BY <1>2, <1>3, <1>4, <1>6, <2>1 DEF SoInv
<1>7. ASSUME NEW f \in after, FollowUp(f)
      PROVE  SoInv'
  <2>1. UNCHANGED <<booking, offer>> /\ NTypeOK
        BY <1>7, FollowUpDoes DEF vars, NInv
  <2>2. \A n \in told' : IsSo(n)'
    <3>1. \A n \in told' : n \in told \/ \E x \in Steps : n \in x.notices
          BY <1>7, <2>1, FollowUpDoes
    <3> QED BY <1>3, <1>4, <3>1 DEF StepIsSo
  <2>3. ASSUME NEW y \in Steps' PROVE StepIsSo(y)'
    <3>1. CASE y \in Steps
          BY <1>4, <3>1
    <3>2. ASSUME NEW x \in Steps, x.do = "tellChoice", TellsChoice(y, x.on)
          PROVE  StepIsSo(y)'
      <4>1. y.do = "tell" /\ \A n \in y.notices : \/ n = OfferAccepted(x.on)
                                                   \/ \E z \in Losers(x.on) :
                                                        n = OfferRejected(z)
            BY <3>2, StepShapes, HonestSteps DEF TellsChoice
      <4>2. IsSo(OfferAccepted(x.on))'
            BY <2>1, <3>2 DEF SoInv, StepIsSo, IsSo, OfferAccepted, Notice
      <4>3. \A z \in Losers(x.on) : IsSo(OfferRejected(z))'
            BY <2>1 DEF Losers, IsSo, OfferRejected, Notice
      <4> QED BY <4>1, <4>2, <4>3 DEF StepIsSo
    <3> QED BY <1>7, <2>1, <3>1, <3>2, FollowUpDoes
  <2> QED BY <1>2, <2>2, <2>3 DEF SoInv
<1> QED BY <1>5, <1>6, <1>7, NoticeKinds

\* As long as requests do not clash, what a notice says of an offer chosen or
\* rejected, and of a booking paid, expired or cancelled, is so and stays so
\* (NoticesTrue), however late it is sent and whatever was written meanwhile.
THEOREM WhatIsToldIsSo == NSpec /\ []Apart => []NoticesTrue
<1>1. NInit => SoInv
      BY DEF NInit, Init, SoInv, ChoiceOpen, Steps, At, Idle, Req
<1>2. Unclashed /\ NInv /\ SoInv /\ [NNext]_allVars => SoInv'
      BY SoInvKept DEF Unclashed
<1>3. SoInv => NoticesTrue
      BY DEF SoInv, IsSo, NoticesTrue
<1> QED BY <1>1, <1>2, <1>3, NoticesInvariance, NoticesUnclashed, PTL DEF NSpec
-----------------------------------------------------------------------------
(***************************************************************************)
(* Readers that no opening write comes in between: the cached lists.       *)
(***************************************************************************)
\* A booking is not opened to a washer by what moves another status on, adds an
\* offer or closes an open booking.
LEMMA StaysShut ==
    ASSUME IInv,
           \/ \E s \in Slots :
                 \/ CancelWrite(s) \/ ConfirmWrite(s) \/ OfferInsert(s)
                 \/ ChooseWrite(s) \/ ArriveWrite(s) \/ StartWrite(s)
                 \/ CompleteWrite(s) \/ \E b \in Bookings : ExpireNext(s, b)
           \/ \E v \in Vehicles : RemoveVehicle(v)
           \/ \E b \in Bookings : Lapse(b)
           \/ UNCHANGED <<booking, offer>>
    PROVE  \A b \in Bookings : \A w : OpenTo(b, w)' => OpenTo(b, w)
<1> USE ForeignKeys
<1> SUFFICES ASSUME NEW b \in Bookings, NEW w, OpenTo(b, w)' PROVE OpenTo(b, w)
    OBVIOUS
<1>0. booking \in [Bookings -> BookingRow] /\ booking[b] \in BookingRow
      BY Rows
<1>1. ASSUME Choosable(b)' => Choosable(b),
             \A o \in Offers : BookingOf[o] = b /\ LiveOffer(o) /\ Live(b)'
                                  => LiveOffer(o)'
      PROVE  OpenTo(b, w)
      BY <1>1 DEF OpenTo, Choosable, Live, LiveOffer
<1>2. ASSUME NEW x, booking'[x].status # "PENDING",
             \A y \in Bookings : y # x => booking'[y] = booking[y],
             \A o \in Offers : LiveOffer(o) => LiveOffer(o)'
      PROVE  OpenTo(b, w)
  <2>1. CASE x = b
        BY <1>0, <1>2, <2>1 DEF OpenTo, Choosable
  <2>2. CASE x # b
    <3>1. Choosable(b)' => Choosable(b)
          BY <1>0, <1>2, <2>2 DEF Choosable, Live
    <3> QED BY <1>1, <1>2, <3>1
  <2> QED BY <2>1, <2>2
<1>3. ASSUME NEW s \in Slots, NEW x, x = req[s].booking,
             \/ CancelWrite(s) \/ ConfirmWrite(s) \/ ArriveWrite(s)
             \/ StartWrite(s) \/ CompleteWrite(s)
      PROVE  OpenTo(b, w)
  <2>1. offer' = offer
        BY <1>3 DEF CancelWrite, ConfirmWrite, ArriveWrite, StartWrite, CompleteWrite
  <2>2. x \in Bookings /\ booking[x] \in BookingRow
        BY <1>0, <1>3 DEF CancelWrite, ConfirmWrite, ArriveWrite, StartWrite,
           CompleteWrite, At, IInv, RequestsFit, RequestFits
  <2>3. /\ booking'[x].status # "PENDING"
        /\ \A y \in Bookings : y # x => booking'[y] = booking[y]
    <3> USE <1>0, <2>2 DEF BookingRow
    <3>1. CASE CancelWrite(s)
          BY <1>3, <3>1 DEF CancelWrite
    <3>2. CASE ConfirmWrite(s)
          BY <1>3, <3>2 DEF ConfirmWrite, SetStatus
    <3>3. CASE ArriveWrite(s)
          BY <1>3, <3>3 DEF ArriveWrite
    <3>4. CASE StartWrite(s)
          BY <1>3, <3>4 DEF StartWrite
    <3>5. CASE CompleteWrite(s)
          BY <1>3, <3>5 DEF CompleteWrite
    <3> QED BY <1>3, <3>1, <3>2, <3>3, <3>4, <3>5
  <2> QED BY <1>2, <2>1, <2>3 DEF LiveOffer
<1>4. ASSUME NEW s \in Slots, OfferInsert(s)
      PROVE  OpenTo(b, w)
  <2>1. Choosable(b)' = Choosable(b)
        BY <1>4 DEF OfferInsert, Choosable, Live
  <2>2. \A o \in Offers : LiveOffer(o) => LiveOffer(o)'
        BY <1>4, Rows DEF OfferInsert, LiveOffer, OfferStatus
  <2> QED BY <1>1, <2>1, <2>2
<1>5. ASSUME NEW s \in Slots, ChooseWrite(s)
      PROVE  OpenTo(b, w)
  <2>0. PICK x : x = req[s].booking
        OBVIOUS
  <2>1. /\ booking'[x].status # "PENDING"
        /\ \A y \in Bookings : y # x => booking'[y] = booking[y]
    <3>1. x \in Bookings /\ booking[x] \in BookingRow
          BY <1>0, <1>5, <2>0, ForeignKeys
          DEF ChooseWrite, At, IInv, RequestsFit, RequestFits
    <3> QED BY <1>0, <1>5, <2>0, <3>1 DEF ChooseWrite, Assigned, BookingRow
  <2>2. \A o \in Offers : LiveOffer(o) => LiveOffer(o)'
        BY <1>5 DEF ChooseWrite, StatusOnceChosen, LiveOffer, OfferStatus
  <2> QED BY <1>2, <2>1, <2>2
<1>6. ASSUME NEW s \in Slots, NEW x \in Bookings, ExpireNext(s, x)
      PROVE  OpenTo(b, w)
  <2>1. /\ booking'[x].status # "PENDING"
        /\ \A y \in Bookings : y # x => booking'[y] = booking[y]
    <3>1. booking[x] \in BookingRow
          BY <1>0
    <3> QED BY <1>0, <1>6, <3>1 DEF ExpireNext, BookingRow
  <2>2. \A o \in Offers : LiveOffer(o) => LiveOffer(o)'
        BY <1>6 DEF ExpireNext, LiveOffer, OfferStatus
  <2> QED BY <1>2, <2>1, <2>2
<1>7. ASSUME NEW v \in Vehicles, RemoveVehicle(v)
      PROVE  OpenTo(b, w)
  <2>1. Live(b)' => VehicleOf[b] # v
        BY <1>0, <1>7 DEF RemoveVehicle, Live, BookingRow
  <2>2. Choosable(b)' => Choosable(b)
        BY <1>7, <2>1 DEF RemoveVehicle, Choosable, Live
  <2>3. \A o \in Offers : BookingOf[o] = b /\ LiveOffer(o) /\ Live(b)' => LiveOffer(o)'
        BY <1>7, <2>1 DEF RemoveVehicle, LiveOffer
  <2> QED BY <1>1, <2>2, <2>3
<1>8. ASSUME NEW x \in Bookings, Lapse(x)
      PROVE  OpenTo(b, w)
  <2>1. Choosable(b)' => Choosable(b)
        BY <1>0, <1>8 DEF Lapse, Choosable, Live, BookingRow
  <2>2. offer' = offer
        BY <1>8 DEF Lapse
  <2> QED BY <1>1, <2>1, <2>2 DEF LiveOffer
<1>9. CASE UNCHANGED <<booking, offer>>
      BY <1>9 DEF OpenTo, Choosable, Live, LiveOffer
<1> QED BY <1>3, <1>4, <1>5, <1>6, <1>7, <1>8, <1>9

\* A drop for w is to come or failed.
WillDrop(w) == \E x \in Steps : x.do = "drop" /\ w \in x.who

\* What a reader found has all that is open to its washer: nothing is opened
\* before it is stored.
ReadersFound ==
    \A s \in Slots : reading[s] # None =>
        \A b \in Bookings : OpenTo(b, reading[s].washer) => b \in reading[s].found

ListsInv == ListsComplete /\ ReadersFound

\* Nothing is opened, and no list is stored.
LEMMA ListsStay ==
    ASSUME ListsComplete, Steps \subseteq Steps',
           \A w \in Washers : list'[w] \in {list[w], None},
           \A b \in Bookings : \A w : OpenTo(b, w)' => OpenTo(b, w)
    PROVE  ListsComplete'
BY DEF ListsComplete

\* Nor does a reader come to lack a booking.
LEMMA ReadersStay ==
    ASSUME ReadersFound, reading' = reading,
           \A b \in Bookings : \A w : OpenTo(b, w)' => OpenTo(b, w)
    PROVE  ReadersFound'
BY DEF ReadersFound

LEMMA WritesList ==
    ASSUME IInv, ReadersApart, ListsInv, NEW s \in Slots,
           ClientWrite(s) \/ WasherWrite(s)
           \/ \E b \in Bookings : ExpireWrite(s, b)
    PROVE  ListsInv'
<1>1. PICK fs : Adds(fs)
      BY WriteKinds
\* A write that opens a booking finds no reader, and drops every list.
<1>2. ASSUME req[s].at \in Opening PROVE ReadersFound'
      BY <1>1, <1>2 DEF Adds, ReadersApart, ReadersFound
<1>3. ASSUME NEW b, Drop(b, Washers) \in Steps', req[s].at \in Opening
      PROVE  ListsInv'
      BY <1>2, <1>3, StepShapes DEF ListsComplete, ListsInv
<1>4. ASSUME NEW b, CreateInsert(s), Adds(AfterCreate(b))
      PROVE  ListsInv'
  <2>1. StepsOf(AfterCreate(b)) = {Drop(b, Washers)}
        BY StepsOfWrites
  <2>2. req[s].at \in Opening
        BY <1>4 DEF CreateInsert, At, Opening
  <2> QED BY <1>3, <1>4, <2>1, <2>2 DEF Adds
<1>5. ASSUME NEW b, NEW o, WithdrawWrite(s), Adds(AfterWithdraw(b, o))
      PROVE  ListsInv'
  <2>1. StepsOf(AfterWithdraw(b, o)) =
          {Drop(b, Washers), Tell({BookingCancelledByWasher(b, o)})}
        BY StepsOfWrites
  <2>2. req[s].at \in Opening
        BY <1>5 DEF WithdrawWrite, At, Opening
  <2> QED BY <1>3, <1>5, <2>1, <2>2 DEF Adds
<1>6. ASSUME \A b \in Bookings : \A w : OpenTo(b, w)' => OpenTo(b, w)
      PROVE  ListsInv'
      BY <1>1, <1>6, ListsStay, ReadersStay DEF Adds, ListsInv
<1>7. CASE \/ CancelWrite(s) \/ ConfirmWrite(s) \/ OfferInsert(s)
           \/ ChooseWrite(s) \/ ArriveWrite(s) \/ StartWrite(s)
           \/ CompleteWrite(s) \/ \E b \in Bookings : ExpireNext(s, b)
      BY <1>6, <1>7, StaysShut
<1> QED BY <1>4, <1>5, <1>7, WriteKinds

LEMMA ListsInvKept ==
    ASSUME IInv, ReadersApart, NTypeOK, ListsInv, [NNext]_allVars
    PROVE  ListsInv'
<1>1. ASSUME NEW s \in Slots,
             ClientWrite(s) \/ WasherWrite(s)
             \/ \E b \in Bookings : ExpireWrite(s, b)
      PROVE  ListsInv'
      BY <1>1, WritesList
<1>2. ASSUME NEW s \in Slots, SilentStep(s)
      PROVE  ListsInv'
  <2>1. UNCHANGED noticeVars /\ reading[s] = None /\ UNCHANGED <<booking, offer>>
        BY <1>2 DEF SilentStep, tables, Begin, GoOn, CreateCheck,
           CancelRead, ConfirmRead, ArriveRead, StartRead, CompleteRead,
           WithdrawRead, WasherRead, ChooseBooking, OfferProfile, OnlineRead,
           AvailabilityRead, ChooseOffer, OfferBooking, OnlineWrite,
           AvailabilityWrite, SetAvailability, AdminStep, ApproveRead, RejectRead,
           RetryRead, ApproveWrite, RejectWrite, RetryWrite, DismissWrite,
           ExpireList, Abort
  <2>2. Steps' = Steps /\ list' = list /\ reading' = reading
        BY <2>1 DEF noticeVars, Steps
  <2>3. ReadersFound'
        BY <2>1, <2>2, StaysShut, ReadersStay DEF ListsInv
  <2>4. ListsComplete'
        BY <2>1, <2>2, StaysShut, ListsStay DEF ListsInv
  <2> QED BY <2>3, <2>4 DEF ListsInv
<1>3. ASSUME UNCHANGED noticeVars,
             \A b \in Bookings : \A w : OpenTo(b, w)' => OpenTo(b, w)
      PROVE  ListsInv'
  <2>1. Steps' = Steps /\ list' = list /\ reading' = reading
        BY <1>3 DEF noticeVars, Steps
  <2>2. ReadersFound'
        BY <1>3, <2>1, ReadersStay DEF ListsInv
  <2>3. ListsComplete'
        BY <1>3, <2>1, ListsStay DEF ListsInv
  <2> QED BY <2>2, <2>3 DEF ListsInv
<1>4. CASE Elsewhere
  <2>1. UNCHANGED noticeVars
        BY <1>4 DEF Elsewhere
  <2>2. \A b \in Bookings : \A w : OpenTo(b, w)' => OpenTo(b, w)
        BY <1>4, StaysShut DEF Elsewhere, UpdateLocation
  <2> QED BY <1>3, <2>1, <2>2
<1>5. ASSUME NEW f \in after, FollowUp(f)
      PROVE  ListsInv'
  <2>1. UNCHANGED <<booking, offer, reading>>
        BY <1>5, FollowUpDoes DEF vars
  <2>2. \A b, w : OpenTo(b, w)' = OpenTo(b, w)
        BY <2>1 DEF OpenTo, Choosable, Live, LiveOffer
  <2>3. ReadersFound'
        BY <2>1, <2>2, ReadersStay DEF ListsInv
  <2>4. ASSUME NEW w \in Washers, list'[w] # None, NEW b \in Bookings,
               OpenTo(b, w)', b \notin list'[w]
        PROVE  WillDrop(w)'
    <3>1. list'[w] = list[w]
          BY <1>5, <2>4, FollowUpDoes
    <3>2. PICK x \in Steps : x.do = "drop" /\ w \in x.who
          BY <2>2, <2>4, <3>1 DEF ListsInv, ListsComplete
    <3>3. ~ Did(x)
          BY <2>4, <3>2 DEF Did
    <3> QED BY <1>5, <3>2, <3>3, FollowUpDoes DEF WillDrop
  <2>5. ListsComplete'
        BY <2>4 DEF ListsComplete, WillDrop
  <2> QED BY <2>3, <2>5 DEF ListsInv
<1>6. ASSUME UNCHANGED <<vars, after, lost>>
      PROVE  /\ \A b, w : OpenTo(b, w)' = OpenTo(b, w)
             /\ Steps' = Steps
      BY <1>6 DEF OpenTo, Choosable, Live, LiveOffer, vars, Steps
<1>7. ASSUME NEW s \in Slots, NEW w \in Washers, QueryList(s, w)
      PROVE  ListsInv'
  <2>1. /\ \A b, x : OpenTo(b, x)' = OpenTo(b, x)
        /\ Steps' = Steps
        BY <1>6, <1>7 DEF QueryList
  <2>2. ListsComplete'
        BY <1>7, <2>1, ListsStay DEF QueryList, ListsInv
  <2>3. /\ reading'[s].washer = w
        /\ \A b \in Bookings : OpenTo(b, w) => b \in reading'[s].found
        /\ \A t \in Slots \ {s} : reading'[t] = reading[t]
        BY <1>7 DEF QueryList, NTypeOK
  <2>4. ReadersFound'
        BY <2>1, <2>3 DEF ReadersFound, ListsInv
  <2> QED BY <2>2, <2>4 DEF ListsInv
<1>8. ASSUME NEW s \in Slots, StoreList(s)
      PROVE  ListsInv'
  <2>1. /\ \A b, x : OpenTo(b, x)' = OpenTo(b, x)
        /\ Steps' = Steps
        BY <1>6, <1>8 DEF StoreList
  <2>2. ASSUME NEW w \in Washers, list'[w] # None, NEW b \in Bookings,
               OpenTo(b, w)', b \notin list'[w]
        PROVE  WillDrop(w)'
    <3>1. CASE w = reading[s].washer
      <4>1. list'[w] = reading[s].found
            BY <1>8, <3>1 DEF StoreList, NTypeOK
      <4>2. b \in reading[s].found
            BY <1>8, <2>1, <2>2, <3>1 DEF StoreList, ListsInv, ReadersFound
      <4> QED BY <2>2, <4>1, <4>2
    <3>2. CASE w # reading[s].washer
      <4>1. list'[w] = list[w]
            BY <1>8, <3>2 DEF StoreList, NTypeOK
      <4> QED BY <2>1, <2>2, <4>1 DEF ListsInv, ListsComplete, WillDrop
    <3> QED BY <3>1, <3>2
  <2>3. ListsComplete'
        BY <2>2 DEF ListsComplete, WillDrop
  <2>4. reading'[s] = None /\ \A t \in Slots \ {s} : reading'[t] = reading[t]
        BY <1>8 DEF StoreList, NTypeOK
  <2> QED BY <2>1, <2>3, <2>4 DEF ListsInv, ReadersFound
<1>9. ASSUME NEW w \in Washers, ListExpires(w)
      PROVE  ListsInv'
  <2>1. /\ \A b, x : OpenTo(b, x)' = OpenTo(b, x)
        /\ Steps' = Steps
        BY <1>6, <1>9 DEF ListExpires
  <2>2. \A x \in Washers : list'[x] \in {list[x], None}
        BY <1>9 DEF ListExpires, NTypeOK
  <2>3. ListsComplete'
        BY <2>1, <2>2, ListsStay DEF ListsInv
  <2>4. ReadersFound'
        BY <1>9, <2>1, ReadersStay DEF ListExpires, ListsInv
  <2> QED BY <2>3, <2>4 DEF ListsInv
<1>10. CASE UNCHANGED allVars
  <2>1. \A b \in Bookings : \A w : OpenTo(b, w)' => OpenTo(b, w)
        BY <1>10 DEF allVars, vars, OpenTo, Choosable, Live, LiveOffer
  <2> QED BY <1>3, <1>10, <2>1 DEF allVars, vars
<1> QED BY <1>1, <1>2, <1>4, <1>5, <1>7, <1>8, <1>9, <1>10 DEF NNext

\* However requests and follow-ups overlap, as long as no booking is opened between
\* the query of a list and its being stored, a cached list misses no booking open
\* to its washer, unless the call that drops the list is to come or failed
\* (ListsComplete).
THEOREM ListsMissNothing == NSpec /\ []ReadersApart => []ListsComplete
<1>1. NInit => ListsInv
      BY DEF NInit, ListsInv, ListsComplete, ReadersFound
<1>2. IInv /\ NInv /\ ReadersApart /\ ListsInv /\ [NNext]_allVars => ListsInv'
      BY ListsInvKept DEF NInv
<1>3. ListsInv => ListsComplete
      BY DEF ListsInv
<1> QED BY <1>1, <1>2, <1>3, NoticesInvariance, NoticesImplementMarketplace,
           Invariance, PTL DEF NSpec

\* The specification TLC runs allows exactly what these theorems are about.
LEMMA ApartIsUnclashing == NApartSpec => NSpec /\ []Apart /\ []ReadersApart
<1>1. NInit => Apart /\ ReadersApart
      BY DEF NInit, Init, Apart, Clash, Idle, Req, Moving, ReadersApart
<1>2. /\ Apart /\ UNCHANGED allVars => Apart'
      /\ ReadersApart /\ UNCHANGED allVars => ReadersApart'
      BY DEF allVars, vars, noticeVars, Apart, Clash, ClientOf, Concerned,
             ReadersApart
<1>3. [NNext /\ Apart' /\ ReadersApart']_allVars
        => /\ [NNext]_allVars
           /\ Apart' \/ UNCHANGED allVars
           /\ ReadersApart' \/ UNCHANGED allVars
      OBVIOUS
<1> QED BY <1>1, <1>2, <1>3, PTL DEF NApartSpec, NSpec

\* A reader's slot has no other request.
Alone == \A s \in Slots : reading[s] # None => At(s, "idle")

LEMMA AloneKept ==
    ASSUME OneSlot, IInv, NTypeOK, Alone, [NNext]_allVars
    PROVE  Alone'
<1>1. ASSUME NEW s \in Slots,
             ClientWrite(s) \/ WasherWrite(s)
             \/ \E b \in Bookings : ExpireWrite(s, b)
      PROVE  Alone'
  <2>1. ~ At(s, "idle")
        BY <1>1, WriteKinds DEF CreateInsert, CancelWrite, ConfirmWrite,
           ChooseWrite, OfferInsert, ArriveWrite, StartWrite, CompleteWrite,
           WithdrawWrite, ExpireNext, At
  <2>2. reading' = reading
        BY <1>1, WriteKinds DEF Adds
  <2> QED BY <2>1, <2>2 DEF OneSlot, Alone
<1>2. ASSUME NEW s \in Slots, SilentStep(s)
      PROVE  Alone'
      BY <1>2 DEF SilentStep, noticeVars, OneSlot, Alone
<1>3. ASSUME req' = req, reading' = reading
      PROVE  Alone'
      BY <1>3 DEF Alone, At
<1>4. CASE Elsewhere \/ UNCHANGED allVars
      BY <1>3, <1>4 DEF Elsewhere, UpdateLocation, RemoveVehicle, Lapse, noticeVars,
         allVars, vars
<1>5. ASSUME NEW f \in after, FollowUp(f)
      PROVE  Alone'
      BY <1>3, <1>5, FollowUpDoes DEF vars
<1>6. ASSUME NEW w \in Washers, ListExpires(w)
      PROVE  Alone'
      BY <1>3, <1>6 DEF ListExpires, vars
<1>7. ASSUME NEW s \in Slots, NEW w \in Washers, QueryList(s, w)
      PROVE  Alone'
      BY <1>7 DEF QueryList, vars, OneSlot, Alone, At
<1>8. ASSUME NEW s \in Slots, StoreList(s)
      PROVE  Alone'
      BY <1>8 DEF StoreList, NTypeOK, OneSlot, Alone
<1> QED BY <1>1, <1>2, <1>4, <1>5, <1>6, <1>7, <1>8 DEF NNext

\* With one slot a reader's slot takes no other request, and nothing clashes.
THEOREM OneSlotReadersApart ==
    ASSUME OneSlot PROVE NSpec => []Apart /\ []ReadersApart
<1>1. NInit => Alone
      BY DEF NInit, Alone
<1>2. IInv /\ NInv /\ Alone /\ [NNext]_allVars => Alone'
      BY AloneKept DEF NInv
<1>3. Apart /\ (Alone => ReadersApart)
      BY DEF OneSlot, Apart, Alone, ReadersApart, At, Opening
<1> QED BY <1>1, <1>2, <1>3, NoticesInvariance, NoticesImplementMarketplace,
           Invariance, PTL DEF NSpec
=============================================================================
