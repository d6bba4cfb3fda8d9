# WashGo backend: models and proofs

TLA+ models of the WashGo backend (NestJS, Prisma on PostgreSQL, BullMQ and a
cache on Redis), the TLC runs that check them and the theorems TLAPS proves
about them.  Paths are those of the repository (`src/src/...` is the code of
the service, `src/prisma/schema.prisma` its tables).

## The system

A client asks for its vehicle to be washed, washers nearby offer a price, the
client chooses an offer, the washer comes, washes and reports, the client
confirms and gives a score.

| Component | State | Operations | Talks to |
|---|---|---|---|
| Bookings (`bookings.service.ts`) | `Booking` rows | create, cancelByClient, confirmCompletion | washer profiles, notifications, cache |
| Offers (`offers.service.ts`) | `WasherOffer` rows | makeOffer, chooseOffer, expireStaleBookings | bookings, washer profiles, notifications, cache |
| Washer (`washer.service.ts`) | `WasherProfile` rows | goOnline, updateAvailability, updateLocation, markArrived, startWash, completeWash, cancelByWasher, updateCinPhoto | bookings, offers, notifications, cache |
| Admin (`admin.service.ts`) | verification of profiles, `CarouselSlide` rows | approve, reject, retry; create, update, delete of slides | notifications, cache, carousel gateway |
| Carousel (`carousel.service.ts`, `carousel.gateway.ts`) | sockets of the applications | getActiveSlides, emitCarouselUpdate | the client application |
| Vehicles (`vehicles.service.ts`) | `Vehicle` rows | create, update, remove (cascades) | bookings, offers, ratings |
| Ratings (`ratings.service.ts`) | `Rating` rows, `avgRating` | rateBooking | bookings, washer profiles |
| Auth, Infobip (`auth.service.ts`, `infobip.service.ts`) | `User`, `OtpCode` rows | sendOtp, verifyOtp, registerClient, registerWasher, resetPassword, login | SMS provider |
| User (`user.service.ts`) | `User` rows | changePassword, updateProfile, push token | |
| Notifications (`notifications.service.ts`, `.processor.ts`) | jobs in Redis | enqueue, sendNow, checkReceipt | Expo, users' push token |
| Cache (`cache.service.ts`, `jwt.strategy.ts`) | entries in Redis or a Map | get, set, del, delPattern | the services that read through it |

What makes it hard:

- **Every handler awaits between its queries**, nothing locks what it reads, and
  most writes are `update({ where: { id } })`, unconditional.  What a handler
  checked may be false when it writes.  `TimeoutInterceptor` answers 408 after
  15 s and lets the handler go on, so even one careful user has requests that
  overlap: the repetition and the original.
- **Several tables say the same thing**: who works on what is in
  `Booking.washerId`, in `WasherOffer.status` and in `WasherProfile.status`.
- **Cascading deletes** remove bookings in progress.
- **Work after the commit**: invalidations, notifications, events and receipts
  are often not awaited, read the tables again, fail, come late and are retried.

`PROJECT.json` lists under `hazards` every such place with the properties that
watch it.

## Modules

| Module | What it is |
|---|---|
| `BookingLifecycle` | abstract: the life one booking may have and who holds it |
| `Marketplace` | bookings, offers, washers, verification, removal of vehicles |
| `MCMarketplace` | its small instances |
| `MarketplaceProofs` | its inductive invariant and theorems |
| `Notices`, `MCNotices`, `NoticesProofs` | extends `Marketplace`: the notices and invalidations that follow its commits, and the cached lists of available bookings |
| `Ratings`, `MCRatings`, `RatingsProofs` | the rating transaction and the average |
| `Garage`, `MCGarage`, `GarageProofs` | vehicles and their plates |
| `Carousel`, `MCCarousel`, `CarouselProofs` | slides, the event after each write, and an application that follows it |
| `Accounts`, `MCAccounts`, `AccountsProofs` | codes by SMS, registrations, passwords |
| `Notifications`, `NotificationsProofs` | jobs, workers, pushes, receipts, the push token |
| `ReadThrough`, `ReadThroughProofs` | one cached key, its readers and its invalidations |

`Marketplace` instantiates `BookingLifecycle` once per booking, with a refinement
mapping.  `Notices` composes `Marketplace` with the work that its writes leave to
do, and implements it: every step of `Notices` is one of `Marketplace` or leaves
its tables alone (proved).  The other modules share no table with each other that
one writes and another's properties read, except where noted below, and are
checked apart.

### From handlers to actions

The same convention everywhere.  A request in flight is a record in `req[s]`,
`s` a slot; its field `at` is the query it awaits next, the rest are the locals
it still needs.  `FooRead` is the first query with the checks after it, later
reads and `FooWrite` follow.  One query is one action.  One
`$transaction([...])` is one action too: other requests see all of it or nothing
(and where row locks would make two batches wait for each other, the database
fails one of them, which is `Abort`).  An interactive `$transaction(async tx)`
is a read and a write: under Read Committed, PostgreSQL's default, its `SELECT`
holds nothing.  `Abort` ends a request anywhere, for every check that throws,
every query that is refused and the death of the process: a request in flight
is then gone, what it committed stays.  A failing *first* check is not an
action, as it changes nothing.

`Marketplace`.  Ids are pools of constants with their foreign keys; a row enters
its table once and is never reused.  `acceptedAt` is set and cleared with
`washerId` and folded into it, `isVerified` is set with `verificationStatus`
and folded into it, the timestamps are Booleans, `lapsed` is whether `expiresAt`
has passed.  The price is the offer it was copied from, `None` for the suggested
one.  The offer and the washer that `chooseOffer` reads with one `include` are
one action.  In `makeOffer` the look-up of an earlier offer is folded into the
insert, which the unique index guards anyway.  `updateLocation` also stores an
estimated time of arrival that nothing reads but the display; it is left out.
What a handler does after its last write is in `Notices`.

`Notices`.  Each write of `Marketplace` is joined with the follow-up it starts: a
sequence of steps, in the order of the code, that go on by themselves while other
requests run, since neither `create` nor `notifyClient` is awaited and most
enqueueing is not either.  `AfterCreate`, `AfterCancel`, ... give the sequence of
each handler, what it captured before the commit included (`washerIdToNotify`).
A step drops lists (`DropLists`), enqueues (`TellNow`), enqueues if the booking
is still found (`TellOfLive`), or reads the rejected offers as they are by then
(`LookForLosers`).  A step whose failure the code catches may be skipped
(`Refused`); a query that throws, or the death of the process, ends the follow-up
(`Dies`).  A notice is its type, its addressee and what it is about; `told` is
what the queue was given, and what happens to it there is in `Notifications`.
`getAvailableBookings` is `QueryList` and `StoreList`, on a slot of its own;
distance is left out, so a washer sees every booking open to it.

`Garage`.  A plate is what was typed (`Spellings`) and compared by what it
stands for (`Normal`); the check and the write are two actions.  Vehicles may be
removed and registered again.  An owner is the only one who can name its vehicle,
so owners restrict nothing and are left out.

`Carousel`.  A row is what it looks like and whether it is active.  After a write
the handler emits, in an action of its own; the event reaches some of the
sockets, none when the process died first.  The application is outside the
repository: it asks when it starts and when an event comes, one question at a
time, and shows the answer.  The administrator's forms give each field or leave
it out (`Change`).

`Ratings`.  `avgRating` is kept as the *set of bookings* whose scores it
averages, which tells more than the number: a missing, foreign or rolled-back
score shows even if it does not change the mean.  The aggregate sees what is
committed and its own insert.  An uncommitted insert blocks another insert for
the same booking (unique index) and the deletion of the booking (foreign key).
The update of the profile and the commit are one action.

`Accounts`.  Rows of `OtpCode` are numbered in the order of creation.  Codes are
taken to be different, and a user to submit only codes delivered to it.  `age`
abstracts time: fresh until `expiresAt`, then expired, then so old that no one
would call its verification recent.  Accounts and passwords remember the code
they came from.  Emails, profiles, photographs and hashing can only make a
request fail (`Abort`).

`Notifications`.  One user with several devices.  BullMQ, Expo and the devices
are external and modelled by how the code uses them: a job that throws runs
again until three attempts are made; Expo may accept, refuse, or fail with the
message sent or not.  A worker holds a lock on its job.  When the lock runs out the
queue puts the job back, once (`maxStalledCount`'s default), and fails it the
second time, whether the worker is dead (`Crash`) or only slow (`Stall`): a slow
one goes on beside the retry, pushes, adds its receipt and erases tokens, and the
queue ignores what it reports (`Reports`).  That the lock runs out and that the
queue notices are one action; in between nobody else could have taken the job.  A
receipt has one attempt; only a lost lock makes it be checked again.

`ReadThrough`.  The data is a version number.  `Found` is what `get` would find
(Redis when there is a connection, the Map otherwise), `Change` a committed write
that is going to be followed by `Delete`, in one request, and `announced` the last
of these.  `SilentChange` is a change nothing follows: `cancelByClient`, the removal
of a vehicle with its bookings, a new position, `updateProfile`, the passing of
`expiresAt`.  `Restart` is the death
of the process: the Map is empty, what requests still had to store or delete is
forgotten, what Redis holds stays.  Readers are
`getAvailableBookings` and `JwtStrategy.validate`, writers every handler that
calls `del` or `delPattern`.

## What the runs check

Passing runs; each property has a mutant in `PROJECT.json`, a plausible bug that
breaks it.

| Run | Bounds | Shows |
|---|---|---|
| `MCOverlap` | 1 booking, 2 washers, 3 offers, 2 slots | a booking keeps the accepted offer behind its washer (`AssignmentBacked`), is open or assigned (`OpenXorAssigned`), has its milestones in order and for good (`MilestonesInOrder`, `MilestonesKept`) and a price somebody offered (`PriceAgreedBeforeWork`), whatever stale reads overlap; also the inductive invariant `IInv` |
| `MCSerial` | 2 clients, 3 bookings, 2 washers, 3 offers, 2 slots without a clash | handlers implement `BookingLifecycle`; one active booking per client; one winning offer; nobody holds two jobs, who holds one is BUSY, who is BUSY holds one or had it removed; `totalBookings` is right |
| `MCAllOps` | every operation, 1 booking, 2 washers, one of them not yet approved, 2 slots without a clash over a booking or a profile | what a handler checked of rows that still exist is so when it writes (`ChecksStillSo`); a washer on a job stays BUSY until it ends, but for going AVAILABLE and a second approval (`BusyUntilDone`) |
| `AfterCommit` | 1 booking, 2 washers, 2 offers, 1 slot beside the follow-ups, 1 more follow-up under way when another is started (`MaxPending`), 1 failure (`MaxLost`) | whoever is concerned by what became of a booking or an offer is told, is about to be, or a failure kept it from them (`StatusTold`, `OffersTold`); what they are told is so (`ProgressTrue`, `NoticesTrue`); no cached list hides an open booking without an invalidation to come (`ListsComplete`) |
| `RatesOverlap` | 4 bookings, 2 washers, 2 scores, 2 slots | scores stand; averages count only committed ratings of that washer |
| `AccountRaces` | 2 phones, 3 codes, 2 slots | a verified code serves once, for its phone and its purpose; an account is never replaced |
| `NotesSettled` | 1 notification, 2 workers, 2 tokens | a bounded number of pushes, although a slow worker goes on beside its retry, no early giving up, and every notification is settled |
| `CacheFaults` | 2 slots, 3 changes, announced or silent, every fault | what is stale ends once changes stop (`StaleEnds`); not how soon, as a late `set` can renew it |
| `PlatesShared` | 4 vehicles, 2 plates in 3 spellings, 2 slots | no more vehicles share a plate than requests overlap (`SharersBounded`) |
| `SlidesShown` | 2 slides, 2 looks, 2 slots, 1 application | an old screen has an event to come, or missed the last one (`OldScreensAreTold`) |

Why the bounds are enough to see something.  Two slots give every interleaving
of two handlers at every pair of queries, and the hazards found need no third.
Three offers on one booking, two of one washer, let a booking be withdrawn and
chosen again by the same and by the other washer.  In `MCSerial`, two bookings
of one client let the second exist while the first is over, and the booking of
the other client lets both want one washer; that is where two choices would meet
in the washer and not in the booking.  Three codes are the two purposes
and one that supersedes another or is for the other phone.  Four bookings are
two ratings of one washer, one of another and one without a washer.  A
notification meets others only in the token, which the user may change at any
moment; two workers are enough for one to take what the other still has.  The
cache needs one change to be stale and a second to be stale again.  In
`AfterCommit` a booking goes through several rounds of offers, choices and
withdrawals while the follow-ups of earlier ones are still to do; one of them in
the way of another is every order of two.  Two slots bring two vehicles to a
plate, and two more vehicles could join them; the second spelling is what a
comparison without normalisation would miss.  Applications do not meet, so one
is enough.

`CHECK_DEADLOCK FALSE` appears where the bounded system comes to rest: all
notifications are settled and all tokens dead, all bookings rated or removed.

Restrictions, with their reason.  `MCSerial` leaves out `updateAvailability` and
the operations of the administrator: each resets the status of a washer on a
job, which is what `VOffline` shows; `MCAllOps` has them and does not ask
`OneJobPerBusyWasher`.

`MCSerial` runs under `ApartSpec`, in which requests overlap but do not *clash*.
There are three clashes over bookings and availability (`Clash`), each of a request
that relies on something with one that may write it:

1. two `create` of one client, between their check and their insert
   (`VTwoActive`);
2. two requests past their check of a booking's status, of which one moves it
   (`VLateCancel`, `VNoWasher`);
3. `chooseOffer`, past its check of the washer, with another choice of that washer
   or with what else resets its availability (`VDoubleJob`).

The code lets all three happen, and the configurations in brackets show what
comes of it, so none of them can be left out; a row lock taken with the read (of
the client, of the booking, of the profile) would prevent each.  Everything else
overlaps freely, positions, removals, expiry, other washers and other clients.

Those are the checks the life of a booking depends on (`ReadsStillSo`).  The rest
are about a profile, and there the code lets more go stale (`ProfileClash`), each
time two requests about one washer:

1. past its check of `isVerified` (`makeOffer`, `goOnline`, `updateAvailability`),
   while an administrator is about to reject it or to put it on RETRY;
2. `makeOffer`, past its check that the washer is not OFFLINE, while
   `updateAvailability` is about to make it so, or an approval;
3. two approvals;
4. a rejection or a retry, past its check of the verification, and a rejection.

Under `FullyApartSpec` neither kind of clash happens, and then every check of rows
that still exist holds until the write (`ChecksStillSo`).  Three checks are not
meant: that `expiresAt` has not passed, as time passes whatever requests do, and
those that the database makes again with the insert, of the vehicle in `create` and
of an earlier offer in `makeOffer`.  `MCAllOps` cuts the clashing steps off `Spec`
with an action constraint (`NoClash`), which lets TLC count every action on its
own.  One request at a time is a special case of both (`OneSlotIsApart`).

`AfterCommit` has one slot, in which a request is a request or a washer reading
its list, beside all the follow-ups.  That is a case of what is proved about any
number of slots without a clash (`OneSlotReadersApart`), and `AfterCommitApart`
has two.  It cannot do without: when a choice comes between the read and the
write of `cancelByClient`, the washer it captured is not the one who loses the
job, and nobody tells the latter.  `NInv`, `ProgressTrue` and `OffersTold` need
no restriction and are proved for any overlap.  Some silences are in the
code and not asked about: a washer is told nothing when the vehicle of its
booking is removed, nobody is invited when a booking is reopened
(`BOOKING_REOPENED` is never sent), and `cancelByClient` leaves the cancelled
booking in the cached lists.

### Where the code disagrees with what it says

Each is a run in which TLC finds the sentence violated.

| Run | Module | Sentence (of a message or comment) | What happens |
|---|---|---|---|
| `VDoubleJob` | `MCMarketplace` | a washer no longer available is not given | two clients choose it at once |
| `VLiveToken` | `Notifications` | a receipt reveals a dead token | the token of the new device is erased |

### Further configurations

These are kept beside the runs of `PROJECT.json` and started by hand
(`tlc -config VOffline.cfg MCMarketplace`).  Violated:

| Configuration | Module | Sentence | What happens |
|---|---|---|---|
| `VOffline` | `MCMarketplace` | one cannot disconnect during a booking | AVAILABLE first, then OFFLINE |
| `VApproved` | `MCMarketplace` | the same | put on RETRY and approved again, which resets the status |
| `VBusy` | `MCMarketplace` | BUSY means a booking in progress | the vehicle was deleted |
| `VLateCancel` | `MCMarketplace` | no cancellation at a later stage | the washer arrives between check and write |
| `VTwoActive` | `MCMarketplace` | one booking in progress | two creates at once |
| `VStale` | `MCMarketplace` | expiry is called periodically | nothing calls it |
| `VLateCode` | `MCAccounts` | the code was verified recently | any verified code will do |
| `VLostSms` | `MCAccounts` | the code expires in 5 minutes | one that never arrived replaces it |
| `VStalePassword` | `MCAccounts` | the current password is required | it was reset between check and write |
| `VVerified` | `MCMarketplace` | the profile must be verified to take orders | rejected after the offer, chosen nevertheless |
| `VNoWasher` | `MCMarketplace` | a withdrawn booking is open again | a late markArrived makes it ARRIVED, with no washer |
| `VRatingLost` | `MCRatings` | the average is over all ratings | two ratings at once |
| `VStaleEntry` | `ReadThrough` | a new booking clears the lists | a list read before is stored after |
| `VUnannounced` | `ReadThrough` | what is served is up to date | a change that invalidates nothing, of a single request |

Passing: the same sentences, when what the configuration above shows is kept out.

| Configuration | Module | What is kept out | Then |
|---|---|---|---|
| `AfterCommitApart` | `MCNotices` | clashes before the commits; 2 slots | as `AfterCommit` |
| `RatesApart` | `MCRatings` | two averages of one washer calculated at once | the average counts every rating |
| `RatesAlone` | `MCRatings` | that, and removals | the average is exact |
| `PlatesApart` | `MCGarage` | two requests with one plate checked and not written | plates are unique |
| `PasswordsApart` | `MCAccounts` | another write between the comparison and the write | the password compared is the one replaced |
| `SmsDelivered` | `MCAccounts` | messages that fail | the last code delivered is expected |
| `TokensApart` | `Notifications` | another token registered before the erasure | no live token is erased |
| `CacheApart` | `ReadThrough` | announced changes between query and set; faults | nothing older than the last announced change is served |

### Fairness

Users promise nothing: no fairness on what they send.  `Marketplace!FairSpec`:
a request in flight goes on or fails (a Node process schedules every promise
that resolves).  `Notifications!FairSpec`: each worker goes on as long as it has
or can take something, which is what a BullMQ worker does; crashes and stalls are not
fair, and the queue's own limit bounds what they undo.  `ReadThrough!FairSpec`: time
passes.

## What is proved

`MarketplaceProofs`, for all finite or infinite sets of clients, vehicles,
bookings, washers, offers and slots and any choice of operations, from the
assumptions `ForeignKeys`, `NullIsNoId` and `Environment`: `Spec => []IInv`, and
from it the theorems `TypeCorrect`, `AssignmentIsBacked`, `OpenOrAssigned`,
`MilestonesOrdered`, `WorkIsPriced` and the action property `MilestonesStay`.
The listed properties are not inductive alone: a write acts on what its request
read long ago.  `IInv` adds what still holds of that memory (`RequestsFit`: the
washer of a `chooseOffer` is the offer's; the booking of a `startWrite` has been
arrived at, since milestones stay; nothing about its status, which may have
changed), and that a row not inserted yet has left no trace (`UnbornIsBlank`).
The proof groups the actions by what they write: reads and `Abort` (requests
only), profile writes, writes of one booking, and the five that write several
tables, each with a lemma of its own.

Its second half is about any number of requests that do not clash (`ApartSpec`;
`UnclashingIsApart`: these are the behaviours of `Spec` in which `Apart` always
holds).  `ReadsStillSo` is inductive then: what each request in flight has read of
bookings and availability is still so when it writes.  A step of one request spares what
another relies on, or the two would clash in the state before or after it; so
there is one lemma about the steps that write what is checked, and one about each
kind of reader (`Spared`, `ReadsStay`).  Hence each write finds what its handler
checked, and its step is a step of the abstract lifecycle: `LifecycleHolds`.  On
the same ground stand `OneActive`, `OneWinner`, `BusyHasAJob`, `TotalsCount` (of
finitely many bookings) and `OneJobAWasher` (no `updateAvailability` and no
approval, each of which makes a washer on a job available).  `BusyStays` has every
operation: the writes that set a washer free are those that end a job, whose washer
is by `ReadsStillSo` the one the booking has, and the two that reset a status.

`NoStaleWrites` adds the checks of profiles (`ChecksHold`), when requests do not
clash over profiles either (`FullyApartSpec`).  It goes by what changes: a profile
fares well with whoever checked it, or its writer clashes with the one who did
(`ProfilesFare`), and so do offers and bookings (`BookingsFare`); so a check that
was made lasts (`ChecksLast`), and a step that begins a wait makes it
(`ChecksMade`).

The third part turns the violated configurations around: what it takes for the
messages of the source to be true.

| Theorem | Sentence | Holds |
|---|---|---|
| `GivenToTheFree` | a washer no longer available is not given | without clashes |
| `CancelledInTime` | no cancellation at a later stage | without clashes |
| `OpenWithoutWasher` | a withdrawn booking is open again | without clashes |
| `OnlineDuringAJob` | one cannot disconnect during a booking | without clashes, `updateAvailability` and approval |
| `BusyForABooking` | BUSY means a booking in progress | without clashes and removals of vehicles |
| `GivenToTheVerified` | the profile must be verified to take orders | without rejections and retries; whatever overlaps |

The last needs an invariant of its own (`Vetted`): every offer on the table and
every choice under way is of a verified washer.

`RatingsProofs`: `RatingsInv` is inductive.  `UniqueInsert` is what the index
gives: an uncommitted rating is the only one of its booking.  `InFlight` says
that what a transaction aggregated is still committed, or removed, when it
writes the average.  Hence `AverageIsOfOwnRatings`, `RatedIsAveraged`, `ScoreStands`.
When no two averages of one washer are calculated at once, every rating counts:
`AllCounted` is inductive, as nobody commits a rating of the washer between the
aggregate and the update (`EveryRatingCounts`, for any other overlap and any
removal); and without removals nothing else counts (`AverageIsExact`).

`AccountsProofs`: `AccountsInv` is inductive.  Between consuming a code and
using it a request `Holds` it, which `Deletable` makes exclusive; `RequestFits`
records that the code was verified, for this phone and purpose.  Hence
`CodesUsedOnce` and `AccountsAreBacked`.  `AccountKept`: an account is never
replaced by another of its phone, since its insert is refused by the unique
index.  `CurrentPasswordChanged`: `changePassword` replaces what it compared when
nobody sets the password in between.  `LastCodeWorks`: when every message arrives,
the last code delivered is the one expected, because a row that is newer and not
delivered is still being sent (`UndeliveredIsSent`).

`NoticesProofs`: `NoticesImplementMarketplace` (`NSpec => Spec`, since each step of
`Notices` is a step of `Marketplace` or leaves its variables alone), so that every
theorem of `MarketplaceProofs` holds of the composition.  `NInv` is inductive on
top of `IInv`: a notice of progress that is still to be told is true already
(the milestone is set by the write that starts the follow-up) and stays true,
by `MilestonesStay`.  Hence `OnlyProgressIsTold`, with any number of slots and
follow-ups.  The rest is about `Steps`, what is to come or has failed: a write
adds its own (`WriteKinds`), and a step leaves them only by having done its work
(`FollowUpDoes`).  `OffersHear` needs no more than that an offer has its booking
(`OffersLive`), that a notice told only if its booking is found is about it
(`OwnBookings`), and that the look-up after a choice is by the offer chosen.
When requests do not clash before their commits, whatever the follow-ups meet:
`StatusHeard`, for the washer that `cancelByClient` and `confirmCompletion`
captured is then the booking's; and `WhatIsToldIsSo`, for nothing that was
accepted, rejected or ended is written over (`ChoiceOpen`, `BookingsFinal`).
`ListsMissNothing` allows every clash but one of its own (`ReadersApart`): nobody
is about to open a booking (`create`, `cancelByWasher`) between the query of a list
and the set that stores it, for only these two open one (`StaysShut`).

`GarageProofs`: `GarageInv` is inductive.  What bounds the sharers is that every
vehicle that has or is about to get a plate (`Claims`) was let in by a check that
saw nobody else with the plate, so whoever else claims it is one of the requests
in flight: an injection from the claimants into the slots.  Only a check adds a
claim (`StepClaims`); so when no two requests have one plate checked and not yet
written, no two vehicles share one (`PlatesAreUnique`).

`CarouselProofs`: `OldScreensAreTold` is inductive with `TypeOK`: the set of
active slides changes only in a write, which makes an event due; an event ends by
being received or missed, a question is answered by what is active then.

`NotificationsProofs`: `NotesInv` is inductive, with any number of workers and
tokens, finitely many workers (`FewWorkers`).  Its part `OneLock` says that exactly
one worker holds the lock of an active job; others may have had it and go on.  Its
part `Counted` pays for each message sent, or still to be sent by whatever worker,
with an attempt or a recovery: a worker whose lock runs out takes its message along,
and the recovery pays for it.  Both are bounded.  Hence `FewPushes` and
`NotGivenUpEarly`.  `OnlyUselessCondemned`: a worker sets out to
erase only a token that is dead, which it stays, or malformed; so a live token is
erased only if it was registered after the worker looked (`LiveTokensKept`).

`ReadThroughProofs`: `TypeCorrect` for any bounds and faults.  `CoherentApart`:
without faults, and when no announced change comes between the query of a request
and the set that stores what it returned, nothing older than the last announced
change is served once every invalidation is done, however many readers, writers and
silent changes overlap otherwise.  `CoherentAlone`, one request at a time, is a case
of it.  That is all the code can promise: what is served is older than a silent
change (`VUnannounced`).

The hypotheses "kept apart" are always about states the code reaches, and the
matching violated configuration shows that each is needed; together they say of
which overlaps the code must be wary, and that of the others it need not be.

Only model-checked: liveness (`NotesSettle`, `StaleEnds`), which the prover cannot
do.  `StaleBookingsClose` is liveness too, and false (`VStale`).

## What is not modelled

Titles and texts of notifications, the invitation of the washers nearby and the
notices of the administrator's decisions (no other part depends on them),
distances and estimated times (floating point), the price table (a constant),
earnings reports and other queries that only read, guards and validation (the
models take the inputs they let through), photographs, `updateProfile` but for the
change of the cached user (an email behind a unique index, as a phone in
`Accounts`), login and token signing (no state), the loop that connects Prisma
before anything else runs, and debug.

## Plan

Proofs: `Marketplace` with the locks a repair would take, in place of the
hypothesis that nothing clashes, shown to implement `FullyApartSpec`.
