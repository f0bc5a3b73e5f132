# Verification of the Gadidosti backend

The backend is a Node/Express server over one PostgreSQL database: clients post
bookings of trucks, brokers and drivers negotiate a price, a driver makes the
trip, and the platform settles the money.  It has no background workers besides
cron jobs in the same process and takes hardly any transaction: a handler is a
sequence of `await pool.query(...)`, and every other handler may run between two
of them.  What keeps it correct is the `WHERE` clause of each `UPDATE`.  These
modules write down which steps there are, let them interleave, and say what must
hold whatever the order.

## 1. The system

| Part | State | Operations | Interacts with |
|---|---|---|---|
| Booking (`booking.controller.js`, `booking.model.js`) | `bookings`: status, amount, broker, driver, truck, payment | create, broadcast, cancel, rate, delete | every other part advances its status |
| Broker offers (`job.controller.js`, `jobRequest.model.js`) | `job_requests`: status, who has committed, amount | accept, decline, counter by each side; assign a driver | claims the booking `pending -> confirmed` |
| Driver offers (`driverRequest.controller.js`, `driverRequest.model.js`) | `driver_requests`: the same, plus when the driver's window closed and the job it was assigned for | the same | claims the booking `-> assigned`, takes truck and driver, creates the trip |
| Timeout sweeps (`cron/driverRequestTimeoutSweep.js`) | none of their own | hand a silent driver's request to the broker, expire a silent broker's | race with the answers |
| Trips (`trip.controller.js`, `trip.model.js`) | `trips`: status, driver, stops, POD | status updates, decline, stops, POD, incidents | mirror their status on the booking, free truck and driver, settle |
| Fleet and presence (`vehicle.controller.js`, `truck.model.js`, `driverProfile.model.js`, `cron/staleDriverLocationSweep.js`) | `trucks.status`, part-truck mode, capacity, the truck-driver link; `driver_profiles.status`, location | create, assign, delete, online/offline, GPS ping, share spare room, stale sweep | decide who may be offered a booking |
| Search (`booking.controller.js`, `cron/scheduledBookingBroadcastSweep.js`, `idempotency.middleware.js`) | `bookings.broadcast_triggered_at`, `idempotency_keys` | quote, price, geofence, create once, broadcast now or later, search again | opens the offers |
| Money (`wallet.*`, `settlement.*`, `postpaidBill.*`, `webhook.controller.js`, `RazorpayPaymentProvider.js`) | wallets, settlements, bills, orders and QR codes, `bookings.payment_status` | pay, verify, poll, collect, recharge, bill, pay out | triggered by a booking, a completed trip, a gateway |
| People (`auth.controller.js`, `user.model.js`, `kyc.*`, `legalPage.controller.js`) | users, tokens, OTPs, KYC submissions, deletion requests | register, log in, refresh, log out, verify, review, delete | every request passes `authenticate` |
| Talk (`chatService.js`, `socket.js`, `chatBroker.controller.js`) | threads, messages, read marks | open, post, escalate, read | brokers, drivers and clients of a booking |
| Small tables (incidents, preferences, documents, geofence) and the schema (`migrate.js`) | a table or two each | create, update, delete; migrate at every start | |

What makes it hard:

* **Two tables, one booking.**  A broker offer and several driver offers of one
  booking are open at a time, each with its own two-sided handshake; the loser of
  the claim is found out late and must be undone.
* **Checks on a row that was read before.**  Handlers check the row they have
  read and rely on the `UPDATE` to check again; some `UPDATE`s check less.
* **Shared trucks.**  One truck carries several bookings; whether it is free is
  derived from the trips of a driver.
* **Sweeps and restarts** between any two queries, and no repair afterwards.

## 2. Modules

| Module | Content |
|---|---|
| `OfferAward` | Abstract: offers collect the consent of both parties, one offer is awarded, nothing is taken back. |
| `Negotiation` | One booking: all of its `job_requests` and `driver_requests`, the handlers, sweeps, claim, finalize, cancel, hand-back, restart. Refines `OfferAward`. |
| `NegotiationProofs` | Proofs about `Negotiation` for every value of its constants, among them that it implements `OfferAward`. |
| `Dispatch` | Several bookings that share trucks and drivers: from an accepted driver request through trip, release, reassignment, presence. |
| `Settlement` | The end of one trip and its money: status updates with their gates, delivery charges, settlement row, earnings wallets, stops, proof of delivery, payments. |
| `SettlementProofs` | Proofs about `Settlement` for every value of its constants: payout, approval, stops, charges. |
| `Account` | One client's money: wallet, recharges, every way to pay a booking, credit limit and postpaid bills with the monthly sweep. |
| `Sessions`, `Users`, `Kyc` | An account: its tokens and devices; its row, phone and deletion; its verification. |
| `Fleet`, `Presence` | A broker's trucks, drivers and the link stored on both sides; which drivers show as available, on a clock. |
| `Broadcast`, `Matching`, `Pricing`, `Geofence` | An order: created once and broadcast; to whom it is offered; what it costs; where it may go. |
| `Gateway` | One booking's payments between the gateway, the trip's QR code, the webhook, polls and cash. |
| `Chat`, `Direct` | The chat of a booking with its bot; the standing channel of a broker and a driver. |
| `Incidents`, `Preferences`, `Documents` | Incidents and their mechanics; default addresses; numbers and links people quote. |
| `Schema` | The batches of the start-up migration. |
| `Services` | The sixteen services from `Sessions` to `Schema` as one specification, one of them at work in a behaviour. |
| `DispatchProofs` | Proofs about `Dispatch`: types, and that truck and driver are given back; and what holds while handlers run one at a time. |
| `AccountProofs` | Proofs about `Account`: money moves once, and the credit limit. |
| `PeopleProofs`, `OrderingProofs`, `OnTheWayProofs` | Proofs about `Services`: sessions, accounts, presence, verification; broadcast, shared trucks, geofence, numbers, the payment gateway, prices; the fleet, chats, incidents, addresses, the schema, and the types of all. |
| `SumLemmas` | Lemmas about sums over finite sets, as the folds of the library compute them. |
| `MCNegotiation`, `MCDispatch`, `MCSettlement`, `MCAccount`, `MCServices` | Constants of the checked instances. |

Definitions marked `Bug:` belong to no specification.  Each stands before the
definition it is a mistaken variant of; putting it in that place breaks a named
property, which shows the property looks at that code.

### Negotiation

*State.*  `row` holds the rows of both tables (the two controllers are copies of
one protocol; `respondent` is the broker of a job request or the driver of a
driver request).  `booking` and `trip` are the columns the protocol reads.
`calls`, `assigning`, `fin`, `canceller`, `giver` are the handlers under way,
`lateDriver` and `lateBroker` the rows a sweep has selected.  `said` records who
has really accepted a row, independently of its status.

*Steps.*  An answer is two steps: `Call` (the handler's read and its checks) and
a commit (`FirstAccept`, `SecondAccept`, `DirectAccept`, `Decline`,
`ClientCounter`, `RespondentCounter`, or `Refused` when the `WHERE` clause no
longer matches).  `finalizeDriverRequest` and `finalizeJobRequest` are one step
per query; so are `cancelBooking` (`Cancel...`), `declineTrip` (`Give...`) and
each sweep.  The model keeps what the code does not check: `Open` inserts a row
for a booking that may have moved on, `MarkTimedOut` looks at no status,
`CancelWrite` and `GiveWrite` overwrite, `CreateTrip` uses the amount of the row
the claim returned.

*Abstracted.*  The first-time branch of `assignDriver` is three reads and an
insert: the reads are one step.  The truck's own gate is an arbitrary refusal
(`TruckRefused`); it is modelled in `Dispatch`.  An instance has a fixed set of
row ids, and a row is opened once.  Notifications and sockets change nothing
that is read.

### Dispatch

*State.*  The status columns of bookings, trips, trucks and drivers, the open
driver requests, and for each worker the handler it runs: its operation, its
phase and its local variables.  `Flow` lists the phases of a handler in the
order of its `await`s.  `en_route_pickup` stands for `picked_up` and
`in_transit`; they differ in whether the client may still cancel.

*Handlers.*  `finalize`, `status` (PATCH /trips/:id/status), `cancel`, `decline`,
`reassign`, `presence` (toggle, stale sweep, forced logout, the broker's edit),
`sharing`.  The three copies of "free the driver and truck unless he has another
trip" are the phases `busy`, `freeDriver`, `freeTruck`, at the different places
they have in each handler - the place matters.

*Abstracted.*  A fleet is that of one broker; the booking's broker is the constant
`Brokered`.  Distance, category and KYC only narrow the candidates.  Pickup OTP,
GPS, stops and POD only forbid a status update (a broker or administrator may
skip them).  Manual corrections (the administrator's PATCH of a truck or of a
driver to `available`) are left out, since they can set any status.
`driver_profiles.truck_id` and deletion of trucks and drivers are not modelled.
`AnyOrder` says whether a trip may also be set back: the handler enforces no
order, the applications only move forward.

### Settlement

*State.*  `trip` has the columns the handlers read (status, the stops done, the
number of POD photos, `pod_status`, the two recorded charges), `booking` its
status, amount, `payment_status` and `amount_paid`.  `settlements`, `earned` and
`totalTrips` are what completion writes.  `task` is the handler each worker runs,
as in `Dispatch`.  `approved`, `override` and `calm` are history: has the client
ever approved a proof, has a broker or administrator completed the trip, have two
handlers ever overlapped.

*Handlers.*  `updateTripStatus` has one list of phases per status (`Flow`): a
delivery applies the halting charge to the row the handler began with and the SLA
charge to a row it reads again; a completion is a compare-and-swap whose loser
ends, then count, read, settle and two credits, one query each.  `completeStop`
is a read and a write of the whole array.  `uploadPod` counts, stores, counts
again, and submits by the `pod_status` it read at first.  `verifyPod` and
`rejectPod` check and then write.  Every payment path checks the row it has read
and writes the amount of that row.

*Abstracted.*  `confirmed` stands for `en_route_pickup` and `picked_up`, which
differ in nothing that is read here.  The size of a charge is chosen from
`Charges`; the hours it is computed from are not modelled.  The files of one
upload are stored in one step.  Payment from the wallet and to-be-billed and
cancelled bookings are in `Account`, the QR code's own amount is in `Gateway`.

*Orderly.*  `updateTripStatus` takes any status at any time.  The applications
send the next one, or repeat the last one, and send a new one after the answer
to the last has come; `Orderly` restricts requests to that.  Without it a trip
set back from `completed` to `delivered` is completed, settled and paid again.
`Duties` says who runs what: one person uploads and checks stops off, which is
what the comment above `completeStop` relies on.

### Account

*State.*  The client's bookings with amount and `payment_status`, the wallet with
its one pending recharge order, the bills with their items, `billing_type`, and
the handlers as tasks, as in `Settlement`.  `captured` is the gateway's side.
`mixed` marks bookings for which the client chose two ways to pay at once,
`dropped` those that `cancelBooking` has written.

*Handlers.*  `createBooking` (limit, insert, recheck, bill at the limit), payment
through the gateway or from the wallet, `markToBeBilled`, cancellation, cash
collection, delivery with a charge, recharge, the two ways a bill is generated,
its payment, a change of `billing_type`, a restart.  `WalletModel.debit` and
`credit`, `PostpaidBillModel.generate` and `markPaid` are transactions: one step.

*What the code does and the properties except.*  Two payments of a booking from
the wallet at once both debit (`mixed`).  A cancelled booking is marked `refunded`
and nothing credits the client (`dropped`).  A restart between the debit and its
record lets a retry debit again, and one between the credit of a recharge and the
clearing of its order credits it again: the bounds `1 + restarts` count that.
One worker verifies recharges; two verifications of one order side by side
credit it twice.  Two bookings made together pass the credit limit together.

### The services

Each is a small module with the same parts: rows as functions or records, `call`
for what a request has read and has yet to write, one step per `await` that
matters, and a failure that may cut a request off between two steps.

* **Sessions.**  Time is in seconds, since a token's issue time is; logins refuse
  one another while a device is in use, refresh rotates, and `force` ends all.
  A refresh that was past its check survives (`raced`).
* **Users.**  The phone's UNIQUE index, the flag that says it is proved,
  administrators' status changes, and deletion requests.  `updateProfile` clears
  the flag with the number; `verifyPhone` makes a blocked account active again.
  `createAdmin` stores the number an administrator types in as verified, which
  nobody proves: `vouched` has those accounts until their number changes.  A broker's
  `registerDriver` does not set the flag.  The account of the bot
  (`src/src/config/migrate.js:985`) and seed data are left out.
* **Kyc.**  Uploads merge the document map they have read; a submission runs its
  checks and approves itself when all of them pass; reviewers decide on what they
  have read.  `Boot` is the migration that every start runs.  It sends drivers and
  brokers without a verified GST check back to review, and its comment says that
  re-approved users are not queued again (`src/src/config/migrate.js:1560`); those a reviewer has
  approved without that check are, at every start.  The reference
  of an Aadhaar OTP, which the provider's answer is matched with, is left out.
* **Fleet.**  Transactions at READ COMMITTED, UPDATE by UPDATE, with the row
  locks they take.  `loose` marks rows `updateTruck` and `deleteDriver` write on
  one side, and rows of overlapping transactions.
* **Presence.**  Minutes since the last ping and since the profile was touched,
  against a sweep that runs late or dies.
* **Broadcast.**  The idempotency key is looked up before and stored after the
  handler; the sweep broadcasts a booking and then marks it.  `live` counts the
  requests of broadcasts and searches, `asked` those for a truck that the client
  picked himself: `requestTruckForBooking` does not look whether its driver has one
  already, so that a driver may have both, or several of the second.  A search
  passes over drivers who have either.  `torn` marks bookings with a broadcast that
  was interrupted or overlapped, `early` those searched for before their scheduled
  broadcast, which passes over nobody and asks those drivers a second time.
* **Matching.**  The two candidate queries in kilograms, converted where the code
  converts, the fan-out and the gate.  Distance only orders and cuts the list.
* **Pricing.**  `PricingModel.estimate` in paise and percents with `round2`, the
  quote and the booking made from it, and rates that change in between.
* **Geofence.**  Three reads for one booking beside edits and chunked uploads.
* **Gateway.**  Orders, codes and cash against what the gateway has captured; the
  webhook comes late, twice or never.  `PAYMENT_PROVIDER=razorpay` only.  The
  verification of a payment names its type itself, `full` where it does not, and the
  signature binds the payment to an order, not the order to a booking or a type:
  `Verify` takes any paid order with either type, `OrderElsewhere` makes orders that
  are for something else (a bill, another booking).  `stale` marks a booking whose
  payment was recorded at another amount or as another type than it was made for.
* **Chat.**  The stages of a thread, escalation, notification and a change of
  driver.  The bot's menu texts are left out.
* **Direct.**  One broker and one driver.  Such a thread stays at stage `bot`, so
  no message in it is notified.  The application joins the room, fetches the whole
  history and then marks it read.  `Visit` is a mark by anybody else: `canView` lets
  administrators and staff mark a thread, and the socket's event `read` asks neither
  for access nor for the room.  A message has one `read_at`; the model keeps who set it.
* **Incidents**, **Preferences**, **Documents.**  As their headers say.
* **Schema.**  `runMigrations` as a sequence of batches, each with the objects it
  needs, makes and drops; a database may come from a release with fewer batches.

## 3. Runs

The constants of each are in its `.cfg`.  Deadlock is not checked: the bounds
stop every behaviour, and so may people, who need not send another request.

| Run | What it asks | Instance | States |
|---|---|---|---|
| `neg_core` | consent, price lock, the winner keeps its row, no phantom accept | 1 broker, 1 driver, 2 prices, 1 handler between read and UPDATE besides finalize, cancel, hand-back and sweeps, 1 counter, 1 restart | 750 988 |
| `neg_rivals` | one winner, holder and broker agree, refinement of `OfferAward` | 1 broker, 2 drivers (symmetric), no sweeps, no counters | 285 582 |
| `neg_live` | every second accept is settled, every request is answered, with two handlers in the window at once | 1 driver, 2 handlers, 2 selected rows, 1 restart | 75 488 |
| `neg_pay` | violated: the trip pays the agreed price | 1 broker, 1 driver | |
| `dispatch_alone` | drivers, trips and bookings agree, every handler included | 2 bookings (1 brokered), 2 trucks, 2 drivers, 1 handler at a time | 1 566 656 |
| `dispatch_races` | the last of the handlers that end trips frees truck and driver | 2 bookings, 1 shared truck, 2 handlers at once, any order of statuses | 1 341 600 |
| `dispatch_room` | violated: part loads fit the truck | loads 6 and 6, capacity 10, 1 handler at a time | |
| `dispatch_truck` | violated: a truck with an active trip is on_trip | 1 handler at a time | |
| `settle_races` | paid out once, at the final amount, after approval, past no stop; charges are collected; completion pays | 1 stop of each kind, 2 workers who both send statuses, charges of 0 or 1 on 10, 1 restart | 619 874 |
| `settle_charges` | violated: the amount is the estimate and the recorded charges | 1 worker | |
| `account_races` | money moves once, exposure is bounded, what is owed is billed | 2 bookings of different price, 2 devices, 3 plans | 786 897 |
| `services` | the properties of the sixteen services | see below | 1 492 666 |

**`services`.**  The sixteen modules share no row that another one's property is
about, so `Services` runs one of them per behaviour: `part` says which, and its
variables are `v1` to `v10` in the order of its declaration.  The states are the sum
of theirs, not the product.  Every property of the run is `part = ... => P` for
the `P` of a module, and each of them is reached: `TypesOK` is the type
invariant of all.  The bounds are two of everything that races - two requests or
devices (`Hands`), two trucks and two drivers (`Crew`, who are also the
reviewers), two accounts, incidents and messages, three addresses, so that one is
left when one of two is deleted, three orders for one truck (tons, quintals and
kilograms), quotes across categories, ranges, express, zones and traffic - and one of what only has
to be there (a broker, an idempotency key, a KYC document).  Some modules have
`Mixes`: operations that run in one behaviour, chosen so that every pair
that touches the same columns is in one of them: for `Broadcast` those of `SixMixes`,
the last two with trucks the client picks beside a search and beside the sweep.  A
broadcast, an early search and an overlapping sweep need `MaxLive = 3`; one picked
truck (`MaxAsked = 1`) is enough for a search to pass over.  `Trucks` are the pincodes of
`Geofence`.  The sets are symmetric within their instances.

| Module | Property | Shown by the run |
|---|---|---|
| `Sessions` | `RevokedForGood` | after everything is revoked, a token that still renews is of a later login |
| `Users` | `AccountsHonest` | verified numbers have been proved, but for the one an administrator has typed in for that account; a completed deletion has deleted |
| `Kyc` | `DocumentsStored`, `DecisionsHold` | a submission's documents are stored; only a reviewer or the checks verify an account |
| `Fleet` | `LinkAgrees` | truck and driver name each other |
| `Presence` | `Reachable` | who shows as available has been heard of lately |
| `Broadcast` | `NotForgotten`, `NothingTwice` | a scheduled booking stays due until it is broadcast; one booking for a key; broadcasts and searches leave a driver one live request, two after an early search |
| `Matching` | `RoomWasSeen` | offers accepted as found do not overload a shared truck |
| `Pricing` | `BookedAsQuoted` | a booking costs its quote, and express time goes with the surcharge |
| `Geofence` | `WithinTheFence` | both ends were served while they were checked |
| `Gateway` | `PaidForReal` | what counts as paid has been paid, at the amount and as the type it is recorded at |
| `Chat` | `MessagesReach` | a message for a person reaches everybody on the booking |
| `Direct` | `BadgeHonest` | a message gone out unseen is in the badge, unless somebody who was not reading marked it |
| `Incidents` | `BreakdownsClose` | with the mechanic done, the incident is resolved |
| `Preferences` | `OneDefault` | saved addresses have one default |
| `Documents` | `QuotedForLife` | a number or link stays its booking's |
| `Schema` | `StartsComplete` | no start fails on what another one left |

**Why the bounds are enough.**  In `Negotiation` a lost update needs a read, a
foreign write and the own write: one handler in `calls` next to a finalize, a
cancellation, a hand-back, a sweep and an assignment gives every pair of kinds,
and `neg_live` adds pairs of answers on one row.  One counter-offer is enough to
have two prices and to reopen a row's window; a second one repeats the state.
Two driver rows and a broker row give a race within a table and across the
tables.  Symmetry over the driver rows is sound: they are only compared, and the
winner that the refinement mapping chooses is unique (`OneWinner`).  In
`Dispatch` two bookings on one truck are the smallest case in which "has he
another trip" matters, and two workers the smallest in which the answer is
stale.  `MaxTrips = 2` lets a booking be declined and dispatched again;
`dispatch_races` has no decline, and there a booking has one trip.

In `Settlement` two workers are the least that send one status twice at the same
time, and the second of them reviews and collects while the first uploads and
delivers.  `MaxAmount = 12` is room for two charges, so that both are applied, or one
of them twice.  Two photos let a rejected proof be submitted again.

In `Account` the limit lies below the dearer booking and at the cheaper one, so
both the first and the second booking reach it; a recharge pays for one booking.
Two bills are one by the limit and one by the sweep.  The three plans keep
apart what has little to do with each other: the wallet with a restart; the
limit, cancellation and charges; a change of `billing_type`.

**What `dispatch_alone` and `dispatch_races` say together.**  One at a time, the
handlers keep drivers, trips and bookings in step; the exceptions are the
sequential findings `dispatch_room` and `dispatch_truck`.  Two at a time they do
not keep them in step at every moment, but accepts, status updates and
cancellations do not lose a driver or a truck for good, because each of them
ends its own trip *before* it looks for others.  `declineTrip` looks first and
removes its trip last, and with it among the handlers `LastOneReleases` fails:
two trips of a driver are given back together, each sees the other as active,
and he stays `on_trip`.  So the run leaves it out, and the hazard is recorded.

**Fairness** (`LiveSpec`).  In `Negotiation`: weak fairness of each handler that
has begun (the event loop runs a promise chain to its end), of each request's
finalize, and of the sweeps for each driver row (cron starts both every minute
and a selected row is processed).  None for a person's call, for the start of a
cancellation or of a hand-back, nor for a restart.  Weak fairness of `Sweeps(x)` is enough: while a
request is pending one of its four steps stays enabled.  `HandshakeSettles` says that
a second accept is settled, `RequestAnswered` that a driver request does not stay
pending; job requests have no sweep.  In `Settlement`, weak fairness
of the steps of each worker, again because a promise chain runs to its end;
`CompletionPaysOut` excuses a restart, since nothing in the code takes up a
completion that was cut off.  In `Account`, weak fairness of the two queries of
the monthly sweep (`ListClient`, `BillMonthly`): cron starts it every month, a
restart only puts it off to the next one, and while a booking waits to be billed
the first query finds its client.

**`calm`.**  `ChargesCollected` says that a booking that counts as paid has been
paid at its present amount, and only while handlers have run one at a time.  When a
payment and a charge interleave, the one that writes last wins: the charge is
written to a row read before the payment, or the payment records an amount read
before the charge.  No document speaks of that case; the hazards list it.

**History variables.**  Several properties excuse what a history variable marks
(`raced`, `loose`, `rushed`, `unsure`, `stale`, `torn`, `hasty`, `mixed`,
`retried`, `missed`).  Each marks one named overlap which the code does lose and
no document forbids; the property says that nothing else loses it.  `vouched`,
`early`, the type in `stale` and who set `read` need no overlap: they mark what one
call does by itself, as sections 2 and 4 say.

## 4. Findings

The violated runs state what a comment or document says; the traces show:

1. `TripPaysAgreedPrice` - `finalizeDriverRequest` writes the agreed amount to
   the booking but builds the trip from the row returned before.
2. `NotOverloaded` - the accept-time capacity check gets a row without weight
   and asks for room for 0 tons.
3. `TruckKept` - whether a truck is freed is decided by the driver's other trips;
   the truck may be carrying another driver's booking.
4. `AmountItemised` - the delivery charges run on every PATCH to `delivered`, so
   one that is repeated adds them again; the trip's own columns keep the last.

Three more disagreements are modelled and excepted in the properties of `services`,
each by a variable of its own, so that the rest of what the property says is checked:

* `verifyBookingPayment` takes the type of the payment from the request, `full` where
  it says none (`src/src/controllers/booking.controller.js:731`): an order for the
  advance, verified without its type, records the whole amount, of which the gateway
  captured the advance (`stale`).
* `src/src/config/swagger.js:900` says that an administrator views a thread read-only;
  `markThreadRead` lets him mark its messages, and one that then goes out to a reader who
  has not seen it is missing from that reader's badge (`read = "other"`).
* `UserModel.create` says that an account never claims a phone it has not proved
  (`src/src/models/user.model.js:18`); `createAdmin` above it sets the flag (`vouched`).

## 5. Proofs

`NegotiationProofs` proves, for every set of requests and prices and every bound:

| Theorem | States |
|---|---|
| `TypeCorrect` | `Spec => []TypeOK` |
| `ConsentHolds` | `Spec => []ConsentInv`, the inductive invariant |
| `WonByConsent` | `Spec => []MutualConsent` |
| `WonOnce` | `Spec => []OneWinner` |
| `WinnerKept` | `Spec => []WonStaysAccepted` |
| `HolderHasWon` | `Spec => []HolderWon` |
| `RolledBack` | `Spec => []NoPhantomAccept` |
| `PriceLocked` | `Spec => NoRenegotiation` |
| `Implements` | `Spec => AwardsOnce`: `Negotiation` implements `OfferAward` |

The assumptions are those of the module: no request id is in both tables or is
`NoReq`, the estimate is a price, the bounds are naturals.

*Argument.*  `MutualConsent` is not inductive: nothing in it says that a row
about to be completed has one accept already.  `ConsentInv` adds, row by row,
what the status means - a row in `awaiting_confirmation` has the accept of the
party in `pending_confirmation_by`; an accepted row has both (or, assigned by a
broker, the respondent's on top of a job request with both); a finalize beyond
`idle` belongs to an accepted row - and, for `OneWinner`, that nobody has
won a booking that is still `pending`, which is where a first-hand claim takes it
from, and that no step brings a booking back to `pending`.  The proof has one step for each kind of action
(`CommitConsent` for the answers, `FinalizeConsent` for the finalize,
`StepConsent` for the rest); bulk declines are one lemma (`Declines`), since they
never touch an accepted row.  `HolderWon` and `NoPhantomAccept` are inductive beside
it, once `WonKept` says that what has won stays won and keeps its broker; the price
lock needs `FreshOpens`, without which an INSERT could reopen a row.

*Refinement.*  The last part maps each query to a step of `OfferAward`: the INSERT of a request
makes an offer, an accept agrees, a first-hand claim awards it (and `PendingUnwon`
says nobody had it before), and everything that declines kills (`DeclinesKill`), with
the empty set for the queries that change nothing it sees.  `OneWinner` makes the
mapped winner unique, so it does not change while the rows that have won do not.

`SettlementProofs` proves, for any stops, charges, advances, commission rates,
workers and bounds:

| Theorem | States |
|---|---|
| `SettlementTyped` | `Spec => []TypeOK` |
| `ApprovedFirst` | `Spec => []ClosedWithApproval` |
| `SettledOnce` | `Orderly = TRUE` gives `Spec => []PaidOutOnce` |
| `SettledAtFinalAmount` | `Orderly = TRUE` gives `Spec => []PaidAtFinalAmount` |
| `EveryStopMade` | `Orderly = TRUE`, `OneChecker` give `Spec => []CarriedToEveryStop` |
| `NothingUncollected` | `Spec => []ChargesCollected` |

*Argument.*  Types need to know what a task writes where (`Fits`): a status
handler writes a status, a review a `pod_status`.  `ApprovalInv` follows an
approval from the proof to the driver's request to the completed trip; it does
not need the order of the statuses.  `PayInv` is about the one completion that
has won the compare-and-swap (`Won`): before there is one nothing is paid
(`NothingPaid`), there is never a second (`OneWon`), no delivery with its charges
runs after it (`DeliveryOver`, which is where `Orderly` is used), and
`Progress` says phase by phase what it has already written and that the amount
in its hands is still that of the booking.

`OneChecker` says that one worker checks the stops off.  `StopInv` then says why
the read-modify-write of the checklist loses nothing: what the handler is about to
write back on is still what is stored, and a status under way has the stops its
gate asked for.  `ChargeInv` says that a handler which runs by itself has the
payment status in hand that is stored, and a payment the amount that is stored.

`DispatchProofs` proves, for any fleet, loads, workers and bounds:

| Theorem | States |
|---|---|
| `DispatchTyped` | `Spec => []TypeOK` |
| `LastReleases` | `DirectOnly`, `OwnTruck` give `Spec => []LastOneReleases` |

`DirectOnly` leaves out brokers, hand-backs and reassignment, and `OwnTruck` gives a
driver one truck: those are the instances of the run, with presence and sharing
besides.  The statuses may come in any order.

*Argument.*  `HoldInv` says that whoever is `on_trip` has a trip or a handler that
answers for him: a finalize that has taken him and has not inserted the trip, or a
handler that has ended a trip of his and has neither freed him nor seen another.
Each end is written before the look for others, so where it sees another trip that
trip answers for the driver.  For the truck that needs `CrewInv`: a booking, its
trip and every handler at work on them name the same truck and its own driver, a
booking has one claim, and a trip keeps what it was claimed with.  `Phases` and
`Moving` reduce each query to where its handler stands, and `HoldsOn` says what is
left to show of a step that ends no trip.

The second half of `DispatchProofs` is about handlers that run one at a time, for any
fleet, bookings, loads and kinds of handler:

| Theorem | States |
|---|---|
| `DriversMatch` | `Serial` gives `Spec => []DriverMatchesTrips` |
| `BookingsMatch` | `Serial` gives `Spec => []BookingMatchesTrip` |

`Serial` says that there is one worker and that trips are not set back: the
instance of `dispatch_alone`, brokers, hand-backs and reassignment included.

*Argument.*  With nobody else at work, what a handler knows is exact.  `SerialInv`
says that drivers and bookings agree with the trips when no handler is under way,
and `Known` says for each handler and each phase which one booking and which
drivers may disagree, and how: after the trip has ended its driver is still
`on_trip` and no other trip of his is missed (`Ended`), once the look for others has
found none he has none (`Freeing`), a reassignment owes the old driver an end and
the new one a start.  `Steady` and `Alone` leave each query with its own phase.

`AccountProofs` proves, for any bookings, prices, limits, devices, orders, bills
and restarts:

| Theorem | States |
|---|---|
| `MoneySafe` | `OneVerifier` gives `Spec => []MoneyMovesOnce` |
| `MoneyTyped` | `OneVerifier` gives `Spec => []TypeOK` |
| `WithinCredit` | `OneBooker` gives `Spec => []ExposureBounded` |

`OneVerifier` says that one worker verifies recharges; without it the order is
credited twice, as section 2 says.  The set of bookings is finite and not empty.

*Argument.*  `MoneyInv` follows each order and each booking by itself.  An order
that has been credited is about to be cleared or no longer pending, unless a
restart fell in between (`CreditInv`).  A booking nobody has inserted yet has one
handler at most, and that one is about to insert it (`NotThereYet`); for one that is
kept and paid for one way, whoever pays it is alone, it is not owed and on no bill
(`OneWay`); one that is on a bill is owed or paid (`Billed`); one that has been
taken from the wallet is recorded as paid or about to be (`Taken`).  The four need
each other: a bill could list a booking whose payment is under way if `OneWay`
did not say that such a booking is not `to_be_billed`.  `Untouched` and
`OwnBooking` reduce each handler's step to the booking it is about, and every
action has a lemma.

`OneBooker` says that one worker makes bookings, as in the run: two that are made
together pass the limit together.  `LimitInv` is then about a client who has been postpaid
from the beginning.  Each of his bookings is owed from its insertion on, and is not owed
again once it has been settled, unless it is one the property leaves out, paid for in
several ways or cancelled (`OnAccount`).  What a booking is owed at
is never less than what it cost when it was made (`PricesKept`), so what the client is
trusted with is at most what the check has added up (`TrustedIsOutstanding`);
whoever is about to insert a booking has seen that sum below the limit, and
only an insertion can raise it (`UnderLimit`).  The sums are folds whose order a
CHOOSE picks; `SumLemmas` says that they do not depend on it, by way of a smallest
counterexample, since induction over sets is out of reach.

`PeopleProofs`, `OrderingProofs` and `OnTheWayProofs` are about `Services`, with the
properties as the run `services` checks them, for any sets of what is in flight and
any bounds:

| Theorem | States | Inductive invariant |
|---|---|---|
| `SessionsEndForGood` | `Spec => []RevokedForGood` | `SessionInv` |
| `AccountsAreHonest` | `Spec => []AccountsHonest` | `UsersInv` |
| `AvailableIsReachable` | `Spec => []Reachable` | `PresenceInv` |
| `SubmittedIsStored` | `Spec => []DocumentsStored` | `KycInv` |
| `VerifiedForAReason` | `Spec => DecisionsHold` | `KycInv` |
| `SharedNotOverloaded` | `Spec => []RoomWasSeen` | `MatchInv` |
| `SearchesGoOn` | `Spec => []NotForgotten` | `SearchInv` |
| `NothingIsDoneTwice` | `Spec => []NothingTwice` | `SearchInv` |
| `TakenInsideTheFence` | `Spec => []WithinTheFence` | `FenceInv` |
| `NumbersStay` | `Spec => []QuotedForLife` | `DocInv` |
| `PaidBySomebody` | `Spec => []PaidForReal` | `GateInv` |
| `MessagesReachPeople` | `Spec => []MessagesReach` | `ChatInv` |
| `BadgesAreHonest` | `Spec => []BadgeHonest` | `BadgeInv` |
| `PairsClose` | `Spec => []BreakdownsClose` | `ClosingInv` |
| `LinkedOnBothSides` | `Spec => []LinkAgrees` | `LinkInv` |
| `OneAddressIsDefault` | `Spec => []OneDefault` | `DefaultInv` |
| `PricedAsQuoted` | `Spec => []BookedAsQuoted` | `PriceInv` |
| `StartsAlwaysComplete` | `Spec => []StartsComplete` | `SchemaInv` |
| `ServicesTyped` | `Spec => []TypesOK` | `ServicesKnow` |

The assumptions are named in `Services`, one for each part: row ids are positive
numbers, NULL is no truck, driver or broker, bookings and addresses are numbered and finite in number, NULL is no phone
number and no key, broker and driver are two people, loads are numbered, finite in
number and weigh a natural number, a truck's capacity is one or NULL, the fare, the
advance and the charge are naturals and the advance is no more than the fare, the sweep's
limit is at least a minute and the bounds are naturals.  `PricingAssumption` says that
saved rates are numbers, that a list of tiers is not empty (the code takes its
defaults for one that is) and that express costs something: `updatePricingConfig`
stores whatever it is sent, and with rates that are not numbers or a surcharge of
nothing the theorem would be false, as the prices would be.  `SchemaAssumption` has no
constant in it but `Behind`: it says `InOrder` of the table of batches itself,
which TLC evaluates at every run.  The proofs use the variables of
`Services`; each section begins with the list of which stands for which.
`...AtWork` says that a part's invariant holds while it is the part at work.

*Arguments.*  Each invariant adds to the types what a request in flight has in hand.

* *Sessions:* every token is revoked, of a login after the last reset, or marked as
  renewed across it (`Renews`), and a refresh knows which (`RefreshesKnow`).
* *Users:* a number about to be registered by its owner has been proved, and an account
  an administrator created is vouched for until its number changes; a deletion request
  links an account (`CallsFit`), and whoever is about to mark a request completed has
  deleted its account, unless somebody has made it active again (`DeletedBefore`).
* *Presence:* an available driver was heard of, or his profile touched, less than
  the limit and the time since the last run ago, or is in the hands of the run
  (`RunKnows`).
* *Kyc:* documents name files of their key (`FilesKnown`); a call that writes
  documents knows those of the row, but for the key it uploads and mixed ones, and
  one that has seen no other is alone (`DocumentsAsRead`); behind every pending
  approval all checks have passed, and a review that nothing has preceded finds the
  account unverified (`DecisionsFounded`).
* *Broadcast:* a booking sent and not yet marked is in the hands of the call that
  will mark it, one fan-out at a time offers a booking, and only to drivers who have
  no live request of a search, or one less than they may have where the booking was
  searched for early (`OneFanOut`); a key in use is with one call, or answered
  (`KeysKnown`).
* *Matching:* what is offered is still waiting, and an idle truck is empty
  (`OfferedWait`, `IdleEmpty`); while nothing boards a truck there is room for whatever is
  offered to it beside what is aboard (`OffersFit`), and so for all that has boarded by
  offers as they were found (`SeenFit`).
* *Geofence:* a check in flight keeps every fact that has been so since it began, and
  the end it has looked up, or an open fence, is among them (`ChecksKnow`).
* *Documents:* what a request is about to write is new or its booking's own
  (`PapersDrawn`); timestamps and links are above every counted number
  (`PapersCounted`).
* *Gateway:* a request is about an order or a code that is there, and about a captured one
  where it records a payment (`CallsAbout`); nobody has paid more than the amount, which
  only grows (`NotTooMuch`); what the booking or a request in flight counts as paid
  has been captured or handed over - by an order of that amount and type, where none is
  stale - and what a QR code leaves out of the amount was paid by
  other means than that code (`Backed`), which is why recording it as the whole is right.
* *Fleet:* only rows that exist are linked (`RowsExist`); a transaction has written
  its own pair or cleared rows that exist (`FitsItsPlan`), no two the same row
  (`RowsApart`), and one that is alone has cleared just the rows that name its truck
  or its driver, all of them once it is past the statement (`Aware`), so that what
  it commits leaves no one-sided link.
* *Chat:* whoever a message is owed to has been told or is still to be called by the
  request that posted it (`CallersKnow`), and one request greets (`GreetsOnce`).
* *Direct:* whoever has the history has been shown all that was sent to him
  (`HistoryShown`), and what its reader marks before it is shown is still to be sent
  (`MarkedEarly`); the marks of others are told apart from his.
* *Incidents:* the request that is left with the mechanic's row has resolved the
  incident before (`CallsKnow`).
* *Preferences:* while nothing overlaps, a removed default is being replaced by the
  one request that removed it, and otherwise one row is the default (`Settled`).
* *Pricing:* a quote is the estimate of what was asked, by the rates and trucks it
  keeps (`QuoteMade`); a booking is the quote's amount or the estimate of its own
  time, with the surcharge of that estimate (`BookingMade`); the delivery time is that
  of rates saved at some time, by whether express was booked (`HoursFixed`).  What ties
  the surcharge to express is arithmetic: `SubtotalIs` says that a whole truck costs
  at least the floor of its card, `PercentIs` that a percent of that, rounded to the paisa,
  is not nothing, and so `EstimateIs` that a surcharge is charged exactly if
  express is active.  `TierIs` says that the first tier that covers a number exists.
* *Schema:* `InOrder` says that an object is made by one batch and dropped only
  after it; that what a batch needs an earlier one makes and none takes away; that a
  batch which looks before it runs looks for something it makes itself; and that the
  rows a constraint would refuse are admitted only by a batch that needs what the
  constraint's own batch looks for.  Of every database that gives `SchemaInv`: an object is there only with all its batch
  has found (`SchemaClosed`), a batch that skips itself has been done (`SchemaWhole`), a
  start that has got to a batch has all before it done (`SchemaPassed`), and rows of a
  new kind are there only once the constraint admits them (`Admitted`).  So no batch
  fails, whichever releases ran before, wherever they were cut off.
* *Types:* `ServicesKnow` joins the invariants of all sixteen.  Two bounds need one of
  their own: a truck is boarded by no more loads than are past waiting and name it
  (`BoardingInv`), and a request at the gateway has read the id of a code there was
  (`GateBound`).

*Stated and not part of a run:* the type invariants of `Negotiation`,
`Settlement`, `Account` and `Dispatch`, which are proved.

*Only model-checked:* liveness (`HandshakeSettles`, `RequestAnswered`,
`CompletionPaysOut`, `BilledInTheEnd`), which is out of the prover's reach: it reasons
neither about fairness nor ENABLED.  Every invariant and every action property of a
passing run is stated by a theorem.

*What proving has shown.*  Two conditions that hold in the instance do not hold for
every value of the constants, and were corrected.  The fee of a booking may exceed its
amount: a part load booked at the amount quoted carries the fee of the estimate
`createBooking` makes, to which the share of the truck is not handed on, so that of a
small share the fee is that of the whole truck.  And a delivery time does not tell by itself
whether it is a short one, since the express time of some rates can be the
normal time of others: `ExpressPaidFor` asks for one set of rates that explains it.

## 6. Not modelled

The `components` list of `PROJECT.json` has the reason of each part.

* *Output nothing reads:* notifications, push, e-mail and SMS, invoices and the
  PDFs, the audit log, the mark of the driver-assignment timeout sweep.
* *Single statements without a rule that spans two of them:* disputes, monthly
  hiring, legal pages, billing parties, analytics, configuration, admin payouts
  (whose debit is `WalletModel.debit`, modelled in `Account`).
* *External positions:* tracking reads another service and keeps the last answer.
* *Declarations:* routes and validation appear as guards; seed data and the API
  documentation are not behaviour.

What would come next: `LastOneReleases` with hand-backs, where it fails today (a
decline looks for other trips before it removes its own), and for bookings with a
broker, where it is neither proved nor refuted.

## 7. Running

    tlc -workers 2 -config MCNegotiation.cfg MCNegotiation
    tlapm NegotiationProofs.tla

and likewise the other `...Proofs` modules.  `OnTheWayProofs` extends `PeopleProofs` and
`OrderingProofs`, whose invariants it joins for `ServicesTyped`, and `SumLemmas` is used
by `AccountProofs` and `OrderingProofs`.
