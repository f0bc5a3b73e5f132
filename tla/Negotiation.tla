------------------------------ MODULE Negotiation ------------------------------
(***************************************************************************)
(* The price negotiation about ONE booking: the brokers' job_requests and  *)
(* the drivers' driver_requests that compete for it, up to the trip that   *)
(* the winning request creates.                                            *)
(*                                                                         *)
(* Every `await pool.query(...)` of a handler is a step of its own, so the *)
(* handlers of clients, drivers, brokers and of the two timeout sweeps     *)
(* interleave between their queries as they do in the Node process.  A     *)
(* handler first reads its row and validates (a Call), later runs its      *)
(* compare-and-swap UPDATE (a commit); what was true at the Call may be    *)
(* stale at the commit.                                                    *)
(*                                                                         *)
(* job_requests and driver_requests are two copies of one protocol; here   *)
(* they are the rows of one function, and "respondent" stands for the      *)
(* 'broker' of a job_requests row as well.  Bookings share no row of these *)
(* tables, so one booking is enough; trucks and drivers, which bookings do *)
(* share, are module Dispatch, and their gate is here an arbitrary refusal.*)
(*                                                                         *)
(* A definition marked "Bug:" is no part of the model: it is the one after *)
(* it with a plausible mistake, put in its place to see a property fail.   *)
(***************************************************************************)
EXTENDS Naturals, FiniteSets

CONSTANTS
    JobReqs,      \* ids of job_requests rows of this booking (one per broker)
    DriverReqs,   \* ids of driver_requests rows of this booking
    NoReq,        \* NULL in a column that refers to a request
    Prices,       \* the amounts that are offered
    Estimate,     \* bookings.amount when the booking is created
    MaxCalls,     \* bound: handlers between their read and their UPDATE
    MaxRounds,    \* bound: counter-offers in a behaviour
    MaxLate,      \* bound: rows the sweeps have selected at one time
    MaxCrashes    \* bound: restarts of the server in a behaviour

Reqs == JobReqs \union DriverReqs

ASSUME RequestIds == NoReq \notin Reqs /\ JobReqs \intersect DriverReqs = {}
ASSUME PriceRange == Estimate \in Prices
ASSUME Bounds == {MaxCalls, MaxRounds, MaxLate, MaxCrashes} \subseteq Nat

VARIABLES
    row,         \* the request rows of both tables
    booking,     \* the bookings row
    trip,        \* the trips row (trips.booking_id is UNIQUE)
    calls,       \* validated handlers that have not run their UPDATE yet
    assigning,   \* assignDriver handlers that have read but not inserted yet
    lateDriver,  \* rows sweep() has selected and not marked yet
    lateBroker,  \* rows brokerSweep() has selected and not declined yet
    fin,         \* progress of the finalize call of each request
    quoted,      \* amount in the booking object each finalize call holds
    canceller,   \* progress of cancelBooking
    giver,       \* progress of declineTrip, by the request of its driver
    said,        \* history: the parties whose accept took effect on a row
    rounds, crashes

vars == <<row, booking, trip, calls, assigning, lateDriver, lateBroker, fin,
          quoted, canceller, giver, said, rounds, crashes>>

Parties  == {"client", "respondent"}
Sides    == {"client", "driver", "broker"}
Ops      == {"open", "accept", "decline", "counter"}
Statuses == {"absent", "pending", "countered", "awaiting_confirmation",
             "accepted", "declined"}
Working  == {"price", "siblings", "jobs", "trip"}
WonSteps == Working \union {"done", "stranded"}
FinSteps == {"idle", "claim", "rollback", "orphaned"} \union WonSteps

Rows == [status   : Statuses,
         by       : Parties \union {"none"},    \* pending_confirmation_by
         amount   : Prices,
         timedOut : BOOLEAN,                    \* driver_timeout_at IS NOT NULL
         job      : JobReqs \union {NoReq}]     \* job_request_id

Bookings == [status : {"pending", "confirmed", "assigned", "cancelled"},
             amount : Prices,
             broker : Reqs \union {NoReq},        \* whose broker_id the row has
             holder : DriverReqs \union {NoReq}]  \* whose driver_id and truck_id

Trips == [status   : {"none", "confirmed", "cancelled"},
          req      : DriverReqs \union {NoReq},
          earnings : Prices]

NoTrip == [status |-> "none", req |-> NoReq, earnings |-> Estimate]

Calls == [op : Ops, side : Sides, req : Reqs]

TypeOK ==
    /\ row \in [Reqs -> Rows]
    /\ booking \in Bookings
    /\ trip \in Trips
    /\ calls \subseteq Calls
    /\ assigning \subseteq [job : JobReqs, amount : Prices]
    /\ lateDriver \subseteq DriverReqs
    /\ lateBroker \subseteq DriverReqs
    /\ fin \in [Reqs -> FinSteps]
    /\ \A j \in JobReqs : fin[j] \notin {"jobs", "trip"}
    /\ quoted \in [Reqs -> Prices]
    /\ canceller \in {"idle", "write", "jobs", "drivers", "trip"}
    /\ giver \in [DriverReqs -> {"idle", "write", "remove"}]
    /\ said \in [Reqs -> SUBSET Parties]
    /\ rounds \in Nat
    /\ crashes \in Nat

Init ==
    /\ row = [x \in Reqs |-> [status |-> "absent", by |-> "none",
                              amount |-> Estimate, timedOut |-> FALSE,
                              job |-> NoReq]]
    /\ booking = [status |-> "pending", amount |-> Estimate,
                  broker |-> NoReq, holder |-> NoReq]
    /\ trip = NoTrip
    /\ calls = {} /\ assigning = {} /\ lateDriver = {} /\ lateBroker = {}
    /\ fin = [x \in Reqs |-> "idle"]
    /\ quoted = [x \in Reqs |-> Estimate]
    /\ canceller = "idle"
    /\ giver = [x \in DriverReqs |-> "idle"]
    /\ said = [x \in Reqs |-> {}]
    /\ rounds = 0 /\ crashes = 0

-----------------------------------------------------------------------------
(* The conditions of the handlers' reads and of the UPDATEs' WHERE clauses *)

Party(side) == IF side = "client" THEN "client" ELSE "respondent"
Other(p)    == IF p = "client" THEN "respondent" ELSE "client"

Exists(x)   == row[x].status # "absent"
Accepted(x) == row[x].status = "accepted"
Assigned(x) == row[x].job # NoReq          \* the broker-assign origin
Won(x)      == fin[x] \in WonSteps         \* its claim of the booking succeeded
BrokerOf(x) == IF Assigned(x) THEN row[x].job ELSE x

\* The side that may answer for the respondent of a row (assertCanRespond).
Responder(x) == IF x \in JobReqs \/ row[x].timedOut THEN "broker" ELSE "driver"

MayAct(side, x) ==
    \/ side = "client" /\ ~Assigned(x)
    \/ side = Responder(x)

\* Bug: an offer that one side has accepted can still be countered.
CounterLocked(p) == {"pending", "countered", "awaiting_confirmation"}
\* The states a party may act from without the other having committed.
FirstMove(p) == IF p = "client" THEN {"pending", "countered"} ELSE {"pending"}

\* Bug: a party can confirm its own acceptance.
ConfirmOwn(x, p) == row[x].status = "awaiting_confirmation"
\* The other party has committed and waits for p.
ToConfirm(x, p) ==
    /\ row[x].status = "awaiting_confirmation"
    /\ row[x].by = Other(p)

\* Bug: an UPDATE without the status in its WHERE clause.
DeclineAny(x, p) == Exists(x)
\* WHERE clause of respondentDecline, setStatus (job_requests) and
\* clientRejectIfCountered.
Declinable(x, p) ==
    \/ p = "client" /\ row[x].status = "countered"
    \/ p = "respondent" /\ row[x].status = "pending"
    \/ p = "respondent" /\ x \in JobReqs /\ row[x].status = "awaiting_confirmation"
    \/ ToConfirm(x, p)

\* Bug: the bulk declines take accepted rows too.
DeclineAcceptedToo(S) ==
    [x \in Reqs |-> IF x \in S /\ Exists(x)
                    THEN [row[x] EXCEPT !.status = "declined"] ELSE row[x]]
\* The rows a bulk decline hits: everything still open, never 'accepted'.
StillOpen == {"pending", "countered", "awaiting_confirmation"}
DeclineAll(S) ==
    [x \in Reqs |-> IF x \in S /\ row[x].status \in StillOpen
                    THEN [row[x] EXCEPT !.status = "declined"] ELSE row[x]]

\* Bug: a claim that succeeds on a booking another broker has won.
ClaimAnyUnassigned(x) == {"pending", "confirmed"}
\* The booking status a request's claim swaps from.
ClaimFrom(x) == IF Assigned(x) THEN {"confirmed"} ELSE {"pending"}

-----------------------------------------------------------------------------
(* Requests of clients, drivers and brokers: first the reads and checks.   *)

MayOpen(side, x) == side = "client" /\ ~Exists(x) /\ booking.status = "pending"

MayAccept(side, x) ==
    /\ Exists(x) /\ MayAct(side, x)
    /\ \/ row[x].status \in FirstMove(Party(side))
       \/ ~Assigned(x) /\ ToConfirm(x, Party(side))

\* clientRejectDriverRequest looks at no status before its UPDATE.
MayDecline(side, x) ==
    /\ Exists(x) /\ MayAct(side, x)
    /\ \/ side = "client" /\ (x \in DriverReqs \/ row[x].status = "countered")
       \/ side # "client" /\ row[x].status = "pending"
       \/ ToConfirm(x, Party(side))

MayCounter(side, x) ==
    /\ Exists(x) /\ MayAct(side, x) /\ ~Assigned(x)
    /\ row[x].status \in FirstMove(Party(side))

Validated(c) ==
    \/ c.op = "open"    /\ MayOpen(c.side, c.req)
    \/ c.op = "accept"  /\ MayAccept(c.side, c.req)
    \/ c.op = "decline" /\ MayDecline(c.side, c.req)
    \/ c.op = "counter" /\ MayCounter(c.side, c.req)

Call(c) ==
    /\ Validated(c)
    /\ c \notin calls /\ Cardinality(calls) < MaxCalls
    /\ c.op = "counter" => rounds < MaxRounds
    /\ calls' = calls \union {c}
    /\ rounds' = IF c.op = "counter" THEN rounds + 1 ELSE rounds
    /\ UNCHANGED <<row, booking, trip, assigning, lateDriver, lateBroker, fin,
                   quoted, canceller, giver, said, crashes>>

Returns(c) ==
    /\ c \in calls
    /\ calls' = calls \ {c}
    /\ UNCHANGED <<booking, trip, assigning, lateDriver, lateBroker, quoted,
                   canceller, giver, rounds, crashes>>

\* requestTruckForBooking and the fan-outs insert a 'pending' row at the
\* booking's amount, whatever has become of the booking since it was read.
Open(c) ==
    /\ Returns(c) /\ c.op = "open"
    /\ row' = [row EXCEPT ![c.req].status = "pending", ![c.req].amount = booking.amount]
    /\ UNCHANGED <<fin, said>>

\* The first side to agree parks the row ('awaiting_confirmation').
FirstAccept(c) ==
    LET p == Party(c.side) IN
    /\ Returns(c) /\ c.op = "accept" /\ ~Assigned(c.req)
    /\ row[c.req].status \in FirstMove(p)
    /\ row' = [row EXCEPT ![c.req].status = "awaiting_confirmation", ![c.req].by = p]
    /\ said' = [said EXCEPT ![c.req] = @ \union {p}]
    /\ UNCHANGED fin

\* The second side's accept makes the row 'accepted' and starts its finalize.
SecondAccept(c) ==
    LET p == Party(c.side) IN
    /\ Returns(c) /\ c.op = "accept" /\ ~Assigned(c.req)
    /\ ToConfirm(c.req, p)
    /\ row' = [row EXCEPT ![c.req].status = "accepted"]
    /\ said' = [said EXCEPT ![c.req] = @ \union {p}]
    /\ fin' = [fin EXCEPT ![c.req] = "claim"]

\* respondentAcceptDirect: the broker-assign origin needs no second consent.
DirectAccept(c) ==
    /\ Returns(c) /\ c.op = "accept" /\ Assigned(c.req)
    /\ row[c.req].status = "pending"
    /\ row' = [row EXCEPT ![c.req].status = "accepted"]
    /\ said' = [said EXCEPT ![c.req] = @ \union {"respondent"}]
    /\ fin' = [fin EXCEPT ![c.req] = "claim"]

Decline(c) ==
    /\ Returns(c) /\ c.op = "decline"
    /\ Declinable(c.req, Party(c.side))
    /\ row' = [row EXCEPT ![c.req].status = "declined"]
    /\ UNCHANGED <<fin, said>>

\* A client's counter-offer is also a fresh turn: driver_timeout_at = NULL.
ClientCounter(c) ==
    /\ Returns(c) /\ c.op = "counter" /\ c.side = "client"
    /\ row[c.req].status \in FirstMove("client")
    /\ \E a \in Prices :
         row' = [row EXCEPT ![c.req].amount = a, ![c.req].status = "pending",
                            ![c.req].timedOut = FALSE]
    /\ UNCHANGED <<fin, said>>

RespondentCounter(c) ==
    /\ Returns(c) /\ c.op = "counter" /\ c.side # "client"
    /\ row[c.req].status \in FirstMove("respondent")
    /\ \E a \in Prices :
         row' = [row EXCEPT ![c.req].amount = a, ![c.req].status = "countered"]
    /\ UNCHANGED <<fin, said>>

\* The WHERE clause matches no row any more: 400 'already actioned'.
Refused(c) ==
    LET p == Party(c.side) IN
    /\ Returns(c) /\ c.op # "open"
    /\ c.op = "decline" => ~Declinable(c.req, p)
    /\ c.op \in {"accept", "counter"} => row[c.req].status \notin FirstMove(p)
    /\ c.op = "accept" => ~ToConfirm(c.req, p)
    /\ UNCHANGED <<row, fin, said>>

Commit(c) ==
    \/ Open(c) \/ FirstAccept(c) \/ SecondAccept(c) \/ DirectAccept(c)
    \/ Decline(c) \/ ClientCounter(c) \/ RespondentCounter(c) \/ Refused(c)

-----------------------------------------------------------------------------
(* assignDriver, first-time path: the broker of an accepted job_request    *)
(* offers the job to a driver of the fleet at bookings.amount.             *)

AssignRead(j) ==
    /\ Accepted(j) /\ trip.status = "none"
    /\ \A a \in assigning : a.job # j
    /\ assigning' = assigning \union {[job |-> j, amount |-> booking.amount]}
    /\ UNCHANGED <<row, booking, trip, calls, lateDriver, lateBroker, fin,
                   quoted, canceller, giver, said, rounds, crashes>>

AssignInsert(a, x) ==
    /\ a \in assigning
    /\ ~Exists(x) /\ \A c \in calls : c.req # x
    /\ assigning' = assigning \ {a}
    /\ row' = [row EXCEPT ![x].status = "pending", ![x].amount = a.amount,
                          ![x].job = a.job]
    /\ UNCHANGED <<booking, trip, calls, lateDriver, lateBroker, fin,
                   quoted, canceller, giver, said, rounds, crashes>>

-----------------------------------------------------------------------------
(* The two timeout sweeps: a SELECT, then one UPDATE per selected row.     *)

Selected == Cardinality(lateDriver) + Cardinality(lateBroker)

SelectLateDriver(x) ==
    /\ x \notin lateDriver /\ Selected < MaxLate
    /\ row[x].status = "pending" /\ ~row[x].timedOut
    /\ lateDriver' = lateDriver \union {x}
    /\ UNCHANGED <<row, booking, trip, calls, assigning, lateBroker, fin,
                   quoted, canceller, giver, said, rounds, crashes>>

\* Bug: the sweep tells the broker but does not flag the row.
MarkNothing(x) ==
    /\ x \in lateDriver
    /\ lateDriver' = lateDriver \ {x}
    /\ UNCHANGED <<row, booking, trip, calls, assigning, lateBroker, fin,
                   quoted, canceller, giver, said, rounds, crashes>>
\* markDriverTimedOut has no status in its WHERE clause.
MarkTimedOut(x) ==
    /\ x \in lateDriver
    /\ lateDriver' = lateDriver \ {x}
    /\ row' = [row EXCEPT ![x].timedOut = TRUE]
    /\ UNCHANGED <<booking, trip, calls, assigning, lateBroker, fin,
                   quoted, canceller, giver, said, rounds, crashes>>

SelectLateBroker(x) ==
    /\ x \notin lateBroker /\ Selected < MaxLate
    /\ row[x].status = "pending" /\ row[x].timedOut
    /\ lateBroker' = lateBroker \union {x}
    /\ UNCHANGED <<row, booking, trip, calls, assigning, lateDriver, fin,
                   quoted, canceller, giver, said, rounds, crashes>>

\* respondentDecline, or nothing if the row is no longer the respondent's.
Expire(x) ==
    /\ x \in lateBroker
    /\ lateBroker' = lateBroker \ {x}
    /\ row' = IF Declinable(x, "respondent")
              THEN [row EXCEPT ![x].status = "declined"] ELSE row
    /\ UNCHANGED <<booking, trip, calls, assigning, lateDriver, fin,
                   quoted, canceller, giver, said, rounds, crashes>>

Sweeps(x) == SelectLateDriver(x) \/ MarkTimedOut(x) \/ SelectLateBroker(x) \/ Expire(x)

-----------------------------------------------------------------------------
(* finalizeDriverRequest / finalizeJobRequest, one query at a time.         *)

Finishes(x, step) ==
    /\ fin' = [fin EXCEPT ![x] = step]
    /\ UNCHANGED <<trip, calls, assigning, lateDriver, lateBroker, canceller,
                   giver, said, rounds, crashes>>

\* The truck is taken and has no room for this load (see module Dispatch).
TruckRefused(x) ==
    /\ fin[x] = "claim" /\ x \in DriverReqs
    /\ Finishes(x, "rollback")
    /\ UNCHANGED <<row, booking, quoted>>

\* Bug: the claim does not write broker_id.
ClaimKeepsBroker(x) ==
    /\ fin[x] = "claim" /\ booking.status \in ClaimFrom(x)
    /\ booking' = IF x \in JobReqs
                  THEN [booking EXCEPT !.status = "confirmed"]
                  ELSE [booking EXCEPT !.status = "assigned", !.holder = x]
    /\ quoted' = [quoted EXCEPT ![x] = booking.amount]
    /\ Finishes(x, "price")
    /\ UNCHANGED row
\* advanceStatusIfCurrent: the compare-and-swap on the booking.
Claim(x) ==
    /\ fin[x] = "claim" /\ booking.status \in ClaimFrom(x)
    /\ booking' = IF x \in JobReqs
                  THEN [booking EXCEPT !.status = "confirmed", !.broker = x]
                  ELSE [booking EXCEPT !.status = "assigned", !.holder = x,
                                       !.broker = BrokerOf(x)]
    /\ quoted' = [quoted EXCEPT ![x] = booking.amount]
    /\ Finishes(x, "price")
    /\ UNCHANGED row

ClaimLost(x) ==
    /\ fin[x] = "claim" /\ booking.status \notin ClaimFrom(x)
    /\ Finishes(x, "rollback")
    /\ UNCHANGED <<row, booking, quoted>>

\* Bug: the rollback looks for a status the row no longer has.
RollbackFromPending(x) ==
    /\ fin[x] = "rollback"
    /\ row' = IF row[x].status = "pending"
              THEN [row EXCEPT ![x].status = "declined"] ELSE row
    /\ Finishes(x, "idle")
    /\ UNCHANGED <<booking, quoted>>
\* Bug: the rollback waits for a status the row no longer has.
RollbackWaits(x) ==
    /\ fin[x] = "rollback" /\ row[x].status = "awaiting_confirmation"
    /\ row' = [row EXCEPT ![x].status = "declined"]
    /\ Finishes(x, "idle")
    /\ UNCHANGED <<booking, quoted>>
\* rollbackAccepted swaps from 'accepted', the status the row really has.
Rollback(x) ==
    /\ fin[x] = "rollback"
    /\ row' = IF Accepted(x) THEN [row EXCEPT ![x].status = "declined"] ELSE row
    /\ Finishes(x, "idle")
    /\ UNCHANGED <<booking, quoted>>

FixPrice(x) ==
    /\ fin[x] = "price"
    /\ booking' = IF quoted[x] # row[x].amount
                  THEN [booking EXCEPT !.amount = row[x].amount] ELSE booking
    /\ Finishes(x, "siblings")
    /\ UNCHANGED <<row, quoted>>

SameTable(x) == IF x \in JobReqs THEN JobReqs ELSE DriverReqs

DeclineSiblings(x) ==
    /\ fin[x] = "siblings"
    /\ row' = DeclineAll(SameTable(x) \ {x})
    /\ Finishes(x, IF x \in JobReqs THEN "done" ELSE "jobs")
    /\ UNCHANGED <<booking, quoted>>

DeclineJobs(x) ==
    /\ fin[x] = "jobs"
    /\ row' = DeclineAll(JobReqs)
    /\ Finishes(x, "trip")
    /\ UNCHANGED <<booking, quoted>>

\* The trip's earnings are those of the booking object the claim returned.
CreateTrip(x) ==
    /\ fin[x] = "trip" /\ trip.status = "none"
    /\ trip' = [status |-> "confirmed", req |-> x, earnings |-> quoted[x]]
    /\ fin' = [fin EXCEPT ![x] = "done"]
    /\ UNCHANGED <<row, booking, calls, assigning, lateDriver, lateBroker,
                   quoted, canceller, giver, said, rounds, crashes>>

\* trips.booking_id is UNIQUE: the INSERT fails, the handler answers 500.
CreateTripClash(x) ==
    /\ fin[x] = "trip" /\ trip.status # "none"
    /\ Finishes(x, "stranded")
    /\ UNCHANGED <<row, booking, quoted>>

Finalize(x) ==
    \/ TruckRefused(x) \/ Claim(x) \/ ClaimLost(x) \/ Rollback(x)
    \/ FixPrice(x) \/ DeclineSiblings(x) \/ DeclineJobs(x)
    \/ CreateTrip(x) \/ CreateTripClash(x)

-----------------------------------------------------------------------------
(* cancelBooking: every query of it after the check of the status it read. *)

CancelMoves(from, to) ==
    /\ canceller = from /\ canceller' = to
    /\ UNCHANGED <<calls, assigning, lateDriver, lateBroker, fin, quoted,
                   giver, said, rounds, crashes>>

CancelCheck ==
    /\ booking.status \in {"pending", "confirmed", "assigned"}
    /\ CancelMoves("idle", "write")
    /\ UNCHANGED <<row, booking, trip>>

\* BookingModel.update, whatever the status has become meanwhile.
CancelWrite ==
    /\ CancelMoves("write", "jobs")
    /\ booking' = [booking EXCEPT !.status = "cancelled"]
    /\ UNCHANGED <<row, trip>>

CancelJobs ==
    /\ CancelMoves("jobs", "drivers")
    /\ row' = DeclineAll(JobReqs)
    /\ UNCHANGED <<booking, trip>>

CancelDrivers ==
    /\ CancelMoves("drivers", "trip")
    /\ row' = DeclineAll(DriverReqs)
    /\ UNCHANGED <<booking, trip>>

CancelTrip ==
    /\ CancelMoves("trip", "idle")
    /\ trip' = IF trip.status = "none" THEN trip ELSE [trip EXCEPT !.status = "cancelled"]
    /\ UNCHANGED <<row, booking>>

CancelBooking == CancelCheck \/ CancelWrite \/ CancelJobs \/ CancelDrivers \/ CancelTrip

-----------------------------------------------------------------------------
(* declineTrip: the driver of a trip that has not started gives it back.   *)

GiverMoves(x, from, to) ==
    /\ giver[x] = from /\ giver' = [giver EXCEPT ![x] = to]
    /\ UNCHANGED <<row, calls, assigning, lateDriver, lateBroker, fin, quoted,
                   canceller, said, rounds, crashes>>

GiveCheck(x) ==
    /\ trip.req = x /\ trip.status = "confirmed"
    /\ GiverMoves(x, "idle", "write")
    /\ UNCHANGED <<booking, trip>>

GiveWrite(x) ==
    /\ GiverMoves(x, "write", "remove")
    /\ booking' = [booking EXCEPT !.status = "confirmed", !.holder = NoReq]
    /\ UNCHANGED trip

\* TripModel.remove deletes the trip it read, by its id.
GiveRemove(x) ==
    /\ GiverMoves(x, "remove", "idle")
    /\ trip' = IF trip.req = x THEN NoTrip ELSE trip
    /\ UNCHANGED booking

DeclineTrip(x) == GiveCheck(x) \/ GiveWrite(x) \/ GiveRemove(x)

-----------------------------------------------------------------------------
(* A restart of the server forgets every handler and sweep in progress.    *)

Crash ==
    /\ crashes < MaxCrashes /\ crashes' = crashes + 1
    /\ calls' = {} /\ assigning' = {} /\ lateDriver' = {} /\ lateBroker' = {}
    /\ canceller' = "idle" /\ giver' = [x \in DriverReqs |-> "idle"]
    /\ fin' = [x \in Reqs |-> CASE fin[x] \in {"claim", "rollback"} -> "orphaned"
                                [] fin[x] \in Working -> "stranded"
                                [] OTHER -> fin[x]]
    /\ UNCHANGED <<row, booking, trip, quoted, said, rounds>>

Next ==
    \/ \E c \in Calls : Call(c) \/ Commit(c)
    \/ \E j \in JobReqs : AssignRead(j)
    \/ \E a \in assigning, x \in DriverReqs : AssignInsert(a, x)
    \/ \E x \in DriverReqs : Sweeps(x) \/ DeclineTrip(x)
    \/ \E x \in Reqs : Finalize(x)
    \/ CancelBooking
    \/ Crash

\* The event loop runs every handler it has started to its end, and cron
\* starts both sweeps every minute.  Nothing makes a person send a request.
Fairness ==
    /\ \A c \in Calls : WF_vars(Commit(c))
    /\ \A x \in Reqs : WF_vars(Finalize(x))
    /\ \A x \in DriverReqs : WF_vars(Sweeps(x)) /\ WF_vars(GiveWrite(x) \/ GiveRemove(x))
    /\ WF_vars(CancelWrite \/ CancelJobs \/ CancelDrivers \/ CancelTrip)

Spec == Init /\ [][Next]_vars
LiveSpec == Spec /\ Fairness

-----------------------------------------------------------------------------
(* Safety *)

\* No booking is won on one side's word: both parties of a first-hand request
\* accepted it, and a broker-assigned one has the driver's (or broker's) accept
\* on top of a job_request both parties had accepted (respondentAccept,
\* clientAcceptIfCountered, brokerAccept, respondentAcceptDirect).
MutualConsent ==
    \A x \in Reqs : Won(x) =>
        IF Assigned(x)
        THEN "respondent" \in said[x] /\ said[row[x].job] = Parties
        ELSE said[x] = Parties

\* The two tables compete for one booking, and at most one of the requests that
\* were negotiated with the client ever wins it (advanceStatusIfCurrent).
OneWinner ==
    \A x, y \in Reqs : Won(x) /\ Won(y) /\ ~Assigned(x) /\ ~Assigned(y) => x = y

\* The bulk declines of losers, of a cancellation and of the sweeps never take
\* the row the booking was won with, and no stale handler reopens it.
WonStaysAccepted == \A x \in Reqs : Won(x) => Accepted(x)

\* A row is not left 'accepted' by a finalize that gave up: an accepted row has
\* won, is being finalized, or lost its finalize to a restart (rollbackAccepted).
NoPhantomAccept == \A x \in Reqs : Accepted(x) => fin[x] # "idle"

\* An assigned booking names the driver, truck and broker of a request that won
\* it, through every interleaving of accepts, hand-backs and cancellations.
HolderWon ==
    booking.status = "assigned" =>
        /\ booking.holder \in DriverReqs /\ Won(booking.holder)
        /\ booking.broker = BrokerOf(booking.holder)

\* A declined row never reopens, and from the first accept on neither its price
\* changes nor does it return to the negotiation (the WHERE clauses).
NoRenegotiation ==
    [][\A x \in Reqs :
         /\ row[x].status = "declined" => row'[x].status = "declined"
         /\ row[x].status \in {"awaiting_confirmation", "accepted"} =>
              /\ row'[x].amount = row[x].amount
              /\ row'[x].status \in {"awaiting_confirmation", "accepted", "declined"}
         /\ row[x].status = "accepted" => row'[x].status # "awaiting_confirmation"]_vars

-----------------------------------------------------------------------------
(* Refinement: the requests negotiated with the client are the offers.     *)

FirstHand(x) == Exists(x) /\ ~Assigned(x)

Award == INSTANCE OfferAward WITH
    Offers  <- Reqs,
    NoOffer <- NoReq,
    state   <- [x \in Reqs |-> CASE ~FirstHand(x) -> "unmade"
                                 [] FirstHand(x) /\ row[x].status = "declined" -> "dead"
                                 [] OTHER -> "open"],
    consent <- [x \in Reqs |-> CASE row[x].status = "awaiting_confirmation" -> {row[x].by}
                                 [] Accepted(x) /\ ~Assigned(x) -> Parties
                                 [] OTHER -> {}],
    winner  <- IF \E x \in Reqs : Won(x) /\ ~Assigned(x)
               THEN CHOOSE x \in Reqs : Won(x) /\ ~Assigned(x)
               ELSE NoReq

\* The negotiation implements OfferAward: handlers, sweeps, cancellation,
\* hand-backs and restarts award the booking once, to an offer with the consent
\* of both parties, and never take it back from that offer.
AwardsOnce == Award!Spec

-----------------------------------------------------------------------------
(* Liveness, under LiveSpec *)

\* A second accept is answered: its finalize wins, loses or fails.
HandshakeSettles ==
    \A x \in Reqs :
        fin[x] \in {"claim", "rollback"} \union Working ~>
            fin[x] \notin {"claim", "rollback"} \union Working

\* "so the client isn't left waiting indefinitely": a driver_request does not
\* stay 'pending', even if neither the driver nor the broker ever answers.
RequestAnswered ==
    \A x \in DriverReqs : row[x].status = "pending" ~> row[x].status # "pending"

-----------------------------------------------------------------------------
(* What comments and docs say of the code, and the code does not do *)

\* MUTUAL_CONFIRMATION_FLOW: "the price is locked at whatever it was when the
\* first side accepted" - the trip pays the driver by that price.
TripPaysAgreedPrice ==
    trip.status # "none" => trip.earnings = row[trip.req].amount

=============================================================================
