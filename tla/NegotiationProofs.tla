-------------------------- MODULE NegotiationProofs --------------------------
(***************************************************************************)
(* For every set of requests, every price set and every bound: the types   *)
(* of Negotiation, that a booking is won only by mutual consent, once, by  *)
(* who holds it, that what won it stays accepted and what lost does not,   *)
(* and that the price is locked.  Then, that Negotiation implements        *)
(* OfferAward: each query of a handler is one of the abstract steps - an   *)
(* offer is made, agreed to, awarded or killed - or changes nothing that   *)
(* OfferAward sees.                                                        *)
(***************************************************************************)
EXTENDS Negotiation, TLAPS

USE RequestIds, PriceRange, Bounds
-----------------------------------------------------------------------------
(* Type correctness *)

\* Initially every variable has its type.
LEMMA InitType == Init => TypeOK
  BY DEF Init, TypeOK, Rows, Bookings, Trips, NoTrip, Calls, Parties, Statuses,
         FinSteps, WonSteps, Working, Reqs

\* A bulk decline changes statuses only, and of open rows of S only.
LEMMA DeclineAllType ==
    ASSUME row \in [Reqs -> Rows], NEW S
    PROVE  /\ DeclineAll(S) \in [Reqs -> Rows]
           /\ \A x \in Reqs :
                /\ DeclineAll(S)[x].job = row[x].job
                /\ DeclineAll(S)[x].by = row[x].by
                /\ DeclineAll(S)[x].status \in {row[x].status, "declined"}
                /\ row[x].status \notin StillOpen =>
                     DeclineAll(S)[x] = row[x]
  BY DEF DeclineAll, Rows, Statuses, StillOpen

\* A counter-offer writes a row of the table's type.
LEMMA CounterType ==
    ASSUME row \in [Reqs -> Rows], NEW x \in Reqs, NEW a \in Prices, NEW new,
           \/ new = [row EXCEPT ![x].amount = a, ![x].status = "countered"]
           \/ new = [row EXCEPT ![x].amount = a, ![x].status = "pending",
                                ![x].timedOut = FALSE]
    PROVE  new \in [Reqs -> Rows]
  BY DEF Rows, Statuses

\* So does an INSERT.
LEMMA InsertType ==
    ASSUME row \in [Reqs -> Rows], NEW x \in Reqs, NEW a \in Prices,
           NEW j \in JobReqs \union {NoReq}, NEW new,
           \/ new = [row EXCEPT ![x].status = "pending", ![x].amount = a]
           \/ new = [row EXCEPT ![x].status = "pending", ![x].amount = a, ![x].job = j]
    PROVE  new \in [Reqs -> Rows]
  BY DEF Rows, Statuses

\* A write of one status, confirmation or timeout column keeps the type.
LEMMA UpdateType ==
    ASSUME row \in [Reqs -> Rows], NEW x \in Reqs, NEW s \in Statuses,
           NEW p \in Parties, NEW new,
           \/ new = [row EXCEPT ![x].status = s]
           \/ new = [row EXCEPT ![x].status = s, ![x].by = p]
           \/ new = [row EXCEPT ![x].timedOut = TRUE]
    PROVE  new \in [Reqs -> Rows]
<1>1. CASE new = [row EXCEPT ![x].status = s]
  BY <1>1 DEF Rows, Statuses
<1>2. CASE new = [row EXCEPT ![x].status = s, ![x].by = p]
  <2> DEFINE half == [row EXCEPT ![x].status = s]
  <2>1. half \in [Reqs -> Rows]
    BY DEF Rows
  <2>2. new = [half EXCEPT ![x].by = p]
    BY <1>2
  <2> HIDE DEF half
  <2> QED BY <2>1, <2>2 DEF Rows
<1>3. CASE new = [row EXCEPT ![x].timedOut = TRUE]
  BY <1>3 DEF Rows
<1> QED BY <1>1, <1>2, <1>3

FinType(f) == f \in [Reqs -> FinSteps] /\ \A j \in JobReqs : f[j] \notin {"jobs", "trip"}

\* A finalize steps within its own table's steps.
LEMMA FinStepType ==
    ASSUME FinType(fin), NEW x \in Reqs, NEW s \in FinSteps,
           x \in JobReqs => s \notin {"jobs", "trip"}
    PROVE  FinType([fin EXCEPT ![x] = s])
  BY DEF FinType

\* Every query of every handler, sweep and restart keeps the types.
LEMMA StepType == TypeOK /\ [Next]_vars => TypeOK'
<1> SUFFICES ASSUME TypeOK, [Next]_vars PROVE TypeOK'
  OBVIOUS
<1>a. FinType(fin) /\ row \in [Reqs -> Rows]
  BY DEF TypeOK, FinType
<1>b. \A s \in {"pending", "countered", "awaiting_confirmation", "accepted",
                "declined"} : s \in Statuses
  BY DEF Statuses
<1>c. \A s \in {"idle", "claim", "rollback", "orphaned", "price", "siblings",
                "jobs", "trip", "done", "stranded"} : s \in FinSteps
  BY DEF FinSteps, WonSteps, Working
<1>d. \A p \in {"client", "respondent"} : p \in Parties
  BY DEF Parties
<1>1. ASSUME NEW c \in Calls, Call(c) PROVE TypeOK'
  BY <1>1 DEF Call, TypeOK
<1>2. ASSUME NEW c \in Calls, Commit(c) PROVE TypeOK'
  <2>a. c.req \in Reqs /\ Party(c.side) \in Parties
    BY DEF Calls, Party, Parties
  <2>1. row' \in [Reqs -> Rows]
    <3>1. CASE Open(c)
      BY <3>1, <2>a, <1>a, InsertType DEF Open, TypeOK, Bookings
    <3>2. CASE FirstAccept(c)
      BY <3>2, <2>a, <1>a, <1>b, UpdateType DEF FirstAccept
    <3>3. CASE SecondAccept(c) \/ DirectAccept(c) \/ Decline(c)
      BY <3>3, <2>a, <1>a, <1>b, UpdateType DEF SecondAccept, DirectAccept, Decline
    <3>4. CASE ClientCounter(c) \/ RespondentCounter(c)
      BY <3>4, <2>a, <1>a, CounterType DEF ClientCounter, RespondentCounter
    <3>5. CASE Refused(c)
      BY <3>5, <1>a DEF Refused
    <3> QED BY <1>2, <3>1, <3>2, <3>3, <3>4, <3>5 DEF Commit
  <2>2. FinType(fin')
    <3>1. fin' = fin \/ fin' = [fin EXCEPT ![c.req] = "claim"]
      BY <1>2 DEF Commit, Open, FirstAccept, SecondAccept, DirectAccept, Decline,
                  ClientCounter, RespondentCounter, Refused
    <3> QED BY <3>1, <2>a, <1>a, <1>c, FinStepType
  <2>3. said' \in [Reqs -> SUBSET Parties]
    <3>1. \/ said' = said
          \/ \E p \in Parties : said' = [said EXCEPT ![c.req] = @ \union {p}]
      BY <1>2, <2>a, <1>d DEF Commit, Open, FirstAccept, SecondAccept,
         DirectAccept, Decline, ClientCounter, RespondentCounter, Refused
    <3> QED BY <3>1, <2>a DEF TypeOK
  <2>4. Returns(c)
    BY <1>2 DEF Commit, Open, FirstAccept, SecondAccept, DirectAccept, Decline,
                ClientCounter, RespondentCounter, Refused
  <2> QED BY <2>1, <2>2, <2>3, <2>4 DEF TypeOK, FinType, Returns
<1>3. ASSUME NEW j \in JobReqs, AssignRead(j) PROVE TypeOK'
  BY <1>3 DEF AssignRead, Bookings, TypeOK
<1>4. ASSUME NEW a \in assigning, NEW x \in DriverReqs, AssignInsert(a, x) PROVE TypeOK'
  <2>1. a.amount \in Prices /\ a.job \in JobReqs /\ x \in Reqs
    BY DEF TypeOK, Reqs
  <2>2. row' \in [Reqs -> Rows]
    BY <1>4, <2>1, <1>a, InsertType DEF AssignInsert
  <2> QED BY <1>4, <2>2 DEF AssignInsert, TypeOK
<1>5. ASSUME NEW x \in DriverReqs, Sweeps(x) PROVE TypeOK'
  <2>1. row' \in [Reqs -> Rows]
    <3> x \in Reqs /\ "declined" \in Statuses /\ "client" \in Parties
      BY <1>b, <1>d DEF Reqs
    <3>1. \/ row' = row
          \/ row' = [row EXCEPT ![x].timedOut = TRUE]
          \/ row' = [row EXCEPT ![x].status = "declined"]
      BY <1>5 DEF Sweeps, SelectLateDriver, MarkTimedOut, SelectLateBroker, Expire
    <3> QED BY <3>1, <1>a, UpdateType
  <2> QED
    BY <1>5, <2>1 DEF Sweeps, SelectLateDriver, MarkTimedOut, SelectLateBroker, Expire, TypeOK
<1>6. ASSUME NEW x \in DriverReqs, DeclineTrip(x) PROVE TypeOK'
  <2> USE DEF DeclineTrip, GiveCheck, GiveWrite, GiveRemove, GiverMoves
  <2>1. booking' \in Bookings
    BY <1>6 DEF Bookings, TypeOK
  <2>2. trip' \in Trips
    BY <1>6 DEF Trips, NoTrip, TypeOK
  <2>3. giver' \in [DriverReqs -> {"idle", "write", "remove"}]
    BY <1>6 DEF TypeOK
  <2> QED
    BY <1>6, <2>1, <2>2, <2>3 DEF TypeOK
<1>7. ASSUME NEW x \in Reqs, Finalize(x) PROVE TypeOK'
  <2>a. x \in DriverReqs \/ x \in JobReqs
    BY DEF Reqs
  <2>1. FinType(fin')
    <3>1. PICK s \in FinSteps :
            /\ fin' = [fin EXCEPT ![x] = s]
            /\ x \in JobReqs => s \notin {"jobs", "trip"}
      BY <1>7, <1>a, <1>c DEF Finalize, TruckRefused, Claim, ClaimLost, Rollback, FixPrice,
         DeclineSiblings, DeclineJobs, CreateTrip, CreateTripClash, Finishes, FinType
    <3> QED BY <3>1, <1>a, FinStepType
  <2>2. row' \in [Reqs -> Rows]
    <3> "client" \in Parties
      BY <1>d
    <3>1. \/ row' = row
          \/ row' = [row EXCEPT ![x].status = "declined"]
          \/ \E S : row' = DeclineAll(S)
      BY <1>7 DEF Finalize, TruckRefused, Claim, ClaimLost, Rollback, FixPrice,
         DeclineSiblings, DeclineJobs, CreateTrip, CreateTripClash, Finishes
    <3> QED BY <3>1, <1>a, <1>b, UpdateType, DeclineAllType
  <2>3. booking' \in Bookings /\ quoted' \in [Reqs -> Prices]
    <3>1. CASE Claim(x)
      BY <3>1, <2>a DEF Claim, Bookings, BrokerOf, Reqs, Rows, Assigned, TypeOK
    <3>2. CASE FixPrice(x)
      BY <3>2 DEF FixPrice, Rows, Bookings, TypeOK
    <3>3. CASE booking' = booking /\ quoted' = quoted
      BY <3>3 DEF TypeOK
    <3> QED
      BY <1>7, <3>1, <3>2, <3>3 DEF Finalize, TruckRefused, ClaimLost, Rollback,
         DeclineSiblings, DeclineJobs, CreateTrip, CreateTripClash, Finishes
  <2>4. trip' \in Trips
    <3>1. CASE CreateTrip(x)
      <4> x \in DriverReqs /\ quoted[x] \in Prices
        BY <3>1, <2>a DEF CreateTrip, TypeOK
      <4> QED BY <3>1 DEF CreateTrip, Trips
    <3>2. CASE trip' = trip
      BY <3>2 DEF TypeOK
    <3> QED
      BY <1>7, <3>1, <3>2 DEF Finalize, TruckRefused, Claim, ClaimLost, Rollback, FixPrice,
         DeclineSiblings, DeclineJobs, CreateTripClash, Finishes
  <2>5. UNCHANGED <<calls, assigning, lateDriver, lateBroker, canceller, giver,
                    said, rounds, crashes>>
    BY <1>7 DEF Finalize, TruckRefused, Claim, ClaimLost, Rollback, FixPrice,
       DeclineSiblings, DeclineJobs, CreateTrip, CreateTripClash, Finishes
  <2> QED
    BY <2>1, <2>2, <2>3, <2>4, <2>5 DEF TypeOK, FinType
<1>8. CASE CancelBooking
  <2>1. CASE CancelJobs \/ CancelDrivers
    BY <2>1, DeclineAllType DEF CancelJobs, CancelDrivers, CancelMoves, TypeOK
  <2>2. CASE CancelCheck \/ CancelWrite \/ CancelTrip
    BY <2>2 DEF CancelCheck, CancelWrite, CancelTrip, CancelMoves, Bookings, Trips, TypeOK
  <2> QED BY <1>8, <2>1, <2>2 DEF CancelBooking
<1>9. CASE Crash
  BY <1>9 DEF Crash, FinSteps, WonSteps, Working, TypeOK, Reqs
<1>10. CASE UNCHANGED vars
  BY <1>10 DEF vars, TypeOK
<1> QED
  BY <1>1, <1>2, <1>3, <1>4, <1>5, <1>6, <1>7, <1>8, <1>9, <1>10 DEF Next

\* TypeOK holds in every reachable state.
THEOREM TypeCorrect == Spec => []TypeOK
  BY InitType, StepType, PTL DEF Spec

-----------------------------------------------------------------------------
(* The inductive invariant.  MutualConsent, OneWinner and WonStaysAccepted *)
(* say what holds once a request has won; a claim only finds an 'accepted'  *)
(* row and a 'pending' (or 'confirmed') booking, so the invariant has to    *)
(* carry the history of consents through the states before that.            *)

\* A request under finalize is accepted.
FinishingAccepted ==
    \A x \in Reqs : fin[x] \in {"claim", "rollback"} \union WonSteps => Accepted(x)

\* The party in pending_confirmation_by has accepted; an accepted row has the
\* consents its origin needs.
Committed ==
    \A x \in Reqs :
        /\ row[x].status = "awaiting_confirmation" =>
             ~Assigned(x) /\ row[x].by \in Parties /\ row[x].by \in said[x]
        /\ Accepted(x) =>
             IF Assigned(x) THEN "respondent" \in said[x] ELSE said[x] = Parties

\* A broker only assigns on a job_request that both parties had accepted.
AssignedAgreed ==
    /\ \A x \in Reqs : Assigned(x) => x \in DriverReqs /\ said[row[x].job] = Parties
    /\ \A a \in assigning : said[a.job] = Parties

\* The id of a row that is about to be inserted is fresh.
FreshOpens == \A c \in calls : c.op = "open" => c.side = "client" /\ ~Exists(c.req)
AbsentUnassigned == \A x \in Reqs : Assigned(x) => Exists(x)

\* No one has won a booking that is still 'pending'.
PendingUnwon == booking.status = "pending" => \A x \in Reqs : ~Won(x)

ConsentInv ==
    /\ FinishingAccepted /\ Committed /\ AssignedAgreed
    /\ FreshOpens /\ AbsentUnassigned /\ PendingUnwon /\ OneWinner

\* Nothing is agreed, assigned or won initially.
LEMMA InitConsent == Init => ConsentInv
  BY DEF Init, ConsentInv, FinishingAccepted, Committed, AssignedAgreed, FreshOpens,
         AbsentUnassigned, PendingUnwon, OneWinner, Accepted, Assigned, Exists, Won,
         WonSteps, Working

Finishing == {"claim", "rollback"} \union WonSteps

\* A step that only declines rows, none of them under finalize, and lets no
\* request begin a finalize or win, preserves the invariant.
LEMMA Declines ==
    ASSUME TypeOK, ConsentInv, said' = said, calls' \subseteq calls, assigning' \subseteq assigning,
           booking'.status = "pending" => booking.status = "pending",
           \A x \in Reqs :
              /\ fin'[x] \in Finishing =>
                   fin[x] \in Finishing /\ row'[x].status = row[x].status
              /\ fin'[x] \in WonSteps <=> fin[x] \in WonSteps
              /\ row'[x].status \in {row[x].status, "declined"}
              /\ row[x].status = "absent" => row'[x].status = "absent"
              /\ row'[x].job = row[x].job /\ row'[x].by = row[x].by
    PROVE  ConsentInv'
<1> USE DEF Accepted, Assigned, Exists, Won
<1>1. FinishingAccepted'
  BY DEF ConsentInv, FinishingAccepted, Finishing
<1>2. Committed'
  BY DEF ConsentInv, Committed
<1>3. AssignedAgreed'
  BY DEF ConsentInv, AssignedAgreed
<1>4. FreshOpens'
  BY DEF ConsentInv, FreshOpens, TypeOK, Calls
<1>5. AbsentUnassigned'
  BY DEF ConsentInv, AbsentUnassigned
<1>6. PendingUnwon'
  BY DEF ConsentInv, PendingUnwon
<1>7. OneWinner'
  BY DEF ConsentInv, OneWinner
<1> QED BY <1>1, <1>2, <1>3, <1>4, <1>5, <1>6, <1>7 DEF ConsentInv

\* A commit of a client, driver or broker preserves the invariant.
LEMMA CommitConsent ==
    ASSUME TypeOK, TypeOK', ConsentInv, NEW c \in Calls, Commit(c) PROVE ConsentInv'
<1> DEFINE x == c.req
<1>a. x \in Reqs /\ Party(c.side) \in Parties
  BY DEF Calls, Party, Parties
<1>1. CASE Open(c)
  <2>1. row[x].status = "absent" /\ row[x].job = NoReq /\ fin[x] \notin Finishing
    BY <1>1, <1>a DEF Open, Returns, ConsentInv, FreshOpens, Exists, AbsentUnassigned, Assigned,
                      FinishingAccepted, Accepted, Finishing
  <2>2. /\ row'[x].status = "pending" /\ row'[x].job = NoReq
        /\ \A y \in Reqs \ {x} : row'[y] = row[y]
    BY <1>1, <1>a, <2>1 DEF Open, TypeOK, Rows
  <2>3. \A d \in calls' : d.op = "open" => d.req # x
    BY <1>1 DEF Open, Returns, ConsentInv, FreshOpens, Calls, TypeOK
  <2> UNCHANGED <<fin, said, booking, assigning>> /\ calls' \subseteq calls
    BY <1>1 DEF Open, Returns
  <2> USE <2>1, <2>2 DEF ConsentInv, Accepted, Assigned, Exists, Won
  <2>4. FinishingAccepted' /\ PendingUnwon'
    BY DEF FinishingAccepted, PendingUnwon, Finishing
  <2>5. Committed'
    BY DEF Committed
  <2>6. AssignedAgreed' /\ AbsentUnassigned'
    BY DEF AssignedAgreed, AbsentUnassigned
  <2>7. FreshOpens'
    BY <2>3 DEF FreshOpens, TypeOK, Calls
  <2>8. OneWinner'
    BY DEF OneWinner, FinishingAccepted, Finishing
  <2> QED BY <2>4, <2>5, <2>6, <2>7, <2>8
<1>2. CASE FirstAccept(c) \/ SecondAccept(c) \/ DirectAccept(c)
  <2>1. /\ UNCHANGED <<booking, assigning>> /\ calls' \subseteq calls
        /\ \A y \in Reqs : row'[y].job = row[y].job /\ said[y] \subseteq said'[y]
        /\ \A y \in Reqs \ {x} : row'[y] = row[y] /\ said'[y] = said[y] /\ fin'[y] = fin[y]
        /\ row[x].status \in StillOpen
        /\ fin'[x] \in {fin[x], "claim"}
    BY <1>2, <1>a DEF FirstAccept, SecondAccept, DirectAccept, Returns, TypeOK, Rows,
                      FirstMove, ToConfirm, StillOpen
  <2>2. fin[x] \notin Finishing /\ fin'[x] \notin WonSteps
    BY <2>1, <1>a DEF ConsentInv, FinishingAccepted, Accepted, Finishing, StillOpen, WonSteps, Working
  <2>3. FinishingAccepted'
    <3>1. fin'[x] \in Finishing => row'[x].status = "accepted"
      BY <1>2, <2>2, <1>a DEF FirstAccept, SecondAccept, DirectAccept, TypeOK, Rows
    <3> QED BY <3>1, <2>1 DEF ConsentInv, FinishingAccepted, Accepted, Finishing
  <2>4. Committed'
    <3>1. CASE FirstAccept(c)
      <4>1. /\ row'[x].status = "awaiting_confirmation" /\ row'[x].by = Party(c.side)
            /\ Party(c.side) \in said'[x] /\ row[x].job = NoReq
        BY <3>1, <1>a DEF FirstAccept, TypeOK, Rows, Assigned
      <4> QED BY <4>1, <2>1, <1>a DEF ConsentInv, Committed, Accepted, Assigned
    <3>2. CASE SecondAccept(c)
      <4>1. /\ row'[x].status = "accepted" /\ row[x].job = NoReq
            /\ said'[x] = said[x] \union {Party(c.side)}
            /\ Other(Party(c.side)) \in said[x]
        BY <3>2, <1>a DEF SecondAccept, TypeOK, Rows, Assigned, ToConfirm, ConsentInv, Committed
      <4>2. said'[x] = Parties
        BY <4>1, <1>a DEF Other, Party, Parties, TypeOK
      <4> QED BY <4>1, <4>2, <2>1, <1>a DEF ConsentInv, Committed, Accepted, Assigned
    <3>3. CASE DirectAccept(c)
      <4>1. /\ row'[x].status = "accepted" /\ row[x].job # NoReq
            /\ "respondent" \in said'[x]
        BY <3>3, <1>a DEF DirectAccept, TypeOK, Rows, Assigned
      <4> QED BY <4>1, <2>1, <1>a DEF ConsentInv, Committed, Accepted, Assigned
    <3> QED BY <1>2, <3>1, <3>2, <3>3
  <2>5. AssignedAgreed'
    <3>a. said' \in [Reqs -> SUBSET Parties]
      BY DEF TypeOK
    <3>1. \A j \in Reqs : said[j] = Parties => said'[j] = Parties
      BY <3>a, <2>1
    <3>2. \A y \in Reqs : Assigned(y) => row[y].job \in Reqs
      BY DEF Assigned, TypeOK, Rows, Reqs
    <3> QED BY <3>1, <3>2, <2>1 DEF ConsentInv, AssignedAgreed, Assigned, TypeOK, Reqs
  <2>6. FreshOpens' /\ AbsentUnassigned'
    <3>1. row[x].status # "absent" /\ row'[x].status # "absent"
      BY <1>2, <2>1, <1>a DEF FirstAccept, SecondAccept, DirectAccept, TypeOK, Rows, StillOpen
    <3> QED
      BY <3>1, <2>1 DEF ConsentInv, FreshOpens, AbsentUnassigned, Exists, Assigned, TypeOK, Calls
  <2>7. PendingUnwon' /\ OneWinner'
    BY <2>1, <2>2 DEF ConsentInv, PendingUnwon, OneWinner, Won, Assigned
  <2> QED BY <2>3, <2>4, <2>5, <2>6, <2>7 DEF ConsentInv
<1>3. CASE Decline(c)
  <2>1. row[x].status \notin {"accepted", "absent"}
    BY <1>3 DEF Decline, Declinable, ToConfirm
  <2> QED
    BY <1>3, <2>1, <1>a, Declines DEF Decline, Returns, TypeOK, Rows, Finishing, ConsentInv,
                                      FinishingAccepted, Accepted
<1>4. CASE ClientCounter(c) \/ RespondentCounter(c)
  <2>1. /\ UNCHANGED <<booking, assigning, fin, said>> /\ calls' \subseteq calls
        /\ \A y \in Reqs : row'[y].job = row[y].job /\ row'[y].by = row[y].by
        /\ \A y \in Reqs \ {x} : row'[y] = row[y]
        /\ row[x].status \in {"pending", "countered"}
        /\ row'[x].status \in {"pending", "countered"}
    <3>1. PICK a \in Prices :
            \/ row' = [row EXCEPT ![x].amount = a, ![x].status = "pending",
                                  ![x].timedOut = FALSE]
            \/ row' = [row EXCEPT ![x].amount = a, ![x].status = "countered"]
      BY <1>4 DEF ClientCounter, RespondentCounter
    <3>2. /\ \A y \in Reqs \ {x} : row'[y] = row[y]
          /\ row'[x].status \in {"pending", "countered"}
          /\ row'[x].job = row[x].job /\ row'[x].by = row[x].by
      BY <3>1, <1>a DEF TypeOK, Rows
    <3>3. UNCHANGED <<booking, assigning, fin, said>> /\ calls' \subseteq calls
      BY <1>4 DEF ClientCounter, RespondentCounter, Returns
    <3>4. row[x].status \in {"pending", "countered"}
      BY <1>4 DEF ClientCounter, RespondentCounter, FirstMove
    <3> QED BY <3>2, <3>3, <3>4
  <2> QED
    BY <2>1, <1>a DEF ConsentInv, FinishingAccepted, Committed, AssignedAgreed, FreshOpens,
       AbsentUnassigned, PendingUnwon, OneWinner, Accepted, Assigned, Exists, Won, TypeOK, Calls
<1>5. CASE Refused(c)
  BY <1>5, Declines DEF Refused, Returns
<1> QED BY <1>1, <1>2, <1>3, <1>4, <1>5 DEF Commit

\* So does a step of a finalize.
LEMMA FinalizeConsent ==
    ASSUME TypeOK, TypeOK', ConsentInv, NEW x \in Reqs, Finalize(x) PROVE ConsentInv'
<1>1. CASE Claim(x)
  <2>1. /\ row' = row /\ said' = said /\ UNCHANGED <<calls, assigning>>
        /\ fin[x] = "claim" /\ fin' = [fin EXCEPT ![x] = "price"]
        /\ booking.status \in ClaimFrom(x) /\ booking'.status \in {"confirmed", "assigned"}
    BY <1>1 DEF Claim, Finishes, TypeOK, Bookings
  <2>2. /\ fin'[x] \in WonSteps /\ \A y \in Reqs \ {x} : fin'[y] = fin[y]
    BY <2>1 DEF TypeOK, WonSteps, Working
  <2>3. OneWinner'
    <3>1. Assigned(x) \/ \A y \in Reqs : ~Won(y)
      BY <2>1 DEF ClaimFrom, ConsentInv, PendingUnwon
    <3> QED BY <3>1, <2>1, <2>2 DEF ConsentInv, OneWinner, Won, Assigned
  <2>4. FinishingAccepted' /\ PendingUnwon'
    BY <2>1, <2>2 DEF ConsentInv, FinishingAccepted, Accepted, PendingUnwon
  <2> QED
    BY <2>1, <2>3, <2>4 DEF ConsentInv, Committed, AssignedAgreed, FreshOpens, AbsentUnassigned,
                            Accepted, Assigned, Exists
<1>2. CASE Rollback(x)
  BY <1>2, Declines DEF Rollback, Finishes, TypeOK, Rows, Finishing, WonSteps, Working, Accepted
<1>3. CASE DeclineSiblings(x) \/ DeclineJobs(x)
  <2>1. PICK S : row' = DeclineAll(S)
    BY <1>3 DEF DeclineSiblings, DeclineJobs
  <2>2. \A y \in Reqs :
          /\ fin'[y] \in Finishing => fin[y] \in Finishing
          /\ fin'[y] \in WonSteps <=> fin[y] \in WonSteps
    BY <1>3 DEF DeclineSiblings, DeclineJobs, Finishes, TypeOK, Finishing, WonSteps, Working
  <2>3. \A y \in Reqs : fin[y] \in Finishing => row'[y].status = row[y].status
    BY <2>1, DeclineAllType DEF TypeOK, ConsentInv, FinishingAccepted, Accepted, Finishing, StillOpen
  <2>4. \A y \in Reqs :
              /\ row'[y].status \in {row[y].status, "declined"}
              /\ row[y].status = "absent" => row'[y].status = "absent"
              /\ row'[y].job = row[y].job /\ row'[y].by = row[y].by
    BY <2>1, DeclineAllType DEF TypeOK, StillOpen
  <2>5. UNCHANGED <<said, calls, assigning, booking>>
    BY <1>3 DEF DeclineSiblings, DeclineJobs, Finishes
  <2> QED BY <2>2, <2>3, <2>4, <2>5, Declines
<1>4. CASE TruckRefused(x) \/ ClaimLost(x)
  BY <1>4, Declines DEF TruckRefused, ClaimLost, Finishes, TypeOK, Finishing, WonSteps, Working
<1>5. CASE FixPrice(x) \/ CreateTrip(x) \/ CreateTripClash(x)
  <2>1. UNCHANGED <<row, said, calls, assigning>> /\ booking'.status = booking.status
    BY <1>5 DEF FixPrice, CreateTrip, CreateTripClash, Finishes, TypeOK, Bookings
  <2>2. \A y \in Reqs :
          /\ fin'[y] \in Finishing => fin[y] \in Finishing
          /\ fin'[y] \in WonSteps <=> fin[y] \in WonSteps
    BY <1>5 DEF FixPrice, CreateTrip, CreateTripClash, Finishes, TypeOK, Finishing, WonSteps, Working
  <2> QED BY <2>1, <2>2, Declines
<1> QED BY <1>1, <1>2, <1>3, <1>4, <1>5 DEF Finalize

\* Every step preserves the consents, the acceptances and the single winner.
LEMMA StepConsent == TypeOK /\ TypeOK' /\ ConsentInv /\ [Next]_vars => ConsentInv'
<1> SUFFICES ASSUME TypeOK, TypeOK', ConsentInv, [Next]_vars PROVE ConsentInv'
  OBVIOUS
<1>1. ASSUME NEW c \in Calls, Call(c) PROVE ConsentInv'
  BY <1>1 DEF Call, Validated, MayOpen, MayAccept, MayDecline, MayCounter, ConsentInv,
     FinishingAccepted, Committed, AssignedAgreed, FreshOpens, AbsentUnassigned, PendingUnwon,
     OneWinner, Accepted, Assigned, Exists, Won
<1>2. ASSUME NEW c \in Calls, Commit(c) PROVE ConsentInv'
  BY <1>2, CommitConsent
<1>3. ASSUME NEW j \in JobReqs, AssignRead(j) PROVE ConsentInv'
  <2>1. said[j] = Parties
    BY <1>3 DEF AssignRead, ConsentInv, Committed, AssignedAgreed, Reqs
  <2> QED
    BY <1>3, <2>1 DEF AssignRead, ConsentInv, FinishingAccepted, Committed, AssignedAgreed,
       FreshOpens, AbsentUnassigned, PendingUnwon, OneWinner, Accepted, Assigned, Exists, Won
<1>4. ASSUME NEW a \in assigning, NEW x \in DriverReqs, AssignInsert(a, x) PROVE ConsentInv'
  <2>1. /\ row[x].status = "absent" /\ fin[x] \notin Finishing /\ x \in Reqs
        /\ said[a.job] = Parties
    BY <1>4 DEF AssignInsert, Exists, ConsentInv, FinishingAccepted, Accepted, Finishing,
                AssignedAgreed, Reqs
  <2>2. /\ row'[x].status = "pending" /\ row'[x].job = a.job
        /\ \A y \in Reqs \ {x} : row'[y] = row[y]
    BY <1>4, <2>1 DEF AssignInsert, TypeOK, Rows
  <2>3. \A d \in calls : d.req # x
    BY <1>4 DEF AssignInsert
  <2>4. UNCHANGED <<fin, said, booking, calls>> /\ assigning' \subseteq assigning
    BY <1>4 DEF AssignInsert
  <2> USE <2>1, <2>2, <2>4 DEF ConsentInv, Accepted, Assigned, Exists, Won
  <2>5. FinishingAccepted' /\ PendingUnwon'
    BY DEF FinishingAccepted, PendingUnwon, Finishing
  <2>6. Committed' /\ AbsentUnassigned'
    BY DEF Committed, AbsentUnassigned
  <2>7. AssignedAgreed'
    BY DEF AssignedAgreed
  <2>8. FreshOpens'
    BY <2>3 DEF FreshOpens, TypeOK, Calls
  <2>9. OneWinner'
    BY DEF OneWinner, Finishing
  <2> QED BY <2>5, <2>6, <2>7, <2>8, <2>9
<1>5. ASSUME NEW x \in DriverReqs, Sweeps(x) PROVE ConsentInv'
  <2>1. UNCHANGED <<fin, said, booking, calls, assigning>>
    BY <1>5 DEF Sweeps, SelectLateDriver, MarkTimedOut, SelectLateBroker, Expire
  <2>2. \/ row' = row
        \/ row' = [row EXCEPT ![x].timedOut = TRUE]
        \/ row' = [row EXCEPT ![x].status = "declined"] /\ Declinable(x, "respondent")
    BY <1>5 DEF Sweeps, SelectLateDriver, MarkTimedOut, SelectLateBroker, Expire
  <2>3. x \in Reqs /\ (Declinable(x, "respondent") => row[x].status \in StillOpen)
    BY DEF Declinable, ToConfirm, StillOpen, Reqs
  <2>4. fin[x] \in Finishing => row[x].status = "accepted"
    BY <2>3 DEF ConsentInv, FinishingAccepted, Accepted, Finishing
  <2> QED
    BY <2>1, <2>2, <2>3, <2>4, Declines DEF TypeOK, Rows, StillOpen
<1>6. ASSUME NEW x \in DriverReqs, DeclineTrip(x) PROVE ConsentInv'
  <2>1. UNCHANGED <<row, fin, said, calls, assigning>>
    BY <1>6 DEF DeclineTrip, GiveCheck, GiveWrite, GiveRemove, GiverMoves
  <2>2. booking'.status = "pending" => booking.status = "pending"
    BY <1>6 DEF DeclineTrip, GiveCheck, GiveWrite, GiveRemove, TypeOK, Bookings
  <2> QED BY <2>1, <2>2, Declines
<1>7. ASSUME NEW x \in Reqs, Finalize(x) PROVE ConsentInv'
  BY <1>7, FinalizeConsent
<1>8. CASE CancelBooking
  <2>1. UNCHANGED <<fin, said, calls, assigning>>
    BY <1>8 DEF CancelBooking, CancelCheck, CancelWrite, CancelJobs, CancelDrivers,
                CancelTrip, CancelMoves
  <2>2. booking'.status = "pending" => booking.status = "pending"
    BY <1>8 DEF CancelBooking, CancelCheck, CancelWrite, CancelJobs, CancelDrivers,
                CancelTrip, CancelMoves, TypeOK, Bookings
  <2>3. row' = row \/ \E S : row' = DeclineAll(S)
    BY <1>8 DEF CancelBooking, CancelCheck, CancelWrite, CancelJobs, CancelDrivers, CancelTrip
  <2>4. \A y \in Reqs : fin[y] \in Finishing => row'[y].status = row[y].status
    BY <2>3, DeclineAllType
       DEF TypeOK, ConsentInv, FinishingAccepted, Accepted, Finishing, StillOpen
  <2>5. \A y \in Reqs :
              /\ row'[y].status \in {row[y].status, "declined"}
              /\ row[y].status = "absent" => row'[y].status = "absent"
              /\ row'[y].job = row[y].job /\ row'[y].by = row[y].by
    BY <2>3, DeclineAllType DEF TypeOK, StillOpen
  <2> QED BY <2>1, <2>2, <2>4, <2>5, Declines
<1>9. CASE Crash
  BY <1>9, Declines DEF Crash, Finishing, WonSteps, Working, TypeOK
<1>10. CASE UNCHANGED vars
  BY <1>10, Declines DEF vars
<1> QED
  BY <1>1, <1>2, <1>3, <1>4, <1>5, <1>6, <1>7, <1>8, <1>9, <1>10 DEF Next

\* ConsentInv holds in every reachable state.
THEOREM ConsentHolds == Spec => []ConsentInv
<1>1. TypeOK /\ ConsentInv /\ [Next]_vars => (TypeOK /\ ConsentInv)'
  BY StepType, StepConsent
<1> QED BY InitType, InitConsent, <1>1, PTL DEF Spec

\* A booking is won only with the consent of both parties (MutualConsent).
THEOREM WonByConsent == Spec => []MutualConsent
<1>1. TypeOK /\ ConsentInv => MutualConsent
  BY DEF TypeOK, ConsentInv, FinishingAccepted, Committed, AssignedAgreed, MutualConsent, Won
<1> QED BY TypeCorrect, ConsentHolds, <1>1, PTL

\* At most one of the requests negotiated with the client wins (OneWinner).
THEOREM WonOnce == Spec => []OneWinner
<1>1. ConsentInv => OneWinner
  BY DEF ConsentInv
<1> QED BY ConsentHolds, <1>1, PTL

\* What won the booking stays accepted (WonStaysAccepted).
THEOREM WinnerKept == Spec => []WonStaysAccepted
<1>1. ConsentInv => WonStaysAccepted
  BY DEF ConsentInv, FinishingAccepted, WonStaysAccepted, Won
<1> QED BY ConsentHolds, <1>1, PTL

-----------------------------------------------------------------------------
(* Who holds the booking, and what becomes of a row                         *)

\* What has won stays won, with the broker it had.
LEMMA WonKept ==
    ASSUME TypeOK, ConsentInv, [Next]_vars, NEW x \in Reqs, Won(x)
    PROVE  Won(x)' /\ BrokerOf(x)' = BrokerOf(x)
<1>1. row[x].status = "accepted"
  BY DEF ConsentInv, FinishingAccepted, Won, Accepted
<1> USE DEF Won
<1>a. row \in [Reqs -> Rows] /\ fin \in [Reqs -> FinSteps]
  BY DEF TypeOK
<1>2. fin'[x] \in WonSteps
  <2>1. ASSUME NEW c \in Calls, Commit(c) PROVE fin'[x] \in WonSteps
    <3>1. fin' = fin \/ (fin' = [fin EXCEPT ![c.req] = "claim"] /\ row[c.req].status # "accepted")
      BY <2>1 DEF Commit, Open, FirstAccept, SecondAccept, DirectAccept, Decline, ToConfirm,
                  ClientCounter, RespondentCounter, Refused
    <3> QED BY <1>1, <1>a, <3>1
  <2>2. ASSUME NEW y \in Reqs, Finalize(y) PROVE fin'[x] \in WonSteps
    <3>1. \E s \in FinSteps : /\ fin' = [fin EXCEPT ![y] = s]
                              /\ fin[y] \in WonSteps => s \in WonSteps
      BY <2>2 DEF Finalize, TruckRefused, Claim, ClaimLost, Rollback, FixPrice, DeclineSiblings,
         DeclineJobs, CreateTrip, CreateTripClash, Finishes, FinSteps, WonSteps, Working
    <3> QED BY <1>a, <3>1
  <2>3. CASE Crash
    BY <1>a, <2>3 DEF Crash, WonSteps, Working
  <2>4. CASE \/ \E c \in Calls : Call(c)
             \/ \E j \in JobReqs : AssignRead(j)
             \/ \E a \in assigning, y \in DriverReqs : AssignInsert(a, y)
             \/ \E y \in DriverReqs : Sweeps(y) \/ DeclineTrip(y)
             \/ CancelBooking \/ UNCHANGED vars
    BY <2>4 DEF Call, AssignRead, AssignInsert, Sweeps, SelectLateDriver, MarkTimedOut,
       SelectLateBroker, Expire, DeclineTrip, GiveCheck, GiveWrite, GiveRemove, GiverMoves,
       CancelBooking, CancelCheck, CancelWrite, CancelJobs, CancelDrivers, CancelTrip, CancelMoves, vars
  <2> QED BY <2>1, <2>2, <2>3, <2>4 DEF Next
<1>3. row'[x].job = row[x].job
  <2>1. ASSUME NEW c \in Calls, Commit(c) PROVE row'[x].job = row[x].job
    <3>1. c.req \in Reqs
      BY DEF Calls
    <3>2. CASE ClientCounter(c) \/ RespondentCounter(c)
      <4>1. PICK a \in Prices :
              \/ row' = [row EXCEPT ![c.req].amount = a, ![c.req].status = "pending",
                                    ![c.req].timedOut = FALSE]
              \/ row' = [row EXCEPT ![c.req].amount = a, ![c.req].status = "countered"]
        BY <3>2 DEF ClientCounter, RespondentCounter
      <4> QED BY <1>a, <3>1, <4>1 DEF Rows
    <3>3. CASE ~(ClientCounter(c) \/ RespondentCounter(c))
      BY <1>a, <2>1, <3>1, <3>3 DEF Commit, Open, FirstAccept, SecondAccept, DirectAccept, Decline,
         Refused, Rows
    <3> QED BY <3>2, <3>3
  <2>2. ASSUME NEW a \in assigning, NEW y \in DriverReqs, AssignInsert(a, y)
        PROVE  row'[x].job = row[x].job
    <3>1. y # x /\ y \in Reqs
      BY <1>1, <2>2 DEF AssignInsert, Exists, Reqs
    <3> QED BY <1>a, <2>2, <3>1 DEF AssignInsert
  <2>3. CASE \/ \E y \in DriverReqs : Sweeps(y) \/ DeclineTrip(y)
             \/ \E y \in Reqs : Finalize(y)
             \/ CancelBooking
    <3>1. \/ row' = row
          \/ \E y \in Reqs : \/ row' = [row EXCEPT ![y].timedOut = TRUE]
                             \/ row' = [row EXCEPT ![y].status = "declined"]
          \/ \E S : row' = DeclineAll(S)
      BY <2>3 DEF Reqs, Sweeps, SelectLateDriver, MarkTimedOut, SelectLateBroker, Expire,
         DeclineTrip, GiveCheck, GiveWrite, GiveRemove, GiverMoves, Finalize, TruckRefused, Claim,
         ClaimLost, Rollback, FixPrice, DeclineSiblings, DeclineJobs, CreateTrip, CreateTripClash,
         Finishes, CancelBooking, CancelCheck, CancelWrite, CancelJobs, CancelDrivers, CancelTrip
    <3> QED BY <1>a, <3>1, DeclineAllType DEF Rows
  <2>4. CASE \/ \E c \in Calls : Call(c)
             \/ \E j \in JobReqs : AssignRead(j)
             \/ Crash \/ UNCHANGED vars
    BY <2>4 DEF Call, AssignRead, Crash, vars
  <2> QED BY <2>1, <2>2, <2>3, <2>4 DEF Next
<1> QED BY <1>2, <1>3 DEF BrokerOf, Assigned

\* A booking becomes assigned by the claim of a driver request only.
LEMMA HolderStep ==
    ASSUME TypeOK, ConsentInv, HolderWon, [Next]_vars
    PROVE  HolderWon'
<1>1. ASSUME NEW x \in Reqs, Claim(x) PROVE HolderWon'
  <2>1. Won(x)' /\ row' = row
    BY <1>1 DEF Claim, Finishes, Won, WonSteps, Working, TypeOK
  <2>2. CASE x \in JobReqs
    BY <1>1, <2>2 DEF Claim, HolderWon, TypeOK, Bookings
  <2>3. CASE x \notin JobReqs
    <3>1. x \in DriverReqs
      BY <2>3 DEF Reqs
    <3>2. booking'.holder = x /\ booking'.broker = BrokerOf(x)
      BY <1>1, <2>3 DEF Claim, TypeOK, Bookings
    <3> QED BY <2>1, <3>1, <3>2 DEF HolderWon, BrokerOf, Assigned
  <2> QED BY <2>2, <2>3
<1>2. CASE \A x \in Reqs : ~Claim(x)
  <2>1. \/ /\ booking'.status = booking.status /\ booking'.holder = booking.holder
           /\ booking'.broker = booking.broker
        \/ booking'.status \in {"cancelled", "confirmed"}
    <3>1. \/ booking' = booking
          \/ \E a : booking' = [booking EXCEPT !.amount = a]
          \/ booking' = [booking EXCEPT !.status = "cancelled"]
          \/ booking' = [booking EXCEPT !.status = "confirmed", !.holder = NoReq]
      BY <1>2 DEF Next, vars, Call, Commit, Returns, Open, FirstAccept, SecondAccept, DirectAccept,
         Decline, ClientCounter, RespondentCounter, Refused, AssignRead, AssignInsert, Sweeps,
         SelectLateDriver, MarkTimedOut, SelectLateBroker, Expire, DeclineTrip, GiveCheck,
         GiveWrite, GiveRemove, Finalize, TruckRefused, ClaimLost, Rollback, FixPrice,
         DeclineSiblings, DeclineJobs, CreateTrip, CreateTripClash, CancelBooking, CancelCheck,
         CancelWrite, CancelJobs, CancelDrivers, CancelTrip, Crash
    <3> QED BY <3>1 DEF TypeOK, Bookings
  <2>2. CASE booking'.status = "assigned"
    <3>1. booking.holder \in DriverReqs /\ Won(booking.holder) /\ booking.broker = BrokerOf(booking.holder)
      BY <2>1, <2>2 DEF HolderWon
    <3> PICK h \in DriverReqs : h = booking.holder
      BY <3>1
    <3>2. h \in Reqs /\ Won(h)' /\ BrokerOf(h)' = BrokerOf(h)
      BY <3>1, WonKept DEF Reqs
    <3> QED BY <2>1, <2>2, <3>1, <3>2 DEF HolderWon
  <2> QED BY <2>2 DEF HolderWon
<1> QED BY <1>1, <1>2

LEMMA PhantomStep ==
    ASSUME TypeOK, NoPhantomAccept, [Next]_vars
    PROVE  NoPhantomAccept'
<1>a. row \in [Reqs -> Rows] /\ fin \in [Reqs -> FinSteps]
  BY DEF TypeOK
<1> USE DEF NoPhantomAccept, Accepted
<1>1. ASSUME NEW c \in Calls, Commit(c) PROVE NoPhantomAccept'
  <2> c.req \in Reqs
    BY DEF Calls
  <2>1. CASE SecondAccept(c) \/ DirectAccept(c)
    BY <1>a, <2>1 DEF SecondAccept, DirectAccept
  <2>2. CASE Refused(c)
    BY <2>2 DEF Refused
  <2>3. CASE ClientCounter(c) \/ RespondentCounter(c)
    <3>1. PICK a \in Prices :
            \/ row' = [row EXCEPT ![c.req].amount = a, ![c.req].status = "pending",
                                  ![c.req].timedOut = FALSE]
            \/ row' = [row EXCEPT ![c.req].amount = a, ![c.req].status = "countered"]
      BY <2>3 DEF ClientCounter, RespondentCounter
    <3>2. fin' = fin
      BY <2>3 DEF ClientCounter, RespondentCounter
    <3>3. \A y \in Reqs : row'[y] = row[y] \/ row'[y].status \in {"pending", "countered"}
      BY <1>a, <3>1 DEF Rows
    <3> QED BY <3>2, <3>3
  <2>4. CASE Open(c) \/ FirstAccept(c) \/ Decline(c)
    BY <1>a, <2>4 DEF Open, FirstAccept, Decline, Rows
  <2> QED BY <1>1, <2>1, <2>2, <2>3, <2>4 DEF Commit
<1>2. ASSUME NEW a \in assigning, NEW x \in DriverReqs, AssignInsert(a, x) PROVE NoPhantomAccept'
  BY <1>a, <1>2 DEF AssignInsert, Rows, Reqs
<1>3. ASSUME NEW x \in Reqs, Rollback(x) PROVE NoPhantomAccept'
  BY <1>a, <1>3 DEF Rollback, Finishes, Rows
<1>4. CASE Crash
  BY <1>a, <1>4 DEF Crash, Working
<1>5. ASSUME NEW x \in Reqs, Finalize(x), ~Rollback(x) PROVE NoPhantomAccept'
  <2>1. row' = row \/ \E S : row' = DeclineAll(S)
    BY <1>5 DEF Finalize, TruckRefused, Claim, ClaimLost, FixPrice, DeclineSiblings, DeclineJobs,
       CreateTrip, CreateTripClash, Finishes
  <2>2. \E s : s # "idle" /\ fin' = [fin EXCEPT ![x] = s]
    BY <1>5 DEF Finalize, TruckRefused, Claim, ClaimLost, FixPrice, DeclineSiblings, DeclineJobs,
       CreateTrip, CreateTripClash, Finishes
  <2>3. \A y \in Reqs : row'[y].status \in {row[y].status, "declined"}
    BY <1>a, <2>1, DeclineAllType
  <2> QED BY <1>a, <2>2, <2>3
<1>6. CASE \/ \E c \in Calls : Call(c)
           \/ \E j \in JobReqs : AssignRead(j)
           \/ \E x \in DriverReqs : Sweeps(x) \/ DeclineTrip(x)
           \/ CancelBooking \/ UNCHANGED vars
  <2>1. fin' = fin
    BY <1>6 DEF vars, Call, AssignRead, Sweeps, SelectLateDriver, MarkTimedOut, SelectLateBroker,
       Expire, DeclineTrip, GiveCheck, GiveWrite, GiveRemove, GiverMoves, CancelBooking, CancelCheck,
       CancelWrite, CancelJobs, CancelDrivers, CancelTrip, CancelMoves
  <2>2. \/ row' = row
        \/ \E y \in Reqs : \/ row' = [row EXCEPT ![y].timedOut = TRUE]
                           \/ row' = [row EXCEPT ![y].status = "declined"]
        \/ \E S : row' = DeclineAll(S)
    BY <1>6 DEF vars, Reqs, Call, AssignRead, Sweeps, SelectLateDriver, MarkTimedOut,
       SelectLateBroker, Expire, DeclineTrip, GiveCheck, GiveWrite, GiveRemove, GiverMoves,
       CancelBooking, CancelCheck, CancelWrite, CancelJobs, CancelDrivers, CancelTrip
  <2>3. \A y \in Reqs : row'[y].status \in {row[y].status, "declined"}
    BY <1>a, <2>2, DeclineAllType DEF Rows
  <2> QED BY <2>1, <2>3
<1> QED BY <1>1, <1>2, <1>3, <1>4, <1>5, <1>6 DEF Next

\* An assigned booking names the driver and broker of a request that won it (HolderWon).
THEOREM HolderHasWon == Spec => []HolderWon
<1>1. Init => HolderWon
  BY DEF Init, HolderWon
<1>2. TypeOK /\ ConsentInv /\ HolderWon /\ [Next]_vars => HolderWon'
  BY HolderStep
<1> QED BY TypeCorrect, ConsentHolds, <1>1, <1>2, PTL DEF Spec

\* No finalize that gives up leaves its row accepted (NoPhantomAccept).
THEOREM RolledBack == Spec => []NoPhantomAccept
<1>1. Init => NoPhantomAccept
  BY DEF Init, NoPhantomAccept, Accepted
<1>2. TypeOK /\ NoPhantomAccept /\ [Next]_vars => NoPhantomAccept'
  BY PhantomStep
<1> QED BY TypeCorrect, <1>1, <1>2, PTL DEF Spec

\* What a step may do to a row.
Onward(x) ==
    /\ row[x].status = "declined" => row'[x].status = "declined"
    /\ row[x].status \in {"awaiting_confirmation", "accepted"} =>
         /\ row'[x].amount = row[x].amount
         /\ row'[x].status \in {"awaiting_confirmation", "accepted", "declined"}
    /\ row[x].status = "accepted" => row'[x].status # "awaiting_confirmation"

LEMMA OnwardStep ==
    ASSUME TypeOK, ConsentInv, [Next]_vars, NEW x \in Reqs
    PROVE  Onward(x)
<1>a. row \in [Reqs -> Rows]
  BY DEF TypeOK
<1>1. ASSUME NEW c \in Calls, Commit(c) PROVE Onward(x)
  <2>a. c.req \in Reqs
    BY DEF Calls
  <2>1. CASE Open(c)
    <3>1. row[c.req].status = "absent"
      BY <2>1 DEF Open, Returns, ConsentInv, FreshOpens, Exists
    <3>2. x # c.req => row'[x] = row[x]
      BY <1>a, <2>1, <2>a DEF Open
    <3> QED BY <3>1, <3>2 DEF Onward
  <2>2. CASE FirstAccept(c)
    <3>1. row[c.req].status \in {"pending", "countered"}
      BY <2>2 DEF FirstAccept, FirstMove
    <3> QED BY <1>a, <2>2, <2>a, <3>1 DEF FirstAccept, Onward
  <2>3. CASE SecondAccept(c) \/ DirectAccept(c)
    <3>1. row' = [row EXCEPT ![c.req].status = "accepted"] /\ row[c.req].status # "declined"
      BY <2>3 DEF SecondAccept, DirectAccept, ToConfirm
    <3> QED BY <1>a, <2>a, <3>1 DEF Onward, Rows
  <2>4. CASE Decline(c)
    BY <1>a, <2>4, <2>a DEF Decline, Onward, Rows
  <2>5. CASE ClientCounter(c) \/ RespondentCounter(c)
    <3>1. row[c.req].status \in {"pending", "countered"}
      BY <2>5 DEF ClientCounter, RespondentCounter, FirstMove
    <3>2. x # c.req => row'[x] = row[x]
      BY <1>a, <2>5, <2>a DEF ClientCounter, RespondentCounter
    <3> QED BY <3>1, <3>2 DEF Onward
  <2>6. CASE Refused(c)
    BY <2>6 DEF Refused, Onward
  <2> QED BY <1>1, <2>1, <2>2, <2>3, <2>4, <2>5, <2>6 DEF Commit
<1>2. ASSUME NEW a \in assigning, NEW y \in DriverReqs, AssignInsert(a, y) PROVE Onward(x)
  <2>1. row[y].status = "absent" /\ (x # y => row'[x] = row[x])
    BY <1>a, <1>2 DEF AssignInsert, Exists
  <2> QED BY <2>1 DEF Onward
<1>3. CASE \/ \E c \in Calls : Call(c)
           \/ \E j \in JobReqs : AssignRead(j)
           \/ \E y \in DriverReqs : Sweeps(y) \/ DeclineTrip(y)
           \/ \E y \in Reqs : Finalize(y)
           \/ CancelBooking \/ Crash \/ UNCHANGED vars
  <2>1. \/ row' = row
        \/ \E y \in Reqs : \/ row' = [row EXCEPT ![y].timedOut = TRUE]
                           \/ row' = [row EXCEPT ![y].status = "declined"]
        \/ \E S : row' = DeclineAll(S)
    BY <1>3 DEF Reqs, vars, Call, AssignRead, Crash, Sweeps, SelectLateDriver, MarkTimedOut,
       SelectLateBroker, Expire, DeclineTrip, GiveCheck, GiveWrite, GiveRemove, GiverMoves, Finalize,
       TruckRefused, Claim, ClaimLost, Rollback, FixPrice, DeclineSiblings, DeclineJobs, CreateTrip,
       CreateTripClash, Finishes, CancelBooking, CancelCheck, CancelWrite, CancelJobs,
       CancelDrivers, CancelTrip
  <2>2. row'[x].status \in {row[x].status, "declined"} /\ row'[x].amount = row[x].amount
    <3>1. CASE \E S : row' = DeclineAll(S)
      BY <1>a, <3>1 DEF DeclineAll, Rows
    <3> QED BY <1>a, <2>1, <3>1 DEF Rows
  <2> QED BY <2>2 DEF Onward
<1> QED BY <1>1, <1>2, <1>3 DEF Next

\* A declined row never reopens, and the price is locked from the first accept on
\* (NoRenegotiation).
THEOREM PriceLocked == Spec => NoRenegotiation
<1>1. TypeOK /\ ConsentInv /\ [Next]_vars =>
        [\A x \in Reqs :
           /\ row[x].status = "declined" => row'[x].status = "declined"
           /\ row[x].status \in {"awaiting_confirmation", "accepted"} =>
                /\ row'[x].amount = row[x].amount
                /\ row'[x].status \in {"awaiting_confirmation", "accepted", "declined"}
           /\ row[x].status = "accepted" => row'[x].status # "awaiting_confirmation"]_vars
  BY OnwardStep DEF Onward
<1> QED BY TypeCorrect, ConsentHolds, <1>1, PTL DEF Spec, NoRenegotiation

-----------------------------------------------------------------------------
(* The mapping, row by row                                                 *)

State(x) == CASE ~FirstHand(x) -> "unmade"
              [] FirstHand(x) /\ row[x].status = "declined" -> "dead"
              [] OTHER -> "open"

Consent(x) == CASE row[x].status = "awaiting_confirmation" -> {row[x].by}
                [] Accepted(x) /\ ~Assigned(x) -> Parties
                [] OTHER -> {}

HasWon(x) == Won(x) /\ ~Assigned(x)
Winner    == IF \E x \in Reqs : HasWon(x) THEN CHOOSE x \in Reqs : HasWon(x) ELSE NoReq

\* The winner is the one request that has won first-hand.
LEMMA WinnerIs ==
    /\ OneWinner => \A x \in Reqs : HasWon(x) => Winner = x
    /\ (\A x \in Reqs : ~HasWon(x)) => Winner = NoReq
BY DEF OneWinner, HasWon, Winner

LEMMA SameWinner ==
    ASSUME OneWinner, OneWinner', \A x \in Reqs : HasWon(x)' <=> HasWon(x)
    PROVE  Winner' = Winner
<1>1. CASE \E x \in Reqs : HasWon(x)
  <2> PICK x \in Reqs : HasWon(x)
    BY <1>1
  <2>1. Winner = x
    BY WinnerIs
  <2>2. Winner' = x
    <3>1. HasWon(x)' /\ \A y \in Reqs : HasWon(y)' => y = x
      BY DEF OneWinner, HasWon
    <3> QED BY <3>1 DEF Winner
  <2> QED BY <2>1, <2>2
<1>2. CASE \A x \in Reqs : ~HasWon(x)
  BY <1>2 DEF Winner
<1> QED BY <1>1, <1>2

\* The four abstract steps and the stutter, in terms of single rows.
LEMMA Quiet ==
    ASSUME \A x \in Reqs : State(x)' = State(x) /\ Consent(x)' = Consent(x), Winner' = Winner
    PROVE  UNCHANGED Award!vars
<1>1. [x \in Reqs |-> State(x)]' = [x \in Reqs |-> State(x)]
  OBVIOUS
<1>2. [x \in Reqs |-> Consent(x)]' = [x \in Reqs |-> Consent(x)]
  OBVIOUS
<1> QED BY <1>1, <1>2 DEF Award!vars, State, Consent, Winner, HasWon

LEMMA Makes ==
    ASSUME NEW x \in Reqs, State(x) = "unmade", State(x)' = "open",
           \A y \in Reqs : y # x => State(y)' = State(y),
           \A y \in Reqs : Consent(y)' = Consent(y), Winner' = Winner
    PROVE  Award!Next
<1>1. Award!Make(x)
  BY DEF Award!Make, State, Consent, Winner, HasWon
<1> QED BY <1>1 DEF Award!Next

LEMMA Agrees ==
    ASSUME NEW x \in Reqs, NEW p \in Parties, State(x) = "open", p \notin Consent(x),
           Consent(x)' = Consent(x) \union {p},
           \A y \in Reqs : State(y)' = State(y),
           \A y \in Reqs : y # x => Consent(y)' = Consent(y), Winner' = Winner
    PROVE  Award!Next
<1> DEFINE s == [y \in Reqs |-> State(y)]
           c == [y \in Reqs |-> Consent(y)]
<1>1. s[x] = "open" /\ p \notin c[x] /\ s' = s /\ Winner' = Winner
  OBVIOUS
<1>2. c' = [c EXCEPT ![x] = c[x] \union {p}]
  OBVIOUS
<1>3. Award!Agree(x, p)
  BY <1>1, <1>2 DEF Award!Agree, State, Consent, Winner, HasWon
<1> QED BY <1>3 DEF Award!Next

LEMMA Awards ==
    ASSUME NEW x \in Reqs, Winner = NoReq, Winner' = x, State(x) = "open", Consent(x) = Parties,
           \A y \in Reqs : State(y)' = State(y) /\ Consent(y)' = Consent(y)
    PROVE  Award!Next
<1>1. Award!Award(x)
  BY DEF Award!Award, State, Consent, Winner, HasWon
<1> QED BY <1>1 DEF Award!Next

LEMMA Kills ==
    ASSUME NEW S \in SUBSET Reqs, \A x \in S : State(x) = "open" /\ x # Winner,
           \A x \in S : State(x)' = "dead" /\ Consent(x)' = {},
           \A x \in Reqs : x \notin S => State(x)' = State(x) /\ Consent(x)' = Consent(x),
           Winner' = Winner
    PROVE  Award!Next
<1>1. Award!Kill(S)
  BY DEF Award!Kill, State, Consent, Winner, HasWon
<1> QED BY <1>1 DEF Award!Next

-----------------------------------------------------------------------------
(* The steps of the negotiation                                            *)

\* A row a broker has assigned is no offer, whatever its driver answers.
LEMMA AssignedUnseen ==
    ASSUME ConsentInv, NEW x \in Reqs, Assigned(x)
    PROVE  State(x) = "unmade" /\ Consent(x) = {} /\ ~HasWon(x)
BY DEF ConsentInv, Committed, State, Consent, FirstHand, HasWon

\* A step that declines rows, if any, and none that has won.
LEMMA DeclinesKill ==
    ASSUME ConsentInv, ConsentInv',
           \A x \in Reqs :
              /\ Won(x)' <=> Won(x)
              /\ Won(x) => row'[x].status = row[x].status
              /\ row'[x].status \in {row[x].status, "declined"}
              /\ row[x].status = "absent" => row'[x].status = "absent"
              /\ row'[x].job = row[x].job /\ row'[x].by = row[x].by
    PROVE  Award!Next
<1> DEFINE S == {x \in Reqs : /\ FirstHand(x) /\ row[x].status # "declined"
                              /\ row'[x].status = "declined"}
<1>1. \A x \in Reqs : (Assigned(x)' <=> Assigned(x)) /\ (HasWon(x)' <=> HasWon(x))
  BY DEF Assigned, HasWon
<1>2. Winner' = Winner
  BY <1>1, SameWinner DEF ConsentInv
<1>3. ASSUME NEW x \in S PROVE State(x) = "open" /\ x # Winner /\ State(x)' = "dead" /\ Consent(x)' = {}
  <2>1. State(x) = "open" /\ State(x)' = "dead" /\ Consent(x)' = {}
    BY <1>1, <1>3 DEF State, Consent, FirstHand, Exists, Accepted, Assigned
  <2>2. ~HasWon(x)
    BY <1>3 DEF HasWon
  <2>3. x # Winner
    <3>1. CASE \E y \in Reqs : HasWon(y)
      <4> PICK y \in Reqs : HasWon(y)
        BY <3>1
      <4> QED BY <2>2, WinnerIs DEF ConsentInv
    <3>2. CASE \A y \in Reqs : ~HasWon(y)
      BY <1>3, <3>2, WinnerIs
    <3> QED BY <3>1, <3>2
  <2> QED BY <2>1, <2>3
<1>4. ASSUME NEW x \in Reqs, x \notin S PROVE State(x)' = State(x) /\ Consent(x)' = Consent(x)
  <2>1. CASE row'[x].status = row[x].status
    BY <1>1, <2>1 DEF State, Consent, FirstHand, Exists, Accepted
  <2>2. CASE Assigned(x)
    <3>1. State(x) = "unmade" /\ Consent(x) = {}
      BY <2>2, AssignedUnseen
    <3>2. State(x)' = "unmade" /\ Consent(x)' = {}
      BY <1>1, <2>2 DEF ConsentInv, Committed, State, Consent, FirstHand
    <3> QED BY <3>1, <3>2
  <2> QED BY <1>4, <2>1, <2>2 DEF FirstHand, Exists
<1> HIDE DEF S
<1>5. S \in SUBSET Reqs
  BY DEF S
<1> QED BY <1>2, <1>3, <1>4, <1>5, Kills

\* Nobody wins or loses by an answer.
LEMMA CommitAward ==
    ASSUME TypeOK, TypeOK', ConsentInv, ConsentInv', NEW c \in Calls, Commit(c)
    PROVE  Award!Next \/ UNCHANGED Award!vars
<1> PICK x \in Reqs : x = c.req
  BY DEF Calls
<1> PICK p \in Parties : p = Party(c.side)
  BY DEF Party, Parties
<1>a. row \in [Reqs -> Rows] /\ row' \in [Reqs -> Rows]
  BY DEF TypeOK
<1>b. \A y \in Reqs : Won(y)' <=> Won(y)
  <2>1. fin' = fin \/ (fin' = [fin EXCEPT ![c.req] = "claim"] /\ row[c.req].status # "accepted")
    BY DEF Commit, Open, FirstAccept, SecondAccept, DirectAccept, Decline, ToConfirm,
           ClientCounter, RespondentCounter, Refused
  <2>2. row[c.req].status # "accepted" => fin[c.req] \notin WonSteps
    BY <1>a DEF ConsentInv, FinishingAccepted, Accepted
  <2> QED BY <2>1, <2>2 DEF Won, WonSteps, Working, TypeOK
<1>1. CASE Open(c)
  <2>1. row[x].status = "absent" /\ ~Assigned(x)
    BY <1>1, <1>a DEF Open, Returns, ConsentInv, FreshOpens, Exists, AbsentUnassigned
  <2>2. row'[x].status = "pending" /\ row'[x].job = row[x].job /\ \A y \in Reqs : y # x => row'[y] = row[y]
    BY <1>1, <1>a DEF Open, Rows
  <2>3. \A y \in Reqs : (Assigned(y)' <=> Assigned(y)) /\ (HasWon(y)' <=> HasWon(y))
    BY <1>b, <2>2 DEF Assigned, HasWon
  <2>4. Winner' = Winner
    BY <2>3, SameWinner DEF ConsentInv
  <2>5. State(x) = "unmade" /\ State(x)' = "open" /\ Consent(x) = {} /\ Consent(x)' = {}
    BY <2>1, <2>2, <2>3 DEF State, Consent, FirstHand, Exists, Accepted
  <2>6. \A y \in Reqs : y # x => State(y)' = State(y) /\ Consent(y)' = Consent(y)
    BY <2>2 DEF State, Consent, FirstHand, Exists, Accepted, Assigned
  <2> QED BY <1>a, <2>4, <2>5, <2>6, Makes
<1>2. CASE FirstAccept(c) \/ SecondAccept(c)
  <2>1. ~Assigned(x) /\ row'[x].job = row[x].job /\ \A y \in Reqs : y # x => row'[y] = row[y]
    BY <1>2, <1>a DEF FirstAccept, SecondAccept, Rows
  <2>2. \A y \in Reqs : (Assigned(y)' <=> Assigned(y)) /\ (HasWon(y)' <=> HasWon(y))
    BY <1>b, <2>1 DEF Assigned, HasWon
  <2>3. Winner' = Winner
    BY <2>2, SameWinner DEF ConsentInv
  <2>4. \A y \in Reqs : y # x => State(y)' = State(y) /\ Consent(y)' = Consent(y)
    BY <2>1 DEF State, Consent, FirstHand, Exists, Accepted, Assigned
  <2>5. State(x) = "open" /\ State(x)' = "open" /\ p \notin Consent(x) /\ Consent(x)' = Consent(x) \union {p}
    <3>1. CASE FirstAccept(c)
      <4>1. /\ row[x].status \in {"pending", "countered"}
            /\ row'[x].status = "awaiting_confirmation" /\ row'[x].by = p
        BY <1>a, <3>1 DEF FirstAccept, FirstMove, Rows
      <4> QED BY <2>1, <2>2, <4>1 DEF State, Consent, FirstHand, Exists, Accepted
    <3>2. CASE SecondAccept(c)
      <4>1. /\ row[x].status = "awaiting_confirmation" /\ row[x].by = Other(p)
            /\ row'[x].status = "accepted"
        BY <1>a, <3>2 DEF SecondAccept, ToConfirm, Rows
      <4>2. Other(p) # p /\ Parties = {Other(p)} \union {p}
        BY <1>a DEF Other, Parties
      <4>3. Consent(x) = {Other(p)} /\ Consent(x)' = Parties
        BY <2>1, <2>2, <4>1 DEF Consent, Accepted
      <4>4. State(x) = "open" /\ State(x)' = "open"
        BY <2>1, <2>2, <4>1 DEF State, FirstHand, Exists
      <4> QED BY <4>2, <4>3, <4>4
    <3> QED BY <1>2, <3>1, <3>2
  <2>6. \A y \in Reqs : State(y)' = State(y)
    BY <2>4, <2>5
  <2> QED BY <1>a, <2>3, <2>4, <2>5, <2>6, Agrees
<1>3. CASE DirectAccept(c)
  <2>1. /\ Assigned(x) /\ row'[x].job = row[x].job /\ row'[x].status = "accepted"
        /\ \A y \in Reqs : y # x => row'[y] = row[y]
    BY <1>3, <1>a DEF DirectAccept, Rows
  <2>2. \A y \in Reqs : (Assigned(y)' <=> Assigned(y)) /\ (HasWon(y)' <=> HasWon(y))
    BY <1>b, <2>1 DEF Assigned, HasWon
  <2>3. Winner' = Winner
    BY <2>2, SameWinner DEF ConsentInv
  <2>4. \A y \in Reqs : y # x => State(y)' = State(y) /\ Consent(y)' = Consent(y)
    BY <2>1 DEF State, Consent, FirstHand, Exists, Accepted, Assigned
  <2>5. State(x) = "unmade" /\ Consent(x) = {}
    BY <1>a, <2>1, AssignedUnseen
  <2>6. State(x)' = "unmade" /\ Consent(x)' = {}
    BY <1>a, <2>1, <2>2 DEF State, Consent, FirstHand
  <2> QED BY <2>3, <2>4, <2>5, <2>6, Quiet
<1>4. CASE Decline(c)
  <2>1. /\ row'[x].status = "declined" /\ row'[x].job = row[x].job /\ row'[x].by = row[x].by
        /\ \A y \in Reqs : y # x => row'[y] = row[y]
    BY <1>4, <1>a DEF Decline, Rows
  <2>2. row[x].status \notin {"accepted", "absent"}
    BY <1>4 DEF Decline, Declinable, ToConfirm
  <2>3. ~Won(x)
    BY <1>a, <2>2 DEF ConsentInv, FinishingAccepted, Accepted, Won
  <2> QED BY <1>b, <2>1, <2>2, <2>3, DeclinesKill
<1>5. CASE ClientCounter(c) \/ RespondentCounter(c)
  <2>1. /\ row[x].status \in {"pending", "countered"} /\ row'[x].status \in {"pending", "countered"}
        /\ row'[x].job = row[x].job /\ \A y \in Reqs : y # x => row'[y] = row[y]
    <3>1. PICK a \in Prices :
            \/ row' = [row EXCEPT ![x].amount = a, ![x].status = "pending", ![x].timedOut = FALSE]
            \/ row' = [row EXCEPT ![x].amount = a, ![x].status = "countered"]
      BY <1>5 DEF ClientCounter, RespondentCounter
    <3>2. row[x].status \in {"pending", "countered"}
      BY <1>5 DEF ClientCounter, RespondentCounter, FirstMove
    <3> QED BY <1>a, <3>1, <3>2 DEF Rows
  <2>2. \A y \in Reqs : (Assigned(y)' <=> Assigned(y)) /\ (HasWon(y)' <=> HasWon(y))
    BY <1>b, <2>1 DEF Assigned, HasWon
  <2>3. Winner' = Winner
    BY <2>2, SameWinner DEF ConsentInv
  <2>4. \A y \in Reqs : State(y)' = State(y) /\ Consent(y)' = Consent(y)
    BY <2>1, <2>2 DEF State, Consent, FirstHand, Exists, Accepted
  <2> QED BY <2>3, <2>4, Quiet
<1>6. CASE Refused(c)
  BY <1>6, <1>b, DeclinesKill DEF Refused
<1> QED BY <1>1, <1>2, <1>3, <1>4, <1>5, <1>6 DEF Commit

\* A first-hand claim awards the booking, a claim for a broker's driver does not.
LEMMA ClaimAward ==
    ASSUME TypeOK, ConsentInv, ConsentInv', NEW x \in Reqs, Claim(x)
    PROVE  Award!Next \/ UNCHANGED Award!vars
<1>1. /\ row' = row /\ Accepted(x) /\ ~Won(x) /\ Won(x)' /\ booking.status \in ClaimFrom(x)
      /\ \A y \in Reqs : y # x => (Won(y)' <=> Won(y))
  BY DEF Claim, Finishes, ConsentInv, FinishingAccepted, Won, WonSteps, Working, TypeOK
<1>2. \A y \in Reqs : /\ State(y)' = State(y) /\ Consent(y)' = Consent(y)
                      /\ Assigned(y)' <=> Assigned(y)
  BY <1>1 DEF State, Consent, FirstHand, Exists, Accepted, Assigned
<1>3. CASE Assigned(x)
  <2>1. \A y \in Reqs : HasWon(y)' <=> HasWon(y)
    BY <1>1, <1>2, <1>3 DEF HasWon
  <2>2. Winner' = Winner
    BY <2>1, SameWinner DEF ConsentInv
  <2> QED BY <1>2, <2>2, Quiet
<1>4. CASE ~Assigned(x)
  <2>1. \A y \in Reqs : ~Won(y)
    BY <1>1, <1>4 DEF ClaimFrom, ConsentInv, PendingUnwon
  <2>2. Winner = NoReq
    BY <2>1, WinnerIs DEF HasWon
  <2>3. HasWon(x)' /\ \A y \in Reqs : HasWon(y)' => y = x
    BY <1>1, <1>2, <1>4, <2>1 DEF HasWon
  <2>4. Winner' = x
    BY <2>3 DEF Winner
  <2>5. State(x) = "open" /\ Consent(x) = Parties
    BY <1>1, <1>4 DEF State, Consent, FirstHand, Exists, Accepted
  <2> QED BY <1>2, <2>2, <2>4, <2>5, Awards
<1> QED BY <1>3, <1>4

LEMMA AwardStep ==
    ASSUME TypeOK, TypeOK', ConsentInv, ConsentInv', [Next]_vars
    PROVE  Award!Next \/ UNCHANGED Award!vars
<1>a. row \in [Reqs -> Rows] /\ fin \in [Reqs -> FinSteps]
  BY DEF TypeOK
<1>1. ASSUME NEW c \in Calls, Commit(c) PROVE Award!Next \/ UNCHANGED Award!vars
  BY <1>1, CommitAward
<1>2. ASSUME NEW a \in assigning, NEW x \in DriverReqs, AssignInsert(a, x)
      PROVE  Award!Next \/ UNCHANGED Award!vars
  <2>1. x \in Reqs /\ a.job \in JobReqs /\ a.job # NoReq
    BY DEF TypeOK, Reqs
  <2>2. /\ row[x].status = "absent" /\ row'[x].status = "pending" /\ row'[x].job = a.job
        /\ fin' = fin /\ \A y \in Reqs : y # x => row'[y] = row[y]
    BY <1>a, <1>2, <2>1 DEF AssignInsert, Exists, Rows
  <2>3. ~Won(x)
    BY <2>1, <2>2 DEF ConsentInv, FinishingAccepted, Accepted, Won
  <2>4. \A y \in Reqs : HasWon(y)' <=> HasWon(y)
    BY <2>1, <2>2, <2>3 DEF HasWon, Won, Assigned
  <2>5. Winner' = Winner
    BY <2>4, SameWinner DEF ConsentInv
  <2>6. \A y \in Reqs : State(y)' = State(y) /\ Consent(y)' = Consent(y)
    BY <2>1, <2>2 DEF State, Consent, FirstHand, Exists, Accepted, Assigned
  <2> QED BY <2>5, <2>6, Quiet
<1>3. ASSUME NEW x \in Reqs, Claim(x) PROVE Award!Next \/ UNCHANGED Award!vars
  BY <1>3, ClaimAward
<1>4. ASSUME NEW x \in Reqs, Finalize(x), ~Claim(x) PROVE Award!Next \/ UNCHANGED Award!vars
  <2>1. \A y \in Reqs : Won(y)' <=> Won(y)
    <3>1. \E s : /\ fin' = [fin EXCEPT ![x] = s] /\ (fin[x] \in WonSteps <=> s \in WonSteps)
      BY <1>4 DEF Finalize, TruckRefused, ClaimLost, Rollback, FixPrice, DeclineSiblings, DeclineJobs,
         CreateTrip, CreateTripClash, Finishes, WonSteps, Working
    <3> QED BY <1>a, <3>1 DEF Won
  <2>2. \/ row' = row \/ (\E S : row' = DeclineAll(S))
        \/ row' = [row EXCEPT ![x].status = "declined"] /\ ~Won(x) /\ Accepted(x)
    BY <1>4 DEF Finalize, TruckRefused, ClaimLost, Rollback, FixPrice, DeclineSiblings, DeclineJobs,
       CreateTrip, CreateTripClash, Finishes, Won, WonSteps, Working
  <2>3. \A y \in Reqs : Won(y) => row[y].status = "accepted"
    BY DEF ConsentInv, FinishingAccepted, Accepted, Won
  <2>4. CASE row' = row
    BY <2>1, <2>4, DeclinesKill
  <2>5. CASE \E S : row' = DeclineAll(S)
    BY <1>a, <2>1, <2>3, <2>5, DeclineAllType, DeclinesKill DEF StillOpen
  <2>6. CASE row' = [row EXCEPT ![x].status = "declined"] /\ ~Won(x) /\ Accepted(x)
    BY <1>a, <2>1, <2>6, DeclinesKill DEF Rows, Accepted
  <2> QED BY <2>2, <2>4, <2>5, <2>6
<1>5. CASE \/ \E c \in Calls : Call(c)
           \/ \E j \in JobReqs : AssignRead(j)
           \/ \E x \in DriverReqs : Sweeps(x) \/ DeclineTrip(x)
           \/ CancelBooking \/ Crash \/ UNCHANGED vars
  <2>1. \A y \in Reqs : Won(y)' <=> Won(y)
    <3>1. CASE Crash
      BY <1>a, <3>1 DEF Crash, Won, WonSteps, Working
    <3>2. CASE ~Crash
      BY <1>5, <3>2 DEF Won, vars, Call, AssignRead, Sweeps, SelectLateDriver, MarkTimedOut,
         SelectLateBroker, Expire, DeclineTrip, GiveCheck, GiveWrite, GiveRemove, GiverMoves,
         CancelBooking, CancelCheck, CancelWrite, CancelJobs, CancelDrivers, CancelTrip, CancelMoves
    <3> QED BY <3>1, <3>2
  <2>2. \/ row' = row \/ (\E S : row' = DeclineAll(S))
        \/ \E y \in Reqs : \/ row' = [row EXCEPT ![y].timedOut = TRUE]
                           \/ /\ row' = [row EXCEPT ![y].status = "declined"]
                              /\ row[y].status \notin {"accepted", "absent"}
    BY <1>5 DEF Reqs, vars, Call, AssignRead, Crash, Sweeps, SelectLateDriver, MarkTimedOut,
       SelectLateBroker, Expire, Declinable, ToConfirm, DeclineTrip, GiveCheck, GiveWrite, GiveRemove,
       GiverMoves, CancelBooking, CancelCheck, CancelWrite, CancelJobs, CancelDrivers, CancelTrip
  <2>3. \A y \in Reqs : Won(y) => row[y].status = "accepted"
    BY DEF ConsentInv, FinishingAccepted, Accepted, Won
  <2>4. CASE row' = row
    BY <2>1, <2>4, DeclinesKill
  <2>5. CASE \E S : row' = DeclineAll(S)
    BY <1>a, <2>1, <2>3, <2>5, DeclineAllType, DeclinesKill DEF StillOpen
  <2>6. ASSUME NEW y \in Reqs, row' = [row EXCEPT ![y].timedOut = TRUE] PROVE Award!Next
    BY <1>a, <2>1, <2>6, DeclinesKill DEF Rows
  <2>7. ASSUME NEW y \in Reqs, row' = [row EXCEPT ![y].status = "declined"],
               row[y].status \notin {"accepted", "absent"}
        PROVE  Award!Next
    BY <1>a, <2>1, <2>3, <2>7, DeclinesKill DEF Rows
  <2> QED BY <2>2, <2>4, <2>5, <2>6, <2>7
<1> QED BY <1>1, <1>2, <1>3, <1>4, <1>5 DEF Next

LEMMA AwardInit == Init => Award!Init
<1> SUFFICES ASSUME Init PROVE Award!Init
  OBVIOUS
<1>1. \A x \in Reqs : State(x) = "unmade" /\ Consent(x) = {} /\ ~HasWon(x)
  BY DEF Init, State, Consent, FirstHand, Exists, Accepted, HasWon, Won, WonSteps, Working
<1>2. Winner = NoReq
  BY <1>1, WinnerIs
<1> QED BY <1>1, <1>2 DEF Award!Init, State, Consent, Winner, HasWon

\* The negotiation implements OfferAward (AwardsOnce): whatever handlers, sweeps,
\* cancellations, hand-backs and restarts interleave, the booking is awarded once, to an
\* offer both parties agreed to, and is not taken back from it.
THEOREM Implements == Spec => AwardsOnce
<1>1. Init => Award!Init
  BY AwardInit
<1>2. TypeOK /\ TypeOK' /\ ConsentInv /\ ConsentInv' /\ [Next]_vars => [Award!Next]_(Award!vars)
  BY AwardStep
<1> QED BY TypeCorrect, ConsentHolds, <1>1, <1>2, PTL DEF Spec, AwardsOnce, Award!Spec
=============================================================================
