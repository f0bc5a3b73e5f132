------------------------- MODULE SettlementProofs -------------------------
(***************************************************************************)
(* What Settlement guarantees whatever the charges, the stops, the         *)
(* advances and the number of handlers: a trip is paid out once, at the    *)
(* final amount, and a driver closes it only with the client's approval;   *)
(* it is carried past no stop that is still to be made, while one person   *)
(* checks the stops off, and its booking counts as paid only at its        *)
(* present amount, while no two handlers overlap.                          *)
(***************************************************************************)
EXTENDS Settlement, TLAPS

-----------------------------------------------------------------------------
(* Types                                                                   *)

\* What a task writes fits the column it is written to.
Fits(k) ==
    /\ k.op \in Statuses => k.to = k.op
    /\ k.op = "review" => k.to \in Reviews
    /\ k.op = "payment" => k.to \in Paid
    /\ k.op = "stop" => k.n \in Stops

TasksOK ==
    /\ task \in [Workers -> Tasks \union {Idle}]
    /\ \A w \in Workers : task[w] # Idle =>
          task[w].at \in DOMAIN Flow[task[w].op] /\ Fits(task[w])

TypeInv == TypeOK /\ TasksOK

\* A step of a handler says what the handler is and how far it has come.
LEMMA Phases ==
    ASSUME TypeOK, NEW w \in Workers, NEW p, At(w, p)
    PROVE  /\ task[w] \in Tasks /\ task[w] # Idle
           /\ p = "setTrip" => task[w].op \in Statuses \ {"confirmed"} /\ task[w].at = 1
           /\ p \in {"halting", "haltingBill", "sla", "slaRead", "slaBill"} =>
                 task[w].op = "delivered"
           /\ p = "setBooking" => /\ task[w].op \in Statuses
                                  /\ task[w].op = "completed" => task[w].at = 2
           /\ p = "count" => task[w].op = "completed" /\ task[w].at = 3
           /\ p = "read" => task[w].op = "completed" /\ task[w].at = 4
           /\ p = "settle" => task[w].op = "completed" /\ task[w].at = 5
           /\ p = "payDriver" => task[w].op = "completed" /\ task[w].at = 6
           /\ p = "payBroker" => task[w].op = "completed" /\ task[w].at = 7
           /\ p \in {"readStops", "writeStops"} => task[w].op = "stop"
           /\ p \in {"countPhotos", "store", "submit"} => task[w].op = "upload"
           /\ p = "setPod" => task[w].op = "review"
           /\ p = "record" => task[w].op = "payment"
<1> DEFINE k == task[w]
<1>1. k \in Tasks /\ k # Idle /\ k.at \in DOMAIN Flow[k.op] /\ Flow[k.op][k.at] = p
  BY DEF TypeOK, At
<1>2. k.op \in {"in_transit", "delivered", "completed", "stop", "upload", "review", "payment"}
  BY <1>1 DEF Tasks, Flow
<1>3. Statuses = {"confirmed", "in_transit", "delivered", "completed"}
  BY DEF Statuses, Moves
<1>4. CASE k.op = "in_transit"
  BY <1>1, <1>3, <1>4 DEF Flow
<1>5. CASE k.op = "delivered"
  BY <1>1, <1>3, <1>5 DEF Flow, OnDelivered
<1>6. CASE k.op = "completed"
  BY <1>1, <1>3, <1>6 DEF Flow, OnCompleted
<1>7. CASE k.op = "stop"
  BY <1>1, <1>3, <1>7 DEF Flow
<1>8. CASE k.op = "upload"
  BY <1>1, <1>3, <1>8 DEF Flow
<1>9. CASE k.op = "review"
  BY <1>1, <1>3, <1>9 DEF Flow
<1>10. CASE k.op = "payment"
  BY <1>1, <1>3, <1>10 DEF Flow
<1> QED BY <1>2, <1>4, <1>5, <1>6, <1>7, <1>8, <1>9, <1>10

\* The flow of a handler has at most twelve phases.
LEMMA Lengths ==
    ASSUME NEW op \in DOMAIN Flow
    PROVE  Len(Flow[op]) \in 1..12 /\ DOMAIN Flow[op] = 1..Len(Flow[op])
<1>1. op \in {"in_transit", "delivered", "completed", "stop", "upload", "review", "payment"}
  BY DEF Flow
<1>2. CASE op = "delivered"
  BY <1>2 DEF Flow, OnDelivered
<1>3. CASE op = "completed"
  BY <1>3 DEF Flow, OnCompleted
<1>4. CASE op \in {"in_transit", "stop", "upload", "review", "payment"}
  BY <1>4 DEF Flow
<1> QED BY <1>1, <1>2, <1>3, <1>4

\* The other workers stay where they are; w ends or goes on as k.
LEMMA Advance ==
    ASSUME TypeInv, NEW w \in Workers, NEW k \in Tasks, Fits(k), NEW n \in Nat,
           GoesOnAs(w, k, n)
    PROVE  /\ TasksOK'
           /\ \A v \in Workers \ {w} : task'[v] = task[v]
           /\ task'[w] = Idle \/ task'[w] = [k EXCEPT !.at = k.at + n]
<1> DEFINE next == [k EXCEPT !.at = k.at + n]
           len  == Len(Flow[k.op])
<1>1. k.op \in DOMAIN Flow /\ k.at \in 1..12
  BY DEF Tasks
<1>2. task' = [task EXCEPT ![w] = IF k.at + n > len THEN Idle ELSE next]
  BY DEF GoesOnAs
<1>3. len \in 1..12 /\ DOMAIN Flow[k.op] = 1..len
  BY <1>1, Lengths
<1> HIDE DEF len
<1>4. k.at + n > len \/ k.at + n \in 1..len
  BY <1>1, <1>3
<1>5. CASE k.at + n > len
  <2>1. task' = [task EXCEPT ![w] = Idle]
    BY <1>2, <1>5
  <2> QED BY <2>1 DEF TypeInv, TasksOK, TypeOK
<1>6. CASE k.at + n \in 1..len
  <2>1. ~(k.at + n > len)
    BY <1>1, <1>3, <1>6
  <2>2. task' = [task EXCEPT ![w] = next]
    BY <1>2, <2>1
  <2>3. k.at + n \in 1..12
    BY <1>3, <1>6
  <2>4. next \in Tasks
    BY <2>3 DEF Tasks
  <2>5. next.op = k.op /\ next.at = k.at + n /\ Fits(next)
    BY DEF Tasks, Fits
  <2>6. next.at \in DOMAIN Flow[next.op]
    BY <1>3, <1>6, <2>5
  <2> QED BY <2>2, <2>4, <2>5, <2>6 DEF TypeInv, TasksOK, TypeOK
<1> QED BY <1>4, <1>5, <1>6

\* A handler that ends leaves the others where they are.
LEMMA Ending ==
    ASSUME TypeInv, NEW w \in Workers, Ends(w)
    PROVE  TasksOK' /\ task'[w] = Idle /\ \A v \in Workers \ {w} : task'[v] = task[v]
  BY DEF TypeInv, TasksOK, Ends

\* A handler begins with its first phase.
LEMMA Beginning ==
    ASSUME TypeInv, NEW w \in Workers, NEW duty, NEW k \in Tasks, Fits(k), k.at = 1,
           Begin(w, duty, k)
    PROVE  /\ TypeOK' <=> override' \in BOOLEAN
           /\ TasksOK'
           /\ task'[w] = k /\ \A v \in Workers \ {w} : task'[v] = task[v]
<1>1. task' = [task EXCEPT ![w] = k] /\ UNCHANGED <<trip, booking, db, approved, restarts>>
  BY DEF Begin
<1>2. calm' \in BOOLEAN
  BY DEF Begin, TypeInv, TypeOK
<1>3. k.op \in DOMAIN Flow
  BY DEF Tasks
<1>4. 1 \in DOMAIN Flow[k.op]
  BY <1>3, Lengths
<1>5. TasksOK' /\ task'[w] = k /\ \A v \in Workers \ {w} : task'[v] = task[v]
  BY <1>1, <1>4 DEF TypeInv, TasksOK
<1> QED
  BY <1>1, <1>2, <1>5 DEF TypeInv, TypeOK, TasksOK, db

\* Each request starts from this task.
LEMMA NewTask == ASSUME NEW op \in DOMAIN Flow PROVE New(op) \in Tasks
  BY DEF New, Tasks, Statuses, Moves, Reviews, Paid

\* Earnings are whole amounts.
LEMMA EarningType ==
    ASSUME NEW u \in Users, NEW amount \in Nat
    PROVE  Earning(u, amount) \in Nat
<1>1. \A net \in Nat, rate \in 0..100 : net * (100 - rate) \in Nat
  OBVIOUS
<1>2. \A m \in Nat : (m + 50) \div 100 \in Nat
  OBVIOUS
<1>3. Rate[u] \in 0..100 /\ Fee \in Nat
  BY Trip, Money
<1>4. amount > Fee => amount - Fee \in Nat
  BY <1>3
<1> QED BY <1>1, <1>2, <1>3, <1>4 DEF Earning, Payout

\* Initially every variable has its type.
LEMMA InitType == Init => TypeInv
<1> SUFFICES ASSUME Init PROVE TypeInv
  OBVIOUS
<1>1. Estimate \in Nat /\ MaxRestarts \in Nat
  BY Money, Instance
<1>2. trip \in [status : Statuses, stops : SUBSET Stops, photos : Nat, pod : Reviews,
                halting : Charges \union {0}, sla : Charges \union {0}]
  BY DEF Init, Statuses, Moves, Reviews
<1>3. booking \in [status : Statuses \union {"assigned"}, amount : Nat, pay : Paid, paid : Nat]
  BY <1>1 DEF Init, Paid
<1>4. settlements \in Seq(Nat) /\ earned \in [Users -> Seq(Nat)] /\ totalTrips \in Nat
  BY DEF Init
<1>5. {approved, override, calm} \subseteq BOOLEAN /\ restarts \in 0..MaxRestarts
  <2>1. approved \in BOOLEAN /\ override \in BOOLEAN /\ calm \in BOOLEAN
    BY DEF Init
  <2>2. restarts \in 0..MaxRestarts
    BY <1>1 DEF Init
  <2> QED BY <2>1, <2>2
<1>6. TasksOK /\ \A w \in Workers : task[w] = Idle
  BY DEF Init, TasksOK
<1> QED BY <1>2, <1>3, <1>4, <1>5, <1>6 DEF TypeInv, TypeOK, TasksOK

\* Each request starts a task of the type.
LEMMA RequestType ==
    ASSUME TypeInv, NEW w \in Workers, Requests(w)
    PROVE  TypeInv'
<1> USE DEF TypeInv
<1>1. CASE \E s \in Statuses \ {"confirmed"}, by \in {"driver", "broker"} : StatusRequest(w, s, by)
  <2>1. PICK s \in Statuses \ {"confirmed"}, by \in {"driver", "broker"} : StatusRequest(w, s, by)
    BY <1>1
  <2> DEFINE k == IF s = "delivered"
                  THEN [New(s) EXCEPT !.to = s, !.amount = booking.amount, !.pay = booking.pay]
                  ELSE [New(s) EXCEPT !.to = s, !.by = IF s = "completed" THEN by ELSE @]
  <2>2. Begin(w, "status", k) /\ UNCHANGED override
    BY <2>1 DEF StatusRequest
  <2>3. s \in DOMAIN Flow /\ s \in Statuses
    BY DEF Statuses, Moves, Flow
  <2>4. booking.amount \in Nat /\ booking.pay \in Paid
    BY DEF TypeOK
  <2>5. k \in Tasks
    <3>1. New(s) \in Tasks
      BY <2>3, NewTask
    <3> QED BY <2>3, <2>4, <3>1 DEF Tasks
  <2>6. Fits(k) /\ k.at = 1
    BY DEF Fits, New, Statuses, Moves
  <2> HIDE DEF k
  <2> QED BY <2>2, <2>5, <2>6, Beginning DEF TypeOK
<1>2. CASE \E i \in Stops : StopRequest(w, i)
  <2>1. PICK i \in Stops : StopRequest(w, i)
    BY <1>2
  <2> DEFINE k == [New("stop") EXCEPT !.n = i]
  <2>2. Begin(w, "stop", k) /\ UNCHANGED override
    BY <2>1 DEF StopRequest
  <2>3. k \in Tasks
    <3>1. New("stop") \in Tasks /\ i \in Nat
      BY NewTask, Trip DEF Flow
    <3> QED BY <3>1 DEF Tasks
  <2>4. Fits(k) /\ k.at = 1
    BY DEF Fits, New, Statuses, Moves
  <2> HIDE DEF k
  <2> QED BY <2>2, <2>3, <2>4, Beginning DEF TypeOK
<1>3. CASE \E n \in 1..MaxPhotos : UploadRequest(w, n)
  <2>1. PICK n \in 1..MaxPhotos : UploadRequest(w, n)
    BY <1>3
  <2> DEFINE k == [New("upload") EXCEPT !.n = n, !.pod = trip.pod]
  <2>2. Begin(w, "upload", k) /\ UNCHANGED override
    BY <2>1 DEF UploadRequest
  <2>3. n \in Nat /\ trip.pod \in Reviews /\ "upload" \in DOMAIN Flow
    BY Trip DEF TypeOK, Flow
  <2>4. k \in Tasks
    <3>1. New("upload") \in Tasks
      BY <2>3, NewTask
    <3> QED BY <2>3, <3>1 DEF Tasks
  <2>5. Fits(k) /\ k.at = 1
    BY DEF Fits, New, Statuses, Moves
  <2> HIDE DEF k
  <2> QED BY <2>2, <2>4, <2>5, Beginning DEF TypeOK
<1>4. CASE \E v \in {"verified", "rejected"} : ReviewRequest(w, v)
  <2>1. PICK v \in {"verified", "rejected"} : ReviewRequest(w, v)
    BY <1>4
  <2> DEFINE k == [New("review") EXCEPT !.to = v]
  <2>2. Begin(w, "review", k) /\ UNCHANGED override
    BY <2>1 DEF ReviewRequest
  <2>3. v \in Reviews /\ "review" \in DOMAIN Flow
    BY DEF Reviews, Flow
  <2>4. k \in Tasks
    <3>1. New("review") \in Tasks
      BY <2>3, NewTask
    <3> QED BY <2>3, <3>1 DEF Tasks
  <2>5. Fits(k) /\ k.at = 1
    BY <2>3 DEF Fits, New, Statuses, Moves
  <2> HIDE DEF k
  <2> QED BY <2>2, <2>4, <2>5, Beginning DEF TypeOK
<1>5. ASSUME NEW n \in Nat, NEW to \in {"paid", "partial"}, NEW duty,
             Begin(w, duty, [New("payment") EXCEPT !.to = to, !.n = n]), UNCHANGED override
      PROVE  TypeInv'
  <2> DEFINE k == [New("payment") EXCEPT !.to = to, !.n = n]
  <2>1. to \in Paid /\ "payment" \in DOMAIN Flow
    BY DEF Paid, Flow
  <2>2. k \in Tasks
    <3>1. New("payment") \in Tasks
      BY <2>1, NewTask
    <3> QED BY <2>1, <3>1 DEF Tasks
  <2>3. Fits(k) /\ k.at = 1
    BY <2>1 DEF Fits, New, Statuses, Moves
  <2>4. Begin(w, duty, k)
    BY <1>5
  <2> HIDE DEF k
  <2> QED BY <1>5, <2>2, <2>3, <2>4, Beginning DEF TypeOK
<1>6. CASE \E n \in Advances \union {booking.amount} : PayRequest(w, n)
  <2>1. PICK n \in Advances \union {booking.amount} : PayRequest(w, n)
    BY <1>6
  <2>2. n \in Nat
    BY Money DEF TypeOK
  <2> QED BY <1>5, <2>1, <2>2 DEF PayRequest
<1>7. CASE CollectRequest(w)
  <2>1. booking.amount \in Nat
    BY DEF TypeOK
  <2> QED BY <1>5, <1>7, <2>1 DEF CollectRequest
<1> QED BY <1>1, <1>2, <1>3, <1>4, <1>6, <1>7 DEF Requests

\* What a step writes besides the task has the type of its column.
DataOK ==
    /\ trip \in [status : Statuses, stops : SUBSET Stops, photos : Nat, pod : Reviews,
                 halting : Charges \union {0}, sla : Charges \union {0}]
    /\ booking \in [status : Statuses \union {"assigned"}, amount : Nat,
                    pay : Paid, paid : Nat]
    /\ settlements \in Seq(Nat)
    /\ earned \in [Users -> Seq(Nat)]
    /\ totalTrips \in Nat
    /\ approved \in BOOLEAN /\ override \in BOOLEAN /\ calm \in BOOLEAN
    /\ restarts \in 0..MaxRestarts

\* The type of the columns and the type of the tasks, in this state and the next.
LEMMA Split == (TypeInv <=> DataOK /\ TasksOK) /\ (TypeInv' <=> DataOK' /\ TasksOK')
  BY DEF TypeInv, TypeOK, DataOK, TasksOK

\* A step that goes on with the task it has, or ends.
LEMMA Going ==
    ASSUME TypeInv, NEW w \in Workers, task[w] \in Tasks, task[w] # Idle,
           GoesOn(w) \/ Ends(w)
    PROVE  /\ TasksOK'
           /\ \A v \in Workers \ {w} : task'[v] = task[v]
           /\ task'[w] = Idle \/ task'[w] = [task[w] EXCEPT !.at = @ + 1]
  BY Advance, Ending DEF GoesOn, TypeInv, TasksOK

\* While the charges are applied the task stays one of status 'delivered'.
LEMMA Billing ==
    ASSUME TypeInv, NEW w \in Workers,
           NEW p \in {"halting", "haltingBill", "sla", "slaRead", "slaBill"}, At(w, p)
    PROVE  LET k == task[w] IN
           /\ k \in Tasks /\ k # Idle /\ Fits(k) /\ k.op = "delivered"
           /\ Billed(w) \in Tasks /\ Fits(Billed(w)) /\ Billed(w).op = "delivered"
           /\ \A c \in Nat : LET n == [k EXCEPT !.n = c] IN
                 n \in Tasks /\ Fits(n) /\ n.op = "delivered"
           /\ \A a \in Nat, q \in Paid : LET n == [k EXCEPT !.amount = a, !.pay = q] IN
                 n \in Tasks /\ Fits(n) /\ n.op = "delivered"
<1> DEFINE k == task[w]
<1>1. k \in Tasks /\ k # Idle /\ k.op = "delivered"
  BY Phases DEF TypeInv
<1>2. Fits(k)
  BY <1>1 DEF TypeInv, TasksOK
<1>3. k.op \in DOMAIN Flow /\ k.at \in 1..12 /\ k.to \in Statuses \union Reviews \union Paid
  BY <1>1 DEF Tasks
<1>4. New(k.op) \in Tasks
  BY <1>3, NewTask
<1>5. Billed(w) \in Tasks
  BY <1>3, <1>4 DEF Billed, Tasks
<1>6. Billed(w).op = k.op /\ Billed(w).to = k.to
  BY DEF Billed, New
<1>7. Fits(Billed(w))
  BY <1>1, <1>6, <1>2 DEF Fits
<1>8. ASSUME NEW c \in Nat
      PROVE  LET n == [k EXCEPT !.n = c] IN
             n \in Tasks /\ Fits(n) /\ n.op = "delivered"
  BY <1>1, <1>2 DEF Tasks, Fits
<1>9. ASSUME NEW a \in Nat, NEW q \in Paid
      PROVE  LET n == [k EXCEPT !.amount = a, !.pay = q] IN
             n \in Tasks /\ Fits(n) /\ n.op = "delivered"
  BY <1>1, <1>2 DEF Tasks, Fits
<1> QED BY <1>1, <1>2, <1>5, <1>6, <1>7, <1>8, <1>9

\* A step of the charges goes on with a task of status 'delivered'.
LEMMA Goes ==
    ASSUME TypeInv, NEW w \in Workers,
           Halting(w) \/ HaltingBill(w) \/ Sla(w) \/ SlaRead(w) \/ SlaBill(w)
    PROVE  \E m \in Tasks, n \in Nat : Fits(m) /\ m.op = "delivered" /\ GoesOnAs(w, m, n)
<1>1. CASE Halting(w) \/ Sla(w)
  <2>1. \/ GoesOnAs(w, Billed(w), 2) \/ GoesOnAs(w, task[w], 3)
        \/ \E c \in Charges : GoesOnAs(w, [task[w] EXCEPT !.n = c], 1)
    BY <1>1 DEF Halting, Sla
  <2>2. At(w, "halting") \/ At(w, "sla")
    BY <1>1 DEF Halting, Sla
  <2>3. \A c \in Charges : c \in Nat
    BY Money
  <2> QED BY <2>1, <2>2, <2>3, Billing
<1>2. CASE HaltingBill(w) \/ SlaBill(w)
  BY <1>2, Billing DEF HaltingBill, SlaBill
<1>3. CASE SlaRead(w)
  <2>1. booking.amount \in Nat /\ booking.pay \in Paid
    BY DEF TypeInv, TypeOK
  <2>2. /\ At(w, "slaRead")
        /\ GoesOnAs(w, [task[w] EXCEPT !.amount = booking.amount, !.pay = booking.pay], 1)
    BY <1>3 DEF SlaRead
  <2> QED BY <2>1, <2>2, Billing
<1> QED BY <1>1, <1>2, <1>3

\* So does each query of updateTripStatus.
LEMMA StatusType ==
    ASSUME TypeInv, NEW w \in Workers, UpdateTripStatus(w)
    PROVE  TypeInv'
<1> DEFINE k == task[w]
<1> USE DEF DataOK, db, history
<1>1. DataOK /\ TasksOK /\ TypeOK
  BY Split DEF TypeInv
<1>2. k # Idle => Fits(k)
  BY <1>1 DEF TasksOK
<1>3. CASE SetTrip(w)
  <2>1. At(w, "setTrip") /\ (GoesOn(w) \/ Ends(w))
    BY <1>3 DEF SetTrip
  <2>2. k \in Tasks /\ k # Idle /\ k.op \in Statuses
    BY <1>1, <2>1, Phases
  <2>3. trip' \in [status : Statuses, stops : SUBSET Stops, photos : Nat, pod : Reviews,
                  halting : Charges \union {0}, sla : Charges \union {0}]
    BY <1>1, <1>2, <1>3, <2>2 DEF SetTrip, Fits
  <2>4. override' \in BOOLEAN
    BY <1>1, <1>3 DEF SetTrip
  <2>5. UNCHANGED <<booking, db, approved, calm, restarts>>
    BY <1>3 DEF SetTrip
  <2>6. DataOK'
    BY <1>1, <2>3, <2>4, <2>5
  <2> QED BY <2>1, <2>2, <2>6, Going, Split
<1>5. ASSUME Halting(w) \/ Sla(w) PROVE TypeInv'
  <2>1. trip' = trip \/ \E c \in Charges : \/ trip' = [trip EXCEPT !.halting = c]
                                           \/ trip' = [trip EXCEPT !.sla = c]
    BY <1>5 DEF Halting, Sla
  <2>2. trip' \in [status : Statuses, stops : SUBSET Stops, photos : Nat, pod : Reviews,
                  halting : Charges \union {0}, sla : Charges \union {0}]
    BY <1>1, <2>1
  <2>3. UNCHANGED <<booking, db, history>>
    BY <1>5 DEF Halting, Sla
  <2>4. DataOK'
    BY <1>1, <2>2, <2>3
  <2>5. TasksOK'
    BY <1>5, Goes, Advance
  <2> QED BY <2>4, <2>5, Split
<1>6. ASSUME HaltingBill(w) \/ SlaBill(w) PROVE TypeInv'
  <2>1. k \in Tasks
    BY <1>6, Billing DEF HaltingBill, SlaBill
  <2>2. k.amount + k.n \in Nat
    BY <2>1 DEF Tasks
  <2>3. booking' = Charged(k) /\ UNCHANGED <<trip, db, history>>
    BY <1>6 DEF HaltingBill, SlaBill
  <2>4. booking' \in [status : Statuses \union {"assigned"}, amount : Nat, pay : Paid, paid : Nat]
    BY <1>1, <2>2, <2>3 DEF Charged, Paid
  <2>5. DataOK'
    BY <1>1, <2>3, <2>4
  <2>6. TasksOK'
    BY <1>6, Goes, Advance
  <2> QED BY <2>5, <2>6, Split
<1>7. CASE SlaRead(w)
  <2>1. TasksOK'
    BY <1>7, Goes, Advance
  <2>2. DataOK'
    BY <1>1, <1>7 DEF SlaRead
  <2> QED BY <2>1, <2>2, Split
<1>8. CASE SetBooking(w)
  <2>1. At(w, "setBooking") /\ GoesOn(w) /\ UNCHANGED <<trip, db, history>>
    BY <1>8 DEF SetBooking
  <2>2. k \in Tasks /\ k # Idle /\ k.op \in Statuses
    BY <1>1, <2>1, Phases
  <2>3. k.to \in Statuses
    BY <1>2, <2>2 DEF Fits
  <2>4. booking' = [booking EXCEPT !.status = k.to]
    BY <1>8 DEF SetBooking
  <2>5. DataOK'
    BY <1>1, <2>1, <2>3, <2>4
  <2> QED BY <2>1, <2>2, <2>5, Going, Split
<1>9. CASE CountTrip(w)
  <2>1. At(w, "count") /\ GoesOn(w) /\ UNCHANGED <<trip, booking, settlements, earned, history>>
    BY <1>9 DEF CountTrip
  <2>2. totalTrips' \in Nat
    BY <1>1, <1>9 DEF CountTrip
  <2>3. k \in Tasks /\ k # Idle
    BY <1>1, <2>1, Phases
  <2>4. DataOK'
    BY <1>1, <2>1, <2>2
  <2> QED BY <2>1, <2>3, <2>4, Going, Split
<1>10. CASE ReadBooking(w)
  <2>1. At(w, "read") /\ UNCHANGED <<trip, booking, db, history>>
    BY <1>10 DEF ReadBooking
  <2>2. k \in Tasks /\ k # Idle
    BY <1>1, <2>1, Phases
  <2> DEFINE n == [k EXCEPT !.amount = booking.amount]
  <2>3. n \in Tasks /\ Fits(n)
    BY <1>1, <1>2, <2>2 DEF Tasks, Fits
  <2>4. GoesOnAs(w, n, 1)
    BY <1>10 DEF ReadBooking
  <2> HIDE DEF n
  <2>5. TasksOK'
    BY <2>3, <2>4, Advance
  <2>6. DataOK'
    BY <1>1, <2>1
  <2> QED BY <2>5, <2>6, Split
<1>11. CASE InsertSettlement(w)
  <2>1. At(w, "settle") /\ GoesOn(w) /\ UNCHANGED <<trip, booking, earned, totalTrips, history>>
    BY <1>11 DEF InsertSettlement
  <2>2. k \in Tasks /\ k # Idle
    BY <1>1, <2>1, Phases
  <2>3. k.amount \in Nat
    BY <2>2 DEF Tasks
  <2>4. settlements' \in Seq(Nat)
    BY <1>1, <1>11, <2>3 DEF InsertSettlement
  <2>5. DataOK'
    BY <1>1, <2>1, <2>4
  <2> QED BY <2>1, <2>2, <2>5, Going, Split
<1>12. ASSUME NEW u \in Users, NEW p \in {"payDriver", "payBroker"}, Credit(w, p, u)
       PROVE  TypeInv'
  <2>1. At(w, p) /\ GoesOn(w) /\ UNCHANGED <<trip, booking, settlements, totalTrips, history>>
    BY <1>12 DEF Credit
  <2>2. k \in Tasks /\ k # Idle
    BY <1>1, <2>1, Phases
  <2>3. Earning(u, k.amount) \in Nat
    BY <2>2, EarningType DEF Tasks
  <2>4. \/ earned' = earned
        \/ earned' = [earned EXCEPT ![u] = Append(earned[u], Earning(u, k.amount))]
    BY <1>12 DEF Credit
  <2>5. earned' \in [Users -> Seq(Nat)]
    <3>1. Append(earned[u], Earning(u, k.amount)) \in Seq(Nat)
      BY <1>1, <2>3
    <3> QED BY <1>1, <2>4, <3>1
  <2>6. DataOK'
    BY <1>1, <2>1, <2>5
  <2> QED BY <2>1, <2>2, <2>6, Going, Split
<1> QED
  BY <1>3, <1>5, <1>6, <1>7, <1>8, <1>9, <1>10, <1>11, <1>12, Trip DEF UpdateTripStatus

\* And each query of the other handlers.
LEMMA StepType ==
    ASSUME TypeInv, NEW w \in Workers, CompleteStop(w) \/ ProofOfDelivery(w) \/ RecordPayment(w)
    PROVE  TypeInv'
<1> DEFINE k == task[w]
<1> USE DEF DataOK, db, history
<1>1. DataOK /\ TasksOK /\ TypeOK
  BY Split DEF TypeInv
<1>2. k # Idle => Fits(k)
  BY <1>1 DEF TasksOK
<1>3. CASE ReadStops(w)
  <2>1. At(w, "readStops") /\ UNCHANGED <<trip, booking, db, history>>
    BY <1>3 DEF ReadStops
  <2>2. k \in Tasks /\ k # Idle
    BY <1>1, <2>1, Phases
  <2> DEFINE n == [k EXCEPT !.stops = trip.stops]
  <2>3. n \in Tasks /\ Fits(n)
    BY <1>1, <1>2, <2>2 DEF Tasks, Fits
  <2>4. GoesOnAs(w, n, 1)
    BY <1>3 DEF ReadStops
  <2> HIDE DEF n
  <2>5. TasksOK'
    BY <2>3, <2>4, Advance
  <2>6. DataOK'
    BY <1>1, <2>1
  <2> QED BY <2>5, <2>6, Split
<1>4. CASE WriteStops(w)
  <2>1. At(w, "writeStops") /\ GoesOn(w) /\ UNCHANGED <<booking, db, history>>
    BY <1>4 DEF WriteStops
  <2>2. k \in Tasks /\ k # Idle /\ k.op = "stop"
    BY <1>1, <2>1, Phases
  <2>3. k.stops \union {k.n} \subseteq Stops
    BY <1>2, <2>2 DEF Tasks, Fits
  <2>4. trip' = [trip EXCEPT !.stops = k.stops \union {k.n}]
    BY <1>4 DEF WriteStops
  <2>5. DataOK'
    BY <1>1, <2>1, <2>3, <2>4
  <2> QED BY <2>1, <2>2, <2>5, Going, Split
<1>5. CASE CountPhotos(w)
  <2>1. At(w, "countPhotos") /\ (GoesOn(w) \/ Ends(w)) /\ UNCHANGED <<trip, booking, db, history>>
    BY <1>5 DEF CountPhotos
  <2>2. k \in Tasks /\ k # Idle
    BY <1>1, <2>1, Phases
  <2>3. DataOK'
    BY <1>1, <2>1
  <2> QED BY <2>1, <2>2, <2>3, Going, Split
<1>6. CASE StorePhotos(w)
  <2>1. At(w, "store") /\ GoesOn(w) /\ UNCHANGED <<booking, db, history>>
    BY <1>6 DEF StorePhotos
  <2>2. k \in Tasks /\ k # Idle
    BY <1>1, <2>1, Phases
  <2>3. trip.photos + k.n \in Nat
    BY <1>1, <2>2 DEF Tasks
  <2>4. trip' = [trip EXCEPT !.photos = trip.photos + k.n]
    BY <1>6 DEF StorePhotos
  <2>5. DataOK'
    BY <1>1, <2>1, <2>3, <2>4
  <2> QED BY <2>1, <2>2, <2>5, Going, Split
<1>7. CASE SubmitPod(w)
  <2>1. At(w, "submit") /\ GoesOn(w) /\ UNCHANGED <<booking, db, history>>
    BY <1>7 DEF SubmitPod
  <2>2. k \in Tasks /\ k # Idle
    BY <1>1, <2>1, Phases
  <2>3. trip' = trip \/ trip' = [trip EXCEPT !.pod = "pending_verification"]
    BY <1>7 DEF SubmitPod
  <2>4. "pending_verification" \in Reviews
    BY DEF Reviews
  <2>5. DataOK'
    BY <1>1, <2>1, <2>3, <2>4
  <2> QED BY <2>1, <2>2, <2>5, Going, Split
<1>8. CASE SetPod(w)
  <2>1. At(w, "setPod") /\ GoesOn(w) /\ UNCHANGED <<booking, db, override, calm, restarts>>
    BY <1>8 DEF SetPod
  <2>2. k \in Tasks /\ k # Idle /\ k.op = "review"
    BY <1>1, <2>1, Phases
  <2>3. k.to \in Reviews
    BY <1>2, <2>2 DEF Fits
  <2>4. trip' = [trip EXCEPT !.pod = k.to]
    BY <1>8 DEF SetPod
  <2>5. approved' \in BOOLEAN
    BY <1>1, <1>8 DEF SetPod
  <2>6. DataOK'
    BY <1>1, <2>1, <2>3, <2>4, <2>5
  <2> QED BY <2>1, <2>2, <2>6, Going, Split
<1>9. CASE RecordPayment(w)
  <2>1. At(w, "record") /\ GoesOn(w) /\ UNCHANGED <<trip, db, history>>
    BY <1>9 DEF RecordPayment
  <2>2. k \in Tasks /\ k # Idle /\ k.op = "payment"
    BY <1>1, <2>1, Phases
  <2>3. k.to \in Paid /\ k.n \in Nat
    BY <1>2, <2>2 DEF Fits, Tasks
  <2>4. booking' = [booking EXCEPT !.pay = k.to, !.paid = k.n]
    BY <1>9 DEF RecordPayment
  <2>5. DataOK'
    BY <1>1, <2>1, <2>3, <2>4
  <2> QED BY <2>1, <2>2, <2>5, Going, Split
<1> QED
  BY <1>3, <1>4, <1>5, <1>6, <1>7, <1>8, <1>9 DEF CompleteStop, ProofOfDelivery

\* Every step keeps the types.
LEMMA NextType == TypeInv /\ [Next]_vars => TypeInv'
<1> SUFFICES ASSUME TypeInv, [Next]_vars PROVE TypeInv'
  OBVIOUS
<1>1. CASE Restart
  <2>1. TasksOK'
    BY <1>1 DEF Restart, TasksOK
  <2>2. restarts' \in 0..MaxRestarts
    BY <1>1, Instance DEF Restart, TypeInv, TypeOK
  <2>3. DataOK'
    BY <1>1, <2>2, Split DEF Restart, DataOK, db
  <2> QED BY <2>1, <2>3, Split
<1>2. CASE \E w \in Workers : Requests(w)
  BY <1>2, RequestType
<1>3. CASE \E w \in Workers : Steps(w)
  BY <1>3, StatusType, StepType DEF Steps
<1>4. CASE UNCHANGED vars
  <2>1. DataOK' /\ TasksOK'
    BY <1>4, Split DEF vars, db, history, DataOK, TasksOK
  <2> QED BY <2>1, Split
<1> QED BY <1>1, <1>2, <1>3, <1>4 DEF Next

\* Every column, wallet and task of the end of a trip keeps its type.
THEOREM SettlementTyped == Spec => []TypeOK
<1>1. TypeInv => TypeOK
  BY DEF TypeInv
<1> QED BY <1>1, InitType, NextType, PTL DEF Spec
-----------------------------------------------------------------------------
(* Approval                                                                *)

\* A proof that is verified, a driver's completion under way and a completed
\* trip each go back to an approval.
ApprovalInv ==
    /\ trip.pod = "verified" => approved
    /\ \A w \in Workers :
          task[w].op = "completed" /\ task[w].by = "driver" => approved
    /\ ClosedWithApproval

\* No step loses the approval a completion rests on.
LEMMA ApprovalStep == TypeInv /\ ApprovalInv /\ [Next]_vars => ApprovalInv'
<1> SUFFICES ASSUME TypeInv, ApprovalInv, [Next]_vars PROVE ApprovalInv'
  OBVIOUS
<1> USE DEF ApprovalInv, ClosedWithApproval, db, history
<1>1. ASSUME UNCHANGED <<trip, override>>, approved => approved',
             \A v \in Workers : \/ task'[v].op = task[v].op /\ task'[v].by = task[v].by
                                \/ task'[v].op # "completed"
      PROVE  ApprovalInv'
  BY <1>1
<1>2. CASE Restart
  BY <1>1, <1>2 DEF Restart, Idle
<1>3. ASSUME NEW w \in Workers, Requests(w) PROVE ApprovalInv'
  <2>1. ASSUME NEW s \in Statuses \ {"confirmed"}, NEW by \in {"driver", "broker"},
               StatusRequest(w, s, by)
        PROVE  ApprovalInv'
    <3> DEFINE k == IF s = "delivered"
                    THEN [New(s) EXCEPT !.to = s, !.amount = booking.amount,
                                        !.pay = booking.pay]
                    ELSE [New(s) EXCEPT !.to = s, !.by = IF s = "completed" THEN by ELSE @]
    <3>1. task' = [task EXCEPT ![w] = k] /\ UNCHANGED <<trip, approved, override>>
      BY <2>1 DEF StatusRequest, Begin
    <3>2. k.op = "completed" /\ k.by = "driver" => approved
      BY <2>1 DEF StatusRequest, MayComplete, New
    <3> HIDE DEF k
    <3>3. task'[w] = k /\ \A v \in Workers \ {w} : task'[v] = task[v]
      BY <3>1 DEF TypeInv, TypeOK
    <3> QED BY <3>1, <3>2, <3>3
  <2>2. ASSUME NEW duty, NEW op \in {"stop", "upload", "review", "payment"}, NEW k,
               k.op = op, Begin(w, duty, k), UNCHANGED override
        PROVE  ApprovalInv'
    <3>1. task' = [task EXCEPT ![w] = k] /\ UNCHANGED <<trip, approved, override>>
      BY <2>2 DEF Begin
    <3>2. task'[w] = k /\ \A v \in Workers \ {w} : task'[v] = task[v]
      BY <3>1 DEF TypeInv, TypeOK
    <3> QED BY <1>1, <2>2, <3>1, <3>2
  <2>3. CASE \E i \in Stops : StopRequest(w, i)
    BY <2>2, <2>3 DEF StopRequest, New
  <2>4. CASE \E n \in 1..MaxPhotos : UploadRequest(w, n)
    BY <2>2, <2>4 DEF UploadRequest, New
  <2>5. CASE \E v \in {"verified", "rejected"} : ReviewRequest(w, v)
    BY <2>2, <2>5 DEF ReviewRequest, New
  <2>6. CASE (\E n \in Advances \union {booking.amount} : PayRequest(w, n)) \/ CollectRequest(w)
    BY <2>2, <2>6 DEF PayRequest, CollectRequest, New
  <2> QED BY <1>3, <2>1, <2>3, <2>4, <2>5, <2>6 DEF Requests
<1>4. ASSUME NEW w \in Workers, NEW k \in Tasks, NEW n \in Nat, k.op = task[w].op,
             k.by = task[w].by \/ k.op # "completed", GoesOnAs(w, k, n) \/ Ends(w)
      PROVE  \A v \in Workers : \/ task'[v].op = task[v].op /\ task'[v].by = task[v].by
                                \/ task'[v].op # "completed"
  <2> DEFINE m == [k EXCEPT !.at = k.at + n]
  <2>1. m.op = k.op /\ m.by = k.by
    BY DEF Tasks
  <2>2. task' = [task EXCEPT ![w] = Idle] \/ task' = [task EXCEPT ![w] = m]
    BY <1>4 DEF GoesOnAs, Ends
  <2> HIDE DEF m
  <2>3. \A v \in Workers \ {w} : task'[v] = task[v]
    BY <2>2 DEF TypeInv, TypeOK
  <2>4. task'[w] = Idle \/ task'[w] = m
    BY <2>2 DEF TypeInv, TypeOK
  <2>5. Idle.op # "completed"
    BY DEF Idle
  <2>6. \/ task'[w].op = task[w].op /\ task'[w].by = task[w].by
        \/ task'[w].op # "completed"
    BY <1>4, <2>1, <2>4, <2>5
  <2> QED BY <2>3, <2>6
<1>5. ASSUME NEW w \in Workers, UpdateTripStatus(w) PROVE ApprovalInv'
  <2> DEFINE k == task[w]
  <2>1. CASE SetTrip(w)
    <3>1. At(w, "setTrip") /\ (GoesOn(w) \/ Ends(w)) /\ UNCHANGED approved
      BY <2>1 DEF SetTrip
    <3>2. k \in Tasks /\ k # Idle /\ k.op \in Statuses
      BY <3>1, Phases DEF TypeInv
    <3>3. k.to = k.op /\ k.by \in {"driver", "broker"}
      BY <3>2 DEF TypeInv, TasksOK, Fits, Tasks
    <3>4. trip'.status = k.to /\ trip'.pod = trip.pod
      BY <2>1 DEF SetTrip, TypeInv, TypeOK
    <3>5. \A v \in Workers : \/ task'[v].op = task[v].op /\ task'[v].by = task[v].by
                             \/ task'[v].op # "completed"
      BY <1>4, <3>1, <3>2 DEF GoesOn
    <3>6. override => override'
      BY <2>1 DEF SetTrip
    <3>7. k.op = "completed" => approved' \/ override'
      <4>1. CASE k.by = "driver"
        BY <3>1, <4>1
      <4>2. CASE k.by = "broker" /\ trip.status # "completed"
        BY <2>1, <3>3, <4>2 DEF SetTrip
      <4>3. CASE trip.status = "completed"
        BY <3>1, <3>6, <4>3
      <4> QED BY <3>3, <4>1, <4>2, <4>3
    <3> QED BY <3>1, <3>3, <3>4, <3>5, <3>7
  <2>2. ASSUME Halting(w) \/ HaltingBill(w) \/ Sla(w) \/ SlaRead(w) \/ SlaBill(w)
        PROVE  ApprovalInv'
    <3>1. k.op = "delivered"
      BY <2>2, Billing DEF Halting, HaltingBill, Sla, SlaRead, SlaBill
    <3>2. trip'.status = trip.status /\ trip'.pod = trip.pod /\ UNCHANGED <<approved, override>>
      BY <2>2 DEF Halting, HaltingBill, Sla, SlaRead, SlaBill, TypeInv, TypeOK
    <3>3. \E n \in Nat, m \in Tasks : m.op = "delivered" /\ GoesOnAs(w, m, n)
      BY <2>2, Goes
    <3>4. \A v \in Workers : \/ task'[v].op = task[v].op /\ task'[v].by = task[v].by
                             \/ task'[v].op # "completed"
      BY <1>4, <3>1, <3>3
    <3> QED BY <3>2, <3>4
  <2>3. ASSUME \/ SetBooking(w) \/ CountTrip(w) \/ InsertSettlement(w)
               \/ Credit(w, "payDriver", Driver) \/ Credit(w, "payBroker", Broker)
        PROVE  ApprovalInv'
    <3>1. GoesOn(w) /\ UNCHANGED <<trip, approved, override>>
      BY <2>3 DEF SetBooking, CountTrip, InsertSettlement, Credit
    <3>2. k \in Tasks
      BY <2>3, Phases DEF TypeInv, SetBooking, CountTrip, InsertSettlement, Credit
    <3> QED BY <1>1, <1>4, <3>1, <3>2 DEF GoesOn
  <2>4. CASE ReadBooking(w)
    <3>1. At(w, "read") /\ UNCHANGED <<trip, approved, override>>
      BY <2>4 DEF ReadBooking
    <3> DEFINE m == [k EXCEPT !.amount = booking.amount]
    <3>2. k \in Tasks
      BY <3>1, Phases DEF TypeInv
    <3>3. m \in Tasks /\ m.op = k.op /\ m.by = k.by
      BY <3>2 DEF Tasks, TypeInv, TypeOK
    <3>4. GoesOnAs(w, m, 1)
      BY <2>4 DEF ReadBooking
    <3> HIDE DEF m
    <3> QED BY <1>1, <1>4, <3>1, <3>3, <3>4
  <2> QED BY <1>5, <2>1, <2>2, <2>3, <2>4 DEF UpdateTripStatus
<1>6. ASSUME NEW w \in Workers, CompleteStop(w) \/ ProofOfDelivery(w) \/ RecordPayment(w)
      PROVE  ApprovalInv'
  <2> DEFINE k == task[w]
  <2>1. k \in Tasks /\ k.op # "completed"
    BY <1>6, Phases DEF TypeInv, CompleteStop, ProofOfDelivery, RecordPayment, ReadStops,
       WriteStops, CountPhotos, StorePhotos, SubmitPod, SetPod, Statuses, Moves
  <2>2. \/ GoesOn(w) \/ Ends(w) \/ GoesOnAs(w, [k EXCEPT !.stops = trip.stops], 1)
    BY <1>6 DEF CompleteStop, ProofOfDelivery, RecordPayment, ReadStops,
       WriteStops, CountPhotos, StorePhotos, SubmitPod, SetPod
  <2>3. LET m == [k EXCEPT !.stops = trip.stops] IN m \in Tasks /\ m.op = k.op
    BY <2>1 DEF Tasks, TypeInv, TypeOK
  <2>4. \A v \in Workers : \/ task'[v].op = task[v].op /\ task'[v].by = task[v].by
                           \/ task'[v].op # "completed"
    BY <1>4, <2>1, <2>2, <2>3 DEF GoesOn
  <2>5. trip'.status = trip.status /\ UNCHANGED override
    BY <1>6 DEF CompleteStop, ProofOfDelivery, RecordPayment, ReadStops,
       WriteStops, CountPhotos, StorePhotos, SubmitPod, SetPod, TypeInv, TypeOK
  <2>6. (approved => approved') /\ (trip'.pod = "verified" => trip.pod = "verified" \/ approved')
    BY <1>6 DEF CompleteStop, ProofOfDelivery, RecordPayment, ReadStops,
       WriteStops, CountPhotos, StorePhotos, SubmitPod, SetPod, TypeInv, TypeOK
  <2> QED BY <2>4, <2>5, <2>6
<1>7. CASE UNCHANGED vars
  BY <1>1, <1>7 DEF vars
<1> QED BY <1>2, <1>3, <1>5, <1>6, <1>7 DEF Next, Steps

\* A driver closes a trip only once the client has approved a proof of delivery.
THEOREM ApprovedFirst == Spec => []ClosedWithApproval
<1>1. Init => ApprovalInv
  BY DEF Init, ApprovalInv, ClosedWithApproval, Idle
<1>2. ApprovalInv => ClosedWithApproval
  BY DEF ApprovalInv
<1> QED BY <1>1, <1>2, InitType, NextType, ApprovalStep, PTL DEF Spec

-----------------------------------------------------------------------------
(* Pay-out                                                                 *)

\* A completion that has won the compare-and-swap.
Won(w) == task[w].op = "completed" /\ task[w].at > 1

\* What Orderly gives: status updates that run together are of one status.
OneStatus ==
    \A v, w \in Workers :
        task[v].op \in Statuses /\ task[w].op \in Statuses => task[v].op = task[w].op

\* The delivery, with its charges, is over when the trip is completed.
DeliveryOver ==
    \A w \in Workers :
        /\ task[w].op \in {"in_transit", "delivered"} => trip.status # "completed"
        /\ Won(w) => trip.status = "completed"

OneWon == \A v, w \in Workers : Won(v) /\ Won(w) => v = w

NothingPaid == settlements = <<>> /\ totalTrips = 0 /\ \A u \in Users : earned[u] = <<>>

\* How far the pay-out of w has come.
Progress(w) ==
    /\ task[w].at <= 3 => totalTrips = 0
    /\ task[w].at <= 5 => settlements = <<>>
    /\ task[w].at = 5 => task[w].amount = booking.amount
    /\ task[w].at > 5 => settlements # <<>> /\ task[w].amount = booking.amount
    /\ task[w].at <= 6 => \A u \in Users : earned[u] = <<>>
    /\ task[w].at <= 7 => (Driver # Broker => earned[Broker] = <<>>)

PayInv ==
    /\ OneStatus
    /\ DeliveryOver
    /\ OneWon
    /\ trip.status # "completed" => NothingPaid
    /\ \A w \in Workers : Won(w) => Progress(w)
    /\ PaidOutOnce
    /\ PaidAtFinalAmount

\* The order of the statuses.
LEMMA Ranks ==
    /\ Rank("confirmed") = 1 /\ Rank("in_transit") = 2
    /\ Rank("delivered") = 3 /\ Rank("completed") = 4
<1>1. DOMAIN Moves = 1..4 /\ Moves[1] = "confirmed" /\ Moves[2] = "in_transit"
      /\ Moves[3] = "delivered" /\ Moves[4] = "completed"
  BY DEF Moves
<1>2. \A i \in 1..4 : i = 1 \/ i = 2 \/ i = 3 \/ i = 4
  OBVIOUS
<1> QED BY <1>1, <1>2 DEF Rank

\* No pay-out has begun while the trip is not completed.
LEMMA NotWon ==
    ASSUME PayInv, trip.status # "completed"
    PROVE  NothingPaid /\ \A v \in Workers : ~Won(v)
  BY DEF PayInv, DeliveryOver

\* A step that pays nothing, takes the trip no further, and whose tasks start
\* no completion that has won and start no status.
LEMMA Idles ==
    ASSUME PayInv, UNCHANGED <<settlements, earned, totalTrips>>,
           trip'.status = trip.status,
           booking'.amount = booking.amount \/ trip.status # "completed",
           \A v \in Workers :
              \/ task'[v] = task[v]
              \/ task'[v].op \notin Statuses
              \/ task'[v].op = task[v].op /\ task[v].op # "completed"
              \/ /\ task'[v].op = "completed" /\ task[v].op = "completed"
                 /\ task[v].at = 2 /\ task'[v].at = 3
    PROVE  PayInv'
<1> USE DEF PayInv
<1>1. "completed" \in Statuses /\ "in_transit" \in Statuses /\ "delivered" \in Statuses
  BY DEF Statuses, Moves
<1>2. \A v \in Workers : task'[v].op \in Statuses => task'[v].op = task[v].op
  OBVIOUS
<1>3. \A v \in Workers : Won(v)' => Won(v)
  BY <1>1 DEF Won
<1>4. OneStatus'
  BY <1>2 DEF OneStatus
<1>5. DeliveryOver'
  BY <1>1, <1>2, <1>3 DEF DeliveryOver
<1>6. OneWon'
  BY <1>3 DEF OneWon
<1>7. trip'.status # "completed" => NothingPaid'
  BY DEF NothingPaid
<1>8. ASSUME NEW v \in Workers, Won(v)' PROVE Progress(v)'
  <2>1. Won(v) /\ Progress(v) /\ booking'.amount = booking.amount
    BY <1>3, <1>8 DEF DeliveryOver
  <2>2. CASE task'[v] = task[v]
    BY <2>1, <2>2 DEF Progress
  <2>3. CASE task[v].at = 2 /\ task'[v].at = 3
    BY <2>1, <2>3 DEF Progress
  <2> QED BY <1>1, <1>8, <2>1, <2>2, <2>3 DEF Won
<1>9. PaidOutOnce'
  BY DEF PaidOutOnce
<1>10. PaidAtFinalAmount'
  <2>1. CASE NothingPaid
    BY <2>1, Trip DEF PaidAtFinalAmount, NothingPaid
  <2>2. CASE booking'.amount = booking.amount
    BY <2>2 DEF PaidAtFinalAmount
  <2> QED BY <2>1, <2>2
<1> QED BY <1>4, <1>5, <1>6, <1>7, <1>8, <1>9, <1>10

\* The steps of the completion that has won: its task goes on, and what is left
\* to show is its progress.
LEMMA Paying ==
    ASSUME TypeInv, PayInv, NEW w \in Workers, Won(w), NEW m \in Tasks,
           m.op = "completed", m.at = task[w].at, GoesOnAs(w, m, 1),
           UNCHANGED <<trip, booking>>
    PROVE  /\ OneStatus' /\ DeliveryOver' /\ OneWon' /\ trip'.status = "completed"
           /\ \A v \in Workers : Won(v)' => v = w
           /\ Won(w)' => /\ task'[w].at = m.at + 1 /\ task'[w].amount = m.amount
                         /\ m.at \in 2..6
<1>1. trip.status = "completed" /\ task[w].op = "completed" /\ task[w].at > 1
  BY DEF PayInv, DeliveryOver, Won
<1> DEFINE next == [m EXCEPT !.at = m.at + 1]
<1>2. Len(Flow["completed"]) = 7 /\ m.at \in 1..12
  BY DEF Flow, OnCompleted, Tasks
<1>3. task' = [task EXCEPT ![w] = IF m.at + 1 > 7 THEN Idle ELSE next]
  BY <1>2 DEF GoesOnAs
<1>4. next.op = "completed" /\ next.at = m.at + 1 /\ next.amount = m.amount
  BY DEF Tasks
<1> HIDE DEF next
<1>5. \A v \in Workers \ {w} : task'[v] = task[v]
  BY <1>3 DEF TypeInv, TypeOK
<1>6. task'[w] = IF m.at + 1 > 7 THEN Idle ELSE next
  BY <1>3 DEF TypeInv, TypeOK
<1>7. Idle.op \notin Statuses /\ Idle.op # "completed" /\ "completed" \in Statuses
      /\ "in_transit" \in Statuses /\ "delivered" \in Statuses
  BY DEF Idle, Statuses, Moves
<1>8. \A v \in Workers : task'[v].op \in Statuses => task'[v].op = task[v].op
  BY <1>1, <1>4, <1>5, <1>6, <1>7
<1>9. \A v \in Workers : Won(v)' => Won(v)
  BY <1>1, <1>5, <1>6, <1>7 DEF Won
<1>10. OneStatus' /\ DeliveryOver' /\ OneWon'
  BY <1>1, <1>7, <1>8, <1>9 DEF PayInv, OneStatus, DeliveryOver, OneWon
<1>11. \A v \in Workers : Won(v)' => v = w
  BY <1>9 DEF PayInv, OneWon
<1>12. Won(w)' => task'[w] = next /\ m.at \in 2..6
  BY <1>1, <1>2, <1>6, <1>7 DEF Won
<1> QED BY <1>1, <1>4, <1>10, <1>11, <1>12

\* One more entry of the same value.
LEMMA OneMore ==
    ASSUME NEW s \in Seq(Nat), NEW e \in Nat, \A i \in DOMAIN s : s[i] = e
    PROVE  /\ Append(s, e) # <<>> /\ Len(Append(s, e)) = Len(s) + 1
           /\ \A i \in DOMAIN Append(s, e) : Append(s, e)[i] = e
  OBVIOUS

\* A request pays nothing; a status comes in its order.
LEMMA RequestPays ==
    ASSUME Orderly = TRUE, TypeInv, PayInv, NEW w \in Workers, Requests(w)
    PROVE  PayInv'
<1>1. ASSUME NEW s \in Statuses \ {"confirmed"}, NEW by \in {"driver", "broker"},
             StatusRequest(w, s, by)
      PROVE  PayInv'
  <2> DEFINE k == IF s = "delivered"
                  THEN [New(s) EXCEPT !.to = s, !.amount = booking.amount, !.pay = booking.pay]
                  ELSE [New(s) EXCEPT !.to = s, !.by = IF s = "completed" THEN by ELSE @]
  <2>1. task' = [task EXCEPT ![w] = k] /\ UNCHANGED <<trip, booking, db>>
    BY <1>1 DEF StatusRequest, Begin
  <2>2. k.op = s /\ k.at = 1
    BY DEF New
  <2>3. Rank(s) \in {Rank(trip.status), Rank(trip.status) + 1}
    BY <1>1 DEF StatusRequest
  <2>4. \A v \in Workers : task[v].op \notin Statuses \ {s}
    BY <1>1 DEF StatusRequest
  <2>5. s \in {"in_transit", "delivered"} => trip.status # "completed"
    BY <2>3, Ranks
  <2> HIDE DEF k
  <2>6. task'[w] = k /\ \A v \in Workers \ {w} : task'[v] = task[v]
    BY <2>1 DEF TypeInv, TypeOK
  <2>7. OneStatus'
    BY <2>2, <2>4, <2>6 DEF OneStatus
  <2>8. \A v \in Workers : Won(v)' => v # w /\ Won(v)
    BY <2>2, <2>6 DEF Won
  <2>9. DeliveryOver'
    BY <2>1, <2>2, <2>5, <2>6, <2>8 DEF PayInv, DeliveryOver
  <2>10. OneWon'
    BY <2>8 DEF PayInv, OneWon
  <2>11. \A v \in Workers : Won(v)' => Progress(v)'
    BY <2>1, <2>6, <2>8 DEF PayInv, Progress, db
  <2>12. (trip'.status # "completed" => NothingPaid') /\ PaidOutOnce' /\ PaidAtFinalAmount'
    BY <2>1 DEF PayInv, NothingPaid, PaidOutOnce, PaidAtFinalAmount, db
  <2> QED BY <2>7, <2>9, <2>10, <2>11, <2>12 DEF PayInv
<1>2. ASSUME NEW duty, NEW k, k.op \in {"stop", "upload", "review", "payment"},
             Begin(w, duty, k)
      PROVE  PayInv'
  <2>1. task' = [task EXCEPT ![w] = k] /\ UNCHANGED <<trip, booking, db>>
    BY <1>2 DEF Begin
  <2>2. task'[w] = k /\ \A v \in Workers \ {w} : task'[v] = task[v]
    BY <2>1 DEF TypeInv, TypeOK
  <2>3. k.op \notin Statuses
    BY <1>2 DEF Statuses, Moves
  <2> QED BY <2>1, <2>2, <2>3, Idles DEF db
<1>3. CASE \E i \in Stops : StopRequest(w, i)
  BY <1>2, <1>3 DEF StopRequest, New
<1>4. CASE \E n \in 1..MaxPhotos : UploadRequest(w, n)
  <2>1. PICK n \in 1..MaxPhotos : UploadRequest(w, n)
    BY <1>4
  <2> DEFINE k == [New("upload") EXCEPT !.n = n, !.pod = trip.pod]
  <2>2. Begin(w, "upload", k) /\ k.op = "upload"
    BY <2>1 DEF UploadRequest, New
  <2> HIDE DEF k
  <2> QED BY <1>2, <2>2
<1>5. CASE \E v \in {"verified", "rejected"} : ReviewRequest(w, v)
  BY <1>2, <1>5 DEF ReviewRequest, New
<1>6. CASE (\E n \in Advances \union {booking.amount} : PayRequest(w, n)) \/ CollectRequest(w)
  <2>1. \E n, to, duty : Begin(w, duty, [New("payment") EXCEPT !.to = to, !.n = n])
    BY <1>6 DEF PayRequest, CollectRequest
  <2>2. PICK n, to, duty : Begin(w, duty, [New("payment") EXCEPT !.to = to, !.n = n])
    BY <2>1
  <2> DEFINE k == [New("payment") EXCEPT !.to = to, !.n = n]
  <2>3. Begin(w, duty, k) /\ k.op = "payment"
    BY <2>2 DEF New
  <2> HIDE DEF k
  <2> QED BY <1>2, <2>3
<1> QED BY <1>1, <1>3, <1>4, <1>5, <1>6 DEF Requests

\* The compare-and-swap: nothing has been paid when it is won.
LEMMA SetTripPays ==
    ASSUME TypeInv, PayInv, NEW w \in Workers, SetTrip(w)
    PROVE  PayInv'
<1> DEFINE k == task[w]
<1>1. At(w, "setTrip") /\ UNCHANGED <<booking, db>>
  BY DEF SetTrip
<1>2. k \in Tasks /\ k # Idle /\ k.op \in Statuses \ {"confirmed"} /\ k.at = 1
  BY <1>1, Phases DEF TypeInv
<1>3. k.to = k.op
  BY <1>2 DEF TypeInv, TasksOK, Fits
<1>4. trip'.status = k.op
  BY <1>3 DEF SetTrip, TypeInv, TypeOK
<1>5. k.op \in {"in_transit", "delivered", "completed"} /\ "completed" \in Statuses
      /\ "in_transit" \in Statuses /\ "delivered" \in Statuses /\ Idle.op \notin Statuses
  BY <1>2 DEF Statuses, Moves, Idle
<1>6. GoesOn(w) \/ Ends(w)
  BY DEF SetTrip
<1>7. /\ \A v \in Workers \ {w} : task'[v] = task[v]
      /\ task'[w] = Idle \/ (task'[w].op = k.op /\ task'[w].at = 2)
  <2>1. [k EXCEPT !.at = @ + 1].op = k.op /\ [k EXCEPT !.at = @ + 1].at = 2
    BY <1>2 DEF Tasks
  <2> QED BY <1>2, <1>6, <2>1, Going
<1>8. CASE k.op = "completed" /\ trip.status = "completed"
  <2>1. Ends(w)
    BY <1>3, <1>8 DEF SetTrip
  <2>2. task'[w] = Idle
    BY <2>1 DEF Ends, TypeInv, TypeOK
  <2> QED BY <1>1, <1>4, <1>5, <1>7, <1>8, <2>2, Idles DEF db
<1>9. CASE trip.status # "completed"
  <2>1. NothingPaid /\ \A v \in Workers : ~Won(v)
    BY <1>9, NotWon
  <2>2. \A v \in Workers : task'[v].op \in Statuses => task'[v].op = task[v].op
    BY <1>5, <1>7
  <2>3. \A v \in Workers : task'[v].op \in Statuses => task'[v].op = k.op
    BY <1>2, <2>2 DEF PayInv, OneStatus
  <2>4. \A v \in Workers : Won(v)' => v = w /\ k.op = "completed" /\ task'[v].at = 2
    BY <1>5, <1>7, <2>1 DEF Won
  <2>5. OneStatus' /\ DeliveryOver' /\ OneWon'
    BY <1>4, <1>5, <2>3, <2>4 DEF OneStatus, DeliveryOver, OneWon
  <2>6. NothingPaid'
    BY <1>1, <2>1 DEF NothingPaid, db
  <2>7. \A v \in Workers : Won(v)' => Progress(v)'
    BY <2>4, <2>6, Trip DEF Progress, NothingPaid
  <2>8. PaidOutOnce' /\ PaidAtFinalAmount'
    BY <1>1 DEF PayInv, PaidOutOnce, PaidAtFinalAmount, db
  <2> QED BY <2>5, <2>6, <2>7, <2>8 DEF PayInv
<1>10. CASE k.op # "completed" /\ trip.status = "completed"
  BY <1>5, <1>10 DEF PayInv, DeliveryOver
<1> QED BY <1>8, <1>9, <1>10

\* The charges change the amount before anything is paid out.
LEMMA ChargePays ==
    ASSUME TypeInv, PayInv, NEW w \in Workers,
           Halting(w) \/ HaltingBill(w) \/ Sla(w) \/ SlaRead(w) \/ SlaBill(w)
    PROVE  PayInv'
<1>1. PICK m \in Tasks, n \in Nat : Fits(m) /\ m.op = "delivered" /\ GoesOnAs(w, m, n)
  BY Goes
<1>2. task[w].op = "delivered"
  BY Billing DEF Halting, HaltingBill, Sla, SlaRead, SlaBill
<1>3. trip.status # "completed"
  BY <1>2 DEF PayInv, DeliveryOver
<1>4. UNCHANGED db /\ trip'.status = trip.status
  BY DEF Halting, HaltingBill, Sla, SlaRead, SlaBill, TypeInv, TypeOK
<1>5. Idle.op \notin Statuses
  BY DEF Idle, Statuses, Moves
<1>6. /\ \A v \in Workers \ {w} : task'[v] = task[v]
      /\ task'[w] = Idle \/ task'[w] = [m EXCEPT !.at = m.at + n]
  BY <1>1, Advance
<1>7. [m EXCEPT !.at = m.at + n].op = "delivered"
  BY <1>1 DEF Tasks
<1> QED BY <1>2, <1>3, <1>4, <1>5, <1>6, <1>7, Idles DEF db

\* The steps of a completion, one query after the other.
LEMMA TailPays ==
    ASSUME TypeInv, PayInv, NEW w \in Workers,
           \/ CountTrip(w) \/ ReadBooking(w) \/ InsertSettlement(w)
           \/ Credit(w, "payDriver", Driver) \/ Credit(w, "payBroker", Broker)
    PROVE  PayInv'
<1> DEFINE k == task[w]
<1>1. ASSUME NEW p \in {"count", "read", "settle", "payDriver", "payBroker"}, At(w, p)
      PROVE  /\ k \in Tasks /\ k.op = "completed" /\ k.at \in 3..7
             /\ Won(w) /\ Progress(w) /\ trip.status = "completed"
  <2>1. k \in Tasks /\ k.op = "completed" /\ k.at \in 3..7
    BY <1>1, Phases DEF TypeInv
  <2> QED BY <2>1 DEF Won, PayInv, DeliveryOver
<1>2. CASE CountTrip(w)
  <2>1. At(w, "count") /\ GoesOnAs(w, k, 1) /\ UNCHANGED <<trip, booking, settlements, earned>>
    BY <1>2 DEF CountTrip, GoesOn
  <2>2. k.at = 3 /\ totalTrips = 0 /\ totalTrips' = 1
    BY <1>1, <1>2, <2>1, Phases DEF CountTrip, TypeInv, Progress
  <2>3. /\ OneStatus' /\ DeliveryOver' /\ OneWon' /\ trip'.status = "completed"
        /\ \A v \in Workers : Won(v)' => v = w /\ task'[w].at = 4
    BY <1>1, <2>1, <2>2, Paying
  <2>4. \A v \in Workers : Won(v)' => Progress(v)'
    BY <1>1, <2>1, <2>2, <2>3 DEF Progress
  <2>5. PaidOutOnce' /\ PaidAtFinalAmount'
    BY <2>1, <2>2 DEF PayInv, PaidOutOnce, PaidAtFinalAmount
  <2> QED BY <2>3, <2>4, <2>5 DEF PayInv
<1>3. CASE ReadBooking(w)
  <2> DEFINE m == [k EXCEPT !.amount = booking.amount]
  <2>1. At(w, "read") /\ GoesOnAs(w, m, 1) /\ UNCHANGED <<trip, booking, db>>
    BY <1>3 DEF ReadBooking
  <2>2. k \in Tasks /\ k.op = "completed" /\ k.at = 4
    BY <2>1, Phases DEF TypeInv
  <2>3. m \in Tasks /\ m.op = "completed" /\ m.at = 4 /\ m.amount = booking.amount
    BY <2>2 DEF Tasks, TypeInv, TypeOK
  <2> HIDE DEF m
  <2>4. /\ OneStatus' /\ DeliveryOver' /\ OneWon' /\ trip'.status = "completed"
        /\ \A v \in Workers : Won(v)' => v = w /\ task'[w].at = 5 /\ task'[w].amount = m.amount
    BY <1>1, <2>1, <2>2, <2>3, Paying
  <2>5. \A v \in Workers : Won(v)' => Progress(v)'
    BY <1>1, <2>1, <2>2, <2>3, <2>4 DEF Progress, db
  <2>6. PaidOutOnce' /\ PaidAtFinalAmount'
    BY <2>1 DEF PayInv, PaidOutOnce, PaidAtFinalAmount, db
  <2> QED BY <2>4, <2>5, <2>6 DEF PayInv
<1>4. CASE InsertSettlement(w)
  <2>1. At(w, "settle") /\ GoesOnAs(w, k, 1) /\ UNCHANGED <<trip, booking, earned, totalTrips>>
    BY <1>4 DEF InsertSettlement, GoesOn
  <2>2. k \in Tasks /\ k.at = 5 /\ settlements = <<>> /\ k.amount = booking.amount
        /\ \A u \in Users : earned[u] = <<>>
    BY <1>1, <2>1, Phases DEF TypeInv, Progress
  <2>3. settlements' = Append(settlements, k.amount) /\ k.amount \in Nat
    BY <1>4, <2>2 DEF InsertSettlement, Tasks
  <2>4. /\ settlements' # <<>> /\ Len(settlements') = 1
        /\ \A i \in DOMAIN settlements' : settlements'[i] = booking'.amount
    <3>1. \A i \in DOMAIN settlements : settlements[i] = k.amount
      BY <2>2
    <3>2. settlements \in Seq(Nat) /\ Len(settlements) = 0
      BY <2>2
    <3> QED BY <2>1, <2>2, <2>3, <3>1, <3>2, OneMore
  <2>5. /\ OneStatus' /\ DeliveryOver' /\ OneWon' /\ trip'.status = "completed"
        /\ \A v \in Workers : Won(v)' => v = w /\ task'[w].at = 6 /\ task'[w].amount = k.amount
    BY <1>1, <2>1, <2>2, Paying
  <2>6. \A v \in Workers : Won(v)' => Progress(v)'
    BY <2>1, <2>2, <2>4, <2>5, Trip DEF Progress
  <2>7. PaidOutOnce' /\ PaidAtFinalAmount'
    BY <2>1, <2>2, <2>4 DEF PayInv, PaidOutOnce, PaidAtFinalAmount
  <2> QED BY <2>5, <2>6, <2>7 DEF PayInv
<1>5. ASSUME NEW p \in {"payDriver", "payBroker"}, NEW u \in Users, Credit(w, p, u),
             p = "payDriver" => u = Driver, p = "payBroker" => u = Broker
      PROVE  PayInv'
  <2> DEFINE e == Earning(u, k.amount)
  <2>1. /\ At(w, p) /\ GoesOnAs(w, k, 1) /\ UNCHANGED <<trip, booking, settlements, totalTrips>>
        /\ earned' = IF e = 0 THEN earned ELSE [earned EXCEPT ![u] = Append(@, e)]
    BY <1>5 DEF Credit, GoesOn
  <2>2. k \in Tasks /\ k.at = IF p = "payDriver" THEN 6 ELSE 7
    BY <2>1, Phases DEF TypeInv
  <2>3. /\ settlements # <<>> /\ k.amount = booking.amount
        /\ p = "payDriver" => \A q \in Users : earned[q] = <<>>
        /\ p = "payBroker" /\ Driver # Broker => earned[u] = <<>>
    BY <1>1, <1>5, <2>1, <2>2 DEF Progress
  <2>4. e \in Nat /\ k.amount \in Nat /\ earned \in [Users -> Seq(Nat)]
    BY <2>2, EarningType DEF Tasks, TypeInv, TypeOK
  <2>5. e # 0 => e = Payout(u, booking.amount - Fee)
    BY <2>3 DEF Earning
  <2> HIDE DEF e
  <2>6. \A q \in Users \ {u} : earned'[q] = earned[q]
    BY <2>1, <2>4
  <2>7. e # 0 => earned'[u] = Append(earned[u], e)
    BY <2>1, <2>4
  <2>8. e = 0 => earned'[u] = earned[u]
    BY <2>1
  <2>9. \A i \in DOMAIN earned'[u] : earned'[u][i] = Payout(u, booking.amount - Fee)
    <3>1. \A i \in DOMAIN earned[u] : earned[u][i] = Payout(u, booking.amount - Fee)
      BY DEF PayInv, PaidAtFinalAmount
    <3>2. earned[u] \in Seq(Nat)
      BY <2>4
    <3> QED BY <2>4, <2>5, <2>7, <2>8, <3>1, <3>2, OneMore
  <2>10. Driver # Broker => Len(earned'[u]) <= 1
    <3>1. p = "payDriver" \/ Driver # Broker => earned[u] = <<>>
      BY <2>3
    <3>2. earned[u] \in Seq(Nat) /\ Len(Append(earned[u], e)) = Len(earned[u]) + 1
      BY <2>4
    <3>3. earned[u] = <<>> => Len(earned[u]) = 0
      OBVIOUS
    <3> QED BY <1>5, <2>7, <2>8, <3>1, <3>2, <3>3
  <2>11. /\ OneStatus' /\ DeliveryOver' /\ OneWon' /\ trip'.status = "completed"
         /\ \A v \in Workers : Won(v)' => /\ v = w /\ p = "payDriver"
                                          /\ task'[w].at = 7 /\ task'[w].amount = k.amount
    BY <1>1, <2>1, <2>2, Paying
  <2>12. \A v \in Workers : Won(v)' => Progress(v)'
    BY <1>5, <2>1, <2>3, <2>6, <2>11, Trip DEF Progress
  <2>13. PaidOutOnce'
    BY <2>1, <2>6, <2>10 DEF PayInv, PaidOutOnce
  <2>14. PaidAtFinalAmount'
    BY <2>1, <2>3, <2>6, <2>9 DEF PayInv, PaidAtFinalAmount
  <2> QED BY <2>11, <2>12, <2>13, <2>14 DEF PayInv
<1>6. CASE Credit(w, "payDriver", Driver) \/ Credit(w, "payBroker", Broker)
  BY <1>5, <1>6, Trip
<1> QED BY <1>2, <1>3, <1>4, <1>6

\* Every step keeps what is paid and how far the completion that pays has come.
LEMMA PayStep ==
    ASSUME Orderly = TRUE
    PROVE  TypeInv /\ PayInv /\ [Next]_vars => PayInv'
<1> SUFFICES ASSUME TypeInv, PayInv, [Next]_vars PROVE PayInv'
  OBVIOUS
<1>1. CASE Restart
  <2>1. \A v \in Workers : task'[v] = Idle
    BY <1>1 DEF Restart
  <2>2. Idle.op \notin Statuses
    BY DEF Idle, Statuses, Moves
  <2> QED BY <1>1, <2>1, <2>2, Idles DEF Restart, db
<1>2. CASE \E w \in Workers : Requests(w)
  BY <1>2, RequestPays
<1>3. ASSUME NEW w \in Workers, UpdateTripStatus(w) PROVE PayInv'
  <2>1. CASE SetBooking(w)
    <3>1. At(w, "setBooking") /\ GoesOn(w) /\ UNCHANGED <<trip, db>>
      BY <2>1 DEF SetBooking
    <3>2. /\ task[w] \in Tasks /\ task[w] # Idle /\ task[w].op \in Statuses
          /\ task[w].op = "completed" => task[w].at = 2
      BY <3>1, Phases DEF TypeInv
    <3>3. booking'.amount = booking.amount
      BY <2>1 DEF SetBooking, TypeInv, TypeOK
    <3>4. /\ \A v \in Workers \ {w} : task'[v] = task[v]
          /\ task'[w] = Idle \/ task'[w] = [task[w] EXCEPT !.at = @ + 1]
      BY <3>1, <3>2, Going
    <3> DEFINE m == [task[w] EXCEPT !.at = @ + 1]
    <3>5. m.op = task[w].op /\ (m.op = "completed" => m.at = 3)
      BY <3>2 DEF Tasks
    <3>6. Idle.op \notin Statuses
      BY DEF Idle, Statuses, Moves
    <3>7. UNCHANGED <<settlements, earned, totalTrips>> /\ trip'.status = trip.status
      BY <3>1 DEF db
    <3>8. task'[w] = Idle \/ task'[w] = m
      BY <3>4
    <3> HIDE DEF m
    <3>9. ASSUME NEW v \in Workers
          PROVE  \/ task'[v] = task[v]
                 \/ task'[v].op \notin Statuses
                 \/ task'[v].op = task[v].op /\ task[v].op # "completed"
                 \/ /\ task'[v].op = "completed" /\ task[v].op = "completed"
                    /\ task[v].at = 2 /\ task'[v].at = 3
      BY <3>2, <3>4, <3>5, <3>6, <3>8
    <3> QED BY <3>3, <3>7, <3>9, Idles
  <2> QED BY <1>3, <2>1, SetTripPays, ChargePays, TailPays DEF UpdateTripStatus
<1>4. ASSUME NEW w \in Workers, CompleteStop(w) \/ ProofOfDelivery(w) \/ RecordPayment(w)
      PROVE  PayInv'
  <2> DEFINE k == task[w]
  <2>1. k \in Tasks /\ k # Idle /\ k.op \notin Statuses
    BY <1>4, Phases DEF TypeInv, CompleteStop, ProofOfDelivery, RecordPayment, ReadStops,
       WriteStops, CountPhotos, StorePhotos, SubmitPod, SetPod, Statuses, Moves
  <2> DEFINE m == [k EXCEPT !.stops = trip.stops]
  <2>2. GoesOn(w) \/ Ends(w) \/ GoesOnAs(w, m, 1)
    BY <1>4 DEF CompleteStop, ProofOfDelivery, RecordPayment, ReadStops,
       WriteStops, CountPhotos, StorePhotos, SubmitPod, SetPod
  <2>3. /\ m \in Tasks /\ Fits(m) /\ m.op = k.op
    BY <2>1 DEF Tasks, Fits, TypeInv, TypeOK, TasksOK
  <2>4. [m EXCEPT !.at = m.at + 1].op = k.op /\ [k EXCEPT !.at = @ + 1].op = k.op
    BY <2>1, <2>3 DEF Tasks
  <2> HIDE DEF m
  <2>5. /\ \A v \in Workers \ {w} : task'[v] = task[v]
        /\ task'[w].op \notin Statuses
    <3>1. Idle.op \notin Statuses
      BY DEF Idle, Statuses, Moves
    <3>2. CASE GoesOn(w) \/ Ends(w)
      BY <2>1, <2>4, <3>1, <3>2, Going
    <3>3. CASE GoesOnAs(w, m, 1)
      BY <2>1, <2>3, <2>4, <3>1, <3>3, Advance
    <3> QED BY <2>2, <3>2, <3>3
  <2>6. trip'.status = trip.status /\ booking'.amount = booking.amount /\ UNCHANGED db
    BY <1>4 DEF CompleteStop, ProofOfDelivery, RecordPayment, ReadStops,
       WriteStops, CountPhotos, StorePhotos, SubmitPod, SetPod, TypeInv, TypeOK
  <2> QED BY <2>5, <2>6, Idles DEF db
<1>5. CASE UNCHANGED vars
  <2>1. UNCHANGED <<trip, booking, task, settlements, earned, totalTrips>>
    BY <1>5 DEF vars, db
  <2>2. \A v \in Workers : task'[v] = task[v]
    BY <2>1
  <2>3. trip'.status = trip.status /\ booking'.amount = booking.amount
    BY <2>1
  <2> QED BY <2>1, <2>2, <2>3, Idles
<1> QED BY <1>1, <1>2, <1>3, <1>4, <1>5 DEF Next, Steps

\* Nothing is paid at first.
LEMMA PayInit == Init => PayInv
<1> SUFFICES ASSUME Init PROVE PayInv
  OBVIOUS
<1>1. \A w \in Workers : task[w].op \notin Statuses /\ task[w].op # "completed"
  BY DEF Init, Idle, Statuses, Moves
<1>2. "in_transit" \in Statuses /\ "delivered" \in Statuses /\ trip.status # "completed"
  BY DEF Init, Statuses, Moves
<1>3. OneStatus /\ DeliveryOver /\ OneWon /\ \A w \in Workers : ~Won(w)
  BY <1>1, <1>2 DEF OneStatus, DeliveryOver, OneWon, Won
<1>4. NothingPaid /\ PaidOutOnce /\ PaidAtFinalAmount
  BY DEF Init, NothingPaid, PaidOutOnce, PaidAtFinalAmount
<1> QED BY <1>3, <1>4 DEF PayInv

\* However often completion is sent, it is settled and credited once, as long as
\* the applications send the statuses in order.
THEOREM SettledOnce ==
    ASSUME Orderly = TRUE
    PROVE  Spec => []PaidOutOnce
<1>1. PayInv => PaidOutOnce
  BY DEF PayInv
<1>2. TypeInv /\ PayInv /\ [Next]_vars => PayInv'
  BY PayStep
<1> QED BY <1>1, <1>2, InitType, NextType, PayInit, PTL DEF Spec

\* What is settled and credited belongs to the amount billed in the end.
THEOREM SettledAtFinalAmount ==
    ASSUME Orderly = TRUE
    PROVE  Spec => []PaidAtFinalAmount
<1>1. PayInv => PaidAtFinalAmount
  BY DEF PayInv
<1>2. TypeInv /\ PayInv /\ [Next]_vars => PayInv'
  BY PayStep
<1> QED BY <1>1, <1>2, InitType, NextType, PayInit, PTL DEF Spec

-----------------------------------------------------------------------------
(* What a step does to the tasks                                           *)

\* A step moves one task, which ends or goes on with what it has begun.
LEMMA Moving ==
    ASSUME TypeInv, NEW w \in Workers, Steps(w)
    PROVE  /\ task[w] \in Tasks /\ task[w] # Idle
           /\ \A v \in Workers \ {w} : task'[v] = task[v]
           /\ \/ task'[w] = Idle
              \/ task'[w] \in Tasks /\ task'[w].op = task[w].op /\ task'[w].at > task[w].at
<1> DEFINE k == task[w]
<1>1. k \in Tasks /\ k # Idle
  BY Phases DEF TypeInv, Steps, UpdateTripStatus, CompleteStop, ProofOfDelivery, SetTrip,
     Halting, HaltingBill, Sla, SlaRead, SlaBill, SetBooking, CountTrip, ReadBooking,
     InsertSettlement, Credit, ReadStops, WriteStops, CountPhotos, StorePhotos, SubmitPod,
     SetPod, RecordPayment
<1>2. k.at \in 1..12 /\ Fits(k)
  BY <1>1 DEF Tasks, TypeInv, TasksOK
<1>3. TypeInv'
  BY NextType DEF Next
<1>4. task'[w] \in Tasks \union {Idle}
  BY <1>3 DEF TypeInv, TypeOK
<1>5. ASSUME NEW m \in Tasks, NEW n \in Nat \ {0}, Fits(m), m.op = k.op, m.at = k.at,
             GoesOnAs(w, m, n)
      PROVE  /\ \A v \in Workers \ {w} : task'[v] = task[v]
             /\ task'[w] = Idle \/ (task'[w].op = k.op /\ task'[w].at > k.at)
  <2>1. [m EXCEPT !.at = m.at + n].op = k.op /\ [m EXCEPT !.at = m.at + n].at = k.at + n
    BY <1>5 DEF Tasks
  <2> DEFINE next == [m EXCEPT !.at = m.at + n]
  <2>2. \/ task'[w] = Idle
        \/ task'[w] = next
    BY <1>5, Advance
  <2>3. \A v \in Workers \ {w} : task'[v] = task[v]
    BY <1>5, Advance
  <2>4. next.op = k.op /\ next.at > k.at
    BY <1>2, <2>1
  <2> QED BY <2>2, <2>3, <2>4
<1>6. CASE GoesOn(w)
  BY <1>1, <1>2, <1>4, <1>5, <1>6 DEF GoesOn
<1>7. CASE Ends(w)
  BY <1>1, <1>7, Ending
<1>8. CASE ReadBooking(w) \/ ReadStops(w)
  <2> DEFINE a == [k EXCEPT !.amount = booking.amount]
             s == [k EXCEPT !.stops = trip.stops]
  <2>1. a \in Tasks /\ Fits(a) /\ a.op = k.op /\ a.at = k.at
    BY <1>1, <1>2 DEF Tasks, Fits, TypeInv, TypeOK
  <2>2. s \in Tasks /\ Fits(s) /\ s.op = k.op /\ s.at = k.at
    BY <1>1, <1>2 DEF Tasks, Fits, TypeInv, TypeOK
  <2>3. GoesOnAs(w, a, 1) \/ GoesOnAs(w, s, 1)
    BY <1>8 DEF ReadBooking, ReadStops
  <2> HIDE DEF a, s
  <2> QED BY <1>1, <1>4, <1>5, <2>1, <2>2, <2>3
<1>9. CASE Halting(w) \/ HaltingBill(w) \/ Sla(w) \/ SlaRead(w) \/ SlaBill(w)
  <2>1. At(w, "halting") \/ At(w, "haltingBill") \/ At(w, "sla") \/ At(w, "slaRead")
        \/ At(w, "slaBill")
    BY <1>9 DEF Halting, HaltingBill, Sla, SlaRead, SlaBill
  <2>2. k.op = "delivered" /\ Billed(w) \in Tasks /\ Fits(Billed(w))
    BY <2>1, Billing
  <2>3. Billed(w).op = k.op /\ Billed(w).at = k.at
    BY DEF Billed, New
  <2> DEFINE c(x)    == [k EXCEPT !.n = x]
             r(x, q) == [k EXCEPT !.amount = x, !.pay = q]
  <2>4. \A x \in Nat : c(x) \in Tasks /\ Fits(c(x)) /\ c(x).op = k.op /\ c(x).at = k.at
    BY <1>1, <1>2, <2>2 DEF Tasks, Fits
  <2>5. \A x \in Nat, q \in Paid :
           r(x, q) \in Tasks /\ Fits(r(x, q)) /\ r(x, q).op = k.op /\ r(x, q).at = k.at
    BY <1>1, <1>2, <2>2 DEF Tasks, Fits
  <2>6. \/ \E n \in 1..3 : GoesOnAs(w, Billed(w), n) \/ GoesOnAs(w, k, n)
        \/ \E x \in Nat : GoesOnAs(w, c(x), 1)
        \/ \E x \in Nat, q \in Paid : GoesOnAs(w, r(x, q), 1)
    <3>1. booking.amount \in Nat /\ booking.pay \in Paid /\ Charges \subseteq Nat
      BY Money DEF TypeInv, TypeOK
    <3>2. CASE HaltingBill(w) \/ SlaBill(w)
      <4>1. GoesOnAs(w, Billed(w), 1) /\ 1 \in 1..3
        BY <3>2 DEF HaltingBill, SlaBill
      <4> QED BY <4>1
    <3>3. CASE SlaRead(w)
      <4>1. GoesOnAs(w, r(booking.amount, booking.pay), 1)
        BY <3>3 DEF SlaRead
      <4> HIDE DEF r
      <4> QED BY <3>1, <4>1
    <3>4. CASE Halting(w) \/ Sla(w)
      <4>1. \/ GoesOnAs(w, Billed(w), 2) \/ GoesOnAs(w, k, 3)
            \/ \E x \in Charges : GoesOnAs(w, c(x), 1)
        BY <3>4 DEF Halting, Sla
      <4>2. 2 \in 1..3 /\ 3 \in 1..3
        OBVIOUS
      <4> HIDE DEF c, r
      <4> QED BY <3>1, <4>1, <4>2
    <3> QED BY <1>9, <3>2, <3>3, <3>4
  <2> HIDE DEF c, r
  <2> QED BY <1>1, <1>2, <1>4, <1>5, <2>2, <2>3, <2>4, <2>5, <2>6
<1>10. GoesOn(w) \/ Ends(w) \/ ReadBooking(w) \/ ReadStops(w)
       \/ Halting(w) \/ HaltingBill(w) \/ Sla(w) \/ SlaRead(w) \/ SlaBill(w)
  BY DEF Steps, UpdateTripStatus, CompleteStop, ProofOfDelivery, SetTrip, SetBooking,
     CountTrip, InsertSettlement, Credit, WriteStops, CountPhotos, StorePhotos, SubmitPod,
     SetPod, RecordPayment
<1> QED BY <1>1, <1>4, <1>6, <1>7, <1>8, <1>9, <1>10

\* A request gives an idle worker of the right duty its first phase.
LEMMA Starting ==
    ASSUME TypeInv, NEW w \in Workers, Requests(w)
    PROVE  /\ UNCHANGED <<trip, booking>>
           /\ task[w] = Idle /\ task'[w] # Idle /\ task'[w] \in Tasks /\ task'[w].at = 1
           /\ \A v \in Workers \ {w} : task'[v] = task[v]
           /\ calm' = (calm /\ \A v \in Workers : task[v] = Idle)
           /\ task'[w].op = "stop" => "stop" \in Duties[w]
           /\ task'[w].op = "delivered" => task'[w].pay = booking.pay
           /\ task'[w].op = "payment" =>
                 (task'[w].to = "paid" => task'[w].n = booking.amount)
           /\ task'[w].op \in Statuses =>
                 \E by \in {"driver", "broker"} : StatusRequest(w, task'[w].op, by)
<1>1. ASSUME NEW duty, NEW k, Begin(w, duty, k)
      PROVE  /\ UNCHANGED <<trip, booking>> /\ task[w] = Idle /\ task'[w] = k
             /\ \A v \in Workers \ {w} : task'[v] = task[v]
             /\ calm' = (calm /\ \A v \in Workers : task[v] = Idle)
             /\ duty \in Duties[w]
  BY <1>1 DEF Begin, TypeInv, TypeOK
<1>2. TypeInv'
  BY NextType DEF Next
<1>3. task'[w] \in Tasks \union {Idle}
  BY <1>2 DEF TypeInv, TypeOK
<1>4. Statuses = {"confirmed", "in_transit", "delivered", "completed"}
  BY DEF Statuses, Moves
<1>5. Idle.at = 0
  BY DEF Idle
<1>6. ASSUME NEW s \in Statuses \ {"confirmed"}, NEW by \in {"driver", "broker"},
             StatusRequest(w, s, by)
      PROVE  /\ \E k : /\ Begin(w, "status", k) /\ k.at = 1 /\ k.op = s
                       /\ s = "delivered" => k.pay = booking.pay
             /\ s # "stop" /\ s # "payment"
  <2> DEFINE d == [New(s) EXCEPT !.to = s, !.amount = booking.amount, !.pay = booking.pay]
             o == [New(s) EXCEPT !.to = s, !.by = IF s = "completed" THEN by ELSE @]
             k == IF s = "delivered" THEN d ELSE o
  <2>1. Begin(w, "status", k)
    BY <1>6 DEF StatusRequest
  <2>2. k.at = 1 /\ k.op = s /\ (s = "delivered" => k.pay = booking.pay)
    BY DEF New
  <2> HIDE DEF k
  <2> QED BY <1>4, <2>1, <2>2
<1>7. CASE \E s \in Statuses \ {"confirmed"}, by \in {"driver", "broker"} : StatusRequest(w, s, by)
  <2>1. PICK s \in Statuses \ {"confirmed"}, by \in {"driver", "broker"} : StatusRequest(w, s, by)
    BY <1>7
  <2>2. PICK k : Begin(w, "status", k) /\ k.at = 1 /\ k.op = s
                 /\ (s = "delivered" => k.pay = booking.pay)
    BY <1>6, <2>1
  <2>3. s # "stop" /\ s # "payment"
    BY <1>6, <2>1
  <2> QED BY <1>1, <1>3, <1>5, <2>1, <2>2, <2>3
<1>8. ASSUME NEW duty, NEW k, Begin(w, duty, k), k.at = 1,
             k.op \in {"stop", "upload", "review", "payment"},
             k.op = "stop" => duty = "stop",
             k.op = "payment" => (k.to = "paid" => k.n = booking.amount)
      PROVE  /\ UNCHANGED <<trip, booking>>
             /\ task[w] = Idle /\ task'[w] # Idle /\ task'[w] \in Tasks /\ task'[w].at = 1
             /\ \A v \in Workers \ {w} : task'[v] = task[v]
             /\ calm' = (calm /\ \A v \in Workers : task[v] = Idle)
             /\ task'[w].op = "stop" => "stop" \in Duties[w]
             /\ task'[w].op \notin Statuses
             /\ task'[w].op = "payment" =>
                   (task'[w].to = "paid" => task'[w].n = booking.amount)
  BY <1>1, <1>3, <1>4, <1>5, <1>8
<1>9. CASE \E i \in Stops : StopRequest(w, i)
  <2>1. PICK i \in Stops : Begin(w, "stop", [New("stop") EXCEPT !.n = i])
    BY <1>9 DEF StopRequest
  <2> DEFINE k == [New("stop") EXCEPT !.n = i]
  <2>2. Begin(w, "stop", k) /\ k.at = 1 /\ k.op = "stop"
    BY <2>1 DEF New
  <2> HIDE DEF k
  <2> QED BY <1>4, <1>8, <2>2
<1>10. CASE \E n \in 1..MaxPhotos : UploadRequest(w, n)
  <2>1. PICK n \in 1..MaxPhotos :
             Begin(w, "upload", [New("upload") EXCEPT !.n = n, !.pod = trip.pod])
    BY <1>10 DEF UploadRequest
  <2> DEFINE k == [New("upload") EXCEPT !.n = n, !.pod = trip.pod]
  <2>2. Begin(w, "upload", k) /\ k.at = 1 /\ k.op = "upload"
    BY <2>1 DEF New
  <2> HIDE DEF k
  <2> QED BY <1>4, <1>8, <2>2
<1>11. CASE \E v \in {"verified", "rejected"} : ReviewRequest(w, v)
  <2>1. PICK v \in {"verified", "rejected"} :
             Begin(w, "review", [New("review") EXCEPT !.to = v])
    BY <1>11 DEF ReviewRequest
  <2> DEFINE k == [New("review") EXCEPT !.to = v]
  <2>2. Begin(w, "review", k) /\ k.at = 1 /\ k.op = "review"
    BY <2>1 DEF New
  <2> HIDE DEF k
  <2> QED BY <1>4, <1>8, <2>2
<1>12. ASSUME NEW duty, NEW n, NEW to, to = "paid" => n = booking.amount,
              Begin(w, duty, [New("payment") EXCEPT !.to = to, !.n = n])
       PROVE  \E k : /\ Begin(w, duty, k) /\ k.at = 1 /\ k.op = "payment"
                     /\ k.to = "paid" => k.n = booking.amount
  <2> DEFINE k == [New("payment") EXCEPT !.to = to, !.n = n]
  <2>1. k.at = 1 /\ k.op = "payment" /\ k.to = to /\ k.n = n
    BY DEF New
  <2>2. Begin(w, duty, k)
    BY <1>12
  <2> HIDE DEF k
  <2> QED BY <1>12, <2>1, <2>2
<1>13. CASE (\E n \in Advances \union {booking.amount} : PayRequest(w, n)) \/ CollectRequest(w)
  <2>1. CASE CollectRequest(w)
    <3>1. Begin(w, "collect", [New("payment") EXCEPT !.to = "paid", !.n = booking.amount])
      BY <2>1 DEF CollectRequest
    <3>2. \E k : /\ Begin(w, "collect", k) /\ k.at = 1 /\ k.op = "payment"
                 /\ k.to = "paid" => k.n = booking.amount
      BY <1>12, <3>1
    <3> QED BY <1>4, <1>8, <3>2
  <2>2. CASE \E n \in Advances \union {booking.amount} : PayRequest(w, n)
    <3>1. PICK n \in Advances \union {booking.amount} : PayRequest(w, n)
      BY <2>2
    <3> DEFINE to == IF n = booking.amount THEN "paid" ELSE "partial"
    <3>2. Begin(w, "pay", [New("payment") EXCEPT !.to = to, !.n = n])
      BY <3>1 DEF PayRequest
    <3>3. to = "paid" => n = booking.amount
      OBVIOUS
    <3> HIDE DEF to
    <3>4. \E k : /\ Begin(w, "pay", k) /\ k.at = 1 /\ k.op = "payment"
                 /\ k.to = "paid" => k.n = booking.amount
      BY <1>12, <3>2, <3>3
    <3> QED BY <1>4, <1>8, <3>4
  <2> QED BY <1>13, <2>1, <2>2
<1> QED BY <1>7, <1>9, <1>10, <1>11, <1>13 DEF Requests

-----------------------------------------------------------------------------
(* Stops                                                                   *)

\* One person checks the stops off.
OneChecker ==
    \A v, w \in Workers : "stop" \in Duties[v] /\ "stop" \in Duties[w] => v = w

\* The checklist a handler is about to write back is the one that is stored,
\* and a status under way has the stops it needs.
StopInv ==
    /\ \A w \in Workers : task[w].op = "stop" =>
          /\ "stop" \in Duties[w]
          /\ task[w].at = 2 => task[w].stops = trip.stops
    /\ \A w \in Workers :
          /\ task[w].op \in {"in_transit", "delivered", "completed"} => Loading \subseteq trip.stops
          /\ task[w].op \in {"delivered", "completed"} => Unloading \subseteq trip.stops
    /\ CarriedToEveryStop

\* A step that unchecks no stop and starts no status keeps it.
LEMMA StopsStay ==
    ASSUME StopInv, trip.stops \subseteq trip'.stops, trip'.status = trip.status,
           \A v \in Workers : task'[v].op \in {task[v].op, "none"},
           \A v \in Workers : task'[v].op = "stop" /\ task'[v].at = 2 =>
                                 task'[v].stops = trip'.stops
    PROVE  StopInv'
  BY DEF StopInv, CarriedToEveryStop

\* The stops are checked off one after the other, and no status gets ahead.
LEMMA StopStep ==
    ASSUME Orderly = TRUE, OneChecker
    PROVE  TypeInv /\ StopInv /\ [Next]_vars => StopInv'
<1> SUFFICES ASSUME TypeInv, StopInv, [Next]_vars PROVE StopInv'
  OBVIOUS
<1>1. Idle.op = "none"
  BY DEF Idle
<1>2. Statuses = {"confirmed", "in_transit", "delivered", "completed"}
  BY DEF Statuses, Moves
<1>3. CASE Restart
  <2>1. \A v \in Workers : task'[v].op = "none"
    BY <1>1, <1>3 DEF Restart
  <2>2. trip' = trip
    BY <1>3 DEF Restart
  <2> QED BY <2>1, <2>2, StopsStay
<1>4. ASSUME NEW w \in Workers, Requests(w) PROVE StopInv'
  <2> DEFINE k == task'[w]
  <2>1. trip' = trip /\ k.at = 1 /\ \A v \in Workers \ {w} : task'[v] = task[v]
    BY <1>4, Starting
  <2>2. k.op = "stop" => "stop" \in Duties[w]
    BY <1>4, Starting
  <2>3. CASE k.op \in Statuses
    <3>1. PICK by \in {"driver", "broker"} : StatusRequest(w, k.op, by)
      BY <1>4, <2>3, Starting
    <3>2. StopsDone(k.op) /\ Rank(k.op) \in {Rank(trip.status), Rank(trip.status) + 1}
      BY <3>1 DEF StatusRequest
    <3>3. trip.status \in Statuses
      BY DEF TypeInv, TypeOK
    <3>4. k.op = "delivered" => trip.status \in {"in_transit", "delivered"}
      BY <1>2, <3>2, <3>3, Ranks
    <3>5. k.op = "completed" => trip.status \in {"delivered", "completed"}
      BY <1>2, <3>2, <3>3, Ranks
    <3> HIDE DEF k
    <3>6. k.op \in {"in_transit", "delivered", "completed"} => Loading \subseteq trip.stops
      BY <3>2, <3>4, <3>5 DEF StopInv, CarriedToEveryStop, StopsDone
    <3>7. k.op \in {"delivered", "completed"} => Unloading \subseteq trip.stops
      BY <3>2, <3>5 DEF StopInv, CarriedToEveryStop, StopsDone
    <3>8. k.op # "stop"
      BY <1>2, <2>3
    <3> QED BY <2>1, <3>6, <3>7, <3>8 DEF StopInv, CarriedToEveryStop, k
  <2>4. CASE k.op \notin Statuses
    BY <1>2, <2>1, <2>2, <2>4 DEF StopInv, CarriedToEveryStop
  <2> QED BY <2>3, <2>4
<1>5. ASSUME NEW w \in Workers, Steps(w) PROVE StopInv'
  <2> DEFINE k == task[w]
  <2>1. /\ k \in Tasks /\ k # Idle
        /\ \A v \in Workers \ {w} : task'[v] = task[v]
        /\ task'[w] = Idle \/ (task'[w].op = k.op /\ task'[w].at > k.at)
    BY <1>5, Moving
  <2>2. \A v \in Workers : task'[v].op \in {task[v].op, "none"}
    BY <1>1, <2>1
  <2>3. CASE WriteStops(w)
    <3>1. At(w, "writeStops") /\ trip' = [trip EXCEPT !.stops = k.stops \union {k.n}]
          /\ GoesOn(w)
      BY <2>3 DEF WriteStops
    <3>2. k.op = "stop"
      BY <3>1, Phases DEF TypeInv
    <3>3. k.at \in DOMAIN Flow["stop"] /\ Flow["stop"][k.at] = "writeStops"
      BY <2>1, <3>1, <3>2 DEF At, TypeInv, TasksOK
    <3>4. k.at = 2 /\ Len(Flow["stop"]) = 2
      BY <3>3 DEF Flow
    <3>5. k.stops = trip.stops
      BY <3>2, <3>4 DEF StopInv
    <3>6. trip.stops \subseteq trip'.stops /\ trip'.status = trip.status
      BY <3>1, <3>5 DEF TypeInv, TypeOK
    <3>7. task' = [task EXCEPT ![w] = Idle]
      BY <3>1, <3>2, <3>4 DEF GoesOn, GoesOnAs
    <3>8. task'[w] = Idle
      BY <3>7 DEF TypeInv, TypeOK
    <3>9. \A v \in Workers : task'[v].op # "stop"
      BY <1>1, <2>1, <3>2, <3>8 DEF StopInv, OneChecker
    <3> QED BY <2>2, <3>6, <3>9, StopsStay
  <2>4. CASE ReadStops(w)
    <3>1. At(w, "readStops") /\ trip' = trip
          /\ GoesOnAs(w, [k EXCEPT !.stops = trip.stops], 1)
      BY <2>4 DEF ReadStops
    <3> DEFINE m == [k EXCEPT !.stops = trip.stops]
               next == [m EXCEPT !.at = m.at + 1]
    <3>2. next.stops = trip.stops
      BY <2>1 DEF Tasks
    <3>3. task' = [task EXCEPT ![w] = IF m.at + 1 > Len(Flow[m.op]) THEN Idle ELSE next]
      BY <3>1 DEF GoesOnAs
    <3> HIDE DEF next, m
    <3>4. task'[w] = Idle \/ task'[w] = next
      BY <3>3 DEF TypeInv, TypeOK
    <3>5. \A v \in Workers : task'[v].op = "stop" /\ task'[v].at = 2 =>
                                task'[v].stops = trip'.stops
      BY <1>1, <2>1, <3>1, <3>2, <3>4 DEF StopInv
    <3> QED BY <2>2, <3>1, <3>5, StopsStay
  <2>5. CASE SetTrip(w)
    <3>1. At(w, "setTrip")
      BY <2>5 DEF SetTrip
    <3>2. k.op \in Statuses \ {"confirmed"} /\ k.to = k.op
      BY <2>1, <3>1, Phases DEF TypeInv, TasksOK, Fits
    <3>3. trip'.status = k.op /\ trip'.stops = trip.stops
      BY <2>5, <3>2 DEF SetTrip, TypeInv, TypeOK
    <3>4. /\ Loading \subseteq trip.stops
          /\ k.op \in {"delivered", "completed"} => Unloading \subseteq trip.stops
      BY <1>2, <3>2 DEF StopInv
    <3>5. CarriedToEveryStop'
      BY <3>3, <3>4 DEF CarriedToEveryStop
    <3>6. k.op # "stop"
      BY <1>2, <3>2
    <3>7. \A v \in Workers : task'[v] = task[v] \/ task'[v].op \in {k.op, "none"}
      BY <1>1, <2>1
    <3> QED BY <2>1, <2>2, <3>3, <3>5, <3>6, <3>7 DEF StopInv
  <2>6. CASE ~(WriteStops(w) \/ ReadStops(w) \/ SetTrip(w))
    <3>1. trip'.stops = trip.stops /\ trip'.status = trip.status
      BY <1>5, <2>6 DEF Steps, UpdateTripStatus, CompleteStop, ProofOfDelivery,
         Halting, HaltingBill, Sla, SlaRead, SlaBill, SetBooking, CountTrip, ReadBooking,
         InsertSettlement, Credit, CountPhotos, StorePhotos, SubmitPod, SetPod,
         RecordPayment, TypeInv, TypeOK
    <3>2. k.op # "stop"
      BY <1>2, <1>5, <2>6, Phases DEF TypeInv, Steps, UpdateTripStatus, CompleteStop,
         ProofOfDelivery, Halting, HaltingBill, Sla, SlaRead, SlaBill, SetBooking,
         CountTrip, ReadBooking, InsertSettlement, Credit, CountPhotos, StorePhotos,
         SubmitPod, SetPod, RecordPayment
    <3>3. \A v \in Workers : task'[v] = task[v] \/ task'[v].op # "stop"
      BY <1>1, <2>1, <3>2
    <3>4. \A v \in Workers : task'[v].op = "stop" /\ task'[v].at = 2 =>
                                task'[v].stops = trip'.stops
      BY <3>1, <3>3 DEF StopInv
    <3> QED BY <2>2, <3>1, <3>4, StopsStay
  <2> QED BY <2>3, <2>4, <2>5, <2>6
<1>6. CASE UNCHANGED vars
  BY <1>6, StopsStay DEF vars, StopInv
<1> QED BY <1>3, <1>4, <1>5, <1>6 DEF Next

\* While the statuses come in order and one person checks the stops off, no trip
\* gets past a stop that is still to be made (CarriedToEveryStop).
THEOREM EveryStopMade ==
    ASSUME Orderly = TRUE, OneChecker PROVE Spec => []CarriedToEveryStop
<1>1. Init => StopInv
  BY DEF Init, StopInv, CarriedToEveryStop, Idle
<1>2. StopInv => CarriedToEveryStop
  BY DEF StopInv
<1>3. TypeInv /\ StopInv /\ [Next]_vars => StopInv'
  BY StopStep
<1> QED BY <1>1, <1>2, <1>3, InitType, NextType, PTL DEF Spec

-----------------------------------------------------------------------------
(* Charges                                                                 *)

\* While no two handlers have overlapped, the one that runs knows the row as it
\* is: the charges are applied to the payment they have read, and a payment in
\* full is of the present amount.
ChargeInv ==
    /\ calm => \A v, w \in Workers : task[v] # Idle /\ task[w] # Idle => v = w
    /\ calm => \A w \in Workers : task[w] # Idle =>
          /\ task[w].op = "delivered" /\ task[w].at \in {1, 2, 3, 6} =>
                task[w].pay = booking.pay
          /\ task[w].op = "payment" /\ task[w].to = "paid" => task[w].n = booking.amount
    /\ ChargesCollected

\* A step of the one handler that runs: what is left to show is its task.
LEMMA Alone ==
    ASSUME TypeInv, ChargeInv, NEW w \in Workers, Steps(w),
           calm => ChargesCollected',
           calm /\ task'[w] # Idle =>
              /\ task'[w].op = "delivered" /\ task'[w].at \in {1, 2, 3, 6} =>
                    task'[w].pay = booking'.pay
              /\ task'[w].op = "payment" /\ task'[w].to = "paid" =>
                    task'[w].n = booking'.amount
    PROVE  ChargeInv'
<1>1. task[w] # Idle /\ \A v \in Workers \ {w} : task'[v] = task[v]
  BY Moving
<1>2. calm' = calm
  BY DEF Steps, UpdateTripStatus, CompleteStop, ProofOfDelivery, SetTrip, Halting,
     HaltingBill, Sla, SlaRead, SlaBill, SetBooking, CountTrip, ReadBooking,
     InsertSettlement, Credit, ReadStops, WriteStops, CountPhotos, StorePhotos,
     SubmitPod, SetPod, RecordPayment, history
<1>3. calm => \A v \in Workers \ {w} : task'[v] = Idle
  BY <1>1 DEF ChargeInv
<1>4. calm => \A v \in Workers : task'[v] # Idle => v = w
  BY <1>3
<1> QED BY <1>2, <1>4 DEF ChargeInv, ChargesCollected

\* At which phase of the delivery the charges are applied.
LEMMA ChargePhases ==
    ASSUME TypeInv, NEW w \in Workers, NEW p, At(w, p), task[w].op = "delivered"
    PROVE  /\ p = "setTrip" => task[w].at = 1 
           /\ p = "halting" => task[w].at = 2
           /\ p = "haltingBill" => task[w].at = 3
           /\ p = "sla" => task[w].at = 4
           /\ p = "slaRead" => task[w].at = 5
           /\ p = "slaBill" => task[w].at = 6
           /\ p = "setBooking" => task[w].at = 7
           /\ Len(Flow["delivered"]) = 7
<1>1. task[w].at \in DOMAIN Flow["delivered"] /\ Flow["delivered"][task[w].at] = p
  BY DEF At, TypeInv, TasksOK
<1> QED BY <1>1 DEF Flow, OnDelivered

\* Every step keeps the charges and the payments in agreement.
LEMMA ChargeStep == TypeInv /\ ChargeInv /\ [Next]_vars => ChargeInv'
<1> SUFFICES ASSUME TypeInv, ChargeInv, [Next]_vars PROVE ChargeInv'
  OBVIOUS
<1>1. CASE Restart
  BY <1>1 DEF Restart, ChargeInv, ChargesCollected
<1>2. ASSUME NEW w \in Workers, Requests(w) PROVE ChargeInv'
  <2>1. /\ booking' = booking
        /\ \A v \in Workers \ {w} : task'[v] = task[v]
        /\ calm' = (calm /\ \A v \in Workers : task[v] = Idle)
    BY <1>2, Starting
  <2>2. /\ task'[w].op = "delivered" => task'[w].pay = booking.pay
        /\ task'[w].op = "payment" => (task'[w].to = "paid" => task'[w].n = booking.amount)
    BY <1>2, Starting
  <2>3. calm' => calm /\ \A v \in Workers : task'[v] # Idle => v = w
    BY <2>1
  <2> QED BY <2>1, <2>2, <2>3 DEF ChargeInv, ChargesCollected
<1>3. ASSUME NEW w \in Workers, Steps(w) PROVE ChargeInv'
  <2> DEFINE k == task[w]
  <2>1. /\ k \in Tasks /\ k # Idle
        /\ task'[w] = Idle \/ (task'[w].op = k.op /\ task'[w].at > k.at)
    BY <1>3, Moving
  <2>2. k.at \in 1..12
    BY <2>1 DEF Tasks
  <2>3. ASSUME NEW m \in Tasks, NEW n \in Nat, m.at = k.at, GoesOnAs(w, m, n)
        PROVE  \/ task'[w] = Idle
               \/ task'[w].at = k.at + n /\ task'[w].pay = m.pay
    <3>1. [m EXCEPT !.at = @ + n].at = k.at + n /\ [m EXCEPT !.at = @ + n].pay = m.pay
      BY <2>3 DEF Tasks
    <3>2. task' = [task EXCEPT ![w] = Idle] \/ task' = [task EXCEPT ![w] = [m EXCEPT !.at = @ + n]]
      BY <2>3 DEF GoesOnAs
    <3> QED BY <3>1, <3>2 DEF TypeInv, TypeOK
  <2>4. k \in Tasks /\ calm => /\ k.op = "delivered" /\ k.at \in {1, 2, 3, 6} => k.pay = booking.pay
                               /\ k.op = "payment" /\ k.to = "paid" => k.n = booking.amount
    BY <2>1 DEF ChargeInv
  <2>5. CASE RecordPayment(w)
    <3>1. At(w, "record") /\ GoesOn(w) /\ booking' = [booking EXCEPT !.pay = k.to, !.paid = k.n]
      BY <2>5 DEF RecordPayment
    <3>2. k.op = "payment"
      BY <3>1, Phases DEF TypeInv
    <3>3. Len(Flow["payment"]) = 1
      BY DEF Flow
    <3> DEFINE next == [k EXCEPT !.at = k.at + 1]
               over == k.at + 1 > Len(Flow[k.op])
    <3>10. task' = [task EXCEPT ![w] = IF over THEN Idle ELSE next]
      BY <3>1 DEF GoesOn, GoesOnAs
    <3>11. over
      BY <2>2, <3>2, <3>3
    <3> HIDE DEF over, next
    <3>4. task' = [task EXCEPT ![w] = Idle]
      BY <3>10, <3>11
    <3>5. task'[w] = Idle
      BY <3>4 DEF TypeInv, TypeOK
    <3>6. booking'.pay = k.to /\ booking'.paid = k.n /\ booking'.amount = booking.amount
      BY <3>1 DEF TypeInv, TypeOK
    <3>7. calm => ChargesCollected'
      BY <2>1, <2>4, <3>2, <3>6 DEF ChargesCollected
    <3> QED BY <1>3, <3>5, <3>7, Alone
  <2>6. CASE HaltingBill(w) \/ SlaBill(w)
    <3>1. At(w, "haltingBill") \/ At(w, "slaBill")
      BY <2>6 DEF HaltingBill, SlaBill
    <3>2. k.op = "delivered" /\ k.at \in {3, 6} /\ Billed(w) \in Tasks
      BY <3>1, Billing, ChargePhases
    <3>3. Billed(w).at = k.at
      BY DEF Billed, New
    <3>4. GoesOnAs(w, Billed(w), 1) /\ booking' = Charged(k)
      BY <2>6 DEF HaltingBill, SlaBill
    <3>5. task'[w] = Idle \/ task'[w].at \in {4, 7}
      BY <2>3, <3>2, <3>3, <3>4
    <3>6. booking'.pay = IF k.pay = "paid" THEN "partial" ELSE booking.pay
      BY <3>4 DEF Charged, TypeInv, TypeOK
    <3>7. calm => booking'.pay # "paid"
      BY <2>1, <2>4, <3>2, <3>6
    <3>8. calm => ChargesCollected'
      BY <3>7 DEF ChargesCollected
    <3>9. task'[w] = Idle \/ task'[w].op # "payment"
      BY <2>1, <3>2
    <3> QED BY <1>3, <3>5, <3>8, <3>9, Alone
  <2>7. CASE ~(RecordPayment(w) \/ HaltingBill(w) \/ SlaBill(w))
    <3>1. /\ booking'.amount = booking.amount /\ booking'.pay = booking.pay
          /\ booking'.paid = booking.paid
      BY <1>3, <2>7 DEF Steps, UpdateTripStatus, CompleteStop, ProofOfDelivery, SetTrip,
         Halting, Sla, SlaRead, SetBooking, CountTrip, ReadBooking, InsertSettlement, Credit,
         ReadStops, WriteStops, CountPhotos, StorePhotos, SubmitPod, SetPod, TypeInv, TypeOK
    <3>2. calm => ChargesCollected'
      BY <3>1 DEF ChargeInv, ChargesCollected
    <3>3. k.op # "payment"
      BY <1>3, <2>7, Phases DEF TypeInv, Steps, UpdateTripStatus, CompleteStop,
         ProofOfDelivery, SetTrip, Halting, Sla, SlaRead, SetBooking, CountTrip, ReadBooking,
         InsertSettlement, Credit, ReadStops, WriteStops, CountPhotos, StorePhotos,
         SubmitPod, SetPod, Statuses, Moves
    <3>4. ASSUME calm, k.op = "delivered", task'[w] # Idle, task'[w].at \in {1, 2, 3, 6}
          PROVE  task'[w].pay = booking.pay
      <4>1. CASE SetTrip(w)
        <5>1. At(w, "setTrip") /\ (GoesOn(w) \/ Ends(w))
          BY <4>1 DEF SetTrip
        <5>2. k.at = 1
          BY <3>4, <5>1, ChargePhases
        <5>3. Ends(w) => task'[w] = Idle
          BY Ending
        <5> QED BY <2>1, <2>3, <2>4, <3>4, <5>1, <5>2, <5>3 DEF GoesOn
      <4>2. CASE Halting(w)
        <5>1. k.at = 2
          BY <3>4, <4>2, ChargePhases DEF Halting
        <5>2. Billed(w) \in Tasks /\ Billed(w).at = k.at
          BY <4>2, Billing DEF Halting, Billed, New
        <5>3. \/ GoesOnAs(w, Billed(w), 2)
              \/ \E c \in Charges : GoesOnAs(w, [k EXCEPT !.n = c], 1)
          BY <4>2 DEF Halting
        <5>4. CASE GoesOnAs(w, Billed(w), 2)
          BY <2>3, <3>4, <5>1, <5>2, <5>4
        <5>5. ASSUME NEW c \in Charges, GoesOnAs(w, [k EXCEPT !.n = c], 1)
              PROVE  task'[w].pay = booking.pay
          <6> DEFINE m == [k EXCEPT !.n = c]
          <6>1. m \in Tasks /\ m.at = k.at /\ m.pay = k.pay
            BY <2>1, Money DEF Tasks
          <6>2. GoesOnAs(w, m, 1)
            BY <5>5
          <6> HIDE DEF m
          <6> QED BY <2>1, <2>3, <2>4, <3>4, <5>1, <6>1, <6>2
        <5> QED BY <5>3, <5>4, <5>5
      <4>3. CASE Sla(w)
        <5>1. k.at = 4
          BY <3>4, <4>3, ChargePhases DEF Sla
        <5>2. \/ GoesOnAs(w, k, 3)
              \/ \E c \in Charges : GoesOnAs(w, [k EXCEPT !.n = c], 1)
          BY <4>3 DEF Sla
        <5>3. CASE GoesOnAs(w, k, 3)
          BY <2>1, <2>3, <3>4, <5>1, <5>3
        <5>4. ASSUME NEW c \in Charges, GoesOnAs(w, [k EXCEPT !.n = c], 1)
              PROVE  FALSE
          <6> DEFINE m == [k EXCEPT !.n = c]
          <6>1. m \in Tasks /\ m.at = k.at
            BY <2>1, Money DEF Tasks
          <6>2. GoesOnAs(w, m, 1)
            BY <5>4
          <6> HIDE DEF m
          <6> QED BY <2>3, <3>4, <5>1, <6>1, <6>2
        <5> QED BY <5>2, <5>3, <5>4
      <4>4. CASE SlaRead(w)
        <5> DEFINE m == [k EXCEPT !.amount = booking.amount, !.pay = booking.pay]
        <5>1. GoesOnAs(w, m, 1)
          BY <4>4 DEF SlaRead
        <5>2. m \in Tasks /\ m.at = k.at /\ m.pay = booking.pay
          BY <2>1 DEF Tasks, TypeInv, TypeOK
        <5> HIDE DEF m
        <5> QED BY <2>3, <3>4, <5>1, <5>2
      <4>5. CASE SetBooking(w)
        <5>1. At(w, "setBooking") /\ GoesOn(w)
          BY <4>5 DEF SetBooking
        <5>2. k.at = 7
          BY <3>4, <5>1, ChargePhases
        <5> QED BY <2>1, <2>3, <3>4, <5>1, <5>2 DEF GoesOn
      <4>6. CASE ~(SetTrip(w) \/ Halting(w) \/ Sla(w) \/ SlaRead(w) \/ SetBooking(w))
        <5>1. \E p \in {"count", "read", "settle", "payDriver", "payBroker", "readStops",
                        "writeStops", "countPhotos", "store", "submit", "setPod"} : At(w, p)
          BY <1>3, <2>7, <4>6 DEF Steps, UpdateTripStatus, CompleteStop, ProofOfDelivery,
             CountTrip, ReadBooking, InsertSettlement, Credit, ReadStops, WriteStops,
             CountPhotos, StorePhotos, SubmitPod, SetPod
        <5>2. k.op # "delivered"
          BY <5>1, Phases DEF TypeInv
        <5> QED BY <3>4, <5>2
      <4> QED BY <4>1, <4>2, <4>3, <4>4, <4>5, <4>6
    <3> QED BY <1>3, <2>1, <3>1, <3>2, <3>3, <3>4, Alone
  <2> QED BY <2>5, <2>6, <2>7
<1>4. CASE UNCHANGED vars
  BY <1>4 DEF vars, history, ChargeInv, ChargesCollected
<1> QED BY <1>1, <1>2, <1>3, <1>4 DEF Next

\* While handlers run one at a time, a booking that counts as paid has been paid
\* at its present amount (ChargesCollected).
THEOREM NothingUncollected == Spec => []ChargesCollected
<1>1. Init => ChargeInv
  BY DEF Init, ChargeInv, ChargesCollected
<1>2. ChargeInv => ChargesCollected
  BY DEF ChargeInv
<1> QED BY <1>1, <1>2, InitType, NextType, ChargeStep, PTL DEF Spec
=============================================================================
