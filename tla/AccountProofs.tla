--------------------------- MODULE AccountProofs ---------------------------
(***************************************************************************)
(* What Account guarantees for any bookings, prices, credit limit, workers *)
(* and bounds: money moves once, and a postpaid client is never trusted    *)
(* with more than one booking beyond his limit. A booking is followed from *)
(* the handler that pays it to the record, an order from the credit to the *)
(* clearing, and what a client owes from the booking to its bill.          *)
(***************************************************************************)
EXTENDS Account, SumLemmas

\* A client verifies his recharges on one device: verifyRecharge compares the order and clears
\* it in different statements.
OneVerifier ==
    \A p \in Plans : \A v, w \in Workers :
        "recharge" \in p.duties[v] /\ "recharge" \in p.duties[w] => v = w

-----------------------------------------------------------------------------
(* Types                                                                   *)

Closed == {"paid", "partial"}

\* What a handler has in hand.
Fits(k) ==
    /\ k.op \in {"pay", "fromWallet", "collect"} => k.to \in Closed
    /\ k.op = "mark" => k.to = "to_be_billed"
    /\ k.op = "book" => k.to \in {"pending", "to_be_billed"}
    /\ k.op = "recharge" => k.n \in Orders

TasksOK ==
    /\ task \in [Workers -> Tasks \union {Idle}]
    /\ \A w \in Workers : task[w] # Idle =>
          /\ task[w].at \in DOMAIN Flow[task[w].op]
          /\ task[w].op \in plan.duties[w] /\ Fits(task[w])

Rest ==
    /\ plan \in Plans
    /\ booking \in [Bookings -> [status : {"none", "open", "delivered", "cancelled"},
                                 amount : Nat, pay : Payment]]
    /\ billing \in {"prepaid", "postpaid"} /\ listed \in BOOLEAN
    /\ wallet \in [balance : Nat, order : 0..MaxOrders]
    /\ bills \in Seq([items : SUBSET Bookings, status : {"pending", "paid"}])
    /\ captured \subseteq Orders /\ credited \in [Orders -> Nat]
    /\ debits \in [Bookings -> Nat] /\ mixed \subseteq Bookings /\ dropped \subseteq Bookings
    /\ switches \in 0..plan.switches /\ restarts \in 0..plan.restarts

AccountTypes == TasksOK /\ Rest

\* Which handler a phase belongs to.
LEMMA Phases ==
    ASSUME TasksOK, NEW w \in Workers, NEW p, At(w, p)
    PROVE  /\ task[w] \in Tasks /\ task[w] # Idle
           /\ p = "insert"   => task[w].op = "book" /\ task[w].at = 1
           /\ p = "recheck"  => task[w].op = "book" /\ task[w].at = 2
           /\ p = "generate" => task[w].op = "book" /\ task[w].at = 3
           /\ p = "record"   => \/ task[w].op \in {"pay", "mark", "collect"} /\ task[w].at = 1
                                \/ task[w].op = "fromWallet" /\ task[w].at = 2
           /\ p = "debit"    => task[w].op = "fromWallet" /\ task[w].at = 1
           /\ p = "cancel"   => task[w].op = "cancel" /\ task[w].at = 1
           /\ p = "deliver"  => task[w].op = "deliver" /\ task[w].at = 1
           /\ p = "credit"   => task[w].op = "recharge" /\ task[w].at = 1
           /\ p = "clear"    => task[w].op = "recharge" /\ task[w].at = 2
<1> DEFINE k == task[w]
<1>1. k \in Tasks /\ k # Idle /\ k.at \in DOMAIN Flow[k.op] /\ Flow[k.op][k.at] = p
  BY DEF TasksOK, At
<1>2. k.op \in Ops
  BY <1>1 DEF Tasks
<1> HIDE DEF k
<1>3. CASE k.op = "book"
  BY <1>1, <1>3 DEF Flow, k
<1>4. CASE k.op \in {"pay", "mark", "collect"}
  BY <1>1, <1>4 DEF Flow, k
<1>5. CASE k.op = "fromWallet"
  BY <1>1, <1>5 DEF Flow, k
<1>6. CASE k.op \in {"cancel", "deliver"}
  BY <1>1, <1>6 DEF Flow, k
<1>7. CASE k.op = "recharge"
  BY <1>1, <1>7 DEF Flow, k
<1> QED BY <1>2, <1>3, <1>4, <1>5, <1>6, <1>7 DEF Ops

\* A handler that goes on keeps what it has in hand.
LEMMA Onward ==
    ASSUME TasksOK, plan' = plan, NEW w \in Workers, NEW p, At(w, p), GoesOn(w) \/ Ends(w)
    PROVE  /\ TasksOK'
           /\ \A v \in Workers : v # w => task'[v] = task[v]
           /\ \/ task'[w] = Idle
              \/ /\ task'[w] # Idle /\ task'[w].at = task[w].at + 1
                 /\ task'[w].op = task[w].op /\ task'[w].b = task[w].b
                 /\ task'[w].to = task[w].to /\ task'[w].n = task[w].n
           /\ GoesOn(w) /\ task[w].at # Len(Flow[task[w].op]) => task'[w] # Idle
<1> DEFINE k == task[w]
           n == Len(Flow[k.op])
<1>1. k \in Tasks /\ k # Idle /\ k.at \in DOMAIN Flow[k.op] /\ k.op \in plan.duties[w] /\ Fits(k)
  BY DEF TasksOK, At
<1>2. n \in Nat /\ DOMAIN Flow[k.op] = 1..n /\ n \in 1..3
  BY <1>1 DEF Tasks, Ops, Flow
<1> HIDE DEF n
<1>3. CASE Ends(w)
  <2>1. task'[w] = Idle /\ \A v \in Workers : v # w => task'[v] = task[v]
    BY <1>3 DEF Ends, TasksOK
  <2>2. task' \in [Workers -> Tasks \union {Idle}]
    BY <1>3 DEF Ends, TasksOK
  <2>3. k.at # n => ~GoesOn(w)
    <3> SUFFICES ASSUME k.at # n, GoesOn(w) PROVE FALSE
      OBVIOUS
    <3>1. task'[w] = [k EXCEPT !.at = k.at + 1]
      BY DEF GoesOn, TasksOK, n
    <3>2. task'[w].op = k.op /\ k.op # "none"
      BY <1>1, <3>1 DEF Tasks, Ops
    <3> QED BY <2>1, <3>2 DEF Idle
  <2> QED BY <1>3, <2>1, <2>2, <2>3 DEF TasksOK, Fits, n
<1>4. CASE GoesOn(w) /\ k.at # n
  <2>1. task' = [task EXCEPT ![w] = [k EXCEPT !.at = k.at + 1]]
    BY <1>4 DEF GoesOn, n
  <2>2. k.at + 1 \in 1..n
    BY <1>1, <1>2, <1>4
  <2>3. [k EXCEPT !.at = k.at + 1] \in Tasks
    BY <1>1, <1>2, <2>2 DEF Tasks
  <2>4. task' \in [Workers -> Tasks \union {Idle}]
    BY <2>1, <2>3 DEF TasksOK
  <2>5. task'[w] = [k EXCEPT !.at = k.at + 1] /\ \A v \in Workers : v # w => task'[v] = task[v]
    BY <2>1 DEF TasksOK
  <2>6. /\ task'[w].at = k.at + 1 /\ task'[w].op = k.op /\ task'[w].b = k.b
        /\ task'[w].to = k.to /\ task'[w].n = k.n
    BY <1>1, <2>5 DEF Tasks
  <2>7. task'[w] # Idle
    BY <1>1, <2>6 DEF Idle, Tasks, Ops
  <2>8. Fits(task[w])'
    BY <1>1, <2>6 DEF Fits
  <2> QED BY <1>1, <1>2, <2>2, <2>4, <2>5, <2>6, <2>7, <2>8 DEF TasksOK, Fits
<1>5. CASE GoesOn(w) /\ k.at = n
  BY <1>3, <1>5 DEF GoesOn, n
<1> QED BY <1>3, <1>4, <1>5

-----------------------------------------------------------------------------
(* Recharges                                                               *)

Verifying(w, at, o) == task[w].op = "recharge" /\ task[w].at = at /\ task[w].n = o

\* An order that has been credited is either about to be cleared or not pending any more,
\* unless a restart fell in between.
CreditInv ==
    \A o \in Orders :
        /\ credited[o] > 0 => o \in captured
        /\ credited[o] <= 1 + restarts
        /\ \A w \in Workers : Verifying(w, 1, o) => o \in captured /\ credited[o] <= restarts
        /\ wallet.order = o /\ (\A w \in Workers : ~Verifying(w, 2, o)) => credited[o] <= restarts

\* At most one verification is in flight.
LEMMA OneRecharge ==
    ASSUME OneVerifier, AccountTypes, NEW v \in Workers, NEW w \in Workers,
           task[v].op = "recharge", task[w].op = "recharge" \/ "recharge" \in plan.duties[w]
    PROVE  v = w
<1>1. task[v] # Idle /\ (task[w].op = "recharge" => task[w] # Idle)
  BY DEF Idle
<1>2. "recharge" \in plan.duties[v] /\ "recharge" \in plan.duties[w]
  BY <1>1 DEF AccountTypes, TasksOK
<1> QED BY <1>2 DEF OneVerifier, AccountTypes, Rest

\* A step that leaves the recharges alone.
LEMMA CreditKept ==
    ASSUME CreditInv, credited' = credited, captured' = captured, restarts' = restarts,
           wallet'.order = wallet.order,
           \A v \in Workers : task[v].op = "recharge" \/ task'[v].op = "recharge" => task'[v] = task[v]
    PROVE  CreditInv'
BY DEF CreditInv, Verifying

-----------------------------------------------------------------------------
(* Bookings                                                                *)

On(b)        == {i \in DOMAIN bills : b \in bills[i].items}
Paying(w, b) == task[w].op \in WaysToPay /\ task[w].b = b
Debited(w)   == task[w].op = "fromWallet" /\ task[w].at = 2

Concerns(w, b) == task[w].op \in Ops \ {"recharge"} /\ task[w].b = b

\* A row that is not there yet is not paid for, and one handler is about to insert it.
NotThereYet(b) ==
    /\ booking[b].status = "none" => /\ On(b) = {} /\ debits[b] = 0 /\ booking[b].pay = "pending"
                                     /\ \A w \in Workers : Concerns(w, b)
                                           => task[w].op = "book" /\ task[w].at = 1
    /\ \A w \in Workers : task[w].op = "book" /\ task[w].b = b /\ task[w].at = 1 =>
          /\ booking[b].status = "none"
          /\ \A v \in Workers : task[v].op = "book" /\ task[v].b = b => v = w

\* While a booking is being paid for, nothing else pays it, it is not owed and on no bill.
OneWay(b) ==
    \A w \in Workers : Paying(w, b) =>
        /\ \A v \in Workers : Paying(v, b) => v = w
        /\ booking[b].pay \notin {"to_be_billed", "billed"} /\ On(b) = {}
        /\ ~Debited(w) => debits[b] <= restarts

\* A booking on a bill is owed or paid.
Billed(b) ==
    \A i \in On(b) :
        /\ booking[b].pay \in Closed \union {"billed"}
        /\ bills[i].status = "paid" => booking[b].pay \in Closed
        /\ \A j \in On(b) : i = j

\* One that has been taken from the wallet is recorded as paid, or about to be.
Taken(b) ==
    /\ debits[b] <= 1 + restarts
    /\ booking[b].pay \notin Closed /\ (\A w \in Workers : Paying(w, b) => ~Debited(w))
          => debits[b] <= restarts

Followed(b) == NotThereYet(b) /\ (b \in Plain => OneWay(b) /\ Billed(b) /\ Taken(b))

BookingInv == \A b \in Bookings : Followed(b)
MoneyInv   == AccountTypes /\ CreditInv /\ BookingInv

\* A step that is not about a booking.
LEMMA Untouched ==
    ASSUME NEW b \in Bookings, Followed(b), booking'[b] = booking[b], bills' = bills,
           debits'[b] = debits[b], b \in Plain' => b \in Plain, restarts' = restarts,
           \A v \in Workers : task'[v] = task[v] \/ (~Concerns(v, b) /\ ~Concerns(v, b)')
    PROVE  Followed(b)'
<1>1. On(b)' = On(b)
  BY DEF On
<1>2. \A v \in Workers : Concerns(v, b)' => task'[v] = task[v]
  OBVIOUS
<1>3. \A v \in Workers : /\ (Paying(v, b) => Concerns(v, b)) /\ (Paying(v, b)' => Concerns(v, b)')
                         /\ (task[v].op = "book" /\ task[v].b = b => Concerns(v, b))
                         /\ (task'[v].op = "book" /\ task'[v].b = b => Concerns(v, b)')
  BY DEF Paying, Concerns, WaysToPay, Ops
<1>4. NotThereYet(b)'
  <2>1. \A v \in Workers : Concerns(v, b)' => Concerns(v, b)
    BY <1>2 DEF Concerns
  <2>2. booking'[b].status = "none" =>
           /\ On(b)' = {} /\ debits'[b] = 0 /\ booking'[b].pay = "pending"
           /\ \A v \in Workers : Concerns(v, b)' => task'[v].op = "book" /\ task'[v].at = 1
    BY <1>1, <1>2, <2>1 DEF Followed, NotThereYet
  <2>3. \A v \in Workers : task'[v].op = "book" /\ task'[v].b = b => task'[v] = task[v]
    BY <1>2, <1>3
  <2>4. \A w \in Workers : task'[w].op = "book" /\ task'[w].b = b /\ task'[w].at = 1 =>
           /\ booking'[b].status = "none"
           /\ \A v \in Workers : task'[v].op = "book" /\ task'[v].b = b => v = w
    BY <2>3 DEF Followed, NotThereYet
  <2> QED BY <2>2, <2>4 DEF NotThereYet
<1>5. b \in Plain' => OneWay(b)'
  BY <1>1, <1>2, <1>3 DEF Followed, OneWay, Debited, Paying
<1>6. b \in Plain' => Billed(b)'
  BY <1>1 DEF Followed, Billed
<1>7. b \in Plain' => Taken(b)'
  BY <1>2, <1>3 DEF Followed, Taken, Debited, Paying
<1> QED BY <1>4, <1>5, <1>6, <1>7 DEF Followed

LEMMA BookingKept ==
    ASSUME BookingInv, booking' = booking, bills' = bills, debits' = debits,
           mixed' = mixed, dropped' = dropped, restarts' = restarts,
           \A v \in Workers : task'[v] = task[v] \/ {task[v].op, task'[v].op} \subseteq {"recharge", "none"}
    PROVE  BookingInv'
<1> SUFFICES ASSUME NEW b \in Bookings PROVE Followed(b)'
  BY DEF BookingInv
<1>1. \A v \in Workers : task'[v] = task[v] \/ (~Concerns(v, b) /\ ~Concerns(v, b)')
  BY DEF Concerns, Ops
<1>2. Plain' = Plain
  BY DEF Plain
<1> QED BY <1>1, <1>2, Untouched DEF BookingInv

LEMMA MoneyInit == Init => MoneyInv
<1> SUFFICES ASSUME Init PROVE MoneyInv
  OBVIOUS
<1> USE DEF Init, Idle
<1>1. TasksOK
  BY DEF TasksOK
<1>6. Rest
  <2>1. \A b \in Bookings : [status |-> "none", amount |-> Price[b], pay |-> "pending"] \in
            [status : {"none", "open", "delivered", "cancelled"}, amount : Nat, pay : Payment]
    BY Amounts DEF Payment
  <2>2. wallet \in [balance : Nat, order : 0..MaxOrders] /\ plan.switches \in Nat /\ plan.restarts \in Nat
    BY Bounds
  <2>3. booking \in [Bookings -> [status : {"none", "open", "delivered", "cancelled"},
                                  amount : Nat, pay : Payment]]
    BY <2>1
  <2>4. bills \in Seq([items : SUBSET Bookings, status : {"pending", "paid"}])
    OBVIOUS
  <2>5. switches \in 0..plan.switches /\ restarts \in 0..plan.restarts
    BY <2>2
  <2>6. credited \in [Orders -> Nat] /\ debits \in [Bookings -> Nat] /\ listed \in BOOLEAN
    OBVIOUS
  <2> QED BY <2>2, <2>3, <2>4, <2>5, <2>6 DEF Rest
<1>2. CreditInv
  BY Bounds DEF CreditInv, Verifying, Orders
<1>3. \A b \in Bookings : On(b) = {}
  BY DEF On
<1>4. \A b \in Bookings : NotThereYet(b)
  BY <1>3 DEF NotThereYet, Concerns, Ops
<1>5. \A b \in Bookings : OneWay(b) /\ Billed(b) /\ Taken(b)
  BY <1>3 DEF OneWay, Billed, Taken, Paying, Debited, WaysToPay
<1> QED BY <1>1, <1>2, <1>4, <1>5, <1>6 DEF MoneyInv, BookingInv, Followed, AccountTypes

-----------------------------------------------------------------------------
(* The steps of a recharge                                                 *)

LEMMA NewBalance ==
    ASSUME wallet \in [balance : Nat, order : 0..MaxOrders], NEW n \in Int, wallet.balance + n >= 0,
           wallet' = [wallet EXCEPT !.balance = @ + n]
    PROVE  wallet' \in [balance : Nat, order : 0..MaxOrders] /\ wallet'.order = wallet.order
OBVIOUS

LEMMA CreditStep ==
    ASSUME OneVerifier, MoneyInv, NEW w \in Workers, Credit(w)
    PROVE  MoneyInv'
<1> USE DEF MoneyInv, AccountTypes
<1>1. /\ task[w] \in Tasks /\ task[w] # Idle /\ task[w].op = "recharge" /\ task[w].at = 1
      /\ At(w, "credit") /\ GoesOn(w) /\ plan' = plan
  BY Phases DEF Credit
<1> PICK o \in Orders : o = task[w].n
  BY <1>1 DEF TasksOK, Fits
<1>2. o \in captured /\ credited[o] <= restarts
  BY <1>1 DEF CreditInv, Verifying
<1>3. /\ TasksOK' /\ \A v \in Workers : v # w => task'[v] = task[v]
      /\ task'[w].op = "recharge" /\ task'[w].at = 2 /\ task'[w].n = o
  <2>1. task[w].at # Len(Flow[task[w].op])
    BY <1>1 DEF Flow
  <2>2. /\ TasksOK' /\ \A v \in Workers : v # w => task'[v] = task[v]
        /\ task'[w].at = task[w].at + 1 /\ task'[w].op = task[w].op /\ task'[w].n = task[w].n
    BY <1>1, <2>1, Onward
  <2> QED BY <1>1, <2>2
<1>4. credited' = [credited EXCEPT ![o] = @ + 1]
  BY DEF Credit
<1>5. credited'[o] = credited[o] + 1 /\ \A p \in Orders : p # o => credited'[p] = credited[p]
  BY <1>2, <1>4 DEF Rest
<1>6. wallet' \in [balance : Nat, order : 0..MaxOrders] /\ wallet'.order = wallet.order
  <2>1. wallet' = [wallet EXCEPT !.balance = @ + TopUp] /\ wallet \in [balance : Nat, order : 0..MaxOrders]
    BY DEF Credit, Rest
  <2> QED BY <2>1, NewBalance, Amounts
<1>11. /\ plan' = plan /\ booking' = booking /\ billing' = billing /\ bills' = bills /\ listed' = listed
       /\ captured' = captured /\ debits' = debits /\ mixed' = mixed /\ dropped' = dropped
       /\ switches' = switches /\ restarts' = restarts
  BY DEF Credit
<1>7. Rest'
  <2>1. credited' \in [Orders -> Nat]
    BY <1>2, <1>4 DEF Rest
  <2> QED BY <1>6, <1>11, <2>1 DEF Rest
<1>8. \A v \in Workers : v # w => task[v].op # "recharge"
  BY <1>1, OneRecharge
<1>9. CreditInv'
  <2>1. \A p \in Orders : p # o => /\ \A v \in Workers : ~Verifying(v, 1, p)' /\ ~Verifying(v, 2, p)
                                   /\ credited'[p] = credited[p]
    BY <1>1, <1>3, <1>5, <1>8 DEF Verifying
  <2>4. credited[o] \in Nat /\ restarts \in Nat
    BY <1>2, Bounds DEF Rest
  <2>5. credited'[o] <= 1 + restarts
    BY <1>2, <1>5, <2>4
  <2>2. Verifying(w, 2, o)' /\ \A v \in Workers : ~Verifying(v, 1, o)'
    BY <1>3, <1>8 DEF Verifying
  <2>3. \A p \in Orders : p # o => \A v \in Workers : ~Verifying(v, 2, p)
    BY <1>1, <1>8 DEF Verifying
  <2>6. \A p \in Orders : p # o =>
            /\ credited'[p] > 0 => p \in captured'
            /\ credited'[p] <= 1 + restarts'
            /\ wallet'.order = p => credited'[p] <= restarts'
    BY <1>6, <1>11, <2>1, <2>3 DEF CreditInv
  <2> QED BY <1>2, <1>11, <2>1, <2>2, <2>5, <2>6 DEF CreditInv
<1>10. BookingInv'
  BY <1>1, <1>3, <1>11, BookingKept
<1> QED BY <1>3, <1>7, <1>9, <1>10

LEMMA ClearStep ==
    ASSUME MoneyInv, NEW w \in Workers, ClearOrder(w)
    PROVE  MoneyInv'
<1> USE DEF MoneyInv, AccountTypes
<1>1. /\ task[w] \in Tasks /\ task[w] # Idle /\ task[w].op = "recharge" /\ task[w].at = 2
      /\ At(w, "clear") /\ GoesOn(w) /\ plan' = plan
  BY Phases DEF ClearOrder
<1>2. TasksOK' /\ task'[w] = Idle /\ \A v \in Workers : v # w => task'[v] = task[v]
  BY <1>1, Onward DEF GoesOn, Ends, Flow, TasksOK
<1>3. wallet' \in [balance : Nat, order : 0..MaxOrders] /\ wallet'.order = 0
  <2>1. wallet' = [wallet EXCEPT !.order = 0] /\ wallet \in [balance : Nat, order : 0..MaxOrders] /\ MaxOrders \in Nat
    BY Bounds DEF ClearOrder, Rest
  <2> QED BY <2>1
<1>4. Rest' /\ captured' = captured /\ credited' = credited /\ restarts' = restarts
  BY <1>3 DEF Rest, ClearOrder, history
<1>5. CreditInv'
  BY <1>2, <1>3, <1>4 DEF CreditInv, Verifying, Idle, Orders
<1>6. BookingInv'
  BY <1>1, <1>2, BookingKept DEF ClearOrder, history, Idle
<1> QED BY <1>2, <1>4, <1>5, <1>6

\* OpenOrder, Capture, ListClient and SetBillingType.
LEMMA Outside ==
    ASSUME MoneyInv,
           (\E o \in Orders : OpenOrder(o) \/ Capture(o)) \/ ListClient \/ SetBillingType
    PROVE  MoneyInv'
<1> USE DEF MoneyInv, AccountTypes
<1>1. /\ task' = task /\ plan' = plan /\ booking' = booking /\ bills' = bills /\ debits' = debits
      /\ mixed' = mixed /\ dropped' = dropped /\ restarts' = restarts /\ credited' = credited
  BY DEF OpenOrder, Capture, ListClient, SetBillingType, history
<1>2. TasksOK'
  BY <1>1 DEF TasksOK, Fits
<1>3. BookingInv'
  BY <1>1, BookingKept
<1>4. CASE \E o \in Orders : OpenOrder(o)
  <2> PICK o \in Orders : OpenOrder(o)
    BY <1>4
  <2>1. wallet' \in [balance : Nat, order : 0..MaxOrders] /\ wallet'.order = o /\ captured' = captured
    BY DEF OpenOrder, Rest, Orders
  <2>2. o \notin captured
    BY DEF OpenOrder
  <2>3. Rest'
    BY <1>1, <2>1 DEF Rest, OpenOrder, history
  <2>4. CreditInv'
    BY <1>1, <2>1, <2>2 DEF CreditInv, Verifying, Rest, Orders
  <2> QED BY <1>2, <1>3, <2>3, <2>4
<1>5. CASE \E o \in Orders : Capture(o)
  <2>1. captured \subseteq captured' /\ captured' \subseteq Orders /\ wallet' = wallet
    BY <1>5 DEF Capture, Rest
  <2>2. Rest'
    BY <1>1, <1>5, <2>1 DEF Rest, Capture, history
  <2>3. CreditInv'
    BY <1>1, <2>1 DEF CreditInv, Verifying
  <2> QED BY <1>2, <1>3, <2>2, <2>3
<1>6. CASE ListClient \/ SetBillingType
  <2>1. captured' = captured /\ wallet' = wallet
    BY <1>6 DEF ListClient, SetBillingType
  <2>2. billing' \in {"prepaid", "postpaid"} /\ listed' \in BOOLEAN
    BY <1>6 DEF ListClient, SetBillingType, Rest
  <2>3. switches' \in 0..plan.switches
    BY <1>6, Bounds DEF ListClient, SetBillingType, Rest, history
  <2>4. Rest'
    BY <1>1, <2>1, <2>2, <2>3 DEF Rest
  <2>5. CreditInv'
    BY <1>1, <2>1, CreditKept
  <2> QED BY <1>2, <1>3, <2>4, <2>5
<1> QED BY <1>4, <1>5, <1>6

-----------------------------------------------------------------------------
(* Handlers that begin                                                     *)

LEMMA BeginStep ==
    ASSUME OneVerifier, MoneyInv, NEW w \in Workers, NEW op \in Ops, NEW b \in Bookings,
           NEW to \in Payment, NEW n \in Nat, Begin(w, op, b, to, n),
           Fits([op |-> op, at |-> 1, b |-> b, to |-> to, n |-> n]),
           op \in Ops \ {"book", "recharge"} => booking[b].status # "none",
           op = "book" => booking[b].status = "none" /\ \A v \in Workers : task[v].op = "book" => task[v].b # b,
           op \in WaysToPay => booking[b].pay \notin Closed,
           op = "recharge" => n = wallet.order /\ n \in captured
    PROVE  MoneyInv'
<1> USE DEF MoneyInv, AccountTypes
<1> DEFINE k == [op |-> op, at |-> 1, b |-> b, to |-> to, n |-> n]
<1>1. /\ task[w] = Idle /\ op \in plan.duties[w] /\ task' = [task EXCEPT ![w] = k]
      /\ plan' = plan /\ booking' = booking /\ billing' = billing /\ wallet' = wallet /\ bills' = bills
      /\ listed' = listed /\ captured' = captured /\ credited' = credited /\ debits' = debits
      /\ dropped' = dropped /\ switches' = switches /\ restarts' = restarts
  BY DEF Begin
<1>2. mixed' = mixed \/ mixed' = mixed \union {b}
  BY DEF Begin
<1>3. k \in Tasks /\ k # Idle /\ k.at \in DOMAIN Flow[k.op]
  BY DEF Tasks, Idle, Ops, Flow
<1>4. task'[w] = k /\ \A v \in Workers : v # w => task'[v] = task[v]
  BY <1>1 DEF TasksOK
<1>5. k.op = op /\ k.at = 1 /\ k.b = b /\ k.n = n /\ Fits(k)
  OBVIOUS
<1> HIDE DEF k
<1>6. TasksOK'
  <2>1. task' \in [Workers -> Tasks \union {Idle}]
    BY <1>1, <1>3 DEF TasksOK
  <2>2. Fits(task[w])'
    BY <1>4, <1>5 DEF Fits
  <2> QED BY <1>1, <1>3, <1>4, <1>5, <2>1, <2>2 DEF TasksOK, Fits
<1>7. Rest'
  BY <1>1, <1>2 DEF Rest
<1>8. CreditInv'
  <2>1. CASE op # "recharge"
    BY <1>1, <1>4, <1>5, <2>1, CreditKept DEF Idle
  <2>2. CASE op = "recharge"
    <3>1. \A v \in Workers : task[v].op # "recharge"
      BY <1>1, <2>2, OneRecharge DEF Idle
    <3>2. \A o \in Orders, v \in Workers : ~Verifying(v, 1, o) /\ ~Verifying(v, 2, o) /\ ~Verifying(v, 2, o)'
      BY <1>4, <1>5, <3>1 DEF Verifying
    <3>3. \A o \in Orders, v \in Workers : Verifying(v, 1, o)' => o = n
      BY <1>4, <1>5, <3>1 DEF Verifying
    <3> QED BY <1>1, <2>2, <3>2, <3>3 DEF CreditInv
  <2> QED BY <2>1, <2>2
<1>9. \A x \in Bookings : x # b => Followed(x)'
  <2> TAKE x \in Bookings
  <2>1. HAVE x # b
  <2>2. \A v \in Workers : task'[v] = task[v] \/ (~Concerns(v, x) /\ ~Concerns(v, x)')
    BY <1>1, <1>4, <1>5, <2>1 DEF Concerns, Idle, Ops
  <2>3. x \in Plain' => x \in Plain
    BY <1>1, <1>2 DEF Plain
  <2> QED BY <1>1, <2>2, <2>3, Untouched DEF BookingInv
<1>10. Followed(b)'
  <2>1. CASE op = "recharge"
    <3>1. \A v \in Workers : task'[v] = task[v] \/ (~Concerns(v, b) /\ ~Concerns(v, b)')
      BY <1>1, <1>4, <1>5, <2>1 DEF Concerns, Idle, Ops
    <3>2. b \in Plain' => b \in Plain
      BY <1>1, <1>2 DEF Plain
    <3> QED BY <1>1, <3>1, <3>2, Untouched DEF BookingInv
  <2>2. CASE op # "recharge"
    <3>1. Followed(b) /\ On(b)' = On(b)
      BY <1>1 DEF BookingInv, On
    <3>2. NotThereYet(b)'
      BY <1>1, <1>4, <1>5, <2>2, <3>1 DEF Followed, NotThereYet, Concerns, Idle
    <3>3. b \in Plain' => b \in Plain
      BY <1>1, <1>2 DEF Plain
    <3>4. b \in Plain' /\ op \in WaysToPay =>
             /\ booking[b].pay \notin {"to_be_billed", "billed"}
             /\ \A v \in Workers : ~Paying(v, b)
      BY DEF Begin, Plain, Owed, WaysToPay, Ops, Paying, Idle
    <3>5. \A v \in Workers : v # w => (Paying(v, b)' <=> Paying(v, b)) /\ (Debited(v)' <=> Debited(v))
      BY <1>4 DEF Paying, Debited
    <3>6. ~Debited(w)' /\ (Paying(w, b)' => op \in WaysToPay) /\ ~Paying(w, b)
      BY <1>1, <1>4, <1>5 DEF Paying, Debited, Idle, WaysToPay
    <3>7. b \in Plain' /\ op \in WaysToPay => debits[b] <= restarts /\ On(b) = {}
      BY <3>1, <3>3, <3>4 DEF Followed, Taken, Billed, Closed
    <3>8. b \in Plain' => OneWay(b)'
      BY <1>1, <3>1, <3>3, <3>4, <3>5, <3>6, <3>7 DEF Followed, OneWay
    <3>9. b \in Plain' => Billed(b)'
      BY <1>1, <3>1, <3>3 DEF Followed, Billed
    <3>10. b \in Plain' => Taken(b)'
      BY <1>1, <3>1, <3>3, <3>5, <3>6 DEF Followed, Taken
    <3> QED BY <3>2, <3>8, <3>9, <3>10 DEF Followed
  <2> QED BY <2>1, <2>2
<1> QED BY <1>6, <1>7, <1>8, <1>9, <1>10 DEF BookingInv

-----------------------------------------------------------------------------
(* The steps of a handler that pays, inserts, cancels or delivers a booking *)

\* Such a step is about its own booking alone.
LEMMA OwnBooking ==
    ASSUME MoneyInv, NEW w \in Workers, NEW p, At(w, p), GoesOn(w) \/ Ends(w), task[w].op # "recharge",
           NEW b \in Bookings, b = task[w].b, plan' = plan, bills' = bills, mixed' = mixed,
           dropped \subseteq dropped', restarts' = restarts, credited' = credited,
           captured' = captured, wallet'.order = wallet.order,
           \A x \in Bookings : x # b => booking'[x] = booking[x] /\ debits'[x] = debits[x],
           Rest', Followed(b)'
    PROVE  MoneyInv'
<1> USE DEF MoneyInv, AccountTypes
<1>1. /\ TasksOK' /\ \A v \in Workers : v # w => task'[v] = task[v]
      /\ task'[w] = Idle \/ (task'[w].op = task[w].op /\ task'[w].b = b)
  BY Onward
<1>2. CreditInv'
  <2>1. task'[w].op # "recharge"
    BY <1>1 DEF Idle
  <2> QED BY <1>1, <2>1, CreditKept
<1>3. ASSUME NEW x \in Bookings, x # b PROVE Followed(x)'
  <2>1. ~Concerns(w, x) /\ ~Concerns(w, x)'
    BY <1>1, <1>3 DEF Concerns, Idle, Ops
  <2>2. x \in Plain' => x \in Plain
    BY DEF Plain
  <2> QED BY <1>1, <1>3, <2>1, <2>2, Untouched DEF BookingInv
<1> QED BY <1>1, <1>2, <1>3 DEF BookingInv

\* What a handler that is past its first read knows of its booking.
LEMMA Known ==
    ASSUME MoneyInv, NEW w \in Workers, NEW b \in Bookings, Concerns(w, b),
           task[w].op # "book" \/ task[w].at # 1
    PROVE  /\ Followed(b) /\ booking[b].status # "none"
           /\ \A v \in Workers : ~(task[v].op = "book" /\ task[v].b = b /\ task[v].at = 1)
BY DEF MoneyInv, BookingInv, Followed, NotThereYet

\* The row exists after the step, and nobody is about to insert it.
LEMMA StillThere ==
    ASSUME NEW w \in Workers, NEW b \in Bookings, booking'[b].status # "none",
           \A v \in Workers : v # w => task'[v] = task[v] /\ ~(task[v].op = "book" /\ task[v].b = b /\ task[v].at = 1),
           task'[w].op # "book" \/ task'[w].at # 1
    PROVE  NotThereYet(b)'
BY DEF NotThereYet

LEMMA InsertStep ==
    ASSUME MoneyInv, NEW w \in Workers, InsertBooking(w)
    PROVE  MoneyInv'
<1> USE DEF MoneyInv, AccountTypes
<1>1. /\ At(w, "insert") /\ (GoesOn(w) \/ Ends(w)) /\ task[w] \in Tasks /\ task[w] # Idle
      /\ task[w].op = "book" /\ task[w].at = 1
  BY Phases DEF InsertBooking
<1> PICK b \in Bookings : b = task[w].b
  BY <1>1 DEF Tasks
<1> PICK to \in {"pending", "to_be_billed"} : to = task[w].to
  BY <1>1 DEF TasksOK, Fits
<1>2. booking' = [booking EXCEPT ![b].status = "open", ![b].pay = to]
  BY DEF InsertBooking
<1>3. /\ booking'[b].status = "open" /\ booking'[b].pay = to
      /\ \A x \in Bookings : x # b => booking'[x] = booking[x]
      /\ booking' \in [Bookings -> [status : {"none", "open", "delivered", "cancelled"},
                                    amount : Nat, pay : Payment]]
  <2>1. booking' = [booking EXCEPT ![b] = [booking[b] EXCEPT !.status = "open", !.pay = to]]
    BY <1>2 DEF Rest
  <2>2. booking[b] \in [status : {"none", "open", "delivered", "cancelled"}, amount : Nat, pay : Payment]
    BY DEF Rest
  <2> DEFINE r == [booking[b] EXCEPT !.status = "open", !.pay = to]
  <2>3. /\ r.status = "open" /\ r.pay = to
        /\ r \in [status : {"none", "open", "delivered", "cancelled"}, amount : Nat, pay : Payment]
    BY <2>2 DEF Payment
  <2> HIDE DEF r
  <2>4. booking' = [booking EXCEPT ![b] = r]
    BY <2>1 DEF r
  <2> QED BY <2>3, <2>4 DEF Rest
<1>4. /\ plan' = plan /\ billing' = billing /\ wallet' = wallet /\ bills' = bills /\ listed' = listed
      /\ captured' = captured /\ credited' = credited /\ debits' = debits /\ mixed' = mixed
      /\ dropped' = dropped /\ switches' = switches /\ restarts' = restarts
  BY DEF InsertBooking, history
<1>5. Rest'
  BY <1>3, <1>4 DEF Rest
<1>6. /\ \A v \in Workers : v # w => task'[v] = task[v]
      /\ task'[w] = Idle \/ (task'[w].op = "book" /\ task'[w].at = 2)
  BY <1>1, <1>4, Onward
<1>7. Followed(b)
  BY DEF BookingInv
<1>8. booking[b].status = "none"
  BY <1>1, <1>7 DEF Followed, NotThereYet
<1>9. /\ On(b) = {} /\ debits[b] = 0
      /\ \A v \in Workers : v # w => ~Concerns(v, b)
  BY <1>1, <1>7, <1>8 DEF Followed, NotThereYet, Concerns
<1>10. On(b)' = {}
  BY <1>4, <1>9 DEF On
<1>11. \A v \in Workers : ~Paying(v, b)'
  BY <1>6, <1>9 DEF Paying, Concerns, WaysToPay, Ops, Idle
<1>12. NotThereYet(b)'
  <2>1. \A v \in Workers : v # w => ~(task[v].op = "book" /\ task[v].b = b /\ task[v].at = 1)
    BY <1>9 DEF Concerns, Ops
  <2>2. task'[w].op # "book" \/ task'[w].at # 1
    BY <1>6 DEF Idle
  <2> QED BY <1>3, <1>6, <2>1, <2>2, StillThere
<1>13. OneWay(b)' /\ Billed(b)'
  BY <1>10, <1>11 DEF OneWay, Billed
<1>14. Taken(b)'
  BY <1>4, <1>9, Bounds DEF Taken, Rest
<1> QED BY <1>1, <1>3, <1>4, <1>5, <1>12, <1>13, <1>14, OwnBooking DEF Followed

LEMMA RecheckStep ==
    ASSUME MoneyInv, NEW w \in Workers, Recheck(w)
    PROVE  MoneyInv'
<1> USE DEF MoneyInv, AccountTypes
<1>1. /\ At(w, "recheck") /\ (GoesOn(w) \/ Ends(w)) /\ task[w] \in Tasks /\ task[w] # Idle
      /\ task[w].op = "book" /\ task[w].at = 2
  BY Phases DEF Recheck
<1> PICK b \in Bookings : b = task[w].b
  BY <1>1 DEF Tasks
<1>2. /\ plan' = plan /\ booking' = booking /\ billing' = billing /\ wallet' = wallet /\ bills' = bills
      /\ listed' = listed /\ captured' = captured /\ credited' = credited /\ debits' = debits
      /\ mixed' = mixed /\ dropped' = dropped /\ switches' = switches /\ restarts' = restarts
  BY DEF Recheck, history
<1>3. Rest'
  BY <1>2 DEF Rest
<1>4. /\ \A v \in Workers : v # w => task'[v] = task[v]
      /\ task'[w] = Idle \/ (task'[w].op = "book" /\ task'[w].at = 3)
  BY <1>1, <1>2, Onward
<1>5. /\ Followed(b) /\ booking[b].status # "none"
      /\ \A v \in Workers : ~(task[v].op = "book" /\ task[v].b = b /\ task[v].at = 1)
  BY <1>1, Known DEF Concerns, Ops
<1>6. NotThereYet(b)'
  BY <1>2, <1>4, <1>5, StillThere DEF Idle
<1>7. \A v \in Workers : /\ Paying(v, b)' <=> Paying(v, b)
                         /\ Paying(v, b) => (Debited(v)' <=> Debited(v))
  BY <1>1, <1>4 DEF Paying, Debited, WaysToPay, Idle
<1>8. On(b)' = On(b) /\ Plain' = Plain
  BY <1>2 DEF On, Plain
<1>9. b \in Plain => OneWay(b)' /\ Billed(b)' /\ Taken(b)'
  BY <1>2, <1>5, <1>7, <1>8 DEF Followed, OneWay, Billed, Taken
<1> QED BY <1>1, <1>2, <1>3, <1>6, <1>8, <1>9, OwnBooking DEF Followed

\* finalizePayment and its like end the handler.
LEMMA RecordStep ==
    ASSUME MoneyInv, NEW w \in Workers, Record(w)
    PROVE  MoneyInv'
<1> USE DEF MoneyInv, AccountTypes
<1>1. /\ At(w, "record") /\ GoesOn(w) /\ task[w] \in Tasks /\ task[w] # Idle
      /\ \/ task[w].op \in {"pay", "mark", "collect"} /\ task[w].at = 1
         \/ task[w].op = "fromWallet" /\ task[w].at = 2
  BY Phases DEF Record
<1> PICK b \in Bookings : b = task[w].b
  BY <1>1 DEF Tasks
<1> PICK to \in Payment : to = task[w].to
  BY <1>1 DEF Tasks
<1>2. /\ task[w].op \in {"pay", "fromWallet", "collect"} => to \in Closed
      /\ task[w].op = "mark" => to = "to_be_billed"
  BY <1>1 DEF TasksOK, Fits
<1>3. booking' = [booking EXCEPT ![b].pay = to]
  BY DEF Record
<1>4. /\ booking'[b].pay = to /\ booking'[b].status = booking[b].status
      /\ \A x \in Bookings : x # b => booking'[x] = booking[x]
      /\ booking' \in [Bookings -> [status : {"none", "open", "delivered", "cancelled"},
                                    amount : Nat, pay : Payment]]
  BY <1>3 DEF Rest
<1>5. /\ plan' = plan /\ billing' = billing /\ wallet' = wallet /\ bills' = bills /\ listed' = listed
      /\ captured' = captured /\ credited' = credited /\ debits' = debits /\ mixed' = mixed
      /\ dropped' = dropped /\ switches' = switches /\ restarts' = restarts
  BY DEF Record, history
<1>6. Rest'
  BY <1>4, <1>5 DEF Rest
<1>7. task'[w] = Idle /\ \A v \in Workers : v # w => task'[v] = task[v]
  <2>1. task[w].at = Len(Flow[task[w].op])
    <3>1. Len(Flow["pay"]) = 1 /\ Len(Flow["mark"]) = 1 /\ Len(Flow["collect"]) = 1 /\ Len(Flow["fromWallet"]) = 2
      BY DEF Flow
    <3> QED BY <1>1, <3>1
  <2> QED BY <1>1, <2>1 DEF GoesOn, Ends, TasksOK
<1>8. /\ Followed(b) /\ booking[b].status # "none"
      /\ \A v \in Workers : ~(task[v].op = "book" /\ task[v].b = b /\ task[v].at = 1)
  BY <1>1, Known DEF Concerns, Ops
<1>9. NotThereYet(b)'
  BY <1>4, <1>7, <1>8, StillThere DEF Idle
<1>10. \A v \in Workers : Paying(v, b)' => v # w /\ Paying(v, b) /\ (Debited(v)' <=> Debited(v))
  BY <1>7 DEF Paying, Debited, WaysToPay, Idle
<1>11. On(b)' = On(b) /\ Plain' = Plain
  BY <1>5 DEF On, Plain
<1>12. ASSUME b \in Plain PROVE OneWay(b)' /\ Billed(b)' /\ Taken(b)'
  <2>1. OneWay(b) /\ Billed(b) /\ Taken(b)
    BY <1>8, <1>12 DEF Followed
  <2>2. CASE task[w].op \in WaysToPay
    <3>1. On(b) = {} /\ \A v \in Workers : ~Paying(v, b)'
      BY <1>10, <2>1, <2>2 DEF OneWay, Paying
    <3>2. to \notin Closed => debits[b] <= restarts
      BY <1>2, <2>1, <2>2 DEF OneWay, Paying, Debited, WaysToPay
    <3> QED BY <1>4, <1>5, <1>11, <2>1, <3>1, <3>2 DEF OneWay, Billed, Taken
  <2>3. CASE task[w].op = "collect"
    <3>1. to \in Closed
      BY <1>2, <2>3
    <3>2. OneWay(b)'
      BY <1>4, <1>5, <1>10, <1>11, <2>1, <3>1 DEF OneWay, Closed
    <3> QED BY <1>4, <1>5, <1>11, <2>1, <3>1, <3>2 DEF Billed, Taken
  <2> QED BY <1>1, <2>2, <2>3 DEF WaysToPay
<1>13. Followed(b)'
  BY <1>9, <1>11, <1>12 DEF Followed
<1> QED BY <1>1, <1>4, <1>5, <1>6, <1>13, OwnBooking

LEMMA CancelStep ==
    ASSUME MoneyInv, NEW w \in Workers, CancelBooking(w)
    PROVE  MoneyInv'
<1> USE DEF MoneyInv, AccountTypes
<1>1. /\ At(w, "cancel") /\ GoesOn(w) /\ task[w] \in Tasks /\ task[w] # Idle
      /\ task[w].op = "cancel" /\ task[w].at = 1
  BY Phases DEF CancelBooking
<1> PICK b \in Bookings : b = task[w].b
  BY <1>1 DEF Tasks
<1> PICK to \in Payment : to = task[w].to
  BY <1>1 DEF Tasks
<1>2. booking' = [booking EXCEPT ![b] = [booking[b] EXCEPT !.status = "cancelled", !.pay = to]]
  BY DEF CancelBooking, Rest
<1>3. /\ booking'[b].status = "cancelled"
      /\ \A x \in Bookings : x # b => booking'[x] = booking[x]
      /\ booking' \in [Bookings -> [status : {"none", "open", "delivered", "cancelled"},
                                    amount : Nat, pay : Payment]]
  <2>1. booking[b] \in [status : {"none", "open", "delivered", "cancelled"}, amount : Nat, pay : Payment]
    BY DEF Rest
  <2> DEFINE r == [booking[b] EXCEPT !.status = "cancelled", !.pay = to]
  <2>2. /\ r.status = "cancelled"
        /\ r \in [status : {"none", "open", "delivered", "cancelled"}, amount : Nat, pay : Payment]
    BY <2>1
  <2> HIDE DEF r
  <2>3. booking' = [booking EXCEPT ![b] = r]
    BY <1>2 DEF r
  <2> QED BY <2>2, <2>3 DEF Rest
<1>4. /\ plan' = plan /\ billing' = billing /\ wallet' = wallet /\ bills' = bills /\ listed' = listed
      /\ captured' = captured /\ credited' = credited /\ debits' = debits /\ mixed' = mixed
      /\ dropped' = dropped \union {b} /\ switches' = switches /\ restarts' = restarts
  BY DEF CancelBooking
<1>5. Rest'
  BY <1>3, <1>4 DEF Rest
<1>6. task'[w] = Idle /\ \A v \in Workers : v # w => task'[v] = task[v]
  BY <1>1 DEF GoesOn, Ends, TasksOK, Flow
<1>7. \A v \in Workers : ~(task[v].op = "book" /\ task[v].b = b /\ task[v].at = 1)
  BY <1>1, Known DEF Concerns, Ops
<1>8. NotThereYet(b)'
  BY <1>3, <1>6, <1>7, StillThere DEF Idle
<1>9. b \notin Plain'
  BY <1>4 DEF Plain
<1>10. Followed(b)'
  BY <1>8, <1>9 DEF Followed
<1> QED BY <1>1, <1>3, <1>4, <1>5, <1>10, OwnBooking

LEMMA DeliverStep ==
    ASSUME MoneyInv, NEW w \in Workers, Deliver(w)
    PROVE  MoneyInv'
<1> USE DEF MoneyInv, AccountTypes
<1>1. /\ At(w, "deliver") /\ GoesOn(w) /\ task[w] \in Tasks /\ task[w] # Idle
      /\ task[w].op = "deliver" /\ task[w].at = 1
  BY Phases DEF Deliver
<1> PICK b \in Bookings : b = task[w].b
  BY <1>1 DEF Tasks
<1> DEFINE row == [status : {"none", "open", "delivered", "cancelled"}, amount : Nat, pay : Payment]
<1>2. booking \in [Bookings -> row]
  BY DEF Rest
<1>3. PICK r \in row : /\ booking' = [booking EXCEPT ![b] = r] /\ r.status = "delivered"
                       /\ r.pay = booking[b].pay \/ r.pay = "partial"
  <2>1. CASE booking' = [booking EXCEPT ![b].status = "delivered"]
    <3> DEFINE r == [booking[b] EXCEPT !.status = "delivered"]
    <3>1. r \in row /\ r.status = "delivered" /\ r.pay = booking[b].pay
      BY <1>2
    <3>2. booking' = [booking EXCEPT ![b] = r]
      BY <1>2, <2>1
    <3> QED BY <3>1, <3>2
  <2>2. CASE booking' = [booking EXCEPT
                ![b].status = "delivered", ![b].amount = task[w].n + Overage,
                ![b].pay = IF task[w].to = "paid" THEN "partial" ELSE booking[b].pay]
    <3>1. task[w].n + Overage \in Nat
      BY <1>1, Amounts DEF Tasks
    <3> DEFINE p == IF task[w].to = "paid" THEN "partial" ELSE booking[b].pay
               r == [booking[b] EXCEPT !.status = "delivered", !.amount = task[w].n + Overage, !.pay = p]
    <3>2. p \in Payment /\ (p = booking[b].pay \/ p = "partial")
      BY <1>2 DEF Payment
    <3>3. booking' = [booking EXCEPT ![b] = r]
      BY <1>2, <2>2
    <3> HIDE DEF p
    <3>4. r \in row /\ r.status = "delivered" /\ r.pay = p
      BY <1>2, <3>1, <3>2
    <3> QED BY <3>2, <3>3, <3>4
  <2> QED BY <2>1, <2>2 DEF Deliver
<1>4. /\ booking'[b] = r /\ booking' \in [Bookings -> row]
      /\ \A x \in Bookings : x # b => booking'[x] = booking[x]
  BY <1>2, <1>3
<1>5. /\ plan' = plan /\ billing' = billing /\ wallet' = wallet /\ bills' = bills /\ listed' = listed
      /\ captured' = captured /\ credited' = credited /\ debits' = debits /\ mixed' = mixed
      /\ dropped' = dropped /\ switches' = switches /\ restarts' = restarts
  BY DEF Deliver, history
<1>6. Rest'
  BY <1>4, <1>5 DEF Rest
<1>7. task'[w] = Idle /\ \A v \in Workers : v # w => task'[v] = task[v]
  BY <1>1 DEF GoesOn, Ends, TasksOK, Flow
<1>8. /\ Followed(b)
      /\ \A v \in Workers : ~(task[v].op = "book" /\ task[v].b = b /\ task[v].at = 1)
  BY <1>1, Known DEF Concerns, Ops
<1>9. NotThereYet(b)'
  BY <1>3, <1>4, <1>7, <1>8, StillThere DEF Idle
<1>10. \A v \in Workers : /\ Paying(v, b)' <=> Paying(v, b)
                          /\ Paying(v, b) => (Debited(v)' <=> Debited(v))
  BY <1>1, <1>7 DEF Paying, Debited, WaysToPay, Idle
<1>11. On(b)' = On(b) /\ Plain' = Plain
  BY <1>5 DEF On, Plain
<1>12. booking'[b].pay = booking[b].pay \/ booking'[b].pay = "partial"
  BY <1>3, <1>4
<1>13. b \in Plain => OneWay(b)'
  BY <1>5, <1>8, <1>10, <1>11, <1>12 DEF Followed, OneWay
<1>14. b \in Plain => Billed(b)' /\ Taken(b)'
  BY <1>5, <1>8, <1>10, <1>11, <1>12 DEF Followed, Billed, Taken, Closed
<1>15. Followed(b)'
  BY <1>9, <1>11, <1>13, <1>14 DEF Followed
<1> QED BY <1>1, <1>4, <1>5, <1>6, <1>15, OwnBooking

\* The debit is conditional, and the handler goes on to the record when it has succeeded.
LEMMA DebitStep ==
    ASSUME MoneyInv, NEW w \in Workers, Debit(w)
    PROVE  MoneyInv'
<1> USE DEF MoneyInv, AccountTypes
<1>1. /\ At(w, "debit") /\ (GoesOn(w) \/ Ends(w)) /\ task[w] \in Tasks /\ task[w] # Idle
      /\ task[w].op = "fromWallet" /\ task[w].at = 1
  BY Phases DEF Debit
<1> PICK b \in Bookings : b = task[w].b
  BY <1>1 DEF Tasks
<1> PICK n \in Nat : n = task[w].n
  BY <1>1 DEF Tasks
<1>2. /\ plan' = plan /\ booking' = booking /\ billing' = billing /\ bills' = bills /\ listed' = listed
      /\ captured' = captured /\ credited' = credited /\ mixed' = mixed
      /\ dropped' = dropped /\ switches' = switches /\ restarts' = restarts
  BY DEF Debit
<1>3. wallet \in [balance : Nat, order : 0..MaxOrders] /\ debits \in [Bookings -> Nat] /\ restarts \in Nat
  BY Bounds DEF Rest
<1>4. /\ wallet' \in [balance : Nat, order : 0..MaxOrders] /\ wallet'.order = wallet.order
      /\ debits' \in [Bookings -> Nat]
      /\ \A x \in Bookings : x # b => debits'[x] = debits[x]
      /\ \/ GoesOn(w) /\ debits'[b] = debits[b] + 1
         \/ Ends(w) /\ debits'[b] = debits[b]
  <2>1. CASE wallet.balance >= n
    <3>1. /\ wallet' = [wallet EXCEPT !.balance = wallet.balance - n]
          /\ debits' = [debits EXCEPT ![b] = debits[b] + 1] /\ GoesOn(w)
      BY <2>1 DEF Debit
    <3>2. wallet.balance - n \in Nat
      BY <1>3, <2>1
    <3>3. wallet' \in [balance : Nat, order : 0..MaxOrders] /\ wallet'.order = wallet.order
      BY <1>3, <3>1, <3>2
    <3> QED BY <1>3, <3>1, <3>3
  <2>2. CASE ~(wallet.balance >= n)
    BY <1>3, <2>2 DEF Debit
  <2> QED BY <2>1, <2>2
<1>5. Rest'
  BY <1>2, <1>4 DEF Rest
<1>6. /\ \A v \in Workers : v # w => task'[v] = task[v]
      /\ \/ task'[w] = Idle /\ debits'[b] = debits[b]
         \/ task'[w].op = "fromWallet" /\ task'[w].at = 2 /\ task'[w].b = b /\ debits'[b] = debits[b] + 1
  <2>1. CASE Ends(w) /\ debits'[b] = debits[b]
    BY <2>1 DEF Ends, TasksOK
  <2>2. CASE GoesOn(w) /\ debits'[b] = debits[b] + 1
    <3>1. task[w].at # Len(Flow[task[w].op])
      BY <1>1 DEF Flow
    <3>2. task'[w] # Idle
      BY <1>1, <1>2, <2>2, <3>1, Onward
    <3> QED BY <1>1, <1>2, <2>2, <3>2, Onward
  <2> QED BY <1>4, <2>1, <2>2
<1>7. /\ Followed(b) /\ booking[b].status # "none"
      /\ \A v \in Workers : ~(task[v].op = "book" /\ task[v].b = b /\ task[v].at = 1)
  BY <1>1, Known DEF Concerns, Ops
<1>8. NotThereYet(b)'
  BY <1>2, <1>6, <1>7, StillThere DEF Idle
<1>9. On(b)' = On(b) /\ Plain' = Plain
  BY <1>2 DEF On, Plain
<1>10. ASSUME b \in Plain PROVE OneWay(b)' /\ Billed(b)' /\ Taken(b)'
  <2>1. OneWay(b) /\ Billed(b) /\ Taken(b) /\ debits[b] \in Nat
    BY <1>3, <1>7, <1>10 DEF Followed
  <2>2. /\ Paying(w, b) /\ ~Debited(w) /\ debits[b] <= restarts
        /\ booking[b].pay \notin {"to_be_billed", "billed"} /\ On(b) = {}
        /\ \A v \in Workers : v # w => ~Paying(v, b)
    BY <1>1, <2>1 DEF OneWay, Paying, Debited, WaysToPay
  <2>3. \A v \in Workers : v # w => ~Paying(v, b)'
    BY <1>6, <2>2 DEF Paying
  <2>4. CASE task'[w] = Idle /\ debits'[b] = debits[b]
    <3>1. ~Paying(w, b)'
      BY <2>4 DEF Paying, WaysToPay, Idle
    <3> QED BY <1>2, <1>3, <1>9, <2>1, <2>2, <2>3, <2>4, <3>1 DEF OneWay, Billed, Taken
  <2>5. CASE /\ task'[w].op = "fromWallet" /\ task'[w].at = 2 /\ task'[w].b = b
             /\ debits'[b] = debits[b] + 1
    <3>1. Paying(w, b)' /\ Debited(w)' /\ debits'[b] <= 1 + restarts
      BY <1>3, <2>1, <2>2, <2>5 DEF Paying, Debited, WaysToPay
    <3> QED BY <1>2, <1>9, <2>1, <2>2, <2>3, <3>1 DEF OneWay, Billed, Taken
  <2> QED BY <1>6, <2>4, <2>5
<1>11. Followed(b)'
  BY <1>8, <1>9, <1>10 DEF Followed
<1> QED BY <1>1, <1>2, <1>4, <1>5, <1>11, OwnBooking

-----------------------------------------------------------------------------
(* Bills                                                                   *)

\* PostpaidBillModel.generate keeps what is known of every booking, whichever of the
\* handlers that insert a booking ends with it.
LEMMA GenerateKeeps ==
    ASSUME Rest, Generate, NEW b \in Bookings, Followed(b),
           debits' = debits, mixed' = mixed, dropped' = dropped, restarts' = restarts,
           \A v \in Workers : task'[v] = task[v] \/ (task'[v] = Idle /\ task[v].op = "book")
    PROVE  Followed(b)'
<1>1. Plain' = Plain
  BY DEF Plain
<1>2. \A v \in Workers : /\ Concerns(v, b)' => task'[v] = task[v] /\ Concerns(v, b)
                         /\ Paying(v, b)' <=> Paying(v, b)
                         /\ Paying(v, b) => task'[v] = task[v]
                         /\ task'[v].op = "book" => task'[v] = task[v]
  BY DEF Concerns, Paying, Idle, Ops, WaysToPay
<1>3. CASE ToBill = {} \/ Len(bills) = MaxBills
  <2>1. booking' = booking /\ bills' = bills
    BY <1>3 DEF Generate
  <2>2. \A v \in Workers : task'[v] = task[v] \/ (~Concerns(v, b)' /\ ~Paying(v, b))
    BY <1>2
  <2>3. On(b)' = On(b)
    BY <2>1 DEF On
  <2>4. NotThereYet(b)'
    BY <1>2, <2>1, <2>3 DEF Followed, NotThereYet
  <2>5. b \in Plain => OneWay(b)' /\ Billed(b)' /\ Taken(b)'
    BY <1>2, <2>1, <2>3 DEF Followed, OneWay, Billed, Taken, Debited
  <2> QED BY <1>1, <2>4, <2>5 DEF Followed
<1>4. CASE ~(ToBill = {} \/ Len(bills) = MaxBills)
  <2>1. /\ bills' = Append(bills, [items |-> ToBill, status |-> "pending"])
        /\ booking' = [x \in Bookings |-> IF x \in ToBill
                          THEN [booking[x] EXCEPT !.pay = "billed"] ELSE booking[x]]
    BY <1>4 DEF Generate
  <2> DEFINE n == Len(bills)
  <2>2. /\ n \in Nat /\ DOMAIN bills = 1..n /\ DOMAIN bills' = 1..(n + 1)
        /\ bills'[n + 1].items = ToBill /\ bills'[n + 1].status = "pending"
        /\ \A i \in 1..n : bills'[i] = bills[i]
    <3>1. bills \in Seq([items : SUBSET Bookings, status : {"pending", "paid"}])
      BY DEF Rest
    <3> QED BY <2>1, <3>1
  <2> HIDE DEF n
  <2>3. CASE b \notin ToBill
    <3>1. booking'[b] = booking[b]
      BY <2>1, <2>3
    <3>2. On(b)' = On(b) /\ \A i \in On(b) : bills'[i] = bills[i]
      BY <2>2, <2>3 DEF On
    <3>4. NotThereYet(b)'
      BY <1>2, <3>1, <3>2 DEF Followed, NotThereYet
    <3>5. b \in Plain => OneWay(b)' /\ Billed(b)' /\ Taken(b)'
      BY <1>2, <3>1, <3>2 DEF Followed, OneWay, Billed, Taken, Debited
    <3> QED BY <1>1, <3>4, <3>5 DEF Followed
  <2>4. CASE b \in ToBill
    <3>1. booking[b].status # "none" /\ booking[b].pay = "to_be_billed"
      BY <2>4 DEF ToBill
    <3>2. booking'[b].pay = "billed" /\ booking'[b].status = booking[b].status
      BY <2>1, <2>4 DEF Rest
    <3>3. NotThereYet(b)'
      BY <1>2, <3>1, <3>2 DEF Followed, NotThereYet
    <3>4. ASSUME b \in Plain PROVE OneWay(b)' /\ Billed(b)' /\ Taken(b)'
      <4>1. OneWay(b) /\ Billed(b) /\ Taken(b)
        BY <3>4 DEF Followed
      <4>2. On(b) = {}
        BY <3>1, <4>1 DEF Billed, Closed
      <4>3. On(b)' = {n + 1}
        BY <2>2, <2>4, <4>2 DEF On
      <4>4. \A v \in Workers : ~Paying(v, b)'
        BY <1>2, <3>1, <4>1 DEF OneWay
      <4>5. debits[b] <= restarts
        BY <1>2, <3>1, <4>1, <4>4 DEF Taken, Closed
      <4>6. Billed(b)'
        BY <2>2, <3>2, <4>3 DEF Billed, Closed
      <4> QED BY <4>1, <4>4, <4>5, <4>6 DEF OneWay, Taken
    <3> QED BY <1>1, <3>3, <3>4 DEF Followed
  <2> QED BY <2>3, <2>4
<1> QED BY <1>3, <1>4

LEMMA GenerateTypes ==
    ASSUME Rest, Generate
    PROVE  /\ booking' \in [Bookings -> [status : {"none", "open", "delivered", "cancelled"},
                                         amount : Nat, pay : Payment]]
           /\ bills' \in Seq([items : SUBSET Bookings, status : {"pending", "paid"}])
<1> DEFINE row  == [status : {"none", "open", "delivered", "cancelled"}, amount : Nat, pay : Payment]
           bill == [items : SUBSET Bookings, status : {"pending", "paid"}]
           billed(x) == [booking[x] EXCEPT !.pay = "billed"]
<1>1. booking \in [Bookings -> row] /\ bills \in Seq(bill)
  BY DEF Rest
<1>2. CASE ToBill = {} \/ Len(bills) = MaxBills
  BY <1>1, <1>2 DEF Generate
<1>3. CASE ~(ToBill = {} \/ Len(bills) = MaxBills)
  <2>1. /\ bills' = Append(bills, [items |-> ToBill, status |-> "pending"])
        /\ booking' = [x \in Bookings |-> IF x \in ToBill THEN billed(x) ELSE booking[x]]
    BY <1>3 DEF Generate
  <2>2. [items |-> ToBill, status |-> "pending"] \in bill
    BY DEF ToBill
  <2>3. \A x \in Bookings : billed(x) \in row
    BY <1>1 DEF Payment
  <2> HIDE DEF row, bill, billed
  <2>4. booking' \in [Bookings -> row]
    BY <1>1, <2>1, <2>3
  <2>5. bills' \in Seq(bill)
    BY <1>1, <2>1, <2>2
  <2> QED BY <2>4, <2>5 DEF row, bill
<1> QED BY <1>2, <1>3

LEMMA BillStep ==
    ASSUME MoneyInv, BillMonthly \/ \E w \in Workers : BillAtLimit(w)
    PROVE  MoneyInv'
<1> USE DEF MoneyInv, AccountTypes
<1>1. /\ plan' = plan /\ billing' = billing /\ wallet' = wallet /\ captured' = captured
      /\ credited' = credited /\ debits' = debits /\ mixed' = mixed /\ dropped' = dropped
      /\ switches' = switches /\ restarts' = restarts /\ listed' \in BOOLEAN
  BY DEF BillMonthly, BillAtLimit, history, Rest
<1>2. /\ TasksOK'
      /\ \A v \in Workers : task'[v] = task[v] \/ (task'[v] = Idle /\ task[v].op = "book")
  <2>1. CASE BillMonthly
    BY <1>1, <2>1 DEF BillMonthly, TasksOK, Fits
  <2>2. ASSUME NEW w \in Workers, BillAtLimit(w)
        PROVE  /\ TasksOK'
               /\ \A v \in Workers : task'[v] = task[v] \/ (task'[v] = Idle /\ task[v].op = "book")
    <3>1. At(w, "generate") /\ GoesOn(w) /\ task[w].op = "book" /\ task[w].at = 3
      BY <2>2, Phases DEF BillAtLimit
    <3>2. Ends(w)
      BY <3>1 DEF GoesOn, Flow
    <3>3. task'[w] = Idle /\ \A v \in Workers : v # w => task'[v] = task[v]
      BY <3>2 DEF Ends, TasksOK
    <3> QED BY <1>1, <3>1, <3>2, <3>3, Onward
  <2> QED BY <2>1, <2>2
<1>3. Generate \/ (booking' = booking /\ bills' = bills)
  BY DEF BillMonthly, BillAtLimit
<1>4. Rest'
  BY <1>1, <1>3, GenerateTypes DEF Rest
<1>5. CreditInv'
  <2>1. \A v \in Workers : task[v].op = "recharge" \/ task'[v].op = "recharge" => task'[v] = task[v]
    BY <1>2 DEF Idle
  <2> QED BY <1>1, <2>1, CreditKept
<1>6. CASE Generate
  BY <1>1, <1>2, <1>4, <1>5, <1>6, GenerateKeeps DEF BookingInv
<1>7. CASE booking' = booking /\ bills' = bills
  <2> SUFFICES ASSUME NEW b \in Bookings PROVE Followed(b)'
    BY <1>2, <1>4, <1>5 DEF BookingInv
  <2>1. On(b)' = On(b) /\ Plain' = Plain /\ Followed(b)
    BY <1>1, <1>7 DEF On, Plain, BookingInv
  <2>2. \A v \in Workers : /\ Concerns(v, b)' => task'[v] = task[v] /\ Concerns(v, b)
                           /\ Paying(v, b)' <=> Paying(v, b)
                           /\ Paying(v, b) => task'[v] = task[v]
                           /\ task'[v].op = "book" => task'[v] = task[v]
    BY <1>2 DEF Concerns, Paying, Idle, Ops, WaysToPay
  <2>3. NotThereYet(b)'
    BY <1>1, <1>7, <2>1, <2>2 DEF Followed, NotThereYet
  <2>4. b \in Plain => OneWay(b)' /\ Billed(b)' /\ Taken(b)'
    BY <1>1, <1>7, <2>1, <2>2 DEF Followed, OneWay, Billed, Taken, Debited
  <2> QED BY <2>1, <2>3, <2>4 DEF Followed
<1> QED BY <1>3, <1>6, <1>7

\* PostpaidBillModel.markPaid.
LEMMA PayBillStep ==
    ASSUME MoneyInv, NEW i \in DOMAIN bills, PayBill(i)
    PROVE  MoneyInv'
<1> USE DEF MoneyInv, AccountTypes
<1> DEFINE row == [status : {"none", "open", "delivered", "cancelled"}, amount : Nat, pay : Payment]
           bill == [items : SUBSET Bookings, status : {"pending", "paid"}]
<1>1. /\ plan' = plan /\ billing' = billing /\ wallet' = wallet /\ captured' = captured
      /\ credited' = credited /\ debits' = debits /\ mixed' = mixed /\ dropped' = dropped
      /\ switches' = switches /\ restarts' = restarts /\ listed' = listed /\ task' = task
  BY DEF PayBill, history
<1>2. /\ bills' \in Seq(bill) /\ DOMAIN bills' = DOMAIN bills /\ bills'[i].status = "paid"
      /\ \A j \in DOMAIN bills : bills'[j].items = bills[j].items /\ (j # i => bills'[j] = bills[j])
  <2>1. bills \in Seq(bill) /\ bills' = [bills EXCEPT ![i] = [bills[i] EXCEPT !.status = "paid"]]
    BY DEF PayBill, Rest
  <2>2. bills[i] \in bill
    <3> HIDE DEF bill
    <3>1. DOMAIN bills = 1..Len(bills)
      BY <2>1
    <3> QED BY <2>1, <3>1
  <2> DEFINE r == [bills[i] EXCEPT !.status = "paid"]
  <2>3. r \in bill /\ r.status = "paid" /\ r.items = bills[i].items
    BY <2>2
  <2> HIDE DEF r, bill
  <2>4. bills' = [bills EXCEPT ![i] = r]
    BY <2>1 DEF r
  <2> QED BY <2>1, <2>3, <2>4
<1>3. booking' \in [Bookings -> row]
      /\ \A b \in Bookings : /\ b \notin bills[i].items => booking'[b] = booking[b]
                             /\ b \in bills[i].items => /\ booking'[b].pay = "paid"
                                                        /\ booking'[b].status = booking[b].status
  <2>1. booking \in [Bookings -> row]
    BY DEF Rest
  <2> DEFINE paid(b) == [booking[b] EXCEPT !.pay = "paid"]
  <2>2. \A b \in Bookings : paid(b) \in row /\ paid(b).pay = "paid" /\ paid(b).status = booking[b].status
    BY <2>1 DEF Payment
  <2>3. booking' = [b \in Bookings |-> IF b \in bills[i].items THEN paid(b) ELSE booking[b]]
    BY DEF PayBill, MarkPaid
  <2> HIDE DEF row, paid
  <2> QED BY <2>1, <2>2, <2>3
<1>4. TasksOK' /\ Rest'
  BY <1>1, <1>2, <1>3 DEF TasksOK, Fits, Rest
<1>5. CreditInv'
  BY <1>1, CreditKept
<1>6. ASSUME NEW b \in Bookings PROVE Followed(b)'
  <2>1. On(b)' = On(b) /\ Plain' = Plain /\ Followed(b)
    BY <1>1, <1>2 DEF On, Plain, BookingInv
  <2>2. \A v \in Workers : Paying(v, b)' <=> Paying(v, b)
    BY <1>1 DEF Paying
  <2>3. CASE b \notin bills[i].items
    <3>1. booking'[b] = booking[b] /\ \A j \in On(b) : bills'[j] = bills[j]
      BY <1>2, <1>3, <2>3 DEF On
    <3>2. NotThereYet(b)'
      BY <1>1, <2>1, <3>1 DEF Followed, NotThereYet, Concerns
    <3>3. b \in Plain => OneWay(b)' /\ Billed(b)' /\ Taken(b)'
      BY <1>1, <2>1, <2>2, <3>1 DEF Followed, OneWay, Billed, Taken, Debited
    <3> QED BY <2>1, <3>2, <3>3 DEF Followed
  <2>4. CASE b \in bills[i].items
    <3>1. i \in On(b)
      BY <2>4 DEF On
    <3>2. booking[b].status # "none"
      BY <2>1, <3>1 DEF Followed, NotThereYet
    <3>3. booking'[b].pay = "paid" /\ booking'[b].status # "none"
      BY <1>3, <2>4, <3>2
    <3>4. NotThereYet(b)'
      BY <1>1, <2>1, <3>2, <3>3 DEF Followed, NotThereYet
    <3>5. b \in Plain => OneWay(b)' /\ Billed(b)' /\ Taken(b)'
      BY <1>1, <2>1, <2>2, <3>1, <3>3 DEF Followed, OneWay, Billed, Taken, Closed
    <3> QED BY <2>1, <3>4, <3>5 DEF Followed
  <2> QED BY <2>3, <2>4
<1> QED BY <1>4, <1>5, <1>6 DEF BookingInv

-----------------------------------------------------------------------------
(* A restart, and every step                                               *)

LEMMA RestartStep ==
    ASSUME MoneyInv, Restart
    PROVE  MoneyInv'
<1> USE DEF MoneyInv, AccountTypes
<1>1. /\ plan' = plan /\ booking' = booking /\ billing' = billing /\ wallet' = wallet /\ bills' = bills
      /\ captured' = captured /\ credited' = credited /\ debits' = debits /\ mixed' = mixed
      /\ dropped' = dropped /\ switches' = switches
      /\ restarts' = restarts + 1 /\ restarts < plan.restarts /\ listed' = FALSE
      /\ task' = [w \in Workers |-> Idle]
  BY DEF Restart
<1>2. TasksOK'
  BY <1>1 DEF TasksOK
<1>3. restarts \in Nat /\ restarts' \in 0..plan.restarts
  BY <1>1, Bounds DEF Rest
<1>4. Rest'
  BY <1>1, <1>3 DEF Rest
<1>5. CreditInv'
  <2>1. \A o \in Orders : credited[o] \in Nat /\ credited[o] <= restarts'
    BY <1>1, <1>3 DEF Rest, CreditInv
  <2>2. \A o \in Orders, w \in Workers : ~Verifying(w, 1, o)'
    BY <1>1 DEF Verifying, Idle
  <2>3. \A o \in Orders : credited[o] <= 1 + restarts'
    BY <1>3, <2>1 DEF Rest
  <2> QED BY <1>1, <2>1, <2>2, <2>3 DEF CreditInv
<1>6. ASSUME NEW b \in Bookings PROVE Followed(b)'
  <2>1. On(b)' = On(b) /\ Plain' = Plain /\ Followed(b)
    BY <1>1 DEF On, Plain, BookingInv
  <2>2. \A w \in Workers : ~Paying(w, b)' /\ ~Concerns(w, b)' /\ task'[w].op # "book"
    BY <1>1 DEF Paying, Concerns, WaysToPay, Ops, Idle
  <2>3. NotThereYet(b)'
    BY <1>1, <2>1, <2>2 DEF Followed, NotThereYet
  <2>4. b \in Plain => debits[b] <= restarts' /\ debits[b] <= 1 + restarts'
    BY <1>1, <1>3, <2>1 DEF Followed, Taken, Rest
  <2>5. b \in Plain => OneWay(b)' /\ Billed(b)' /\ Taken(b)'
    BY <1>1, <2>1, <2>2, <2>4 DEF Followed, OneWay, Billed, Taken
  <2> QED BY <2>1, <2>3, <2>5 DEF Followed
<1> QED BY <1>2, <1>4, <1>5, <1>6 DEF BookingInv

LEMMA RequestStep ==
    ASSUME OneVerifier, MoneyInv, NEW w \in Workers, Requests(w)
    PROVE  MoneyInv'
<1> USE DEF MoneyInv, AccountTypes
<1>1. booking \in [Bookings -> [status : {"none", "open", "delivered", "cancelled"},
                                amount : Nat, pay : Payment]]
  BY DEF Rest
<1>2. ASSUME NEW b \in Bookings, BookRequest(w, b) PROVE MoneyInv'
  <2> DEFINE to == IF billing = "postpaid" THEN "to_be_billed" ELSE "pending"
  <2>1. to \in {"pending", "to_be_billed"}
    OBVIOUS
  <2>2. /\ Begin(w, "book", b, to, 0) /\ booking[b].status = "none"
        /\ \A v \in Workers : task[v].op = "book" => task[v].b # b
    BY <1>2 DEF BookRequest
  <2> HIDE DEF to
  <2>3. Fits([op |-> "book", at |-> 1, b |-> b, to |-> to, n |-> 0])
    BY <2>1 DEF Fits
  <2> QED BY <2>1, <2>2, <2>3, BeginStep DEF Ops, Payment, WaysToPay
<1>3. ASSUME NEW b \in Bookings, PayRequest(w, b) PROVE MoneyInv'
  <2>1. PICK n \in Takes(b) :
           LET to == IF n = booking[b].amount THEN "paid" ELSE "partial" IN
              \/ Begin(w, "pay", b, to, 0)
              \/ Begin(w, "fromWallet", b, to, n)
    BY <1>3 DEF PayRequest
  <2>2. n \in Nat
    BY <1>1, Amounts DEF Takes
  <2> DEFINE to == IF n = booking[b].amount THEN "paid" ELSE "partial"
  <2>3. to \in Closed
    BY DEF Closed
  <2>4. Begin(w, "pay", b, to, 0) \/ Begin(w, "fromWallet", b, to, n)
    BY <2>1
  <2> HIDE DEF to
  <2>5. booking[b].status # "none" /\ booking[b].pay \notin Closed
    BY <1>3 DEF PayRequest, Payable, Closed
  <2>6. /\ Fits([op |-> "pay", at |-> 1, b |-> b, to |-> to, n |-> 0])
        /\ Fits([op |-> "fromWallet", at |-> 1, b |-> b, to |-> to, n |-> n])
    BY <2>3 DEF Fits
  <2>7. to \in Payment /\ "pay" \in Ops /\ "fromWallet" \in Ops
    BY <2>3 DEF Closed, Payment, Ops
  <2>8. CASE Begin(w, "pay", b, to, 0)
    BY <2>5, <2>6, <2>7, <2>8, BeginStep
  <2>9. CASE Begin(w, "fromWallet", b, to, n)
    BY <2>2, <2>5, <2>6, <2>7, <2>9, BeginStep
  <2> QED BY <2>4, <2>8, <2>9
<1>4. ASSUME NEW b \in Bookings, MarkRequest(w, b) PROVE MoneyInv'
  <2>1. /\ Begin(w, "mark", b, "to_be_billed", 0) /\ booking[b].status # "none"
        /\ booking[b].pay \notin Closed
    BY <1>4 DEF MarkRequest, Payable, Closed
  <2>2. Fits([op |-> "mark", at |-> 1, b |-> b, to |-> "to_be_billed", n |-> 0])
    BY DEF Fits
  <2> QED BY <2>1, <2>2, BeginStep DEF Ops, Payment
<1>5. ASSUME NEW b \in Bookings, CancelRequest(w, b) PROVE MoneyInv'
  <2> DEFINE to == IF booking[b].pay = "paid" THEN "refunded" ELSE booking[b].pay
  <2>1. Begin(w, "cancel", b, to, 0) /\ booking[b].status # "none"
    BY <1>5 DEF CancelRequest
  <2>2. to \in Payment
    BY <1>1 DEF Payment
  <2> HIDE DEF to
  <2>3. Fits([op |-> "cancel", at |-> 1, b |-> b, to |-> to, n |-> 0])
    BY DEF Fits
  <2> QED BY <2>1, <2>2, <2>3, BeginStep DEF Ops, WaysToPay
<1>6. ASSUME NEW b \in Bookings, CollectRequest(w, b) PROVE MoneyInv'
  <2>1. Begin(w, "collect", b, "paid", 0) /\ booking[b].status # "none"
    BY <1>6 DEF CollectRequest
  <2>2. Fits([op |-> "collect", at |-> 1, b |-> b, to |-> "paid", n |-> 0])
    BY DEF Fits, Closed
  <2> QED BY <2>1, <2>2, BeginStep DEF Ops, WaysToPay, Payment
<1>7. ASSUME NEW b \in Bookings, DeliverRequest(w, b) PROVE MoneyInv'
  <2>1. Begin(w, "deliver", b, booking[b].pay, booking[b].amount) /\ booking[b].status # "none"
    BY <1>7 DEF DeliverRequest
  <2>2. booking[b].pay \in Payment /\ booking[b].amount \in Nat
    BY <1>1
  <2>3. Fits([op |-> "deliver", at |-> 1, b |-> b, to |-> booking[b].pay, n |-> booking[b].amount])
    BY DEF Fits
  <2> QED BY <2>1, <2>2, <2>3, BeginStep DEF Ops, WaysToPay
<1>8. ASSUME NEW o \in Orders, RechargeRequest(w, o) PROVE MoneyInv'
  <2>1. PICK b \in Bookings : b = CHOOSE x \in Bookings : TRUE
    BY SomeBookings
  <2>2. Begin(w, "recharge", b, "pending", o) /\ o = wallet.order /\ o \in captured
    BY <1>8, <2>1 DEF RechargeRequest
  <2>3. Fits([op |-> "recharge", at |-> 1, b |-> b, to |-> "pending", n |-> o])
    BY DEF Fits
  <2>4. o \in Nat /\ "recharge" \in Ops /\ "pending" \in Payment
    BY Bounds DEF Orders, Ops, Payment
  <2> QED BY <2>2, <2>3, <2>4, BeginStep DEF WaysToPay
<1> QED BY <1>2, <1>3, <1>4, <1>5, <1>6, <1>7, <1>8 DEF Requests

LEMMA MoneyStep ==
    ASSUME OneVerifier, MoneyInv, [Next]_vars
    PROVE  MoneyInv'
<1>1. CASE UNCHANGED vars
  BY <1>1 DEF vars, history, MoneyInv, AccountTypes, TasksOK, Fits, Rest, CreditInv, Verifying, BookingInv,
     Followed, NotThereYet, OneWay, Billed, Taken, Plain, On, Paying, Debited, Concerns
<1>2. ASSUME NEW w \in Workers, Steps(w) PROVE MoneyInv'
  BY <1>2, InsertStep, RecheckStep, BillStep, RecordStep, CancelStep, DeliverStep, DebitStep,
     CreditStep, ClearStep DEF Steps
<1>3. CASE (\E o \in Orders : OpenOrder(o) \/ Capture(o)) \/ ListClient \/ SetBillingType
  BY <1>3, Outside
<1> QED BY <1>1, <1>2, <1>3, RequestStep, PayBillStep, BillStep, RestartStep DEF Next

LEMMA MoneyFollows == MoneyInv => MoneyMovesOnce
<1> SUFFICES ASSUME MoneyInv PROVE MoneyMovesOnce
  OBVIOUS
<1> USE DEF MoneyInv, AccountTypes
<1>1. NeverOverdrawn
  BY DEF NeverOverdrawn, Rest
<1>2. CreditedOnce
  BY DEF CreditedOnce, CreditInv
<1>3. Plain \subseteq Bookings /\ \A b \in Plain : Billed(b) /\ Taken(b)
  BY DEF BookingInv, Followed, Plain
<1>4. DebitedOnce
  BY <1>3 DEF DebitedOnce, Taken
<1>5. BilledOnce
  <2> SUFFICES ASSUME NEW b \in Plain PROVE Cardinality(On(b)) <= 1
    BY DEF BilledOnce, On
  <2>1. CASE On(b) = {}
    BY <2>1, FS_EmptySet
  <2>2. ASSUME NEW i \in On(b) PROVE Cardinality(On(b)) <= 1
    <3>1. On(b) = {i}
      BY <1>3, <2>2 DEF Billed
    <3>2. Cardinality({i}) = 1
      BY FS_Singleton
    <3> QED BY <3>1, <3>2
  <2> QED BY <2>1, <2>2
<1>6. PaidBillClears
  BY <1>3 DEF PaidBillClears, Billed, Closed, On, Owed
<1> QED BY <1>1, <1>2, <1>4, <1>5, <1>6 DEF MoneyMovesOnce

\* A recharge is credited once, a booking is taken from the wallet once and is on one bill, a
\* bill that is paid leaves nothing owed and the balance is never negative, for any number of
\* bookings, orders, bills, devices and restarts, when recharges are verified on one device.
THEOREM MoneySafe == ASSUME OneVerifier PROVE Spec => []MoneyMovesOnce
<1>1. Init => MoneyInv
  BY MoneyInit
<1>2. MoneyInv /\ [Next]_vars => MoneyInv'
  BY MoneyStep
<1>3. MoneyInv => MoneyMovesOnce
  BY MoneyFollows
<1> QED BY <1>1, <1>2, <1>3, PTL DEF Spec

\* Bookings, bills, wallet and what each handler has in hand keep their types.
THEOREM MoneyTyped == ASSUME OneVerifier PROVE Spec => []TypeOK
<1>1. Init => MoneyInv
  BY MoneyInit
<1>2. MoneyInv /\ [Next]_vars => MoneyInv'
  BY MoneyStep
<1>3. MoneyInv => TypeOK
  <2> SUFFICES ASSUME MoneyInv PROVE TypeOK
    OBVIOUS
  <2>1. wallet \in [balance : Int, order : 0..MaxOrders]
    BY DEF MoneyInv, AccountTypes, Rest
  <2> QED BY <2>1 DEF MoneyInv, AccountTypes, TasksOK, Rest, TypeOK
<1> QED BY <1>1, <1>2, <1>3, PTL DEF Spec

-----------------------------------------------------------------------------
(* The credit limit                                                        *)

\* The client makes one booking at a time.
OneBooker ==
    \A p \in Plans : \A v, w \in Workers : "book" \in p.duties[v] /\ "book" \in p.duties[w] => v = w

Rows == [status : {"none", "open", "delivered", "cancelled"}, amount : Nat, pay : Payment]

\* What the client is trusted with: what the bookings still owed cost when they were made.
Trusted == SumOver(Price, Owed \intersect Plain)

LimitTypes == plan \in Plans /\ TasksOK /\ booking \in [Bookings -> Rows] /\ switches \in Nat

\* Amounts only grow, and a delivery is of a row that is there.
PricesKept ==
    /\ \A b \in Bookings : booking[b].amount >= Price[b]
    /\ \A w \in Workers : task[w].op = "deliver" =>
          task[w].n >= Price[task[w].b] /\ booking[task[w].b].status # "none"

\* Every booking of a postpaid client is owed from the beginning, and is not owed again once it
\* has been settled in the one way the client chose.
OnAccount ==
    /\ \A b \in Bookings : booking[b].status # "none" =>
          booking[b].pay # "pending" /\ (booking[b].pay = "refunded" => b \in dropped)
    /\ \A w \in Workers :
          /\ task[w].op = "book"   => task[w].to = "to_be_billed"
          /\ task[w].op = "cancel" => task[w].to # "pending"
          /\ task[w].op = "mark"   => task[w].b \notin Plain

\* Whoever is about to insert a booking has seen that the limit is not reached.
UnderLimit ==
    /\ \A w \in Workers : task[w].op = "book" /\ task[w].at = 1 => Trusted < CreditLimit
    /\ \E b \in Bookings : Trusted < CreditLimit + Price[b]

Postpaid == switches = 0 /\ billing = "postpaid"
LimitInv == LimitTypes /\ PricesKept /\ (Postpaid => OnAccount /\ UnderLimit)

LEMMA FiniteBookings == \A x \in SUBSET Bookings : IsFiniteSet(x) /\ \A b \in x : Price[b] \in Nat
BY SomeBookings, Amounts, FS_Subset

\* The library's folds are the sums.
LEMMA PricesSum ==
    ASSUME NEW x \in SUBSET Bookings
    PROVE  MapThenSumSet(LAMBDA b : Price[b], x) = SumOver(Price, x)
<1> DEFINE Folds(sum) == sum = [s \in SUBSET x |->
               IF s = {} THEN 0 ELSE Price[CHOOSE y \in s : TRUE] + sum[s \ {CHOOSE y \in s : TRUE}]]
           fold == CHOOSE sum : Folds(sum)
<1>1. MapThenSumSet(LAMBDA b : Price[b], x) = fold[x]
  BY DEF MapThenSumSet, MapThenFoldSet
<1>2. \A sum : Folds(sum) <=> Iterates(sum, Price, x)
  BY DEF Iterates, Next1
<1>3. IsFiniteSet(x)
  BY FiniteBookings
<1>4. \E sum : Folds(sum)
  <2>1. \E sum : Iterates(sum, Price, x)
    BY <1>3, IteratesExist
  <2> HIDE DEF Folds
  <2> QED BY <1>2, <2>1
<1> HIDE DEF Folds
<1>5. Folds(fold)
  BY <1>4
<1> HIDE DEF fold
<1>6. Iterates(fold, Price, x)
  BY <1>2, <1>5
<1> QED BY <1>1, <1>3, <1>6, SumIterates

Amounted == [b \in Bookings |-> booking[b].amount]

LEMMA OutstandingSum == Outstanding = SumOver(Amounted, Owed)
<1> DEFINE x == Owed
           Folds(sum) == sum = [s \in SUBSET x |->
               IF s = {} THEN 0 ELSE booking[CHOOSE y \in s : TRUE].amount + sum[s \ {CHOOSE y \in s : TRUE}]]
           fold == CHOOSE sum : Folds(sum)
<1>1. Outstanding = fold[x]
  BY DEF Outstanding, MapThenSumSet, MapThenFoldSet
<1>3. x \in SUBSET Bookings /\ IsFiniteSet(x)
  <2>1. x \in SUBSET Bookings
    BY DEF Owed
  <2> QED BY <2>1, FiniteBookings
<1> HIDE DEF x
<1>2. ASSUME NEW sum PROVE Folds(sum) <=> Iterates(sum, Amounted, x)
  <2>1. \A s \in SUBSET x : s # {} => booking[CHOOSE y \in s : TRUE].amount = Amounted[Next1(s)]
    <3>1. \A s \in SUBSET x : s # {} => Next1(s) \in Bookings
      BY Next1Is, <1>3
    <3> QED BY <3>1 DEF Amounted, Next1
  <2>2. [s \in SUBSET x |->
               IF s = {} THEN 0 ELSE booking[CHOOSE y \in s : TRUE].amount + sum[s \ {CHOOSE y \in s : TRUE}]]
      = [s \in SUBSET x |-> IF s = {} THEN 0 ELSE Amounted[Next1(s)] + sum[s \ {Next1(s)}]]
    BY <2>1 DEF Next1
  <2> QED BY <2>2 DEF Iterates
<1>4. \E sum : Folds(sum)
  <2>1. \E sum : Iterates(sum, Amounted, x)
    BY <1>3, IteratesExist
  <2> HIDE DEF Folds
  <2> QED BY <1>2, <2>1
<1> HIDE DEF Folds
<1>5. Folds(fold)
  BY <1>4
<1> HIDE DEF fold
<1>6. Iterates(fold, Amounted, x)
  BY <1>2, <1>5
<1>7. SumOver(Amounted, x) = fold[x]
  BY <1>3, <1>6, SumIterates
<1> QED BY <1>1, <1>7 DEF x

\* What the client is trusted with is outstanding.
LEMMA TrustedIsOutstanding ==
    ASSUME LimitTypes, PricesKept
    PROVE  Trusted \in Nat /\ Outstanding \in Int /\ Trusted <= Outstanding
<1> DEFINE x == Owed \intersect Plain  y == Owed
<1>1. x \in SUBSET y /\ y \in SUBSET Bookings /\ x \in SUBSET Bookings
  BY DEF Owed
<1>2. \A b \in y : Amounted[b] \in Nat /\ Price[b] \in Nat /\ Price[b] <= Amounted[b]
  BY <1>1, Amounts DEF LimitTypes, PricesKept, Rows, Amounted
<1>3. Trusted = SumOver(Price, x) /\ Outstanding = SumOver(Amounted, y)
  BY OutstandingSum DEF Trusted
<1> HIDE DEF x, y
<1>4. IsFiniteSet(x) /\ IsFiniteSet(y)
  BY <1>1, FiniteBookings
<1>5. SumOver(Price, x) <= SumOver(Amounted, x)
  <2>1. \A b \in x : Price[b] \in Int /\ Amounted[b] \in Int /\ Price[b] <= Amounted[b]
    BY <1>1, <1>2
  <2> QED BY <1>4, <2>1, SumBelow
<1>6. SumOver(Amounted, x) <= SumOver(Amounted, y) /\ SumOver(Amounted, x) \in Nat
  <2>1. \A b \in y : Amounted[b] \in Nat
    BY <1>2
  <2> QED BY <1>1, <1>4, <2>1, SumLess
<1>7. SumOver(Amounted, y) \in Int
  <2>1. \A b \in y : Amounted[b] \in Int
    BY <1>2
  <2> QED BY <1>4, <2>1, SumInt
<1>8. SumOver(Price, x) \in Nat
  <2>1. \A b \in x : Price[b] \in Nat
    BY <1>1, <1>2
  <2> QED BY <1>4, <2>1, SumLess
<1> QED BY <1>3, <1>5, <1>6, <1>7, <1>8

\* Where nothing more is owed, the client is not trusted with more.
LEMMA NoMore ==
    ASSUME (Owed \intersect Plain)' \subseteq Owed \intersect Plain
    PROVE  Trusted' <= Trusted /\ Trusted \in Nat /\ Trusted' \in Nat
<1> DEFINE x == Owed \intersect Plain  y == (Owed \intersect Plain)'
<1>1. x \in SUBSET Bookings /\ y \in SUBSET x
  BY DEF Owed
<1>2. Trusted = SumOver(Price, x) /\ Trusted' = SumOver(Price, y)
  BY DEF Trusted
<1> HIDE DEF x, y
<1>3. IsFiniteSet(x) /\ \A b \in x : Price[b] \in Nat
  BY <1>1, FiniteBookings
<1>4. SumOver(Price, y) <= SumOver(Price, x) /\ SumOver(Price, y) \in Nat
  BY <1>1, <1>3, SumLess
<1>5. SumOver(Price, x) <= SumOver(Price, x) /\ SumOver(Price, x) \in Nat
  <2>1. x \in SUBSET x
    OBVIOUS
  <2> QED BY <1>3, <2>1, SumLess
<1> QED BY <1>2, <1>4, <1>5

LEMMA StillUnder ==
    ASSUME UnderLimit, (Owed \intersect Plain)' \subseteq Owed \intersect Plain,
           \A w \in Workers : task'[w].op = "book" /\ task'[w].at = 1 => task'[w] = task[w]
    PROVE  UnderLimit'
<1>1. Trusted' <= Trusted /\ Trusted \in Nat /\ Trusted' \in Nat
  BY NoMore
<1>2. \A w \in Workers : task'[w].op = "book" /\ task'[w].at = 1 => Trusted' < CreditLimit
  BY <1>1, Amounts DEF UnderLimit
<1>3. PICK b \in Bookings : Trusted < CreditLimit + Price[b]
  BY DEF UnderLimit
<1>4. Trusted' < CreditLimit + Price[b]
  <2>1. Price[b] \in Nat /\ CreditLimit \in Nat
    BY Amounts
  <2> QED BY <1>1, <1>3, <2>1
<1> QED BY <1>2, <1>4 DEF UnderLimit

\* One row is written.
LEMMA RowWritten ==
    ASSUME booking \in [Bookings -> Rows], NEW b \in Bookings, NEW r \in Rows,
           booking' = [booking EXCEPT ![b] = r]
    PROVE  /\ booking' \in [Bookings -> Rows] /\ booking'[b] = r
           /\ \A x \in Bookings : x # b => booking'[x] = booking[x]
OBVIOUS

\* What a handler's step may do to a row, and to the tasks.
RowMoves(b) ==
    /\ booking'[b].amount >= Price[b]
    /\ booking[b].status # "none" => booking'[b].status # "none"
    /\ Postpaid /\ booking'[b].status # "none" =>
          booking'[b].pay # "pending" /\ (booking'[b].pay = "refunded" => b \in dropped')
NotOwedAgain(b) == Postpaid /\ b \in (Owed \intersect Plain)' => b \in Owed \intersect Plain

TasksMove ==
    \A v \in Workers :
        \/ task'[v] = task[v] \/ task'[v] = Idle
        \/ /\ task'[v].op = task[v].op /\ task'[v].b = task[v].b /\ task'[v].to = task[v].to
           /\ task'[v].n = task[v].n /\ task'[v].at = task[v].at + 1 /\ task[v].at \in 1..3

LEMMA RowsFollow ==
    ASSUME LimitInv, TasksOK', booking' \in [Bookings -> Rows], UNCHANGED <<plan, switches, billing, mixed>>,
           dropped \subseteq dropped', TasksMove, \A b \in Bookings : RowMoves(b)
    PROVE  LimitTypes' /\ PricesKept' /\ (Postpaid => OnAccount')
<1> USE DEF LimitInv
<1>1. LimitTypes'
  BY DEF LimitTypes
<1>2. \A v \in Workers : \/ task'[v].op = "none"
                         \/ /\ task'[v].op = task[v].op /\ task'[v].b = task[v].b
                            /\ task'[v].to = task[v].to /\ task'[v].n = task[v].n
  BY DEF TasksMove, Idle
<1>3. \A v \in Workers : task[v].op = "deliver" => task[v].b \in Bookings
  BY DEF LimitTypes, TasksOK, Tasks, Idle
<1>4. PricesKept'
  BY <1>2, <1>3 DEF PricesKept, RowMoves
<1>5. Plain' \subseteq Plain
  BY DEF Plain
<1>6. Postpaid => OnAccount'
  BY <1>2, <1>5 DEF OnAccount, RowMoves
<1> QED BY <1>1, <1>4, <1>6

LEMMA LimitFollows ==
    ASSUME LimitInv, TasksOK', booking' \in [Bookings -> Rows], UNCHANGED <<plan, switches, billing, mixed>>,
           dropped \subseteq dropped', TasksMove, \A b \in Bookings : RowMoves(b) /\ NotOwedAgain(b)
    PROVE  LimitInv'
<1>1. LimitTypes' /\ PricesKept' /\ (Postpaid => OnAccount')
  BY RowsFollow
<1>2. Postpaid => UnderLimit'
  <2> SUFFICES ASSUME Postpaid PROVE UnderLimit'
    OBVIOUS
  <2>1. (Owed \intersect Plain)' \subseteq Owed \intersect Plain
    BY DEF NotOwedAgain, Owed
  <2>2. ASSUME NEW v \in Workers, task'[v].op = "book", task'[v].at = 1 PROVE task'[v] = task[v]
    BY <2>2 DEF TasksMove, Idle
  <2> QED BY <2>1, <2>2, StillUnder DEF LimitInv
<1>3. Postpaid' <=> Postpaid
  BY DEF Postpaid
<1> QED BY <1>1, <1>2, <1>3 DEF LimitInv

\* A step that writes no row.
LEMMA RowsRest ==
    ASSUME LimitInv, UNCHANGED <<booking, mixed, dropped>>
    PROVE  booking' \in [Bookings -> Rows] /\ \A b \in Bookings : RowMoves(b) /\ NotOwedAgain(b)
<1>1. Owed' = Owed /\ Plain' = Plain
  BY DEF Owed, Plain
<1> QED BY <1>1 DEF LimitInv, LimitTypes, PricesKept, OnAccount, RowMoves, NotOwedAgain

\* A step of a worker that goes on or ends.
LEMMA OneMoves ==
    ASSUME TasksOK, plan' = plan, NEW w \in Workers, NEW p, At(w, p), GoesOn(w) \/ Ends(w)
    PROVE  TasksOK' /\ TasksMove
<1>1. task[w].at \in 1..3
  BY DEF TasksOK, At, Tasks
<1> QED BY <1>1, Onward DEF TasksMove

LEMMA LimitRests ==
    ASSUME LimitInv, NEW w \in Workers, Recheck(w) \/ Debit(w) \/ Credit(w) \/ ClearOrder(w)
    PROVE  LimitInv'
<1>1. /\ UNCHANGED <<plan, booking, billing, mixed, dropped, switches>>
      /\ \E p \in {"recheck", "debit", "credit", "clear"} : At(w, p)
      /\ GoesOn(w) \/ Ends(w)
  BY DEF Recheck, Debit, Credit, ClearOrder, history
<1>2. TasksOK' /\ TasksMove
  BY <1>1, OneMoves DEF LimitInv, LimitTypes
<1> QED BY <1>1, <1>2, RowsRest, LimitFollows

LEMMA LimitRecord ==
    ASSUME LimitInv, NEW w \in Workers, Record(w)
    PROVE  LimitInv'
<1> USE DEF LimitInv, LimitTypes
<1>1. /\ At(w, "record") /\ GoesOn(w) /\ task[w] \in Tasks /\ task[w].op \in {"pay", "mark", "collect", "fromWallet"}
      /\ UNCHANGED <<plan, billing, mixed, dropped, switches>> /\ Fits(task[w])
  BY Phases DEF Record, history, TasksOK
<1> PICK b \in Bookings : b = task[w].b
  BY <1>1 DEF Tasks
<1> PICK to \in Payment : to = task[w].to
  BY <1>1 DEF Tasks
<1>2. to \in {"paid", "partial", "to_be_billed"} /\ (to = "to_be_billed" => task[w].op = "mark")
  BY <1>1 DEF Fits, Closed
<1> DEFINE r == [booking[b] EXCEPT !.pay = to]
<1>3. r \in Rows /\ r.pay = to /\ r.status = booking[b].status /\ r.amount = booking[b].amount
  BY DEF Rows
<1>4. booking' = [booking EXCEPT ![b] = r]
  BY DEF Record
<1> HIDE DEF r
<1>5. /\ booking' \in [Bookings -> Rows] /\ booking'[b] = r
      /\ \A x \in Bookings : x # b => booking'[x] = booking[x]
  BY <1>3, <1>4, RowWritten
<1>6. TasksOK' /\ TasksMove
  BY <1>1, OneMoves
<1>7. Plain' = Plain
  BY <1>1 DEF Plain
<1>8. \A x \in Bookings : RowMoves(x)
  BY <1>1, <1>2, <1>3, <1>5 DEF RowMoves, PricesKept, OnAccount
<1>9. ASSUME NEW x \in Bookings PROVE NotOwedAgain(x)
  <2>1. CASE x # b
    BY <1>5, <1>7, <2>1 DEF NotOwedAgain, Owed
  <2>2. CASE x = b /\ to # "to_be_billed"
    BY <1>2, <1>3, <1>5, <2>2 DEF NotOwedAgain, Owed
  <2>3. CASE x = b /\ to = "to_be_billed"
    BY <1>2, <1>7, <2>3 DEF NotOwedAgain, OnAccount
  <2> QED BY <2>1, <2>2, <2>3
<1> QED BY <1>1, <1>5, <1>6, <1>8, <1>9, LimitFollows

LEMMA LimitCancel ==
    ASSUME LimitInv, NEW w \in Workers, CancelBooking(w)
    PROVE  LimitInv'
<1> USE DEF LimitInv, LimitTypes
<1>1. /\ At(w, "cancel") /\ GoesOn(w) /\ task[w] \in Tasks /\ task[w].op = "cancel"
      /\ UNCHANGED <<plan, billing, mixed, switches>>
  BY Phases DEF CancelBooking
<1> PICK b \in Bookings : b = task[w].b
  BY <1>1 DEF Tasks
<1> PICK to \in Payment : to = task[w].to
  BY <1>1 DEF Tasks
<1> DEFINE r == [booking[b] EXCEPT !.status = "cancelled", !.pay = to]
<1>2. r \in Rows /\ r.pay = to /\ r.status = "cancelled" /\ r.amount = booking[b].amount
  BY DEF Rows
<1>3. booking' = [booking EXCEPT ![b] = r] /\ dropped' = dropped \union {b}
  BY DEF CancelBooking
<1> HIDE DEF r
<1>4. /\ booking' \in [Bookings -> Rows] /\ booking'[b] = r
      /\ \A x \in Bookings : x # b => booking'[x] = booking[x]
  BY <1>2, <1>3, RowWritten
<1>5. TasksOK' /\ TasksMove
  BY <1>1, OneMoves
<1>6. \A x \in Bookings : RowMoves(x)
  BY <1>1, <1>2, <1>3, <1>4 DEF RowMoves, PricesKept, OnAccount
<1>7. \A x \in Bookings : NotOwedAgain(x)
  BY <1>1, <1>3, <1>4 DEF NotOwedAgain, Owed, Plain
<1> QED BY <1>1, <1>3, <1>4, <1>5, <1>6, <1>7, LimitFollows

LEMMA LimitDeliver ==
    ASSUME LimitInv, NEW w \in Workers, Deliver(w)
    PROVE  LimitInv'
<1> USE DEF LimitInv, LimitTypes
<1>1. /\ At(w, "deliver") /\ GoesOn(w) /\ task[w] \in Tasks /\ task[w].op = "deliver"
      /\ UNCHANGED <<plan, billing, mixed, dropped, switches>>
  BY Phases DEF Deliver, history
<1> PICK b \in Bookings : b = task[w].b
  BY <1>1 DEF Tasks
<1> PICK n \in Nat : n = task[w].n
  BY <1>1 DEF Tasks
<1>2. n >= Price[b] /\ booking[b].status # "none" /\ n + Overage \in Nat /\ n + Overage >= Price[b]
  BY <1>1, Amounts DEF PricesKept
<1> DEFINE plain   == [booking[b] EXCEPT !.status = "delivered"]
           charged == [booking[b] EXCEPT !.status = "delivered", !.amount = n + Overage,
                                         !.pay = IF task[w].to = "paid" THEN "partial" ELSE booking[b].pay]
<1>3. \E r \in {plain, charged} : booking' = [booking EXCEPT ![b] = r]
  BY DEF Deliver
<1>4. \A r \in {plain, charged} : /\ r \in Rows /\ r.status = "delivered" /\ r.amount >= Price[b]
                                  /\ r.pay = booking[b].pay \/ r.pay = "partial"
  <2>1. booking[b] \in Rows /\ booking[b].amount >= Price[b]
    BY DEF PricesKept
  <2>2. /\ plain \in Rows /\ plain.status = "delivered" /\ plain.amount >= Price[b] /\ plain.pay = booking[b].pay
    BY <2>1 DEF Rows
  <2>3. /\ charged \in Rows /\ charged.status = "delivered" /\ charged.amount >= Price[b]
        /\ charged.pay = booking[b].pay \/ charged.pay = "partial"
    BY <1>2, <2>1 DEF Rows, Payment
  <2> QED BY <2>2, <2>3
<1> HIDE DEF plain, charged
<1>5. PICK r \in Rows : /\ booking' = [booking EXCEPT ![b] = r] /\ r.status = "delivered" /\ r.amount >= Price[b]
                        /\ r.pay = booking[b].pay \/ r.pay = "partial"
  BY <1>3, <1>4
<1>6. /\ booking' \in [Bookings -> Rows] /\ booking'[b] = r
      /\ \A x \in Bookings : x # b => booking'[x] = booking[x]
  BY <1>5, RowWritten
<1>7. TasksOK' /\ TasksMove
  BY <1>1, OneMoves
<1>8. \A x \in Bookings : RowMoves(x)
  BY <1>1, <1>2, <1>5, <1>6 DEF RowMoves, PricesKept, OnAccount
<1>9. \A x \in Bookings : NotOwedAgain(x)
  BY <1>1, <1>2, <1>5, <1>6 DEF NotOwedAgain, Owed, Plain
<1> QED BY <1>1, <1>6, <1>7, <1>8, <1>9, LimitFollows

\* Bills are made of what is owed, and paid.
LEMMA RowsSettle ==
    ASSUME LimitInv, UNCHANGED <<mixed, dropped>>,
           \/ Generate \/ UNCHANGED <<booking, bills>> \/ \E S : booking' = MarkPaid(S)
    PROVE  booking' \in [Bookings -> Rows] /\ \A b \in Bookings : RowMoves(b) /\ NotOwedAgain(b)
<1> USE DEF LimitInv, LimitTypes
<1>1. CASE booking' = booking
  BY <1>1, RowsRest
<1>2. CASE booking' # booking
  <2>1. PICK to \in {"billed", "paid"} : \E S :
            /\ booking' = [b \in Bookings |-> IF b \in S THEN [booking[b] EXCEPT !.pay = to] ELSE booking[b]]
            /\ to = "billed" => \A b \in S : booking[b].pay = "to_be_billed"
    BY <1>2 DEF Generate, MarkPaid, ToBill
  <2>2. \A b \in Bookings :
            /\ booking'[b] \in Rows /\ booking'[b].amount = booking[b].amount /\ booking'[b].status = booking[b].status
            /\ \/ booking'[b].pay = booking[b].pay \/ booking'[b].pay = "paid"
               \/ booking'[b].pay = "billed" /\ booking[b].pay = "to_be_billed"
    BY <2>1 DEF Rows, Payment
  <2>3. booking' \in [Bookings -> Rows]
    BY <2>1, <2>2
  <2>4. \A b \in Bookings : RowMoves(b) /\ NotOwedAgain(b)
    BY <2>2 DEF RowMoves, NotOwedAgain, PricesKept, OnAccount, Owed, Plain
  <2> QED BY <2>3, <2>4
<1> QED BY <1>1, <1>2

LEMMA LimitBills ==
    ASSUME LimitInv, (\E w \in Workers : BillAtLimit(w)) \/ BillMonthly \/ \E i \in DOMAIN bills : PayBill(i)
    PROVE  LimitInv'
<1>1. /\ UNCHANGED <<plan, billing, mixed, dropped, switches>>
      /\ \/ Generate \/ UNCHANGED <<booking, bills>> \/ \E S : booking' = MarkPaid(S)
      /\ \/ task' = task
         \/ \E w \in Workers : At(w, "generate") /\ GoesOn(w)
  BY DEF BillAtLimit, BillMonthly, PayBill, history
<1>2. TasksOK' /\ TasksMove
  <2>1. CASE task' = task
    BY <1>1, <2>1 DEF LimitInv, LimitTypes, TasksOK, TasksMove, Fits
  <2>2. CASE \E w \in Workers : At(w, "generate") /\ GoesOn(w)
    BY <1>1, <2>2, OneMoves DEF LimitInv, LimitTypes
  <2> QED BY <1>1, <2>1, <2>2
<1> QED BY <1>1, <1>2, RowsSettle, LimitFollows

\* OpenOrder, Capture, ListClient, Restart and SetBillingType.
LEMMA LimitOutside ==
    ASSUME LimitInv,
           \/ (\E o \in Orders : OpenOrder(o) \/ Capture(o)) \/ ListClient \/ Restart \/ UNCHANGED vars
           \/ SetBillingType
    PROVE  LimitInv'
<1>1. UNCHANGED <<plan, booking, mixed, dropped>> /\ (task' = task \/ task' = [w \in Workers |-> Idle])
  BY DEF OpenOrder, Capture, ListClient, Restart, SetBillingType, vars, history
<1>2. TasksOK' /\ TasksMove
  <2>1. CASE task' = task
    BY <1>1, <2>1 DEF LimitInv, LimitTypes, TasksOK, TasksMove, Fits
  <2>2. CASE task' = [w \in Workers |-> Idle]
    BY <2>2 DEF TasksOK, TasksMove
  <2> QED BY <1>1, <2>1, <2>2
<1>3. CASE ~SetBillingType
  <2>1. UNCHANGED <<billing, switches>>
    BY <1>3 DEF OpenOrder, Capture, ListClient, Restart, vars, history
  <2> QED BY <1>1, <1>2, <2>1, RowsRest, LimitFollows
<1>4. CASE SetBillingType
  <2>1. switches' \in Nat /\ ~Postpaid'
    BY <1>4 DEF SetBillingType, LimitInv, LimitTypes, Postpaid
  <2>2. task' = task
    BY <1>4 DEF SetBillingType
  <2> QED BY <1>1, <1>2, <2>1, <2>2 DEF LimitInv, LimitTypes, PricesKept
<1> QED BY <1>3, <1>4

LEMMA LimitInsert ==
    ASSUME OneBooker, LimitInv, NEW w \in Workers, InsertBooking(w)
    PROVE  LimitInv'
<1> USE DEF LimitInv, LimitTypes
<1>1. /\ At(w, "insert") /\ (GoesOn(w) \/ Ends(w)) /\ task[w] \in Tasks /\ task[w].op = "book" /\ task[w].at = 1
      /\ UNCHANGED <<plan, billing, mixed, dropped, switches>> /\ "book" \in plan.duties[w]
  BY Phases DEF InsertBooking, history, TasksOK
<1> PICK b \in Bookings : b = task[w].b
  BY <1>1 DEF Tasks
<1> PICK to \in Payment : to = task[w].to
  BY <1>1 DEF Tasks
<1> DEFINE r == [booking[b] EXCEPT !.status = "open", !.pay = to]
<1>2. r \in Rows /\ r.pay = to /\ r.status = "open" /\ r.amount = booking[b].amount
  BY DEF Rows
<1>3. booking' = [booking EXCEPT ![b] = r]
  BY DEF InsertBooking
<1> HIDE DEF r
<1>4. /\ booking' \in [Bookings -> Rows] /\ booking'[b] = r
      /\ \A x \in Bookings : x # b => booking'[x] = booking[x]
  BY <1>2, <1>3, RowWritten
<1>5. TasksOK' /\ TasksMove
  BY <1>1, OneMoves
<1>6. \A x \in Bookings : RowMoves(x)
  BY <1>1, <1>2, <1>4 DEF RowMoves, PricesKept, OnAccount
<1>7. LimitTypes' /\ PricesKept' /\ (Postpaid => OnAccount')
  BY <1>1, <1>4, <1>5, <1>6, RowsFollow
<1>8. ASSUME NEW v \in Workers, task'[v].op = "book" PROVE task'[v].at # 1
  <2>1. /\ task[v].op = "book"
        /\ task'[v] = task[v] \/ (task'[v].at = task[v].at + 1 /\ task[v].at \in 1..3)
    BY <1>5, <1>8 DEF TasksMove, Idle
  <2>2. task[v] # Idle
    BY <2>1 DEF Idle
  <2>3. v = w
    BY <1>1, <2>1, <2>2 DEF OneBooker, TasksOK
  <2>4. task'[w] = Idle \/ task'[w].at = task[w].at + 1
    BY <1>1, Onward
  <2>5. task'[w].at = 2
    BY <1>1, <1>8, <2>3, <2>4 DEF Idle
  <2> QED BY <2>3, <2>5
<1>9. ASSUME Postpaid PROVE Trusted' < CreditLimit + Price[b]
  <2> DEFINE x == (Owed \intersect Plain)'  y == Owed \intersect Plain
  <2>1. x \subseteq y \union {b} /\ x \in SUBSET Bookings /\ y \in SUBSET Bookings
    BY <1>1, <1>4 DEF Owed, Plain
  <2>2. Trusted' = SumOver(Price, x) /\ Trusted = SumOver(Price, y) /\ Trusted < CreditLimit
    BY <1>1, <1>9 DEF Trusted, UnderLimit
  <2> HIDE DEF x, y
  <2> DEFINE z == x \ {b}
  <2>3. /\ IsFiniteSet(x) /\ IsFiniteSet(y) /\ z \in SUBSET y /\ Price[b] \in Nat /\ CreditLimit \in Nat
        /\ \A a \in Bookings : Price[a] \in Nat
    BY <2>1, FiniteBookings, Amounts
  <2>4. SumOver(Price, z) <= SumOver(Price, y) /\ SumOver(Price, z) \in Nat
    BY <2>1, <2>3, SumLess
  <2>5. SumOver(Price, y) \in Int
    <3>1. \A a \in y : Price[a] \in Int
      BY <2>1, <2>3
    <3> QED BY <2>3, <3>1, SumInt
  <2>6. SumOver(Price, x) = Price[b] + SumOver(Price, z) \/ SumOver(Price, x) = SumOver(Price, z)
    <3>1. CASE b \in x
      <4>1. \A a \in x : Price[a] \in Int
        BY <2>1, <2>3
      <4> QED BY <2>3, <3>1, <4>1, SumAny
    <3>2. CASE b \notin x
      <4>1. z = x
        BY <3>2
      <4> QED BY <4>1
    <3> QED BY <3>1, <3>2
  <2> HIDE DEF z
  <2> QED BY <2>2, <2>3, <2>4, <2>5, <2>6
<1>10. Postpaid' <=> Postpaid
  BY <1>1 DEF Postpaid
<1> QED BY <1>7, <1>8, <1>9, <1>10 DEF UnderLimit

\* A handler that begins has read the limit, or a row that is there.
LEMMA LimitBegin ==
    ASSUME LimitInv, NEW w \in Workers, NEW op \in Ops, NEW b \in Bookings, NEW to \in Payment, NEW n \in Nat,
           Begin(w, op, b, to, n), Fits([op |-> op, at |-> 1, b |-> b, to |-> to, n |-> n]),
           op = "deliver" => n >= Price[b] /\ booking[b].status # "none",
           Postpaid => /\ op = "book" => to = "to_be_billed" /\ Trusted < CreditLimit
                       /\ op = "cancel" => to # "pending"
                       /\ op = "mark" => b \in Owed \union dropped
    PROVE  LimitInv'
<1> USE DEF LimitInv, LimitTypes
<1> DEFINE k == [op |-> op, at |-> 1, b |-> b, to |-> to, n |-> n]
<1>1. /\ task[w] = Idle /\ op \in plan.duties[w] /\ task' = [task EXCEPT ![w] = k]
      /\ UNCHANGED <<plan, booking, billing, dropped, switches>>
      /\ mixed \subseteq mixed' /\ (op = "mark" /\ b \in Owed => b \in mixed')
  BY DEF Begin, WaysToPay
<1>2. k \in Tasks /\ k # Idle /\ k.at \in DOMAIN Flow[k.op]
  BY DEF Tasks, Idle, Ops, Flow
<1>3. task'[w] = k /\ \A v \in Workers : v # w => task'[v] = task[v]
  BY <1>1 DEF TasksOK
<1>4. k.op = op /\ k.at = 1 /\ k.b = b /\ k.n = n /\ k.to = to /\ Fits(k)
  OBVIOUS
<1> HIDE DEF k
<1>5. TasksOK'
  <2>1. task' \in [Workers -> Tasks \union {Idle}]
    BY <1>1, <1>2 DEF TasksOK
  <2>2. Fits(task[w])'
    BY <1>3, <1>4 DEF Fits
  <2> QED BY <1>1, <1>2, <1>3, <1>4, <2>1, <2>2 DEF TasksOK, Fits
<1>6. PricesKept'
  BY <1>1, <1>3, <1>4 DEF PricesKept
<1>7. (Postpaid' <=> Postpaid) /\ Owed' = Owed /\ Plain' \subseteq Plain
  BY <1>1 DEF Postpaid, Owed, Plain
<1>8. Postpaid => OnAccount'
  <2> SUFFICES ASSUME Postpaid PROVE OnAccount'
    OBVIOUS
  <2>1. op = "mark" => b \notin Plain'
    BY <1>1 DEF Plain
  <2>2. ASSUME NEW v \in Workers
        PROVE  /\ task'[v].op = "book"   => task'[v].to = "to_be_billed"
               /\ task'[v].op = "cancel" => task'[v].to # "pending"
               /\ task'[v].op = "mark"   => task'[v].b \notin Plain'
    <3>1. CASE v = w
      BY <1>3, <1>4, <2>1, <3>1
    <3>2. CASE v # w
      BY <1>3, <1>7, <3>2 DEF OnAccount
    <3> QED BY <3>1, <3>2
  <2> QED BY <1>1, <2>2 DEF OnAccount
<1>9. Postpaid => UnderLimit'
  <2> SUFFICES ASSUME Postpaid PROVE UnderLimit'
    OBVIOUS
  <2>1. (Owed \intersect Plain)' \subseteq Owed \intersect Plain
    BY <1>7
  <2>2. Trusted' <= Trusted /\ Trusted \in Nat /\ Trusted' \in Nat
    BY <2>1, NoMore
  <2>3. \A v \in Workers : task'[v].op = "book" /\ task'[v].at = 1 => Trusted < CreditLimit
    BY <1>3, <1>4 DEF UnderLimit
  <2>4. PICK x \in Bookings : Trusted < CreditLimit + Price[x]
    BY DEF UnderLimit
  <2>5. Trusted' < CreditLimit + Price[x] /\ (Trusted < CreditLimit => Trusted' < CreditLimit)
    <3>1. Price[x] \in Nat /\ CreditLimit \in Nat
      BY Amounts
    <3> QED BY <2>2, <2>4, <3>1
  <2> QED BY <2>3, <2>5 DEF UnderLimit
<1> QED BY <1>1, <1>5, <1>6, <1>7, <1>8, <1>9

LEMMA LimitRequest ==
    ASSUME LimitInv, NEW w \in Workers, Requests(w)
    PROVE  LimitInv'
<1> USE DEF LimitInv, LimitTypes
<1>1. \A b \in Bookings : booking[b] \in Rows /\ booking[b].pay \in Payment /\ booking[b].amount \in Nat
  BY DEF Rows
<1>2. ASSUME NEW b \in Bookings, BookRequest(w, b) PROVE LimitInv'
  <2> DEFINE to == IF billing = "postpaid" THEN "to_be_billed" ELSE "pending"
  <2>1. Begin(w, "book", b, to, 0) /\ (Postpaid => Outstanding < CreditLimit)
    BY <1>2 DEF BookRequest, WithinLimit, Postpaid
  <2>2. to \in {"pending", "to_be_billed"} /\ to \in Payment /\ (Postpaid => to = "to_be_billed")
    BY DEF Payment, Postpaid
  <2>3. Postpaid => Trusted < CreditLimit
    BY <2>1, TrustedIsOutstanding, Amounts
  <2> HIDE DEF to
  <2>4. "book" \in Ops /\ 0 \in Nat /\ Fits([op |-> "book", at |-> 1, b |-> b, to |-> to, n |-> 0])
    BY <2>2 DEF Ops, Fits
  <2> QED BY <2>1, <2>2, <2>3, <2>4, LimitBegin
<1>3. ASSUME NEW b \in Bookings, PayRequest(w, b) PROVE LimitInv'
  <2>1. PICK n \in Takes(b), to \in Closed : Begin(w, "pay", b, to, 0) \/ Begin(w, "fromWallet", b, to, n)
    BY <1>3 DEF PayRequest, Closed
  <2>2. n \in Nat /\ to \in Payment /\ 0 \in Nat /\ "pay" \in Ops /\ "fromWallet" \in Ops
    BY <1>1, Amounts DEF Takes, Closed, Payment, Ops
  <2>3. /\ Fits([op |-> "pay", at |-> 1, b |-> b, to |-> to, n |-> 0])
        /\ Fits([op |-> "fromWallet", at |-> 1, b |-> b, to |-> to, n |-> n])
    BY DEF Fits
  <2> QED BY <2>1, <2>2, <2>3, LimitBegin
<1>4. ASSUME NEW b \in Bookings, MarkRequest(w, b) PROVE LimitInv'
  <2>1. Begin(w, "mark", b, "to_be_billed", 0) /\ Payable(b) /\ booking[b].pay # "to_be_billed"
    BY <1>4 DEF MarkRequest
  <2>2. Postpaid => b \in Owed \union dropped
    BY <1>1, <2>1 DEF Payable, Payment, OnAccount, Owed
  <2>3. "mark" \in Ops /\ 0 \in Nat /\ "to_be_billed" \in Payment
        /\ Fits([op |-> "mark", at |-> 1, b |-> b, to |-> "to_be_billed", n |-> 0])
    BY DEF Ops, Payment, Fits
  <2> QED BY <2>1, <2>2, <2>3, LimitBegin
<1>5. ASSUME NEW b \in Bookings, CancelRequest(w, b) PROVE LimitInv'
  <2> DEFINE to == IF booking[b].pay = "paid" THEN "refunded" ELSE booking[b].pay
  <2>1. Begin(w, "cancel", b, to, 0) /\ booking[b].status = "open"
    BY <1>5 DEF CancelRequest
  <2>2. to \in Payment /\ (Postpaid => to # "pending")
    BY <1>1, <2>1 DEF Payment, OnAccount
  <2> HIDE DEF to
  <2>3. "cancel" \in Ops /\ 0 \in Nat /\ Fits([op |-> "cancel", at |-> 1, b |-> b, to |-> to, n |-> 0])
    BY DEF Ops, Fits
  <2> QED BY <2>1, <2>2, <2>3, LimitBegin
<1>6. ASSUME NEW b \in Bookings, CollectRequest(w, b) PROVE LimitInv'
  <2>1. Begin(w, "collect", b, "paid", 0)
    BY <1>6 DEF CollectRequest
  <2>2. "collect" \in Ops /\ 0 \in Nat /\ "paid" \in Payment
        /\ Fits([op |-> "collect", at |-> 1, b |-> b, to |-> "paid", n |-> 0])
    BY DEF Ops, Payment, Fits, Closed
  <2> QED BY <2>1, <2>2, LimitBegin
<1>7. ASSUME NEW b \in Bookings, DeliverRequest(w, b) PROVE LimitInv'
  <2> DEFINE to == booking[b].pay  n == booking[b].amount
  <2>1. Begin(w, "deliver", b, to, n) /\ booking[b].status = "open"
    BY <1>7 DEF DeliverRequest
  <2>2. to \in Payment /\ n \in Nat /\ n >= Price[b]
    BY <1>1 DEF PricesKept
  <2> HIDE DEF to, n
  <2>3. "deliver" \in Ops /\ Fits([op |-> "deliver", at |-> 1, b |-> b, to |-> to, n |-> n])
    BY DEF Ops, Fits
  <2> QED BY <2>1, <2>2, <2>3, LimitBegin
<1>8. ASSUME NEW o \in Orders, RechargeRequest(w, o) PROVE LimitInv'
  <2> DEFINE b == CHOOSE b \in Bookings : TRUE
  <2>1. Begin(w, "recharge", b, "pending", o) /\ b \in Bookings
    BY <1>8, SomeBookings DEF RechargeRequest
  <2> HIDE DEF b
  <2>2. "recharge" \in Ops /\ o \in Nat /\ "pending" \in Payment
        /\ Fits([op |-> "recharge", at |-> 1, b |-> b, to |-> "pending", n |-> o])
    BY Bounds DEF Ops, Payment, Fits, Orders
  <2> QED BY <2>1, <2>2, LimitBegin
<1> QED BY <1>2, <1>3, <1>4, <1>5, <1>6, <1>7, <1>8 DEF Requests

LEMMA LimitInit == Init => LimitInv
<1> SUFFICES ASSUME Init PROVE LimitInv
  OBVIOUS
<1> USE DEF Init
<1>1. LimitTypes
  BY Amounts DEF LimitTypes, TasksOK, Rows, Payment
<1>2. PricesKept
  BY Amounts DEF PricesKept, Idle
<1>3. OnAccount
  BY DEF OnAccount, Idle
<1>4. UnderLimit
  <2>1. Owed \intersect Plain = {}
    BY DEF Owed
  <2>2. Trusted = 0
    BY <2>1, SumEmpty DEF Trusted
  <2>3. PICK b \in Bookings : TRUE
    BY SomeBookings
  <2>4. 0 < CreditLimit + Price[b]
    BY Amounts
  <2> QED BY <2>2, <2>4 DEF UnderLimit, Idle
<1> QED BY <1>1, <1>2, <1>3, <1>4 DEF LimitInv

LEMMA LimitStep ==
    ASSUME OneBooker, LimitInv, [Next]_vars
    PROVE  LimitInv'
<1>1. ASSUME NEW w \in Workers, Steps(w) PROVE LimitInv'
  BY <1>1, LimitInsert, LimitRests, LimitRecord, LimitCancel, LimitDeliver, LimitBills DEF Steps
<1>2. ASSUME NEW w \in Workers, Requests(w) PROVE LimitInv'
  BY <1>2, LimitRequest
<1> QED BY <1>1, <1>2, LimitBills, LimitOutside DEF Next

LEMMA LimitHolds == LimitInv => ExposureBounded
<1> SUFFICES ASSUME LimitInv, switches = 0, billing = "postpaid",
                    NEW b \in Bookings, Trusted < CreditLimit + Price[b]
             PROVE  ExposureBounded
  BY DEF LimitInv, Postpaid, UnderLimit, ExposureBounded
<1>1. Owed \intersect Plain \in SUBSET Bookings
  BY DEF Owed
<1>2. MapThenSumSet(LAMBDA x : Price[x], Owed \intersect Plain) = Trusted
  BY <1>1, PricesSum DEF Trusted
<1> QED BY <1>2 DEF ExposureBounded

\* A postpaid client who makes one booking at a time is never trusted with more than one booking
\* beyond the limit, for any number of bookings, prices, devices, bills, deliveries that cost more
\* and restarts: whoever is about to insert a booking has seen that the limit is not reached, and
\* what is owed meanwhile only shrinks (the check before BookingModel.create).
THEOREM WithinCredit == ASSUME OneBooker PROVE Spec => []ExposureBounded
<1>1. Init => LimitInv
  BY LimitInit
<1>2. LimitInv /\ [Next]_vars => LimitInv'
  BY LimitStep
<1>3. LimitInv => ExposureBounded
  BY LimitHolds
<1> QED BY <1>1, <1>2, <1>3, PTL DEF Spec
=============================================================================
