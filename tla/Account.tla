---------------------------------- MODULE Account ----------------------------------
(***************************************************************************)
(* One client's money: the wallet and its recharges, what is paid for each *)
(* booking and how, and the postpaid account with its credit limit and its *)
(* bills.  The three share the column bookings.payment_status.             *)
(*                                                                         *)
(* As in Settlement a handler is a task of a worker and each `await` that  *)
(* matters is one phase.  The wallet's debit and credit and the two bill   *)
(* functions are transactions, so each is one step.  A trip with its       *)
(* delivery charges is Settlement; here a delivery is the one step that    *)
(* may raise the amount.                                                   *)
(*                                                                         *)
(* A definition marked "Bug:" is no part of the model: it is the one after *)
(* it with a plausible mistake, put in its place to see a property fail.   *)
(***************************************************************************)
EXTENDS Integers, Sequences, FiniteSets, FiniteSetsExt

CONSTANTS
    Bookings,
    Price,                   \* amount of each booking when it is made
    Advance,                 \* PricingModel.computeAdvanceAmount: a flat tier
    Overage,                 \* delivery charges
    CreditLimit,             \* users.credit_limit
    TopUp,                   \* amount of a recharge order
    Workers,
    Plans,                   \* which handlers each worker runs, and two bounds:
                             \* changes of billing_type and restarts of the server
    MaxOrders,               \* bound: recharge orders
    MaxBills                 \* bound: bills

Ops     == {"book", "pay", "fromWallet", "mark", "cancel", "collect", "deliver", "recharge"}
Orders  == 1..MaxOrders

ASSUME Amounts == /\ Price \in [Bookings -> Nat \ {0}] /\ Advance \in Nat
                  /\ Overage \in Nat /\ CreditLimit \in Nat /\ TopUp \in Nat
ASSUME Bounds  == /\ MaxOrders \in Nat /\ MaxBills \in Nat
                  /\ \A p \in Plans : /\ p.duties \in [Workers -> SUBSET Ops]
                                      /\ p.switches \in Nat /\ p.restarts \in Nat
ASSUME SomeBookings == IsFiniteSet(Bookings) /\ Bookings # {}

VARIABLES
    plan,          \* the plan followed, chosen at the start
    booking,       \* bookings: status, amount, payment_status
    billing,       \* users.billing_type
    wallet,        \* wallets: balance and the pending recharge order, 0 for NULL
    bills,         \* postpaid_bills with their items
    listed,        \* the monthly sweep has listed this client
    task,          \* the handler each worker runs
    captured,      \* the gateway: recharge orders that have been paid
    credited,      \* history: how often each recharge order was credited
    debits,        \* history: how often each booking was taken from the wallet
    mixed,         \* history: bookings paid for in two ways
    dropped,       \* history: bookings that cancelBooking has written
    switches, restarts

history == <<credited, debits, mixed, dropped, switches, restarts>>
vars    == <<plan, booking, billing, wallet, bills, listed, task, captured, history>>

Payment == {"pending", "partial", "paid", "refunded", "to_be_billed", "billed"}

\* The awaits of each handler that follow its first read and checks, in order.
Flow == [
    book |-> <<"insert", "recheck", "generate">>, pay |-> <<"record">>,
    fromWallet |-> <<"debit", "record">>, mark |-> <<"record">>, cancel |-> <<"cancel">>,
    collect |-> <<"record">>, deliver |-> <<"deliver">>, recharge |-> <<"credit", "clear">>]

\* to: the payment_status to write, or the one a delivery has read.
\* n: what to take from the wallet, the amount a delivery has read, or an order.
Idle  == [op |-> "none", at |-> 0]
Tasks == [op : Ops, at : 1..3, b : Bookings, to : Payment, n : Nat]

TypeOK ==
    /\ plan \in Plans
    /\ booking \in [Bookings -> [status : {"none", "open", "delivered", "cancelled"},
                                 amount : Nat, pay : Payment]]
    /\ billing \in {"prepaid", "postpaid"} /\ listed \in BOOLEAN
    /\ wallet \in [balance : Int, order : 0..MaxOrders]
    /\ bills \in Seq([items : SUBSET Bookings, status : {"pending", "paid"}])
    /\ task \in [Workers -> Tasks \union {Idle}]
    /\ \A w \in Workers : task[w] # Idle => task[w].at \in DOMAIN Flow[task[w].op]
    /\ captured \subseteq Orders /\ credited \in [Orders -> Nat]
    /\ debits \in [Bookings -> Nat] /\ {mixed, dropped} \subseteq SUBSET Bookings
    /\ switches \in 0..plan.switches /\ restarts \in 0..plan.restarts

Init ==
    /\ plan \in Plans
    /\ booking = [b \in Bookings |-> [status |-> "none", amount |-> Price[b],
                                      pay |-> "pending"]]
    /\ billing \in {"prepaid", "postpaid"} /\ listed = FALSE
    /\ wallet = [balance |-> 0, order |-> 0]
    /\ bills = <<>>
    /\ task = [w \in Workers |-> Idle]
    /\ captured = {} /\ credited = [o \in Orders |-> 0]
    /\ debits = [b \in Bookings |-> 0] /\ mixed = {} /\ dropped = {}
    /\ switches = 0 /\ restarts = 0

-----------------------------------------------------------------------------
\* SUM(amount) WHERE payment_status IN ('to_be_billed', 'billed').
Owed        == {b \in Bookings : /\ booking[b].status # "none"
                                 /\ booking[b].pay \in {"to_be_billed", "billed"}}
Outstanding == MapThenSumSet(LAMBDA b : booking[b].amount, Owed)

\* What a client may choose for a booking.
WaysToPay == {"pay", "fromWallet", "mark"}

\* Bound: a second choice for a booking is the last.
Begin(w, op, b, to, n) ==
    /\ task[w] = Idle /\ op \in plan.duties[w]
    /\ op \in WaysToPay => b \notin mixed
    /\ task' = [task EXCEPT ![w] = [op |-> op, at |-> 1, b |-> b, to |-> to, n |-> n]]
    /\ mixed' = IF op \in WaysToPay /\ (b \in Owed \/ \E v \in Workers :
                        task[v] # Idle /\ task[v].op \in WaysToPay /\ task[v].b = b)
                THEN mixed \union {b} ELSE mixed
    /\ UNCHANGED <<plan, booking, billing, wallet, bills, listed, captured, credited, debits,
                   dropped, switches, restarts>>

At(w, phase) == task[w] # Idle /\ Flow[task[w].op][task[w].at] = phase
Ends(w)      == task' = [task EXCEPT ![w] = Idle]
GoesOn(w)    == IF task[w].at = Len(Flow[task[w].op]) THEN Ends(w)
                ELSE task' = [task EXCEPT ![w].at = @ + 1]

-----------------------------------------------------------------------------
(* Bookings and their payment                                              *)

\* Bug: a client may pay once more when the limit has been reached exactly.
WithinLimitOrAt == billing = "postpaid" => Outstanding <= CreditLimit
WithinLimit     == billing = "postpaid" => Outstanding < CreditLimit

\* Bug: an advance does not count as a payment.
UnpaidOrAdvance(b) == booking[b].pay # "paid" /\ booking[b].status \notin {"none", "cancelled"}
\* checkPayable.
Payable(b) ==
    /\ booking[b].pay \notin {"paid", "partial"}
    /\ booking[b].status \notin {"none", "cancelled"}

\* computeAmountPaid: the whole amount or an advance, never above the amount.
Takes(b) == {booking[b].amount, IF Advance < booking[b].amount THEN Advance ELSE booking[b].amount}

\* Each request inserts a row of its own.
BookRequest(w, b) ==
    /\ booking[b].status = "none" /\ WithinLimit
    /\ \A v \in Workers : task[v].op = "book" => task[v].b # b
    /\ Begin(w, "book", b, IF billing = "postpaid" THEN "to_be_billed" ELSE "pending", 0)

PayRequest(w, b) ==
    /\ Payable(b)
    /\ \E n \in Takes(b) : LET to == IF n = booking[b].amount THEN "paid" ELSE "partial" IN
          \/ Begin(w, "pay", b, to, 0)
          \/ Begin(w, "fromWallet", b, to, n)

\* markToBeBilled takes a booking that is billed already.
MarkRequest(w, b) ==
    /\ Payable(b) /\ booking[b].pay # "to_be_billed"
    /\ Begin(w, "mark", b, "to_be_billed", 0)

\* cancelBooking writes back the payment_status it has read.  Nothing is refunded.
CancelRequest(w, b) ==
    /\ booking[b].status = "open"
    /\ Begin(w, "cancel", b, IF booking[b].pay = "paid" THEN "refunded" ELSE booking[b].pay, 0)

CollectRequest(w, b) ==
    /\ booking[b].status # "none" /\ booking[b].pay \in {"pending", "partial"}
    /\ Begin(w, "collect", b, "paid", 0)

DeliverRequest(w, b) ==
    /\ booking[b].status = "open"
    /\ Begin(w, "deliver", b, booking[b].pay, booking[b].amount)

\* createBooking: a postpaid client's booking waits to be billed.
InsertBooking(w) ==
    LET k == task[w] IN
    /\ At(w, "insert")
    /\ booking' = [booking EXCEPT ![k.b].status = "open", ![k.b].pay = k.to]
    /\ IF k.to = "to_be_billed" THEN GoesOn(w) ELSE Ends(w)
    /\ UNCHANGED <<plan, billing, wallet, bills, listed, captured, history>>

\* A booking that reaches the limit is billed at once.
Recheck(w) ==
    /\ At(w, "recheck")
    /\ IF Outstanding >= CreditLimit THEN GoesOn(w) ELSE Ends(w)
    /\ UNCHANGED <<plan, booking, billing, wallet, bills, listed, captured, history>>

\* finalizePayment, finalizeTripPayment, markToBeBilled: no further check.
Record(w) ==
    /\ At(w, "record")
    /\ booking' = [booking EXCEPT ![task[w].b].pay = task[w].to]
    /\ GoesOn(w)
    /\ UNCHANGED <<plan, billing, wallet, bills, listed, captured, history>>

CancelBooking(w) ==
    LET k == task[w] IN
    /\ At(w, "cancel")
    /\ booking' = [booking EXCEPT ![k.b].status = "cancelled", ![k.b].pay = k.to]
    /\ dropped' = dropped \union {k.b}
    /\ GoesOn(w)
    /\ UNCHANGED <<plan, billing, wallet, bills, listed, captured, credited, debits, mixed,
                   switches, restarts>>

\* A delivery, on time or with charges (applyHaltingCharge).
Deliver(w) ==
    LET k == task[w] IN
    /\ At(w, "deliver")
    /\ \/ booking' = [booking EXCEPT ![k.b].status = "delivered"]
       \/ booking' = [booking EXCEPT
             ![k.b].status = "delivered", ![k.b].amount = k.n + Overage,
             ![k.b].pay = IF k.to = "paid" THEN "partial" ELSE booking[k.b].pay]
    /\ GoesOn(w)
    /\ UNCHANGED <<plan, billing, wallet, bills, listed, captured, history>>

-----------------------------------------------------------------------------
(* The wallet                                                              *)

\* WalletModel.debit: without the funds the handler ends.
Debit(w) ==
    LET k == task[w] IN
    /\ At(w, "debit")
    /\ IF wallet.balance >= k.n
       THEN /\ wallet' = [wallet EXCEPT !.balance = @ - k.n]
            /\ debits' = [debits EXCEPT ![k.b] = @ + 1]
            /\ GoesOn(w)
       ELSE Ends(w) /\ UNCHANGED <<wallet, debits>>
    /\ UNCHANGED <<plan, booking, billing, bills, listed, captured, credited, mixed,
                   dropped, switches, restarts>>

\* createRechargeOrder: the latest order replaces the one before.
OpenOrder(o) ==
    /\ o \notin captured /\ wallet.order < o
    /\ wallet' = [wallet EXCEPT !.order = o]
    /\ UNCHANGED <<plan, booking, billing, bills, listed, task, captured, history>>

\* The client pays an order at the gateway.
Capture(o) ==
    /\ o = wallet.order /\ o \notin captured
    /\ captured' = captured \union {o}
    /\ UNCHANGED <<plan, booking, billing, wallet, bills, listed, task, history>>

\* verifyRecharge: the order is compared with the pending one before anything.
RechargeRequest(w, o) ==
    /\ o = wallet.order /\ o \in captured
    /\ Begin(w, "recharge", CHOOSE b \in Bookings : TRUE, "pending", o)

Credit(w) ==
    /\ At(w, "credit")
    /\ wallet' = [wallet EXCEPT !.balance = @ + TopUp]
    /\ credited' = [credited EXCEPT ![task[w].n] = @ + 1]
    /\ GoesOn(w)
    /\ UNCHANGED <<plan, booking, billing, bills, listed, captured, debits, mixed,
                   dropped, switches, restarts>>

\* Bug: the order stays pending after it has been credited.
ClearNothing(w) ==
    /\ At(w, "clear")
    /\ GoesOn(w)
    /\ UNCHANGED <<plan, booking, billing, wallet, bills, listed, captured, history>>
\* clearPendingRecharge, whichever order is pending by now.
ClearOrder(w) ==
    /\ At(w, "clear")
    /\ wallet' = [wallet EXCEPT !.order = 0]
    /\ GoesOn(w)
    /\ UNCHANGED <<plan, booking, billing, bills, listed, captured, history>>

-----------------------------------------------------------------------------
(* Postpaid bills                                                          *)

ToBill == {b \in Bookings : booking[b].status # "none" /\ booking[b].pay = "to_be_billed"}

\* Bug: bookings on an earlier bill are collected again.
GenerateOwed ==
    IF Owed = {} \/ Len(bills) = MaxBills THEN UNCHANGED <<booking, bills>>
    ELSE /\ bills' = Append(bills, [items |-> Owed, status |-> "pending"])
         /\ booking' = [b \in Bookings |-> IF b \in Owed
                           THEN [booking[b] EXCEPT !.pay = "billed"] ELSE booking[b]]
\* PostpaidBillModel.generate: rows locked, bundled and marked in a transaction.
Generate ==
    IF ToBill = {} \/ Len(bills) = MaxBills THEN UNCHANGED <<booking, bills>>
    ELSE /\ bills' = Append(bills, [items |-> ToBill, status |-> "pending"])
         /\ booking' = [b \in Bookings |-> IF b \in ToBill
                           THEN [booking[b] EXCEPT !.pay = "billed"] ELSE booking[b]]

\* createBooking catches a failure here and leaves the bookings to the sweep.
BillAtLimit(w) ==
    /\ At(w, "generate")
    /\ Generate \/ UNCHANGED <<booking, bills>>
    /\ GoesOn(w)
    /\ UNCHANGED <<plan, billing, wallet, listed, captured, history>>

\* Bug: the monthly sweep lists the clients who owe a bill already.
ListBilled ==
    /\ ~listed /\ billing = "postpaid" /\ \E b \in Owed : booking[b].pay = "billed"
    /\ listed' = TRUE
    /\ UNCHANGED <<plan, booking, billing, wallet, bills, task, captured, history>>
\* findClientsWithOutstandingToBeBilled: the first query of the monthly sweep.
ListClient ==
    /\ ~listed /\ billing = "postpaid" /\ ToBill # {}
    /\ listed' = TRUE
    /\ UNCHANGED <<plan, booking, billing, wallet, bills, task, captured, history>>

BillMonthly ==
    /\ listed /\ listed' = FALSE
    /\ Generate
    /\ UNCHANGED <<plan, billing, wallet, task, captured, history>>

\* PostpaidBillModel.markPaid: the bookings S of a bill are paid with it.
MarkPaid(S) == [b \in Bookings |-> IF b \in S THEN [booking[b] EXCEPT !.pay = "paid"]
                                    ELSE booking[b]]

\* verifyBillPayment after a payment at the gateway, markBillPaidAdmin.
PayBill(i) ==
    /\ bills[i].status = "pending"
    /\ bills' = [bills EXCEPT ![i].status = "paid"]
    /\ booking' = MarkPaid(bills[i].items)
    /\ UNCHANGED <<plan, billing, wallet, listed, task, captured, history>>

SetBillingType ==
    /\ switches < plan.switches /\ switches' = switches + 1
    /\ billing' = IF billing = "prepaid" THEN "postpaid" ELSE "prepaid"
    /\ UNCHANGED <<plan, booking, wallet, bills, listed, task, captured, credited, debits,
                   mixed, dropped, restarts>>

\* A restart forgets the handlers and the sweep.
Restart ==
    /\ restarts < plan.restarts /\ restarts' = restarts + 1
    /\ task' = [w \in Workers |-> Idle] /\ listed' = FALSE
    /\ UNCHANGED <<plan, booking, billing, wallet, bills, captured, credited, debits, mixed,
                   dropped, switches>>

-----------------------------------------------------------------------------
Steps(w) ==
    \/ InsertBooking(w) \/ Recheck(w) \/ BillAtLimit(w) \/ Record(w) \/ CancelBooking(w)
    \/ Deliver(w) \/ Debit(w) \/ Credit(w) \/ ClearOrder(w)

Requests(w) ==
    \/ \E b \in Bookings : \/ BookRequest(w, b) \/ PayRequest(w, b) \/ MarkRequest(w, b)
                           \/ CancelRequest(w, b) \/ CollectRequest(w, b) \/ DeliverRequest(w, b)
    \/ \E o \in Orders : RechargeRequest(w, o)

Next ==
    \/ \E w \in Workers : Steps(w) \/ Requests(w)
    \/ \E o \in Orders : OpenOrder(o) \/ Capture(o)
    \/ \E i \in DOMAIN bills : PayBill(i)
    \/ ListClient \/ BillMonthly \/ SetBillingType \/ Restart

Spec == Init /\ [][Next]_vars

\* Cron lists the clients every month, and a sweep that has begun ends.
LiveSpec == Spec /\ WF_vars(ListClient) /\ WF_vars(BillMonthly)
-----------------------------------------------------------------------------
\* The balance is compared in the UPDATE that lowers it, so two payments and a
\* recharge in any order leave what was credited and not spent, never less than
\* nothing (WalletModel.debit, WalletModel.credit).
NeverOverdrawn == wallet.balance >= 0

\* A recharge order is credited once, unless a restart fell between the credit
\* and the clearing of the order (verifyRecharge).
CreditedOnce == \A o \in Orders : credited[o] <= 1 + restarts

\* The bookings that were kept and for which the client chose one way to pay.
Plain == Bookings \ (mixed \union dropped)

\* A booking is taken from the wallet once, whatever is collected or charged
\* meanwhile, unless the client chose two ways to pay or a restart came between
\* the debit and its record (payFromWallet, checkPayable).
DebitedOnce == \A b \in Plain : debits[b] <= 1 + restarts

\* A booking is on one bill, although the sweep and the credit limit generate
\* bills side by side (PostpaidBillModel.generate).
BilledOnce ==
    \A b \in Plain : Cardinality({i \in DOMAIN bills : b \in bills[i].items}) <= 1

\* Paying a bill clears its bookings: none of them is still owed, whatever was
\* being delivered or charged when it was paid (PostpaidBillModel.markPaid).
PaidBillClears ==
    \A i \in DOMAIN bills : bills[i].status = "paid" =>
        bills[i].items \intersect Owed \intersect Plain = {}

\* Money moves once, whatever handlers, sweeps, retries and restarts interleave.
MoneyMovesOnce ==
    NeverOverdrawn /\ CreditedOnce /\ DebitedOnce /\ BilledOnce /\ PaidBillClears

\* With one booking made at a time a postpaid client is never trusted with more
\* than one booking beyond the limit (the check before BookingModel.create).
ExposureBounded ==
    switches = 0 /\ billing = "postpaid" =>
        \E b \in Bookings :
            MapThenSumSet(LAMBDA x : Price[x], Owed \intersect Plain) < CreditLimit + Price[b]

\* A postpaid client's booking does not wait for ever to be billed (the monthly
\* sweep), unless it is settled some other way or the client goes prepaid.
BilledInTheEnd ==
    \A b \in Bookings :
        b \in ToBill /\ billing = "postpaid" ~>
            b \notin ToBill \/ billing = "prepaid" \/ Len(bills) = MaxBills
=============================================================================
