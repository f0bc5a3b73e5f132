------------------------------- MODULE Gateway -------------------------------
(***************************************************************************)
(* What the payment gateway holds and what a booking says of it, with      *)
(* PAYMENT_PROVIDER=razorpay: the client pays an order in the app, or      *)
(* scans the QR code of the trip, or pays the driver in cash.  The money   *)
(* is captured at the gateway and recorded by a handler of its own: the    *)
(* verification of the checkout, the driver's poll, or the webhook, which  *)
(* may come late, more than once, or never.                                *)
(***************************************************************************)
EXTENDS Integers, Sequences, FiniteSetsExt

CONSTANTS
    Fare, Advance, Charge,   \* the amount booked, its advance, what a delivery may add
    Calls,                   \* requests in flight
    MaxPayments              \* bound: orders and QR codes

VARIABLES
    booking,       \* amount, amount_paid, payment_status, payment_mode
    qr,            \* trips.razorpay_qr_code_id and razorpay_qr_status
    orders,        \* at the gateway: orders, and whether they are paid
    codes,         \* at the gateway: QR codes
    cash,          \* what drivers and brokers have been handed
    call,          \* what is in flight, with the row it has read
    stale          \* history: a payment was recorded at an amount, or as a type, that is not the
                   \* one it was made at, or that was made for something else

vars == <<booking, qr, orders, codes, cash, call, stale>>

Modes     == {"null", "razorpay", "razorpay_qr", "cash"}
Types     == {"full", "advance"}
Payments  == [due : Nat, of : Nat, type : Types, at : {"open", "captured", "closed"}]
Booking   == [amount : Nat, paid : Nat, status : {"pending", "partial", "paid"}, mode : Modes]
QrColumns == [id : 0..MaxPayments, status : {"null", "active", "closed"}]
NoCall    == [at |-> "none"]

TypeOK ==
    /\ booking \in Booking /\ qr \in QrColumns
    /\ orders \in Seq(Payments) /\ codes \in Seq(Payments)
    /\ Len(orders) + Len(codes) <= MaxPayments
    /\ cash \in Nat /\ stale \in BOOLEAN
    /\ \A h \in Calls : call[h] = NoCall \/
          /\ call[h].at \in Types \union {"keep", "fetch", "confirm", "collect", "close"}
          /\ call[h].read \in Booking /\ call[h].qr \in QrColumns /\ call[h].n \in Nat

Init ==
    /\ booking = [amount |-> Fare, paid |-> 0, status |-> "pending", mode |-> "null"]
    /\ qr = [id |-> 0, status |-> "null"]
    /\ orders = <<>> /\ codes = <<>> /\ cash = 0
    /\ call = [h \in Calls |-> NoCall] /\ stale = FALSE

Go(h, at, n) == call' = [call EXCEPT ![h] = [at |-> at, n |-> n, read |-> booking, qr |-> qr]]
Done(h)      == call' = [call EXCEPT ![h] = NoCall]
Then(h, at)  == call' = [call EXCEPT ![h].at = at]
-----------------------------------------------------------------------------
\* checkPayable, of the app; the trip's side collects what is left of an advance as well.
Payable     == booking.status = "pending"
Collectable == booking.status \in {"pending", "partial"}

computeAmountPaid(b, type) == IF type = "advance" THEN Advance ELSE b.amount

\* createPaymentOrder and createOrder.
CreateOrder(type) ==
    /\ Payable /\ Len(orders) + Len(codes) < MaxPayments
    /\ orders' = Append(orders, [due |-> computeAmountPaid(booking, type), of |-> booking.amount,
                                 type |-> type, at |-> "open"])
    /\ UNCHANGED <<booking, qr, codes, cash, call, stale>>

\* createBillPaymentOrder, and orders of other bookings: nothing of such a payment is for this one.
OrderElsewhere ==
    /\ Len(orders) + Len(codes) < MaxPayments
    /\ orders' = Append(orders, [due |-> 0, of |-> 0, type |-> "full", at |-> "open"])
    /\ UNCHANGED <<booking, qr, codes, cash, call, stale>>

\* verifyPayment: the signature that comes with a payment of this order, whatever it is for.
Signed(i) == orders[i].at = "captured"

\* verifyBookingPayment: the type is the one that the request says, 'full' where it says none.
Verify(h, i, type) ==
    /\ call[h] = NoCall /\ Payable /\ Signed(i)
    /\ Go(h, type, i)
    /\ UNCHANGED <<booking, qr, orders, codes, cash, stale>>

\* finalizePayment, of the booking as it was read.
FinalizePayment(h) ==
    LET c == call[h]  type == c.at  order == orders[c.n] IN
    /\ type \in Types
    /\ booking' = [booking EXCEPT !.status = IF type = "advance" THEN "partial" ELSE "paid",
                                  !.mode = "razorpay", !.paid = computeAmountPaid(c.read, type)]
    /\ stale' = (stale \/ c.read.amount # order.of \/ type # order.type)
    /\ Done(h)
    /\ UNCHANGED <<qr, orders, codes, cash>>

AmountDue(b) == b.amount - b.paid

\* createPaymentQrCode: a code that is active is shown again, whatever has been paid since.
CreateQr(h) ==
    /\ call[h] = NoCall /\ Collectable /\ qr.status # "active"
    /\ Len(orders) + Len(codes) < MaxPayments
    /\ codes' = Append(codes, [due |-> AmountDue(booking), of |-> booking.amount, type |-> "full",
                               at |-> "open"])
    /\ Go(h, "keep", Len(codes) + 1)
    /\ UNCHANGED <<booking, qr, orders, cash, stale>>

\* setRazorpayQrCode: the code before it, if another request has made one, is forgotten.
KeepQr(h) ==
    /\ call[h].at = "keep"
    /\ qr' = [id |-> call[h].n, status |-> "active"]
    /\ Done(h)
    /\ UNCHANGED <<booking, orders, codes, cash, stale>>

\* getPaymentQrStatus reads the trip, and then asks the gateway about the code it has read.
Poll(h) ==
    /\ call[h] = NoCall /\ Collectable /\ qr.id # 0
    /\ Go(h, "fetch", qr.id)
    /\ UNCHANGED <<booking, qr, orders, codes, cash, stale>>

\* Bug: a code the gateway knows counts as paid.
Known(k) == k \in DOMAIN codes
\* fetchQrCodePayment
Captured(k) == codes[k].at = "captured"

Fetch(h) ==
    /\ call[h].at = "fetch"
    /\ IF Captured(call[h].n) THEN Then(h, "confirm") ELSE Done(h)
    /\ UNCHANGED <<booking, qr, orders, codes, cash, stale>>

\* razorpayWebhook, for a captured code and as often as the gateway sends it; findByRazorpayQrCodeId
\* finds no trip for a code that has been overwritten.
Webhook(h, k) ==
    /\ call[h] = NoCall /\ codes[k].at = "captured"
    /\ qr.id = k /\ Collectable
    /\ Go(h, "confirm", k)
    /\ UNCHANGED <<booking, qr, orders, codes, cash, stale>>

\* collectPayment, by the driver or the broker.
Collect(h) ==
    /\ call[h] = NoCall /\ Collectable
    /\ Go(h, "collect", qr.id)
    /\ UNCHANGED <<booking, qr, orders, codes, cash, stale>>

\* finalizeTripPayment: paid, with the whole amount that was read.
FinalizeTripPayment(h) ==
    LET c == call[h] IN
    /\ c.at \in {"confirm", "collect"}
    /\ booking' = [booking EXCEPT !.status = "paid", !.paid = c.read.amount,
                     !.mode = IF c.at = "confirm" THEN "razorpay_qr" ELSE "cash"]
    /\ cash' = IF c.at = "collect" THEN cash + AmountDue(c.read) ELSE cash
    /\ stale' = (stale \/ (c.at = "confirm" /\ c.read.amount # codes[c.n].of))
    /\ IF c.n # 0 /\ (c.at = "confirm" \/ c.qr.status # "closed") THEN Then(h, "close") ELSE Done(h)
    /\ UNCHANGED <<qr, orders, codes>>

\* closeQrCode and the columns: as they were read, so a code made in between is forgotten.
CloseQr(h) ==
    LET k == call[h].n IN
    /\ call[h].at = "close"
    /\ codes' = IF codes[k].at = "open" THEN [codes EXCEPT ![k].at = "closed"] ELSE codes
    /\ qr' = [id |-> k, status |-> "closed"]
    /\ Done(h)
    /\ UNCHANGED <<booking, orders, cash, stale>>

-----------------------------------------------------------------------------
\* The client at the gateway.  A code is single_use and may expire (close_by).
PayOrder(i) ==
    /\ orders[i].at = "open" /\ orders' = [orders EXCEPT ![i].at = "captured"]
    /\ UNCHANGED <<booking, qr, codes, cash, call, stale>>

Scan(k) ==
    /\ codes[k].at = "open"
    /\ \E at \in {"captured", "closed"} : codes' = [codes EXCEPT ![k].at = at]
    /\ UNCHANGED <<booking, qr, orders, cash, call, stale>>

\* applyHaltingCharge and applySlaOverageCharge, which Settlement has in full, open a paid booking again.
Deliver ==
    /\ booking.amount = Fare
    /\ booking' = [booking EXCEPT !.amount = Fare + Charge,
                                  !.status = IF @ = "paid" THEN "partial" ELSE @]
    /\ UNCHANGED <<qr, orders, codes, cash, call, stale>>

\* A handler fails, or the server restarts.
Fail(h) ==
    /\ call[h] # NoCall /\ Done(h)
    /\ UNCHANGED <<booking, qr, orders, codes, cash, stale>>

Next ==
    \/ \E type \in Types : CreateOrder(type)
    \/ OrderElsewhere
    \/ \E h \in Calls :
          \/ \E i \in DOMAIN orders, type \in Types : Verify(h, i, type)
          \/ \E k \in DOMAIN codes : Webhook(h, k)
          \/ FinalizePayment(h) \/ CreateQr(h) \/ KeepQr(h) \/ Poll(h) \/ Fetch(h)
          \/ Collect(h) \/ FinalizeTripPayment(h) \/ CloseQr(h) \/ Fail(h)
    \/ \E i \in DOMAIN orders : PayOrder(i)
    \/ \E k \in DOMAIN codes : Scan(k)
    \/ Deliver

Spec == Init /\ [][Next]_vars
-----------------------------------------------------------------------------
Captures(payments) == {k \in DOMAIN payments : payments[k].at = "captured"}
Sums(payments)     == MapThenSumSet(LAMBDA k : payments[k].due, Captures(payments))

\* What a booking says has been paid, somebody has paid for it.
Covered == booking.paid <= Sums(orders) + Sums(codes) + cash

\* So it is however its handlers, polls and webhooks interleave and whichever of them dies -
\* unless a payment was recorded at an amount, or as a type, that is not the one it was made
\* at, or a payment for something else was: verifyBookingPayment takes the type from the request
\* and compares neither it nor the booking with the order (finalizePayment, finalizeTripPayment).
PaidForReal == stale \/ Covered
=============================================================================
