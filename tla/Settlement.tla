-------------------------------- MODULE Settlement --------------------------------
(***************************************************************************)
(* The end of one trip and its money: PATCH /trips/:id/status with the     *)
(* delivery charges, the settlement row and the earnings wallets, the      *)
(* checklist of stops, the proof of delivery (POD) and its review, and the *)
(* payments that are recorded on the booking meanwhile.  Truck and driver  *)
(* of the trip, and cancellation, are module Dispatch.                     *)
(*                                                                         *)
(* As in Dispatch a handler is a task of a worker, its local variables are *)
(* the fields of the task, and each `await` that matters is one phase.     *)
(*                                                                         *)
(* A definition marked "Bug:" is no part of the model: it is the one after *)
(* it with a plausible mistake, put in its place to see a property fail.   *)
(***************************************************************************)
EXTENDS Naturals, FiniteSets, Sequences

CONSTANTS
    Loading, Unloading,      \* positions of the extra stops in trips.stops
    Users, Driver, Broker,   \* trips.driver_id and trips.broker_id
    Rate,                    \* commission of each user, in percent
    Estimate, Fee,           \* bookings.amount at first and platform_fee, in paise
    Advances,                \* what an advance may come to, below the Estimate
    Charges,                 \* what one overage may come to; 0: none
    MinUploads, MaxPhotos,   \* TripPodPhotoModel's limits
    Duties,                  \* which handlers each worker runs
    Orderly,                 \* whether status updates come in order, see StatusRequest
    MaxAmount,               \* bound: the amount up to which a charge is added
    MaxRestarts              \* bound: restarts of the server

Workers == DOMAIN Duties
Stops   == Loading \union Unloading
Ops     == {"status", "stop", "upload", "review", "pay", "collect"}

ASSUME Trip == /\ Stops \subseteq Nat /\ Loading \intersect Unloading = {}
               /\ {Driver, Broker} \subseteq Users /\ Rate \in [Users -> 0..100]
               /\ MinUploads \in Nat /\ MaxPhotos \in Nat
ASSUME Money == /\ Estimate \in Nat /\ Fee \in Nat /\ Charges \subseteq Nat
                /\ Advances \subseteq 1..(Estimate - 1)
                /\ MaxAmount \in Nat /\ Estimate <= MaxAmount
ASSUME Instance == /\ Duties \in [Workers -> SUBSET Ops]
                   /\ Orderly \in BOOLEAN /\ MaxRestarts \in Nat

VARIABLES
    trip,          \* trips: status, the stops done, POD, the charges recorded
    booking,       \* bookings: status, amount, payment_status, amount_paid
    settlements,   \* amounts of the booking's settlement rows
    earned,        \* 'earning' entries of each user's wallet
    totalTrips,    \* driver_profiles.total_trips
    task,          \* the handler each worker runs
    approved,      \* history: the client has approved a POD
    override,      \* history: the broker or an administrator has completed the trip
    calm,          \* history: no two handlers have ever overlapped
    restarts

db      == <<settlements, earned, totalTrips>>
history == <<approved, override, calm, restarts>>
vars    == <<trip, booking, db, task, history>>

\* confirmed stands for en_route_pickup and picked_up as well.
Moves    == <<"confirmed", "in_transit", "delivered", "completed">>
Statuses == {Moves[i] : i \in DOMAIN Moves}
Rank(s)  == CHOOSE i \in DOMAIN Moves : Moves[i] = s
Reviews  == {"none", "pending_verification", "verified", "rejected"}
Paid     == {"pending", "partial", "paid"}

\* Bug: the settlement runs on both 'delivered' and 'completed'.
OnDeliveredSettles ==
    <<"setTrip", "halting", "haltingBill", "sla", "slaRead", "slaBill", "setBooking",
      "count", "read", "settle", "payDriver", "payBroker">>
OnDelivered ==
    <<"setTrip", "halting", "haltingBill", "sla", "slaRead", "slaBill", "setBooking">>

\* Bug: the wallet of the broker is forgotten.
OnCompletedNoBroker == <<"setTrip", "setBooking", "count", "read", "settle", "payDriver">>
OnCompleted ==
    <<"setTrip", "setBooking", "count", "read", "settle", "payDriver", "payBroker">>

\* The awaits of each handler, in order; updateTripStatus has one list per status.
Flow == [
    in_transit |-> <<"setTrip", "setBooking">>,
    delivered  |-> OnDelivered,
    completed  |-> OnCompleted,
    stop       |-> <<"readStops", "writeStops">>,
    upload     |-> <<"countPhotos", "store", "submit">>,
    review     |-> <<"setPod">>,
    payment    |-> <<"record">>]

\* amount, pay, pod, stops: as last read, where the handler uses them.
\* n: a stop, a number of files, a charge or a payment.  to: what to write.
Idle  == [op |-> "none", at |-> 0]
Tasks == [op : DOMAIN Flow, at : 1..12, by : {"driver", "broker"},
          to : Statuses \union Reviews \union Paid, amount : Nat, pay : Paid,
          pod : Reviews, stops : SUBSET Stops, n : Nat]

TypeOK ==
    /\ trip \in [status : Statuses, stops : SUBSET Stops, photos : Nat, pod : Reviews,
                 halting : Charges \union {0}, sla : Charges \union {0}]
    /\ booking \in [status : Statuses \union {"assigned"}, amount : Nat,
                    pay : Paid, paid : Nat]
    /\ settlements \in Seq(Nat)
    /\ earned \in [Users -> Seq(Nat)]
    /\ totalTrips \in Nat
    /\ task \in [Workers -> Tasks \union {Idle}]
    /\ \A w \in Workers : task[w] # Idle => task[w].at \in DOMAIN Flow[task[w].op]
    /\ {approved, override, calm} \subseteq BOOLEAN /\ restarts \in 0..MaxRestarts

Init ==
    /\ trip = [status |-> "confirmed", stops |-> {}, photos |-> 0, pod |-> "none",
               halting |-> 0, sla |-> 0]
    /\ booking = [status |-> "assigned", amount |-> Estimate, pay |-> "pending", paid |-> 0]
    /\ settlements = <<>>
    /\ earned = [u \in Users |-> <<>>]
    /\ totalTrips = 0
    /\ task = [w \in Workers |-> Idle]
    /\ approved = FALSE /\ override = FALSE /\ calm = TRUE /\ restarts = 0

-----------------------------------------------------------------------------
New(op) == [op |-> op, at |-> 1, by |-> "driver", to |-> "confirmed", amount |-> 0,
            pay |-> "pending", pod |-> "none", stops |-> {}, n |-> 0]

Begin(w, duty, k) ==
    /\ task[w] = Idle /\ duty \in Duties[w]
    /\ task' = [task EXCEPT ![w] = k]
    /\ calm' = (calm /\ \A v \in Workers : task[v] = Idle)
    /\ UNCHANGED <<trip, booking, db, approved, restarts>>

At(w, phase) == task[w] # Idle /\ Flow[task[w].op][task[w].at] = phase
Ends(w)      == task' = [task EXCEPT ![w] = Idle]
\* Goes on with its n-th next phase, as the task k it has become.
GoesOnAs(w, k, n) ==
    task' = [task EXCEPT ![w] = IF k.at + n > Len(Flow[k.op]) THEN Idle
                                ELSE [k EXCEPT !.at = @ + n]]
GoesOn(w) == GoesOnAs(w, task[w], 1)

-----------------------------------------------------------------------------
(* PATCH /trips/:id/status (updateTripStatus)                              *)

\* Bug: a proof that has been uploaded is good enough to complete the trip.
MayCompleteUnreviewed(by) == by = "driver" => trip.pod \notin {"none", "rejected"}
\* Only the driver needs the approval of the client.
MayComplete(by) == by = "driver" => trip.pod = "verified"

\* Bug: before the delivery the loading stops are looked at once more.
StopsDoneLoading(s) == s \in {"in_transit", "delivered"} => Loading \subseteq trip.stops
StopsDone(s) ==
    /\ s = "in_transit" => Loading \subseteq trip.stops
    /\ s = "delivered" => Unloading \subseteq trip.stops

\* The handler takes any status at any time.  Orderly: the applications send
\* the next status, or the same again, and only when the answer to a different
\* one has come.
StatusRequest(w, s, by) ==
    /\ StopsDone(s) /\ (s = "completed" => MayComplete(by))
    /\ Orderly => /\ Rank(s) \in {Rank(trip.status), Rank(trip.status) + 1}
                  /\ \A v \in Workers : task[v].op \notin Statuses \ {s}
    /\ Begin(w, "status", IF s = "delivered"
                          THEN [New(s) EXCEPT !.to = s, !.amount = booking.amount,
                                              !.pay = booking.pay]
                          ELSE [New(s) EXCEPT !.to = s,
                                              !.by = IF s = "completed" THEN by ELSE @])
    /\ UNCHANGED override

\* Bug: completion is written without comparing the status.
SetTripUnguarded(w) ==
    LET k == task[w] IN
    /\ At(w, "setTrip")
    /\ trip' = [trip EXCEPT !.status = k.to]
    /\ override' = (override \/ (k.to = "completed" /\ k.by # "driver"))
    /\ GoesOn(w)
    /\ UNCHANGED <<booking, db, approved, calm, restarts>>
\* updateStatus writes; completeIfNotAlready is a compare-and-swap whose loser
\* answers "already completed" and ends.
SetTrip(w) ==
    LET k == task[w] IN
    /\ At(w, "setTrip")
    /\ trip' = [trip EXCEPT !.status = k.to]
    /\ IF k.to = "completed" /\ trip.status = "completed"
       THEN Ends(w) /\ UNCHANGED override
       ELSE /\ GoesOn(w)
            /\ override' = (override \/ (k.to = "completed" /\ k.by # "driver"))
    /\ UNCHANGED <<booking, db, approved, calm, restarts>>

\* The row that was read is of no further use.
Billed(w) == [New(task[w].op) EXCEPT !.at = task[w].at, !.to = task[w].to]

\* applyHaltingCharge: the charge is recorded on the trip and then added to
\* the amount of the row the handler began with.
Halting(w) ==
    /\ At(w, "halting")
    /\ \/ GoesOnAs(w, Billed(w), 2) /\ UNCHANGED trip
       \/ \E c \in Charges \ {0} :
             /\ task[w].amount + c <= MaxAmount
             /\ trip' = [trip EXCEPT !.halting = c]
             /\ GoesOnAs(w, [task[w] EXCEPT !.n = c], 1)
    /\ UNCHANGED <<booking, db, history>>

\* Bug: a booking that is paid stays paid.
ChargedStaysPaid(k) == [booking EXCEPT !.amount = k.amount + k.n]
\* A booking paid in full has the charge to pay again.
Charged(k) == [booking EXCEPT !.amount = k.amount + k.n,
                              !.pay = IF k.pay = "paid" THEN "partial" ELSE @]

HaltingBill(w) ==
    /\ At(w, "haltingBill")
    /\ booking' = Charged(task[w])
    /\ GoesOnAs(w, Billed(w), 1)
    /\ UNCHANGED <<trip, db, history>>

\* applySlaOverageCharge: the same, on a booking it has read again.
Sla(w) ==
    /\ At(w, "sla")
    /\ \/ GoesOnAs(w, task[w], 3) /\ UNCHANGED trip
       \/ \E c \in Charges \ {0} :
             /\ booking.amount + c <= MaxAmount
             /\ trip' = [trip EXCEPT !.sla = c]
             /\ GoesOnAs(w, [task[w] EXCEPT !.n = c], 1)
    /\ UNCHANGED <<booking, db, history>>

SlaRead(w) ==
    /\ At(w, "slaRead")
    /\ GoesOnAs(w, [task[w] EXCEPT !.amount = booking.amount, !.pay = booking.pay], 1)
    /\ UNCHANGED <<trip, booking, db, history>>

SlaBill(w) ==
    /\ At(w, "slaBill")
    /\ booking' = Charged(task[w])
    /\ GoesOnAs(w, Billed(w), 1)
    /\ UNCHANGED <<trip, db, history>>

SetBooking(w) ==
    /\ At(w, "setBooking")
    /\ booking' = [booking EXCEPT !.status = task[w].to]
    /\ GoesOn(w)
    /\ UNCHANGED <<trip, db, history>>

CountTrip(w) ==
    /\ At(w, "count")
    /\ totalTrips' = totalTrips + 1
    /\ GoesOn(w)
    /\ UNCHANGED <<trip, booking, settlements, earned, history>>

ReadBooking(w) ==
    /\ At(w, "read")
    /\ GoesOnAs(w, [task[w] EXCEPT !.amount = booking.amount], 1)
    /\ UNCHANGED <<trip, booking, db, history>>

InsertSettlement(w) ==
    /\ At(w, "settle")
    /\ settlements' = Append(settlements, task[w].amount)
    /\ GoesOn(w)
    /\ UNCHANGED <<trip, booking, earned, totalTrips, history>>

\* Rounded to whole paise.
Payout(u, net) == (net * (100 - Rate[u]) + 50) \div 100

\* creditEarningsWallet, for the net earnings of a settlement.
Earning(u, amount) == IF amount > Fee THEN Payout(u, amount - Fee) ELSE 0

Credit(w, phase, u) ==
    LET e == Earning(u, task[w].amount) IN
    /\ At(w, phase)
    /\ earned' = IF e = 0 THEN earned ELSE [earned EXCEPT ![u] = Append(@, e)]
    /\ GoesOn(w)
    /\ UNCHANGED <<trip, booking, settlements, totalTrips, history>>

UpdateTripStatus(w) ==
    \/ SetTrip(w) \/ Halting(w) \/ HaltingBill(w) \/ Sla(w) \/ SlaRead(w) \/ SlaBill(w)
    \/ SetBooking(w) \/ CountTrip(w) \/ ReadBooking(w) \/ InsertSettlement(w)
    \/ Credit(w, "payDriver", Driver) \/ Credit(w, "payBroker", Broker)

-----------------------------------------------------------------------------
(* PATCH /trips/:id/stops/:index/complete                                  *)

Alike(i) == IF i \in Loading THEN Loading ELSE Unloading

StopRequest(w, i) ==
    /\ i \notin trip.stops
    /\ \A j \in Alike(i) : j < i => j \in trip.stops
    /\ Begin(w, "stop", [New("stop") EXCEPT !.n = i])
    /\ UNCHANGED override

\* completeStop reads the whole array again and writes it back.
ReadStops(w) ==
    /\ At(w, "readStops")
    /\ GoesOnAs(w, [task[w] EXCEPT !.stops = trip.stops], 1)
    /\ UNCHANGED <<trip, booking, db, history>>

WriteStops(w) ==
    /\ At(w, "writeStops")
    /\ trip' = [trip EXCEPT !.stops = task[w].stops \union {task[w].n}]
    /\ GoesOn(w)
    /\ UNCHANGED <<booking, db, history>>

CompleteStop(w) == ReadStops(w) \/ WriteStops(w)

-----------------------------------------------------------------------------
(* Proof of delivery: uploadPod, verifyPod, rejectPod                      *)

UploadRequest(w, n) ==
    /\ trip.status \in {"in_transit", "delivered"}
    /\ Begin(w, "upload", [New("upload") EXCEPT !.n = n, !.pod = trip.pod])
    /\ UNCHANGED override

CountPhotos(w) ==
    /\ At(w, "countPhotos")
    /\ IF trip.photos + task[w].n > MaxPhotos THEN Ends(w) ELSE GoesOn(w)
    /\ UNCHANGED <<trip, booking, db, history>>

StorePhotos(w) ==
    /\ At(w, "store")
    /\ trip' = [trip EXCEPT !.photos = @ + task[w].n]
    /\ GoesOn(w)
    /\ UNCHANGED <<booking, db, history>>

\* The photos are counted again; the review is that of the row read at first.
SubmitPod(w) ==
    /\ At(w, "submit")
    /\ trip' = IF trip.photos >= MinUploads /\ task[w].pod # "pending_verification"
               THEN [trip EXCEPT !.pod = "pending_verification"] ELSE trip
    /\ GoesOn(w)
    /\ UNCHANGED <<booking, db, history>>

ReviewRequest(w, verdict) ==
    /\ trip.pod = "pending_verification"
    /\ Begin(w, "review", [New("review") EXCEPT !.to = verdict])
    /\ UNCHANGED override

SetPod(w) ==
    /\ At(w, "setPod")
    /\ trip' = [trip EXCEPT !.pod = task[w].to]
    /\ approved' = (approved \/ task[w].to = "verified")
    /\ GoesOn(w)
    /\ UNCHANGED <<booking, db, override, calm, restarts>>

ProofOfDelivery(w) == CountPhotos(w) \/ StorePhotos(w) \/ SubmitPod(w) \/ SetPod(w)

-----------------------------------------------------------------------------
(* Payments.  Each path checks the row it has read and writes without a    *)
(* check of its own: payBooking and verifyBookingPayment of the client     *)
(* (finalizePayment); collectPayment, getPaymentQrStatus and the gateway's *)
(* webhook (finalizeTripPayment).                                          *)

\* n: what has been paid, of the amount that was read.
PayRequest(w, n) ==
    /\ booking.pay = "pending"
    /\ Begin(w, "pay", [New("payment") EXCEPT
          !.to = IF n = booking.amount THEN "paid" ELSE "partial", !.n = n])
    /\ UNCHANGED override

CollectRequest(w) ==
    /\ booking.pay \in {"pending", "partial"}
    /\ Begin(w, "collect", [New("payment") EXCEPT !.to = "paid", !.n = booking.amount])
    /\ UNCHANGED override

RecordPayment(w) ==
    /\ At(w, "record")
    /\ booking' = [booking EXCEPT !.pay = task[w].to, !.paid = task[w].n]
    /\ GoesOn(w)
    /\ UNCHANGED <<trip, db, history>>

-----------------------------------------------------------------------------
\* A restart forgets the handlers.
Restart ==
    /\ restarts < MaxRestarts /\ restarts' = restarts + 1
    /\ task' = [w \in Workers |-> Idle]
    /\ UNCHANGED <<trip, booking, db, approved, override, calm>>

Requests(w) ==
    \/ \E s \in Statuses \ {"confirmed"}, by \in {"driver", "broker"} : StatusRequest(w, s, by)
    \/ \E i \in Stops : StopRequest(w, i)
    \/ \E n \in 1..MaxPhotos : UploadRequest(w, n)
    \/ \E v \in {"verified", "rejected"} : ReviewRequest(w, v)
    \/ \E n \in Advances \union {booking.amount} : PayRequest(w, n)
    \/ CollectRequest(w)

Steps(w) == UpdateTripStatus(w) \/ CompleteStop(w) \/ ProofOfDelivery(w) \/ RecordPayment(w)

Next == Restart \/ \E w \in Workers : Requests(w) \/ Steps(w)

Spec == Init /\ [][Next]_vars

\* A promise chain that has begun runs to its end.
LiveSpec == Spec /\ \A w \in Workers : WF_vars(Steps(w))
-----------------------------------------------------------------------------
\* "Settlement/trip-count must fire exactly once per trip": whatever is sent
\* twice, by whom, and however the handlers interleave, completeIfNotAlready
\* lets one of them pay out.
PaidOutOnce ==
    /\ Len(settlements) <= 1 /\ totalTrips <= 1
    /\ Driver # Broker => \A u \in Users : Len(earned[u]) <= 1

\* What was settled and credited belongs to the amount the client is billed in
\* the end: no delivery charge comes after the pay-out (updateTripStatus).
PaidAtFinalAmount ==
    /\ \A i \in DOMAIN settlements : settlements[i] = booking.amount
    /\ \A u \in Users : \A i \in DOMAIN earned[u] :
          settlements # <<>> /\ earned[u][i] = Payout(u, booking.amount - Fee)

\* A driver closes a trip only after the client has approved a proof of
\* delivery (the gate before completeIfNotAlready), uploads and reviews going
\* on meanwhile.
ClosedWithApproval == trip.status = "completed" => approved \/ override

\* With one person checking the stops off, whoever sends the status, no trip
\* gets past a stop that is still to be made (completeTripStop).
CarriedToEveryStop ==
    /\ trip.status # "confirmed" => Loading \subseteq trip.stops
    /\ trip.status \in {"delivered", "completed"} => Unloading \subseteq trip.stops

\* While handlers run one at a time, a booking that counts as paid has been
\* paid at its present amount: a charge does not go "silently uncollected"
\* (applyHaltingCharge, applySlaOverageCharge, finalizeTripPayment).
ChargesCollected == calm /\ booking.pay = "paid" => booking.paid = booking.amount

\* A completed trip is settled and both parties are credited, unless the
\* server was restarted (the tail of updateTripStatus).
CompletionPaysOut ==
    trip.status = "completed" ~>
        \/ restarts > 0
        \/ settlements # <<>> /\ totalTrips > 0 /\ \A u \in {Driver, Broker} : earned[u] # <<>>

\* The delivery charges are applied "once, the instant a trip transitions into
\* 'delivered'", so the amount is the estimate and the charges on the trip.
AmountItemised ==
    (\A w \in Workers : task[w] = Idle) /\ restarts = 0 =>
        booking.amount = Estimate + trip.halting + trip.sla
=============================================================================
