----------------------------- MODULE Broadcast -----------------------------
(***************************************************************************)
(* From the order to the requests drivers and brokers receive: creating a  *)
(* booking once although the client retries, broadcasting it at once or by *)
(* the sweep of scheduled bookings, and searching again.  What the drivers *)
(* then do with a request is in Negotiation; here a request is live until  *)
(* it is declined or the booking is closed.                                *)
(***************************************************************************)
EXTENDS Integers, FiniteSets

CONSTANTS
    Bookings,                \* numbers, in the order of creation
    Drivers,                 \* a driver, or a broker where brokers are asked
    Keys,                    \* idempotency keys; a client repeats a key to retry
    NoKey,                   \* the header is absent
    Clients, Sweeps,         \* requests, and runs of the sweep, in flight
    Modes,                   \* "drivers" (truck, part_load) or "brokers" (broker, none)
    Mixes,                   \* bounds: how orders are placed ("now", "later", "again", "ask") and what
                             \* goes wrong ("fail", "stop"), how many, with which keys and calls
    MaxLive, MaxAsked        \* bounds: live requests of one driver for one booking, and those of them
                             \* that its client has sent him himself

VARIABLES
    mix,           \* chosen at the start
    booking,       \* bookings: is_scheduled, due, broadcast_triggered_at, status, search_mode
    live,          \* driver_requests, job_requests: those not declined, per driver, of searches
    asked,         \* driver_requests: the same, of clients who have picked the truck themselves
    answers,       \* idempotency_keys
    call,          \* what is in flight
    sent,          \* history: a broadcast of the booking has reached its end
    torn,          \* history: bookings with a broadcast interrupted or overlapped
    early,         \* history: bookings searched for again before their broadcast
    retried        \* history: keys repeated before their first answer was stored

vars == <<mix, booking, live, asked, answers, call, sent, torn, early, retried>>

Calls  == Clients \union Sweeps
NoCall == [at |-> "none", key |-> NoKey, b |-> {}, left |-> {}, todo |-> {}, asks |-> {}, threw |-> FALSE]
Phases == {"none", "insert", "fan", "again", "mark", "save", "next", "ask"}

TypeOK ==
    /\ mix \in Mixes
    /\ booking \in [Bookings -> [status : {"none", "pending", "closed"}, scheduled : BOOLEAN,
                                 due : BOOLEAN, marked : BOOLEAN, mode : Modes, key : Keys \union {NoKey}]]
    /\ live \in [Bookings -> [Drivers -> 0..MaxLive]]
    /\ asked \in [Bookings -> [Drivers -> 0..MaxAsked]]
    /\ answers \subseteq Keys /\ retried \subseteq Keys
    /\ call \in [Calls -> [at : Phases, key : Keys \union {NoKey}, b : SUBSET Bookings,
                           left : SUBSET Drivers, todo : SUBSET Bookings,
                           asks : SUBSET (Bookings \X Drivers), threw : BOOLEAN]]
    /\ sent \subseteq Bookings /\ torn \subseteq Bookings /\ early \subseteq Bookings

Init ==
    /\ mix \in Mixes
    /\ booking \in [Bookings -> [status : {"none"}, scheduled : {FALSE}, due : {FALSE},
                                 marked : {FALSE}, mode : Modes, key : {NoKey}]]
    /\ live = [b \in Bookings |-> [d \in Drivers |-> 0]] /\ asked = live
    /\ answers = {} /\ call = [h \in Calls |-> NoCall]
    /\ sent = {} /\ torn = {} /\ early = {} /\ retried = {}

-----------------------------------------------------------------------------
Free(h)     == call[h] = NoCall /\ h \in mix.calls
At(h, phase) == call[h].at = phase
Goes(h, c)  == call' = [call EXCEPT ![h] = c]
Held(h)     == call[h].b \union call[h].todo
\* Bookings that another call is broadcasting or is going to.
Busy(h)     == UNION {Held(g) : g \in Calls \ {h}}

\* Bug: the mark that the broadcast has been made is not looked at.
DueAgain == {b \in Bookings : booking[b].status = "pending" /\ booking[b].scheduled /\ booking[b].due}
\* findDueForScheduledBroadcast.
Due == {b \in Bookings : /\ booking[b].status = "pending" /\ booking[b].scheduled
                         /\ booking[b].due /\ ~booking[b].marked}

\* What a call leaves behind when it throws or the server stops.
Abandoned(h) == IF call[h].at \in {"fan", "again", "mark"} THEN call[h].b ELSE {}
Unanswered(h) == {call[h].key} \ {NoKey}

-----------------------------------------------------------------------------
(* Creating                                                                *)

\* The middleware: a stored answer is replayed, otherwise the handler runs.
CreateRequest(h, key) ==
    /\ Free(h) /\ key \in mix.keys \ answers
    /\ Goes(h, [NoCall EXCEPT !.at = "insert", !.key = key])
    /\ retried' = IF \E g \in Calls : call[g].key = key THEN retried \union ({key} \ {NoKey}) ELSE retried
    /\ UNCHANGED <<mix, booking, live, asked, answers, sent, torn, early>>

\* createBooking up to the broadcast; a scheduled booking is left to the sweep.
InsertBooking(h, b, scheduled) ==
    /\ At(h, "insert")
    /\ b <= mix.orders /\ {a \in Bookings : booking[a].status = "none"} = {a \in Bookings : a >= b}
    /\ (IF scheduled THEN "later" ELSE "now") \in mix.ops
    /\ booking' = [booking EXCEPT ![b].status = "pending", ![b].scheduled = scheduled,
                                  ![b].key = call[h].key]
    /\ IF scheduled THEN Goes(h, [call[h] EXCEPT !.at = "save"])
       ELSE \E ds \in SUBSET Drivers :
                Goes(h, [call[h] EXCEPT !.at = "fan", !.b = {b}, !.left = ds])
    /\ UNCHANGED <<mix, live, asked, answers, sent, torn, early, retried>>

\* Bug: the answer is not kept.
SaveNothing(h) ==
    /\ At(h, "save") /\ Goes(h, NoCall)
    /\ UNCHANGED <<mix, booking, live, asked, answers, sent, torn, early, retried>>
\* The answer is stored after it has been sent, by the first of several (ON CONFLICT).
Save(h) ==
    /\ At(h, "save") /\ Goes(h, NoCall)
    /\ answers' = answers \union ({call[h].key} \ {NoKey})
    /\ UNCHANGED <<mix, booking, live, asked, sent, torn, early, retried>>

-----------------------------------------------------------------------------
(* Broadcasting                                                            *)

\* Drivers found for a booking get a request each, side by side.
InsertRequest(h, d) ==
    /\ call[h].at \in {"fan", "again"} /\ d \in call[h].left
    /\ \E b \in call[h].b : /\ live[b][d] < MaxLive
                            /\ live' = [live EXCEPT ![b][d] = @ + 1]
    /\ Goes(h, [call[h] EXCEPT !.left = @ \ {d}])
    /\ UNCHANGED <<mix, booking, asked, answers, sent, torn, early, retried>>

\* Promise.allSettled passes over a failure, Promise.all throws it.
FailRequest(h, d) ==
    /\ "fail" \in mix.ops /\ call[h].at \in {"fan", "again"} /\ d \in call[h].left
    /\ Goes(h, [call[h] EXCEPT !.left = @ \ {d},
                               !.threw = @ \/ \E b \in call[h].b : booking[b].mode = "brokers"])
    /\ UNCHANGED <<mix, booking, live, asked, answers, sent, torn, early, retried>>

\* A broadcast that has thrown ends its request, or the whole run of the sweep.
FanEnds(h) ==
    /\ call[h].at \in {"fan", "again"} /\ call[h].left = {}
    /\ IF call[h].threw
       THEN /\ Goes(h, NoCall) /\ torn' = torn \union call[h].b
            /\ retried' = retried \union Unanswered(h) /\ UNCHANGED sent
       ELSE /\ Goes(h, IF At(h, "again") THEN NoCall ELSE [call[h] EXCEPT !.at = "mark"])
            /\ sent' = IF At(h, "again") THEN sent ELSE sent \union call[h].b
            /\ UNCHANGED <<torn, retried>>
    /\ UNCHANGED <<mix, booking, live, asked, answers, early>>

\* markBroadcastTriggered.
Mark(h) ==
    /\ At(h, "mark")
    /\ booking' = [b \in Bookings |-> IF b \in call[h].b
                      THEN [booking[b] EXCEPT !.marked = TRUE] ELSE booking[b]]
    /\ Goes(h, IF h \in Clients THEN [call[h] EXCEPT !.at = "save", !.b = {}]
               ELSE IF call[h].todo = {} THEN NoCall
               ELSE [call[h] EXCEPT !.at = "next", !.b = {}])
    /\ UNCHANGED <<mix, live, asked, answers, sent, torn, early, retried>>

\* The sweep, every minute, whether or not an earlier run has ended.
SelectDue(h) ==
    /\ Free(h) /\ Due # {}
    /\ Goes(h, [NoCall EXCEPT !.at = "next", !.todo = Due])
    /\ torn' = torn \union (Due \intersect Busy(h))
    /\ UNCHANGED <<mix, booking, live, asked, answers, sent, early, retried>>

\* Bug: the booking is marked before it is broadcast.
TakeMarked(h) ==
    /\ At(h, "next")
    /\ \E b \in call[h].todo, ds \in SUBSET Drivers :
          /\ Goes(h, [call[h] EXCEPT !.at = "fan", !.b = {b}, !.left = ds, !.todo = @ \ {b}])
          /\ booking' = [booking EXCEPT ![b].marked = TRUE]
    /\ UNCHANGED <<mix, live, asked, answers, sent, torn, early, retried>>
\* The rows selected are worked off as they were, one after the other.
TakeNext(h) ==
    /\ At(h, "next")
    /\ \E b \in call[h].todo, ds \in SUBSET Drivers :
          Goes(h, [call[h] EXCEPT !.at = "fan", !.b = {b}, !.left = ds, !.todo = @ \ {b}])
    /\ UNCHANGED <<mix, booking, live, asked, answers, sent, torn, early, retried>>

\* rebroadcastBooking: drivers with a live request are passed over.  A scheduled booking may be
\* searched for before its time, and its broadcast then passes over nobody.
SearchAgain(h, b) ==
    /\ "again" \in mix.ops /\ Free(h) /\ booking[b].status = "pending" /\ booking[b].mode = "drivers"
    /\ \E ds \in SUBSET {d \in Drivers : live[b][d] = 0 /\ asked[b][d] = 0} :
          Goes(h, [NoCall EXCEPT !.at = "again", !.b = {b}, !.left = ds])
    /\ torn' = IF b \in Busy(h) THEN torn \union {b} ELSE torn
    /\ early' = IF b \in sent THEN early ELSE early \union {b}
    /\ UNCHANGED <<mix, booking, live, asked, answers, sent, retried>>

\* requestTruckForBooking: the client picks a truck for a pending booking, however it is searched
\* for, and nobody looks whether its driver has a request.
RequestTruck(h, b, d) ==
    /\ "ask" \in mix.ops /\ Free(h) /\ booking[b].status = "pending"
    /\ Goes(h, [NoCall EXCEPT !.at = "ask", !.asks = {<<b, d>>}])
    /\ UNCHANGED <<mix, booking, live, asked, answers, sent, torn, early, retried>>

InsertAsked(h) ==
    /\ At(h, "ask") /\ Goes(h, NoCall)
    /\ \E b \in Bookings, d \in Drivers : /\ <<b, d>> \in call[h].asks /\ asked[b][d] < MaxAsked
                                         /\ asked' = [asked EXCEPT ![b][d] = @ + 1]
    /\ UNCHANGED <<mix, booking, live, answers, sent, torn, early, retried>>

-----------------------------------------------------------------------------
\* broadcast_at has come.
FallDue(b) ==
    /\ booking[b].scheduled /\ ~booking[b].due
    /\ booking' = [booking EXCEPT ![b].due = TRUE]
    /\ UNCHANGED <<mix, live, asked, answers, call, sent, torn, early, retried>>

DriverDeclines(b, d) ==
    /\ \/ live[b][d] > 0 /\ live' = [live EXCEPT ![b][d] = @ - 1] /\ UNCHANGED asked
       \/ asked[b][d] > 0 /\ asked' = [asked EXCEPT ![b][d] = @ - 1] /\ UNCHANGED live
    /\ UNCHANGED <<mix, booking, answers, call, sent, torn, early, retried>>

\* Cancelled, or won by somebody: the live requests are declined.
Close(b) ==
    /\ booking[b].status = "pending"
    /\ booking' = [booking EXCEPT ![b].status = "closed"]
    /\ live' = [live EXCEPT ![b] = [d \in Drivers |-> 0]]
    /\ asked' = [asked EXCEPT ![b] = [d \in Drivers |-> 0]]
    /\ UNCHANGED <<mix, answers, call, sent, torn, early, retried>>

Restart ==
    /\ "stop" \in mix.ops /\ \E h \in Calls : call[h] # NoCall
    /\ call' = [h \in Calls |-> NoCall]
    /\ torn' = torn \union UNION {Abandoned(h) : h \in Calls}
    /\ retried' = retried \union UNION {Unanswered(h) : h \in Calls}
    /\ UNCHANGED <<mix, booking, live, asked, answers, sent, early>>

Next ==
    \/ \E h \in Clients :
          \/ \E key \in Keys \union {NoKey} : CreateRequest(h, key)
          \/ \E b \in Bookings : \/ SearchAgain(h, b)
                                 \/ \E scheduled \in BOOLEAN : InsertBooking(h, b, scheduled)
                                 \/ \E d \in Drivers : RequestTruck(h, b, d)
          \/ Save(h) \/ InsertAsked(h)
    \/ \E h \in Sweeps : SelectDue(h) \/ TakeNext(h)
    \/ \E h \in Calls :
          \/ \E d \in Drivers : InsertRequest(h, d) \/ FailRequest(h, d)
          \/ FanEnds(h) \/ Mark(h)
    \/ \E b \in Bookings : FallDue(b) \/ Close(b) \/ \E d \in Drivers : DriverDeclines(b, d)
    \/ Restart

Spec == Init /\ [][Next]_vars
-----------------------------------------------------------------------------
\* A scheduled booking is not forgotten: as long as none of its broadcasts has come to
\* its end, the next run of the sweep finds it, through restarts and failures of this one
\* (scheduledBookingBroadcastSweep, markBroadcastTriggered).
NotForgotten ==
    \A b \in Bookings : booking[b].scheduled /\ booking[b].status = "pending"
                        /\ booking[b].due /\ b \notin sent => b \in Due

\* However often a client searches again, the searches leave a driver one live request for a
\* booking - two where a scheduled booking was searched for before its broadcast - beside those
\* the client has sent him himself, unless a broadcast of it was interrupted or two overlapped
\* (rebroadcastDriverFanOut, requestTruckForBooking).
OneLiveRequest ==
    \A b \in Bookings \ torn, d \in Drivers : live[b][d] <= IF b \in early THEN 2 ELSE 1

\* An order repeated under one key makes one booking, unless it was repeated before the
\* first answer was stored or after a failure halfway (idempotent, "to make client
\* retries safe").
BookedOnce ==
    \A key \in Keys \ retried : Cardinality({b \in Bookings : booking[b].key = key}) <= 1
=============================================================================
