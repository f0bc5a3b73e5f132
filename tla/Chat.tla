------------------------------- MODULE Chat -------------------------------
(***************************************************************************)
(* The chat of one booking.  A scripted bot answers the client first; a    *)
(* request for a person, or free text, turns the thread over to the broker *)
(* and the driver, once, and from then on every message notifies the       *)
(* others.  The route and the socket event run the same handlers, which    *)
(* work on the thread and the booking as they have read them.              *)
(***************************************************************************)
EXTENDS Integers, Sequences, FiniteSets

CONSTANTS
    Client, Staff,           \* the client; the broker and the driver
    Calls,                   \* requests and socket events in flight
    MaxMessages,             \* bound
    MaxChanges               \* bound: changes of the broker or the driver

VARIABLES
    stage,         \* chat_threads.stage; "none" before the thread is opened
    greeted,       \* how many greetings the bot has posted
    assigned,      \* the booking's broker and driver
    locked,        \* the booking is delivered or completed
    messages,      \* chat_messages of people, and whom a notification has told of each
    changes,       \* how often they changed
    call

vars == <<stage, greeted, assigned, locked, messages, changes, call>>

People == Staff \union {Client}
NoCall == [at |-> "none", by |-> Client, want |-> "text", stage |-> "none", others |-> {}, n |-> 0]
Phases == {"none", "greet", "post", "notify", "escalate", "wake"}

TypeOK ==
    /\ stage \in {"none", "bot", "human"} /\ greeted \in Nat
    /\ assigned \subseteq Staff /\ locked \in BOOLEAN
    /\ messages \in Seq([by : People, owed : SUBSET People, told : SUBSET People,
                         settled : BOOLEAN])
    /\ Len(messages) <= MaxMessages /\ changes \in 0..MaxChanges
    /\ call \in [Calls -> [at : Phases, by : People, want : {"text", "person", "menu"},
                           stage : {"none", "bot", "human"}, others : SUBSET People,
                           n : 0..MaxMessages]]

Init ==
    /\ stage = "none" /\ greeted = 0 /\ assigned \in SUBSET Staff /\ locked = FALSE
    /\ messages = <<>> /\ changes = 0 /\ call = [h \in Calls |-> NoCall]

-----------------------------------------------------------------------------
At(h, phase)      == call[h].at = phase
Goes(h, phase)    == call' = [call EXCEPT ![h].at = phase]
Ends(h)           == call' = [call EXCEPT ![h] = NoCall]
isParticipant(u)  == u \in assigned \union {Client}
recipientIds(u)   == (assigned \union {Client}) \ {u}
Tells(is, u)      == messages' = [i \in DOMAIN messages |->
                        IF i \in is THEN [messages[i] EXCEPT !.told = @ \union {u}] ELSE messages[i]]
Settles(n)        == messages' = [messages EXCEPT ![n].settled = TRUE]

\* getThreadForBooking: the insert that succeeds greets, any other finds the thread.
Open(h, u) ==
    /\ call[h] = NoCall /\ isParticipant(u) /\ stage = "none"
    /\ stage' = "bot" /\ Goes(h, "greet")
    /\ UNCHANGED <<greeted, assigned, locked, messages, changes>>

Greet(h) ==
    /\ At(h, "greet") /\ greeted' = greeted + 1 /\ Ends(h)
    /\ UNCHANGED <<stage, assigned, locked, messages, changes>>

\* sendMessage and the socket's send-message ("text"); sendBotAction, an entry that asks
\* for a person or one the bot answers itself ("person", "menu").
Send(h, u, want) ==
    /\ call[h] = NoCall /\ stage # "none" /\ ~locked /\ isParticipant(u)
    /\ want # "text" => u = Client /\ stage = "bot"
    /\ call' = [call EXCEPT ![h] = [at |-> "post", by |-> u, want |-> want, stage |-> stage,
                                    others |-> recipientIds(u), n |-> 0]]
    /\ UNCHANGED <<stage, greeted, assigned, locked, messages, changes>>

\* postMessage: while the bot has the thread nobody is notified, so the broker and the
\* driver are owed what the client wants of them and the client is owed nothing.
Post(h) ==
    LET c == call[h]
        quiet == c.stage = "bot" /\ (c.by # Client \/ c.want = "menu") IN
    /\ At(h, "post") /\ Len(messages) < MaxMessages
    /\ messages' = Append(messages, [by |-> c.by, owed |-> IF quiet THEN {} ELSE c.others,
                                     told |-> {}, settled |-> quiet])
    /\ call' = [call EXCEPT ![h] = IF quiet THEN NoCall
                    ELSE [c EXCEPT !.at = IF c.stage = "bot" THEN "escalate" ELSE "notify",
                                   !.n = Len(messages) + 1]]
    /\ UNCHANGED <<stage, greeted, assigned, locked, changes>>

\* One notification each; the call ends when all have been made.
Notify(h) ==
    LET c == call[h] IN
    /\ At(h, "notify")
    /\ IF c.others = {} THEN Settles(c.n) /\ Ends(h)
       ELSE \E u \in c.others :
              Tells({c.n}, u) /\ call' = [call EXCEPT ![h].others = @ \ {u}]
    /\ UNCHANGED <<stage, greeted, assigned, locked, changes>>

\* Bug: the thread changes hands and nobody is called.
EscalateOnly(h) ==
    /\ At(h, "escalate") /\ stage' = "human"
    /\ Ends(h) /\ (IF stage = "bot" THEN Settles(call[h].n) ELSE UNCHANGED messages)
    /\ UNCHANGED <<greeted, assigned, locked, changes>>
\* escalateAndNotify: setStage succeeds once; a call that comes second does no more.
Escalate(h) ==
    /\ At(h, "escalate") /\ stage' = "human"
    /\ IF stage = "bot" THEN Goes(h, "wake") ELSE Ends(h)
    /\ UNCHANGED <<greeted, assigned, locked, messages, changes>>

\* "Client wants to chat": whoever is called finds all that has been written.
Wake(h) ==
    LET c == call[h] IN
    /\ At(h, "wake")
    /\ IF c.others = {} THEN Settles(c.n) /\ Ends(h)
       ELSE \E u \in c.others :
              Tells(DOMAIN messages, u) /\ call' = [call EXCEPT ![h].others = @ \ {u}]
    /\ UNCHANGED <<stage, greeted, assigned, locked, changes>>

\* The booking is won, reassigned or declined, and delivered.
Reassign(u) ==
    /\ changes < MaxChanges /\ changes' = changes + 1
    /\ assigned' = IF u \in assigned THEN assigned \ {u} ELSE assigned \union {u}
    /\ UNCHANGED <<stage, greeted, locked, messages, call>>

Deliver ==
    /\ ~locked /\ locked' = TRUE
    /\ UNCHANGED <<stage, greeted, assigned, messages, changes, call>>

Fail(h) ==
    /\ call[h] # NoCall /\ Ends(h)
    /\ UNCHANGED <<stage, greeted, assigned, locked, messages, changes>>

Next ==
    \/ \E h \in Calls :
          \/ \E u \in People : Open(h, u) \/ \E want \in {"text", "person", "menu"} : Send(h, u, want)
          \/ Greet(h) \/ Post(h) \/ Notify(h) \/ Escalate(h) \/ Wake(h) \/ Fail(h)
    \/ \E u \in Staff : Reassign(u)
    \/ Deliver

Spec == Init /\ [][Next]_vars
-----------------------------------------------------------------------------
\* A message for a person reaches everybody who was on the booking when it was sent: by its
\* own notification, or by the call that turned the thread over.  Only a call that
\* failed, or lost the race to turn it over, leaves one unsettled; and the bot greets
\* once however many open the thread (postMessage, escalateAndNotify, findOrCreateByBooking).
MessagesReach ==
    /\ \A i \in DOMAIN messages : messages[i].settled => messages[i].owed \subseteq messages[i].told
    /\ greeted <= 1
=============================================================================
