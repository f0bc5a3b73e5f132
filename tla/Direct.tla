------------------------------- MODULE Direct -------------------------------
(***************************************************************************)
(* The standing channel of a broker and one of his drivers.  No bot and no *)
(* booking: its stage stays 'bot', so no message in it is ever notified or *)
(* pushed, and the badge of unread messages is all that tells of one.  An  *)
(* app that has the channel open has joined its room, fetched its history, *)
(* and then marks what there is as read; a message is written, and         *)
(* then sent to the room.                                                  *)
(***************************************************************************)
EXTENDS Integers, Sequences

CONSTANTS
    Broker, Driver,
    Visitor,                 \* an administrator, or one of the staff
    Calls,                   \* requests and socket events in flight
    MaxMessages              \* bound

VARIABLES
    thread,        \* the row of the pair exists
    messages,      \* chat_messages, with what has become of each; of read_at also (history) who set
                   \* it: its reader with the channel open, or anybody else
    window,        \* the app of each: "shut", in the room, and with the history
    call,
    hasty          \* history: who has left with a mark of his, or a message to him, on its way

vars == <<thread, messages, window, call, hasty>>

Ends     == {Broker, Driver}
Other(u) == IF u = Broker THEN Driver ELSE Broker
NoCall   == [at |-> "none", by |-> Broker, n |-> 0]

TypeOK ==
    /\ thread \in BOOLEAN
    /\ messages \in Seq([by : Ends, read : {"no", "reader", "other"}, shown : BOOLEAN, sent : BOOLEAN])
    /\ Len(messages) <= MaxMessages
    /\ window \in [Ends -> {"shut", "joined", "open"}]
    /\ call \in [Calls -> [at : {"none", "emit", "mark"}, by : Ends, n : 0..MaxMessages]]
    /\ hasty \subseteq Ends

Init ==
    /\ thread = FALSE /\ messages = <<>>
    /\ window = [u \in Ends |-> "shut"]
    /\ call = [h \in Calls |-> NoCall] /\ hasty = {}

Go(h, at, u, n) == call' = [call EXCEPT ![h] = [at |-> at, by |-> u, n |-> n]]
Done(h) == call' = [call EXCEPT ![h] = NoCall]

\* The messages that satisfy Which, changed.
Each(Which(_), Change(_)) ==
    messages' = [i \in DOMAIN messages |-> IF Which(i) THEN Change(messages[i]) ELSE messages[i]]
-----------------------------------------------------------------------------
\* getThreadForDriver and getThreadWithMyBroker: findOrCreateDirect, one row for the pair.
OpenThread ==
    /\ ~thread /\ thread' = TRUE
    /\ UNCHANGED <<messages, window, call, hasty>>

\* join-thread
Join(u) ==
    /\ thread /\ window[u] = "shut"
    /\ window' = [window EXCEPT ![u] = "joined"]
    /\ UNCHANGED <<thread, messages, call, hasty>>

\* listMessages
Fetch(u) ==
    /\ window[u] = "joined" /\ window' = [window EXCEPT ![u] = "open"]
    /\ Each(LAMBDA i : messages[i].by # u, LAMBDA m : [m EXCEPT !.shown = TRUE])
    /\ UNCHANGED <<thread, call, hasty>>

OnItsWay(u) == \E h \in Calls : <<call[h].at, call[h].by>> \in {<<"mark", u>>, <<"emit", Other(u)>>}

\* leave-thread and disconnect
Leave(u) ==
    /\ window[u] # "shut" /\ window' = [window EXCEPT ![u] = "shut"]
    /\ hasty' = IF OnItsWay(u) THEN hasty \union {u} ELSE hasty
    /\ UNCHANGED <<thread, messages, call>>

\* send-message and sendMessage: the row, by the one or the other.
Post(h, u) ==
    /\ call[h] = NoCall /\ thread /\ Len(messages) < MaxMessages
    /\ messages' = Append(messages, [by |-> u, read |-> "no", shown |-> FALSE, sent |-> FALSE])
    /\ Go(h, "emit", u, Len(messages) + 1)
    /\ UNCHANGED <<thread, window, hasty>>

\* broadcastMessage: whoever is in the room has it, and nobody is told besides.
Emit(h) ==
    LET c == call[h] IN
    /\ c.at = "emit"
    /\ messages' = [messages EXCEPT ![c.n].sent = TRUE,
                                    ![c.n].shown = @ \/ window[Other(c.by)] # "shut"]
    /\ Done(h)
    /\ UNCHANGED <<thread, window, hasty>>

\* The app marks the channel read: markThreadRead or the event read, of an open window.
MarkRequest(h, u) ==
    /\ call[h] = NoCall /\ window[u] = "open"
    /\ Go(h, "mark", u, 0)
    /\ UNCHANGED <<thread, messages, window, hasty>>

\* ChatMessageModel.markThreadRead: what others than he have sent, up to now, is read once.
SetRead(u, how) ==
    Each(LAMBDA i : messages[i].by # u /\ messages[i].read = "no", LAMBDA m : [m EXCEPT !.read = how])

Mark(h) ==
    /\ call[h].at = "mark" /\ SetRead(call[h].by, "reader") /\ Done(h)
    /\ UNCHANGED <<thread, window, hasty>>

\* markThreadRead of an administrator, who may view every thread; and the event read of a socket
\* that has the id: it is asked neither for access nor whether it has joined.
Visit(u) ==
    /\ thread /\ SetRead(u, "other")
    /\ UNCHANGED <<thread, window, call, hasty>>

\* A handler is cut off: what it has written is not sent.
Fail(h) ==
    /\ call[h] # NoCall /\ Done(h)
    /\ UNCHANGED <<thread, messages, window, hasty>>

Next ==
    \/ OpenThread
    \/ \E u \in Ends : Join(u) \/ Fetch(u) \/ Leave(u)
    \/ \E u \in Ends \union {Visitor} : Visit(u)
    \/ \E h \in Calls :
          \/ \E u \in Ends : Post(h, u) \/ MarkRequest(h, u)
          \/ Emit(h) \/ Mark(h) \/ Fail(h)

Spec == Init /\ [][Next]_vars
-----------------------------------------------------------------------------
\* Bug: only messages that belong to a booking are counted.
UnreadOfBookings(u) == {}
\* countUnreadForUser, and the count of listForUser.
Unread(u) == {i \in DOMAIN messages : messages[i].by # u /\ messages[i].read = "no"}

\* Messages that have gone out and that their readers have not seen.
Unseen == {i \in DOMAIN messages : messages[i].sent /\ ~messages[i].shown}

\* Such a message is in its reader's badge, whatever arrives between the history and the mark -
\* unless he left at that very moment, or it was marked by an administrator who viewed the
\* channel or by a socket outside the room (markThreadRead, countUnreadForUser).
BadgeHonest ==
    \A i \in Unseen :
        LET u == Other(messages[i].by) IN
        i \in Unread(u) \/ u \in hasty \/ messages[i].read = "other"
=============================================================================
