--------------------------- MODULE ProxyLifecycle ---------------------------
(***************************************************************************)
(* The life of the proxy: the main thread in main, CtpProxy.start, connect *)
(* and stop; the publisher and the command thread with their sockets; the  *)
(* bounded queue the CTP callbacks put events into; and the two CTP APIs.  *)
(*                                                                         *)
(* Events are numbered in the order in which the callbacks produce them.   *)
(* What a command does is left out (OrderFlow, MarketData, AccountQuery)   *)
(* but for its check of td_ready and its call of the API.  The process     *)
(* ends when main does; the other threads are daemons.                     *)
(***************************************************************************)
EXTENDS Integers, Sequences

CONSTANTS
    MaxQueue, \* maxsize of the queue (100 000 in the code)
    MaxEvents \* bound: events produced

ASSUME LifecycleAssumption == MaxQueue \in Nat \ {0} /\ MaxEvents \in Nat

VARIABLES
    main,     \* where the main thread is
    md_ok,    \* the first result in CtpSession.connect
    active,   \* CtpProxy.active
    sockets,  \* "none", "open", "closed"
    api,      \* the CTP APIs: "none", "up", "released"
    ready,    \* md_ready and td_ready: the sessions that are ready
    queue,    \* _publish_queue
    pub,      \* the publisher thread, with the event it holds
    cmd,      \* the command thread
    produced, \* events the callbacks produced
    sent,     \* history: the events that were sent
    missed,   \* history: events a full queue dropped or the publisher could not send
    logins,   \* history: the sessions that ever became ready
    mark,     \* history: events produced before stop()
    cut       \* history: the threads whose join timed out

mainVars   == <<main, md_ok, active, sockets, api>>
threadVars == <<pub, cmd>>
eventVars  == <<queue, produced, sent, missed>>
historyVars == <<logins, mark, cut>>
vars == <<mainVars, ready, threadVars, eventVars, historyVars>>

Sessions == {"md", "td"}
NoThread == [pc |-> "none", event |-> 0]
Running  == main # "done"

Init ==
    /\ main = "start" /\ md_ok = FALSE
    /\ active = FALSE /\ sockets = "none" /\ api = "none" /\ ready = {}
    /\ pub = NoThread /\ cmd = "none"
    /\ queue = <<>> /\ produced = 0 /\ sent = {} /\ missed = {}
    /\ logins = {} /\ mark = MaxEvents /\ cut = {}
-----------------------------------------------------------------------------
\* The main thread.  start() binds the sockets and starts the threads, or a
\* bind fails and stop() follows.

Start ==
    /\ main = "start"
    /\ \/ /\ sockets' = "open" /\ active' = TRUE
          /\ pub' = [pc |-> "loop", event |-> 0] /\ cmd' = "loop"
          /\ main' = "connect"
       \/ /\ sockets' \in {"none", "open"}
          /\ main' = "stop" /\ UNCHANGED <<active, pub, cmd>>
    /\ UNCHANGED <<md_ok, api, ready, eventVars, historyVars>>

\* CtpSession.connect creates the APIs; without the CTP library it raises.
Connect ==
    /\ main = "connect"
    /\ \/ main' = "wait_md" /\ api' = "up"
       \/ main' = "stop" /\ UNCHANGED api
    /\ UNCHANGED <<md_ok, active, sockets, ready, threadVars, eventVars, historyVars>>

\* md_ready.wait(timeout) ...
WaitMd ==
    /\ main = "wait_md"
    /\ md_ok' = ("md" \in ready)
    /\ main' = "wait_td"
    /\ UNCHANGED <<active, sockets, api, ready, threadVars, eventVars, historyVars>>

\* A connect that returns the last result only.
WaitTd_IgnoreMd ==
    /\ main = "wait_td"
    /\ main' = IF "td" \in ready THEN "serve" ELSE "stop"
    /\ UNCHANGED <<md_ok, active, sockets, api, ready, threadVars, eventVars, historyVars>>

\* ... and then td_ready.wait(timeout); md_ready is not looked at again.
WaitTd ==
    /\ main = "wait_td"
    /\ main' = IF md_ok /\ "td" \in ready THEN "serve" ELSE "stop"
    /\ UNCHANGED <<md_ok, active, sockets, api, ready, threadVars, eventVars, historyVars>>

\* shutdown.wait() returns when a signal arrives, or has arrived before.
Serve ==
    /\ main = "serve"
    /\ main' = "stop"
    /\ UNCHANGED <<md_ok, active, sockets, api, ready, threadVars, eventVars, historyVars>>

Stop ==
    /\ main = "stop"
    /\ active' = FALSE /\ mark' = produced
    /\ main' = "close"
    /\ UNCHANGED <<md_ok, sockets, api, ready, threadVars, eventVars,
                   logins, cut>>

\* CtpSession.close: first the flags are cleared ...
CloseSession ==
    /\ main = "close"
    /\ ready' = {}
    /\ main' = "release"
    /\ UNCHANGED <<md_ok, active, sockets, api, threadVars, eventVars, historyVars>>

\* ... then the APIs are released; no callback runs afterwards.
Release ==
    /\ main = "release"
    /\ api' = IF api = "up" THEN "released" ELSE api
    /\ main' = "join_cmd"
    /\ UNCHANGED <<md_ok, active, sockets, ready, threadVars, eventVars, historyVars>>

\* A join without a timeout.
JoinCommand_NoTimeout ==
    /\ main = "join_cmd"
    /\ cmd \in {"none", "ended"}
    /\ main' = "join_pub"
    /\ UNCHANGED <<md_ok, active, sockets, api, ready, threadVars, eventVars, historyVars>>

\* join(timeout=2); the loop looks at active four times a second, a command may
\* take longer.
JoinCommand ==
    /\ main = "join_cmd"
    /\ \/ cmd \in {"none", "ended"} /\ UNCHANGED cut
       \/ cmd \in {"handle", "call"} /\ cut' = cut \cup {"cmd"}
    /\ main' = "join_pub"
    /\ UNCHANGED <<md_ok, active, sockets, api, ready, threadVars, eventVars,
                   logins, mark>>

Draining == pub.pc = "send" \/ (pub.pc \in {"loop", "get"} /\ queue # <<>>)

\* A stop that does not wait for the publisher.
JoinPublisher_Skip ==
    /\ main = "join_pub"
    /\ main' = "sockets"
    /\ UNCHANGED <<md_ok, active, sockets, api, ready, threadVars, eventVars, historyVars>>

\* join(timeout=2); sending what is left in the queue may take longer.
JoinPublisher ==
    /\ main = "join_pub"
    /\ \/ pub.pc \in {"none", "ended"} /\ UNCHANGED cut
       \/ Draining /\ cut' = cut \cup {"pub"}
    /\ main' = "sockets"
    /\ UNCHANGED <<md_ok, active, sockets, api, ready, threadVars, eventVars,
                   logins, mark>>

CloseSockets ==
    /\ main = "sockets"
    /\ sockets' = IF sockets = "open" THEN "closed" ELSE sockets
    /\ main' = "term"
    /\ UNCHANGED <<md_ok, active, api, ready, threadVars, eventVars, historyVars>>

\* context.term() and the end of main.
Exit ==
    /\ main = "term"
    /\ main' = "done"
    /\ UNCHANGED <<md_ok, active, sockets, api, ready, threadVars, eventVars, historyVars>>
-----------------------------------------------------------------------------
\* The CTP callbacks, which end in enqueue_publish.

\* A queue that takes everything.
Enqueue_Unbounded ==
    /\ produced < MaxEvents
    /\ produced' = produced + 1
    /\ queue' = Append(queue, produced + 1)
    /\ UNCHANGED <<sent, missed>>

\* put_nowait: a full queue drops the event.
Enqueue ==
    /\ produced < MaxEvents
    /\ produced' = produced + 1
    /\ \/ /\ Len(queue) < MaxQueue
          /\ queue' = Append(queue, produced + 1)
          /\ UNCHANGED missed
       \/ /\ Len(queue) = MaxQueue
          /\ missed' = missed \cup {produced + 1}
          /\ UNCHANGED queue
    /\ UNCHANGED sent

\* OnRspUserLogin of the market data, OnRspSettlementInfoConfirm of the trader.
LoggedIn(s) ==
    /\ api = "up" /\ s \notin ready
    /\ ready' = ready \cup {s}
    /\ logins' = logins \cup {s}
    /\ Enqueue
    /\ UNCHANGED <<mainVars, threadVars, mark, cut>>

OnFrontDisconnected(s) ==
    /\ api = "up"
    /\ ready' = ready \ {s}
    /\ Enqueue
    /\ UNCHANGED <<mainVars, threadVars, historyVars>>

\* A tick, a report, a trade, an answer.
OtherCallback ==
    /\ api = "up"
    /\ Enqueue
    /\ UNCHANGED <<mainVars, ready, threadVars, historyVars>>
-----------------------------------------------------------------------------
\* The publisher thread.

\* A loop that ends with active.
PublisherLoop_WhileActive ==
    /\ pub.pc = "loop" /\ Running
    /\ pub' = [pub EXCEPT !.pc = IF active THEN "get" ELSE "ended"]
    /\ UNCHANGED <<mainVars, ready, cmd, eventVars, historyVars>>

PublisherLoop ==
    /\ pub.pc = "loop" /\ Running
    /\ pub' = [pub EXCEPT !.pc = IF active \/ queue # <<>> THEN "get" ELSE "ended"]
    /\ UNCHANGED <<mainVars, ready, cmd, eventVars, historyVars>>

\* A loop that looks at active again after it took an event.
PublisherGet_DiscardInactive ==
    /\ pub.pc = "get" /\ Running
    /\ IF queue = <<>> THEN pub' = [pub EXCEPT !.pc = "loop"] /\ UNCHANGED queue
                       ELSE /\ pub' = IF active THEN [pc |-> "send", event |-> Head(queue)]
                                                ELSE [pub EXCEPT !.pc = "loop"]
                            /\ queue' = Tail(queue)
    /\ UNCHANGED <<mainVars, ready, cmd, produced, sent, missed, historyVars>>

\* get(timeout=0.2) returns an event or, on an empty queue, raises Empty.
PublisherGet ==
    /\ pub.pc = "get" /\ Running
    /\ IF queue = <<>> THEN pub' = [pub EXCEPT !.pc = "loop"] /\ UNCHANGED queue
                       ELSE pub' = [pc |-> "send", event |-> Head(queue)]
                            /\ queue' = Tail(queue)
    /\ UNCHANGED <<mainVars, ready, cmd, produced, sent, missed, historyVars>>

PublisherSend ==
    /\ pub.pc = "send" /\ Running /\ sockets = "open"
    /\ sent' = sent \cup {pub.event}
    /\ pub' = [pc |-> "loop", event |-> 0]
    /\ UNCHANGED <<mainVars, ready, cmd, queue, produced, missed, historyVars>>

\* A failure that puts the event back.
PublisherSendFails_Requeue ==
    /\ pub.pc = "send" /\ Running
    /\ queue' = Append(queue, pub.event)
    /\ pub' = [pc |-> "loop", event |-> 0]
    /\ UNCHANGED <<mainVars, ready, cmd, produced, sent, missed, historyVars>>

\* A failure that nothing catches.
PublisherSendFails_EndsThread ==
    /\ pub.pc = "send" /\ Running
    /\ missed' = missed \cup {pub.event}
    /\ pub' = [pc |-> "ended", event |-> 0]
    /\ UNCHANGED <<mainVars, ready, cmd, queue, produced, sent, historyVars>>

\* An event that is not JSON, or a socket that is closed: it is logged.
PublisherSendFails ==
    /\ pub.pc = "send" /\ Running
    /\ missed' = missed \cup {pub.event}
    /\ pub' = [pc |-> "loop", event |-> 0]
    /\ UNCHANGED <<mainVars, ready, cmd, queue, produced, sent, historyVars>>
-----------------------------------------------------------------------------
\* The command thread.

CommandLoop ==
    /\ cmd = "loop" /\ Running
    /\ cmd' = IF active THEN "poll" ELSE "ended"
    /\ UNCHANGED <<mainVars, ready, pub, eventVars, historyVars>>

\* poll(250): a request, or none.
CommandPoll ==
    /\ cmd = "poll" /\ Running
    /\ cmd' \in {"handle", "loop"}
    /\ UNCHANGED <<mainVars, ready, pub, eventVars, historyVars>>

\* handle_command: one that needs the trader API looks at td_ready first.
HandleCommand ==
    /\ cmd = "handle" /\ Running
    /\ cmd' \in {"reply"} \cup IF "td" \in ready THEN {"call"} ELSE {}
    /\ UNCHANGED <<mainVars, ready, pub, eventVars, historyVars>>

CallApi ==
    /\ cmd = "call" /\ Running
    /\ cmd' = "reply"
    /\ UNCHANGED <<mainVars, ready, pub, eventVars, historyVars>>

CommandReply ==
    /\ cmd = "reply" /\ Running
    /\ cmd' = "loop"
    /\ UNCHANGED <<mainVars, ready, pub, eventVars, historyVars>>
-----------------------------------------------------------------------------
MainStep == \/ Start \/ Connect \/ WaitMd \/ WaitTd \/ Stop
            \/ CloseSession \/ Release \/ JoinCommand \/ JoinPublisher \/ CloseSockets \/ Exit
Callback == \/ \E s \in Sessions : LoggedIn(s) \/ OnFrontDisconnected(s)
            \/ OtherCallback
PublisherStep == PublisherLoop \/ PublisherGet \/ PublisherSend \/ PublisherSendFails
CommandStep   == CommandLoop \/ CommandPoll \/ HandleCommand \/ CallApi \/ CommandReply

Next == MainStep \/ Serve \/ Callback \/ PublisherStep \/ CommandStep

Spec == Init /\ [][Next]_vars

\* The threads run.  A signal need not come, and a command may take for ever
\* (a query, the database).
FairSpec ==
    /\ Spec
    /\ WF_vars(MainStep) /\ WF_vars(PublisherStep)
    /\ WF_vars(CommandLoop) /\ WF_vars(CommandPoll) /\ WF_vars(CommandReply)
-----------------------------------------------------------------------------
Stopping == {"stop", "close", "release", "join_cmd", "join_pub", "sockets", "term"}

\* Every variable has its type, and the queue keeps its bound.
TypeOK ==
    /\ main \in {"start", "connect", "wait_md", "wait_td", "serve", "done"} \cup Stopping
    /\ md_ok \in BOOLEAN /\ active \in BOOLEAN
    /\ sockets \in {"none", "open", "closed"} /\ api \in {"none", "up", "released"}
    /\ ready \subseteq Sessions
    /\ queue \in Seq(Nat) /\ Len(queue) <= MaxQueue
    /\ pub \in [pc : {"none", "loop", "get", "send", "ended"}, event : Nat]
    /\ cmd \in {"none", "loop", "poll", "handle", "call", "reply", "ended"}
    /\ produced \in Nat /\ sent \in SUBSET Nat /\ missed \in SUBSET Nat
    /\ logins \subseteq Sessions /\ mark \in Nat
    /\ cut \subseteq {"cmd", "pub"}

\* Subscribers get events in their order and each at most once.
Feed == INSTANCE EventFeed WITH happened <- produced, sent <- sent
FeedSpec == Feed!Spec

Queued(e) == \E i \in DOMAIN queue : queue[i] = e

\* No event disappears while the process lives: what a callback produced was sent,
\* was dropped by a full queue or met a failure when it was sent, or else is in
\* the queue or in the publisher's hands.
NothingSkipped ==
    \A e \in 1..produced : \/ e \in sent \cup missed
                           \/ Queued(e)
                           \/ pub.pc = "send" /\ pub.event = e

\* When the proxy has stopped, every event from before stop() was sent, unless a
\* full queue dropped it, it could not be sent, or sending the rest took too long.
StopDrains ==
    main = "done" /\ "pub" \notin cut
        => \A e \in 1..mark : e \in sent \/ e \in missed

\* stop() closes the sockets when the threads that use them have ended, or have
\* been given their two seconds.
ThreadsEndFirst ==
    sockets = "closed" => /\ pub.pc \in {"none", "ended"} \/ "pub" \in cut
                          /\ cmd \in {"none", "ended"} \/ "cmd" \in cut

\* The proxy serves only after both sessions were ready since it started.
ServesOnlyLoggedIn == main = "serve" => logins = Sessions

\* What src/src/main.py:42 logs, "CTP proxy is ready": both sessions are logged in when
\* connect() returns true.  TLC refutes it: md_ready may be cleared while td_ready is
\* awaited.
ReadyWhenAnnounced == [][main = "wait_td" /\ main' = "serve" => ready = Sessions]_vars

\* stop() ends, however long a command or the queue takes.
StopEnds == (main = "stop") ~> (main = "done")

\* A queued event is taken out again, by the publisher or the end of the process.
QueuedIsTaken ==
    \A e \in 1..MaxEvents : Queued(e) ~> (~Queued(e) \/ main \in Stopping \cup {"done"})

\* What src/README.md:160 calls the health check and place_order's own check say:
\* a session is reported ready, and lets commands through to the API, only while
\* its API is there.  TLC refutes it: a login may be completed after close() cleared
\* the flags.
ReleasedIsNotReady == api = "released" => ready = {}
=============================================================================
