------------------------ MODULE ProxyLifecycleProofs ------------------------
(***************************************************************************)
(* What ProxyLifecycle keeps, for a queue of any size and any number of    *)
(* events: subscribers see events in order (FeedImplemented), no event     *)
(* disappears while the proxy lives (EventsNothingSkippedFor) nor when it stops *)
(* (StoppedHasDrained), stop() closes no socket under a running thread it  *)
(* did not wait for (SocketsOutliveThreads), and main serves only after    *)
(* both logins (ServingIsLoggedIn).                                        *)
(***************************************************************************)
EXTENDS ProxyLifecycle, TLAPS

PastStop == {"close", "release", "join_cmd", "join_pub", "sockets", "term", "done"}

\* Everything sent happened before e.
AfterSent(e) == \A d \in sent : d < e

\* The order of events: those that were sent, the one the publisher holds, the
\* queue from its head to its tail, the last one produced.
Ordered ==
    /\ \A i \in DOMAIN queue : AfterSent(queue[i]) /\ 1 <= queue[i] /\ queue[i] <= produced
    /\ \A i, j \in DOMAIN queue : i < j => queue[i] < queue[j]
    /\ pub.pc = "send" => /\ AfterSent(pub.event)
                          /\ 1 <= pub.event /\ pub.event <= produced
                          /\ \A i \in DOMAIN queue : pub.event < queue[i]
    /\ \A d \in sent : d <= produced

\* Before start() there are no threads, no API and no events.
Unstarted ==
    /\ main = "start" => pub = NoThread /\ cmd = "none" /\ sockets = "none"
    /\ main \in {"start", "connect"} => api = "none"
    /\ main \notin {"start"} \cup Stopping \cup {"done"} => pub.pc # "none" /\ active
    /\ pub.pc = "none" => api = "none"
    /\ api = "none" => produced = 0 /\ queue = <<>>

\* The publisher ends only after stop(), having emptied the queue.
Ends ==
    /\ pub.pc # "none" /\ ~active => main \in PastStop
    /\ pub.pc = "ended" => main \in PastStop /\ \A i \in DOMAIN queue : queue[i] > mark
    /\ main \in PastStop => mark <= produced

\* What the joins leave behind.
Joined ==
    /\ main \in {"join_pub", "sockets", "term", "done"}
           => cmd \in {"none", "ended"} \/ "cmd" \in cut
    /\ main \in {"sockets", "term", "done"}
           => pub.pc \in {"none", "ended"} \/ "pub" \in cut
    /\ sockets = "closed" => main \in {"term", "done"}

\* A flag that is set, or that connect() found set, was set by a login.
Flags ==
    /\ ready \subseteq logins
    /\ md_ok => "md" \in logins
    /\ main = "serve" => logins = Sessions
-----------------------------------------------------------------------------
LEMMA InitTyped == Init => TypeOK
<1> SUFFICES ASSUME Init PROVE TypeOK
  OBVIOUS
<1>1. md_ok \in BOOLEAN /\ active \in BOOLEAN
  BY Zenon DEF Init
<1>2. queue \in Seq(Nat) /\ Len(queue) <= MaxQueue
  BY LifecycleAssumption DEF Init
<1>3. pub \in [pc : {"none", "loop", "get", "send", "ended"}, event : Nat]
  BY DEF Init, NoThread
<1> QED
  BY <1>1, <1>2, <1>3, LifecycleAssumption DEF Init, TypeOK, Sessions, Stopping

\* Enqueue keeps the types of what it changes.
LEMMA EnqueueTyped ==
    ASSUME TypeOK, Enqueue
    PROVE  /\ queue' \in Seq(Nat) /\ Len(queue') <= MaxQueue
           /\ produced' \in Nat /\ sent' \in SUBSET Nat /\ missed' \in SUBSET Nat
<1>1. produced + 1 \in Nat
  BY DEF TypeOK
<1>2. CASE Len(queue) < MaxQueue /\ queue' = Append(queue, produced + 1)
                                 /\ UNCHANGED missed
  BY <1>1, <1>2, LifecycleAssumption DEF TypeOK, Enqueue
<1>3. CASE missed' = missed \cup {produced + 1} /\ UNCHANGED queue
  BY <1>1, <1>3 DEF TypeOK, Enqueue
<1> QED BY <1>2, <1>3 DEF Enqueue

LEMMA StepTyped ==
    ASSUME TypeOK, [Next]_vars
    PROVE  TypeOK'
<1> USE DEF TypeOK, Sessions, Stopping, mainVars, threadVars, eventVars, historyVars
<1>1. CASE Start
  <2>1. md_ok' \in BOOLEAN /\ active' \in BOOLEAN
    BY <1>1, Zenon DEF Start
  <2>2. pub' \in [pc : {"none", "loop", "get", "send", "ended"}, event : Nat]
    BY <1>1 DEF Start
  <2> QED
    BY <1>1, <2>1, <2>2 DEF Start
<1>2. CASE Connect
  BY <1>2 DEF Connect
<1>3. CASE WaitMd
  BY <1>3 DEF WaitMd
<1>4. CASE WaitTd
  BY <1>4 DEF WaitTd
<1>5. CASE Stop
  BY <1>5 DEF Stop
<1>6. CASE CloseSession \/ Release \/ CloseSockets \/ Exit \/ Serve
  BY <1>6 DEF CloseSession, Release, CloseSockets, Exit, Serve
<1>7. CASE JoinCommand
  BY <1>7 DEF JoinCommand
<1>8. CASE JoinPublisher
  BY <1>8 DEF JoinPublisher
<1>9. ASSUME NEW s \in Sessions, LoggedIn(s) PROVE TypeOK'
  BY <1>9, EnqueueTyped DEF LoggedIn
<1>10. ASSUME NEW s \in Sessions, OnFrontDisconnected(s) PROVE TypeOK'
  BY <1>10, EnqueueTyped DEF OnFrontDisconnected
<1>11. CASE OtherCallback
  BY <1>11, EnqueueTyped DEF OtherCallback
<1>12. CASE PublisherLoop
  BY <1>12 DEF PublisherLoop
<1>13. CASE PublisherGet
  <2>1. CASE queue = <<>>
    BY <1>13, <2>1 DEF PublisherGet
  <2>2. CASE queue # <<>>
    <3>1. /\ Head(queue) \in Nat /\ Tail(queue) \in Seq(Nat)
          /\ Len(Tail(queue)) = Len(queue) - 1
      BY <2>2
    <3>2. queue' \in Seq(Nat) /\ Len(queue') <= MaxQueue
      <4>1. queue' = Tail(queue)
        BY <1>13, <2>2 DEF PublisherGet
      <4> QED BY <3>1, <4>1, LifecycleAssumption
    <3>3. pub' \in [pc : {"none", "loop", "get", "send", "ended"}, event : Nat]
      BY <1>13, <2>2, <3>1 DEF PublisherGet
    <3> QED
      BY <1>13, <3>2, <3>3 DEF PublisherGet
  <2> QED BY <2>1, <2>2
<1>14. CASE PublisherSend \/ PublisherSendFails
  <2>1. pub.event \in Nat
    OBVIOUS
  <2>2. sent' \in SUBSET Nat /\ missed' \in SUBSET Nat
    BY <1>14, <2>1 DEF PublisherSend, PublisherSendFails
  <2>3. pub' \in [pc : {"none", "loop", "get", "send", "ended"}, event : Nat]
    BY <1>14 DEF PublisherSend, PublisherSendFails
  <2>4. UNCHANGED <<mainVars, ready, cmd, queue, produced, historyVars>>
    BY <1>14 DEF PublisherSend, PublisherSendFails
  <2> QED BY <2>2, <2>3, <2>4
<1>15. CASE CommandStep
  <2>1. cmd' \in {"none", "loop", "poll", "handle", "call", "reply", "ended"}
    BY <1>15 DEF CommandStep, CommandLoop, CommandPoll, HandleCommand, CallApi,
                 CommandReply
  <2>2. UNCHANGED <<mainVars, ready, pub, eventVars, historyVars>>
    BY <1>15 DEF CommandStep, CommandLoop, CommandPoll, HandleCommand, CallApi,
                 CommandReply
  <2> QED BY <2>1, <2>2
<1>16. CASE UNCHANGED vars
  BY <1>16 DEF vars
<1> QED
  BY <1>1, <1>2, <1>3, <1>4, <1>5, <1>6, <1>7, <1>8, <1>9, <1>10, <1>11, <1>12,
     <1>13, <1>14, <1>15, <1>16 DEF Next, MainStep, Callback, PublisherStep

\* Every variable keeps its type and the queue its bound, whatever the threads do.
THEOREM LifecycleTypeCorrect == Spec => []TypeOK
<1>1. TypeOK /\ [Next]_vars => TypeOK'
  BY StepTyped
<1> QED
  BY InitTyped, <1>1, PTL DEF Spec
-----------------------------------------------------------------------------
\* What Enqueue does to the order.
LEMMA EnqueueOrdered ==
    ASSUME TypeOK, Ordered, Enqueue, UNCHANGED pub
    PROVE  Ordered'
<1>1. produced \in Nat /\ sent \in SUBSET Nat /\ produced' = produced + 1
      /\ sent' = sent /\ queue \in Seq(Nat)
  BY DEF TypeOK, Enqueue
<1>2. CASE queue' = Append(queue, produced + 1)
  <2>1. /\ DOMAIN queue' = 1..(Len(queue) + 1) /\ DOMAIN queue = 1..Len(queue)
        /\ Len(queue) \in Nat
        /\ \A i \in DOMAIN queue : queue'[i] = queue[i] /\ queue[i] \in Nat
        /\ queue'[Len(queue) + 1] = produced + 1
    BY <1>1, <1>2
  <2>2. \A i \in DOMAIN queue' : AfterSent(queue[i])' /\ 1 <= queue'[i]
                                 /\ queue'[i] <= produced'
    BY <1>1, <2>1 DEF Ordered, AfterSent
  <2>3. \A i, j \in DOMAIN queue' : i < j => queue'[i] < queue'[j]
    BY <1>1, <2>1 DEF Ordered
  <2>4. pub'.pc = "send" => /\ AfterSent(pub.event)' /\ 1 <= pub'.event
                            /\ pub'.event <= produced'
                            /\ \A i \in DOMAIN queue' : pub'.event < queue'[i]
    BY <1>1, <2>1 DEF Ordered, TypeOK, AfterSent
  <2>5. \A d \in sent' : d <= produced'
    BY <1>1 DEF Ordered
  <2> QED BY <1>1, <2>2, <2>3, <2>4, <2>5 DEF Ordered
<1>3. CASE UNCHANGED queue
  BY <1>1, <1>3 DEF Ordered, TypeOK, AfterSent
<1> QED BY <1>2, <1>3 DEF Enqueue

LEMMA StepOrdered ==
    ASSUME TypeOK, Ordered, [Next]_vars
    PROVE  Ordered'
<1> USE DEF mainVars, threadVars, eventVars, historyVars
<1>1. CASE UNCHANGED <<pub, queue, produced, sent>>
  BY <1>1 DEF Ordered, AfterSent
<1>2. CASE Start
  BY <1>2 DEF Start, Ordered, AfterSent
<1>3. CASE Callback
  <2>1. Enqueue /\ UNCHANGED pub
    BY <1>3 DEF Callback, LoggedIn, OnFrontDisconnected, OtherCallback
  <2> QED BY <2>1, EnqueueOrdered
<1>4. CASE PublisherLoop
  BY <1>4 DEF PublisherLoop, Ordered, TypeOK, AfterSent
<1>5. CASE PublisherGet
  <2>1. CASE queue = <<>>
    BY <1>5, <2>1 DEF PublisherGet, Ordered, TypeOK, AfterSent
  <2>2. CASE queue # <<>>
    <3>1. /\ pub' = [pc |-> "send", event |-> Head(queue)] /\ queue' = Tail(queue)
          /\ sent' = sent /\ produced' = produced
      BY <1>5, <2>2 DEF PublisherGet
    <3>2. queue \in Seq(Nat) /\ sent \in SUBSET Nat /\ produced \in Nat
      BY DEF TypeOK
    <3>3. /\ DOMAIN queue = 1..Len(queue) /\ Len(queue) \in Nat /\ Len(queue) >= 1
          /\ DOMAIN queue' = 1..(Len(queue) - 1)
          /\ \A i \in DOMAIN queue' : queue'[i] = queue[i + 1]
          /\ pub'.event = queue[1] /\ pub'.pc = "send"
          /\ \A i \in DOMAIN queue : queue[i] \in Nat
      BY <2>2, <3>1, <3>2
    <3>4. AfterSent(pub.event)' /\ 1 <= pub'.event /\ pub'.event <= produced'
      BY <3>1, <3>2, <3>3 DEF Ordered, AfterSent
    <3>5. \A i \in DOMAIN queue' : /\ i \in Int /\ i + 1 \in DOMAIN queue
                                   /\ 1 < i + 1 /\ 1 \in DOMAIN queue
      BY <3>3
    <3>6. \A i, j \in DOMAIN queue : i < j => queue[i] < queue[j]
      BY DEF Ordered
    <3>7. \A i \in DOMAIN queue' : /\ pub'.event < queue'[i] /\ AfterSent(queue[i])'
                                   /\ 1 <= queue'[i] /\ queue'[i] <= produced'
      <4> TAKE i \in DOMAIN queue'
      <4>1. queue'[i] = queue[i + 1] /\ pub'.event = queue[1]
        BY <3>3
      <4>2. i + 1 \in DOMAIN queue /\ 1 \in DOMAIN queue /\ 1 < i + 1
        BY <3>5
      <4>3. queue[1] < queue[i + 1]
        BY <3>6, <4>2
      <4>4. AfterSent(queue[i + 1]) /\ 1 <= queue[i + 1] /\ queue[i + 1] <= produced
        BY <4>2 DEF Ordered
      <4> QED BY <3>1, <4>1, <4>3, <4>4 DEF AfterSent
    <3>8. \A i, j \in DOMAIN queue' : i < j => queue'[i] < queue'[j]
      <4> TAKE i, j \in DOMAIN queue'
      <4> HAVE i < j
      <4>1. i + 1 \in DOMAIN queue /\ j + 1 \in DOMAIN queue /\ i + 1 < j + 1
        BY <3>5
      <4>2. queue[i + 1] < queue[j + 1]
        BY <3>6, <4>1
      <4> QED BY <3>3, <4>2
    <3>9. \A d \in sent' : d <= produced'
      BY <3>1 DEF Ordered
    <3> QED BY <3>1, <3>4, <3>7, <3>8, <3>9 DEF Ordered
  <2> QED BY <2>1, <2>2
<1>6. CASE PublisherSend
  <2>1. /\ sent' = sent \cup {pub.event} /\ pub'.pc = "loop" /\ pub.pc = "send"
        /\ queue' = queue /\ produced' = produced
    BY <1>6 DEF PublisherSend
  <2> QED BY <2>1 DEF Ordered, AfterSent
<1>7. CASE PublisherSendFails
  <2>1. /\ sent' = sent /\ pub'.pc = "loop"
        /\ queue' = queue /\ produced' = produced
    BY <1>7 DEF PublisherSendFails
  <2> QED BY <2>1 DEF Ordered, AfterSent
<1> QED
  BY <1>1, <1>2, <1>3, <1>4, <1>5, <1>6, <1>7
     DEF Next, vars, MainStep, Connect, WaitMd, WaitTd, Serve, Stop, CloseSession,
         Release, JoinCommand, JoinPublisher, CloseSockets, Exit, PublisherStep,
         CommandStep, CommandLoop, CommandPoll, HandleCommand, CallApi, CommandReply

LEMMA InitOrdered == Init => Ordered
  BY DEF Init, Ordered, NoThread

\* What the PUB socket carries is a feed: events in their order, each at most once.
THEOREM FeedImplemented == Spec => FeedSpec
<1>1. Init => Feed!Init
  BY DEF Init, Feed!Init
<1>2. TypeOK /\ Ordered /\ [Next]_vars => [Feed!Next]_Feed!vars
  <2> SUFFICES ASSUME TypeOK, Ordered, [Next]_vars
               PROVE  [Feed!Next]_Feed!vars
    OBVIOUS
  <2> USE DEF Feed!Next, Feed!vars, Feed!Happen, Feed!Publish,
              mainVars, threadVars, eventVars, historyVars
  <2>1. CASE UNCHANGED <<produced, sent>>
    BY <2>1
  <2>2. CASE Callback
    BY <2>2 DEF Callback, LoggedIn, OnFrontDisconnected, OtherCallback, Enqueue
  <2>3. CASE PublisherSend
    <3>1. /\ pub.event \in 1..produced /\ AfterSent(pub.event)
          /\ sent' = sent \cup {pub.event} /\ produced' = produced
      BY <2>3 DEF PublisherSend, Ordered, TypeOK
    <3> QED BY <3>1 DEF AfterSent
  <2> QED
    BY <2>1, <2>2, <2>3
       DEF Next, vars, MainStep, Start, Connect, WaitMd, WaitTd, Serve, Stop,
           CloseSession, Release, JoinCommand, JoinPublisher, CloseSockets, Exit,
           PublisherStep, PublisherLoop, PublisherGet, PublisherSendFails, CommandStep,
           CommandLoop, CommandPoll, HandleCommand, CallApi, CommandReply
<1>3. Ordered /\ TypeOK /\ [Next]_vars => Ordered'
  BY StepOrdered
<1> QED
  BY <1>1, <1>2, <1>3, InitOrdered, LifecycleTypeCorrect, PTL DEF Spec, FeedSpec, Feed!Spec
-----------------------------------------------------------------------------
\* Every event is sent, missed, queued or in the publisher's hands.
LEMMA EnqueueSkipsNothing ==
    ASSUME TypeOK, NothingSkipped, Enqueue, UNCHANGED pub
    PROVE  NothingSkipped'
<1>1. produced \in Nat /\ produced' = produced + 1 /\ sent' = sent /\ queue \in Seq(Nat)
  BY DEF TypeOK, Enqueue
<1> SUFFICES ASSUME NEW e \in 1..produced'
             PROVE  \/ e \in sent' \cup missed' \/ Queued(e)'
                    \/ pub'.pc = "send" /\ pub'.event = e
  BY DEF NothingSkipped
<1>2. CASE queue' = Append(queue, produced + 1) /\ UNCHANGED missed
  <2>1. /\ DOMAIN queue' = 1..(Len(queue) + 1) /\ DOMAIN queue = 1..Len(queue)
        /\ Len(queue) \in Nat
        /\ \A i \in DOMAIN queue : queue'[i] = queue[i]
        /\ queue'[Len(queue) + 1] = produced + 1
    BY <1>1, <1>2
  <2>2. CASE e = produced + 1
    BY <2>1, <2>2 DEF Queued
  <2>3. CASE e \in 1..produced
    <3>1. Queued(e) => Queued(e)'
      BY <2>1 DEF Queued
    <3> QED BY <1>1, <1>2, <2>3, <3>1 DEF NothingSkipped
  <2> QED BY <1>1, <2>2, <2>3
<1>3. CASE missed' = missed \cup {produced + 1} /\ UNCHANGED queue
  BY <1>1, <1>3 DEF NothingSkipped, Queued
<1> QED BY <1>2, <1>3 DEF Enqueue

LEMMA StepSkipsNothing ==
    ASSUME TypeOK, Ordered, Unstarted, NothingSkipped, [Next]_vars
    PROVE  NothingSkipped'
<1> USE DEF mainVars, threadVars, eventVars, historyVars
<1>1. CASE UNCHANGED <<pub, queue, produced, sent, missed>>
  BY <1>1 DEF NothingSkipped, Queued
<1>2. CASE Start
  <2>1. UNCHANGED <<queue, produced, sent, missed>> /\ pub.pc # "send"
    BY <1>2 DEF Start, Unstarted, NoThread
  <2> QED BY <2>1 DEF NothingSkipped, Queued
<1>3. CASE Callback
  <2>1. Enqueue /\ UNCHANGED pub
    BY <1>3 DEF Callback, LoggedIn, OnFrontDisconnected, OtherCallback
  <2> QED BY <2>1, EnqueueSkipsNothing
<1>4. CASE PublisherLoop
  <2>1. pub.pc # "send" /\ UNCHANGED <<queue, produced, sent, missed>>
    BY <1>4 DEF PublisherLoop
  <2> QED BY <2>1 DEF NothingSkipped, Queued
<1>5. CASE PublisherGet
  <2>1. CASE queue = <<>>
    <3>1. pub.pc # "send" /\ UNCHANGED <<queue, produced, sent, missed>>
      BY <1>5, <2>1 DEF PublisherGet
    <3> QED BY <3>1 DEF NothingSkipped, Queued
  <2>2. CASE queue # <<>>
    <3>1. /\ pub' = [pc |-> "send", event |-> Head(queue)] /\ queue' = Tail(queue)
          /\ pub.pc # "send" /\ UNCHANGED <<sent, produced, missed>>
      BY <1>5, <2>2 DEF PublisherGet
    <3>2. queue \in Seq(Nat)
      BY DEF TypeOK
    <3>3. /\ DOMAIN queue = 1..Len(queue) /\ Len(queue) \in Nat
          /\ DOMAIN queue' = 1..(Len(queue) - 1)
          /\ \A i \in DOMAIN queue' : queue'[i] = queue[i + 1]
          /\ pub'.event = queue[1] /\ pub'.pc = "send"
      BY <2>2, <3>1, <3>2
    <3>4. ASSUME NEW e, Queued(e), pub'.event # e PROVE Queued(e)'
      <4>1. PICK i \in DOMAIN queue : queue[i] = e
        BY <3>4 DEF Queued
      <4>2. i - 1 \in DOMAIN queue' /\ queue'[i - 1] = queue[i]
        BY <3>3, <3>4, <4>1
      <4> QED BY <4>1, <4>2 DEF Queued
    <3> QED BY <3>1, <3>3, <3>4 DEF NothingSkipped
  <2> QED BY <2>1, <2>2
<1>6. CASE PublisherSend
  <2>1. /\ sent' = sent \cup {pub.event} /\ UNCHANGED <<queue, produced, missed>>
    BY <1>6 DEF PublisherSend
  <2> QED BY <2>1 DEF NothingSkipped, Queued
<1>7. CASE PublisherSendFails
  <2>1. /\ missed' = missed \cup {pub.event} /\ UNCHANGED <<queue, produced, sent>>
    BY <1>7 DEF PublisherSendFails
  <2> QED BY <2>1 DEF NothingSkipped, Queued
<1> QED
  BY <1>1, <1>2, <1>3, <1>4, <1>5, <1>6, <1>7
     DEF Next, vars, MainStep, Connect, WaitMd, WaitTd, Serve, Stop, CloseSession,
         Release, JoinCommand, JoinPublisher, CloseSockets, Exit, PublisherStep,
         CommandStep, CommandLoop, CommandPoll, HandleCommand, CallApi, CommandReply

LEMMA InitSkipsNothing == Init => NothingSkipped
  BY DEF Init, NothingSkipped
-----------------------------------------------------------------------------
LEMMA InitParts == Init => Unstarted /\ Ends /\ Joined /\ Flags
  BY DEF Init, Unstarted, Ends, Joined, Flags, NoThread, Stopping, PastStop

LEMMA StepUnstarted ==
    ASSUME TypeOK, Unstarted, [Next]_vars
    PROVE  Unstarted'
<1> USE DEF Unstarted, Stopping, NoThread, mainVars, threadVars, eventVars, historyVars
<1>1. CASE Start
  BY <1>1 DEF Start
<1>2. CASE Connect
  BY <1>2 DEF Connect
<1>3. CASE WaitMd \/ WaitTd \/ Serve
  BY <1>3 DEF WaitMd, WaitTd, Serve
<1>4. CASE Stop
  BY <1>4 DEF Stop
<1>5. CASE CloseSession \/ Release \/ JoinCommand \/ JoinPublisher \/ CloseSockets \/ Exit
  BY <1>5 DEF CloseSession, Release, JoinCommand, JoinPublisher, CloseSockets, Exit
<1>6. CASE Callback
  BY <1>6 DEF Callback, LoggedIn, OnFrontDisconnected, OtherCallback
<1>7. CASE PublisherStep
  <2>1. /\ pub.pc # "none" /\ pub'.pc # "none" /\ (queue = <<>> => queue' = <<>>)
        /\ UNCHANGED <<mainVars, produced>>
    BY <1>7 DEF PublisherStep, PublisherLoop, PublisherGet, PublisherSend,
                PublisherSendFails, TypeOK
  <2> QED BY <2>1
<1>8. CASE CommandStep
  BY <1>8 DEF CommandStep, CommandLoop, CommandPoll, HandleCommand, CallApi, CommandReply
<1>9. CASE UNCHANGED vars
  BY <1>9 DEF vars
<1> QED
  BY <1>1, <1>2, <1>3, <1>4, <1>5, <1>6, <1>7, <1>8, <1>9 DEF Next, MainStep

LEMMA StepEnds ==
    ASSUME TypeOK, Unstarted, Ends, [Next]_vars
    PROVE  Ends'
<1> USE DEF Ends, PastStop, mainVars, threadVars, eventVars, historyVars
<1>1. CASE Start
  BY <1>1 DEF Start, Unstarted, NoThread
<1>2. CASE Connect \/ WaitMd \/ WaitTd \/ Serve
  BY <1>2 DEF Connect, WaitMd, WaitTd, Serve
<1>3. CASE Stop
  BY <1>3 DEF Stop, TypeOK
<1>4. CASE CloseSession \/ Release \/ JoinCommand \/ JoinPublisher \/ CloseSockets \/ Exit
  BY <1>4 DEF CloseSession, Release, JoinCommand, JoinPublisher, CloseSockets, Exit
<1>5. CASE Callback
  <2>1. Enqueue /\ UNCHANGED <<main, active, pub, mark>>
    BY <1>5 DEF Callback, LoggedIn, OnFrontDisconnected, OtherCallback
  <2>2. mark \in Nat /\ produced \in Nat /\ produced' = produced + 1 /\ queue \in Seq(Nat)
    BY <2>1 DEF TypeOK, Enqueue
  <2>3. CASE queue' = Append(queue, produced + 1)
    <3>1. /\ DOMAIN queue' = DOMAIN queue \cup {Len(queue) + 1}
          /\ \A i \in DOMAIN queue : queue'[i] = queue[i]
          /\ queue'[Len(queue) + 1] = produced + 1
      BY <2>2, <2>3
    <3> QED BY <2>1, <2>2, <3>1
  <2>4. CASE UNCHANGED queue
    BY <2>1, <2>2, <2>4
  <2> QED BY <2>1, <2>3, <2>4 DEF Enqueue
<1>6. CASE PublisherLoop
  BY <1>6 DEF PublisherLoop, TypeOK
<1>7. CASE PublisherGet
  <2>1. pub.pc = "get" /\ pub'.pc \in {"loop", "send"}
        /\ UNCHANGED <<main, active, mark, produced>>
    BY <1>7 DEF PublisherGet, TypeOK
  <2> QED BY <2>1
<1>8. CASE PublisherSend \/ PublisherSendFails
  <2>1. pub.pc = "send" /\ pub'.pc = "loop" /\ UNCHANGED <<main, active, mark, produced>>
    BY <1>8 DEF PublisherSend, PublisherSendFails
  <2> QED BY <2>1
<1>9. CASE CommandStep
  BY <1>9 DEF CommandStep, CommandLoop, CommandPoll, HandleCommand, CallApi, CommandReply
<1>10. CASE UNCHANGED vars
  BY <1>10 DEF vars
<1> QED
  BY <1>1, <1>2, <1>3, <1>4, <1>5, <1>6, <1>7, <1>8, <1>9, <1>10
     DEF Next, MainStep, PublisherStep

LEMMA StepJoined ==
    ASSUME TypeOK, Unstarted, Joined, [Next]_vars
    PROVE  Joined'
<1> USE DEF Joined, mainVars, threadVars, eventVars, historyVars
<1>1. CASE Start
  BY <1>1 DEF Start
<1>2. CASE Connect \/ WaitMd \/ WaitTd \/ Serve \/ Stop
  BY <1>2 DEF Connect, WaitMd, WaitTd, Serve, Stop
<1>3. CASE CloseSession \/ Release \/ CloseSockets \/ Exit
  BY <1>3 DEF CloseSession, Release, CloseSockets, Exit
<1>4. CASE JoinCommand
  BY <1>4 DEF JoinCommand
<1>5. CASE JoinPublisher
  BY <1>5 DEF JoinPublisher
<1>6. CASE Callback
  BY <1>6 DEF Callback, LoggedIn, OnFrontDisconnected, OtherCallback
<1>7. CASE PublisherStep
  <2>1. pub.pc \notin {"none", "ended"} /\ UNCHANGED <<main, sockets, cmd, cut>>
    BY <1>7 DEF PublisherStep, PublisherLoop, PublisherGet, PublisherSend,
                PublisherSendFails
  <2> QED BY <2>1
<1>8. CASE CommandStep
  <2>1. cmd \notin {"none", "ended"} /\ UNCHANGED <<main, sockets, pub, cut>>
    BY <1>8 DEF CommandStep, CommandLoop, CommandPoll, HandleCommand, CallApi, CommandReply
  <2> QED BY <2>1
<1>9. CASE UNCHANGED vars
  BY <1>9 DEF vars
<1> QED
  BY <1>1, <1>2, <1>3, <1>4, <1>5, <1>6, <1>7, <1>8, <1>9 DEF Next, MainStep

LEMMA StepFlags ==
    ASSUME TypeOK, Flags, [Next]_vars
    PROVE  Flags'
<1> USE DEF Flags, mainVars, threadVars, eventVars, historyVars
<1>1. CASE Start \/ Connect
  BY <1>1 DEF Start, Connect
<1>2. CASE WaitMd
  BY <1>2 DEF WaitMd
<1>3. CASE WaitTd
  BY <1>3 DEF WaitTd, TypeOK, Sessions
<1>4. CASE Serve \/ Stop
  BY <1>4 DEF Serve, Stop
<1>5. CASE CloseSession \/ Release
  BY <1>5 DEF CloseSession, Release
<1>6. CASE JoinCommand \/ JoinPublisher \/ CloseSockets \/ Exit
  BY <1>6 DEF JoinCommand, JoinPublisher, CloseSockets, Exit
<1>7. ASSUME NEW s \in Sessions, LoggedIn(s) PROVE Flags'
  BY <1>7 DEF LoggedIn, TypeOK
<1>8. ASSUME NEW s \in Sessions, OnFrontDisconnected(s) PROVE Flags'
  BY <1>8 DEF OnFrontDisconnected
<1>9. CASE OtherCallback
  BY <1>9 DEF OtherCallback
<1>10. CASE PublisherStep
  BY <1>10 DEF PublisherStep, PublisherLoop, PublisherGet, PublisherSend, PublisherSendFails
<1>11. CASE CommandStep
  BY <1>11 DEF CommandStep, CommandLoop, CommandPoll, HandleCommand, CallApi, CommandReply
<1>12. CASE UNCHANGED vars
  BY <1>12 DEF vars
<1> QED
  BY <1>1, <1>2, <1>3, <1>4, <1>5, <1>6, <1>7, <1>8, <1>9, <1>10, <1>11, <1>12
     DEF Next, MainStep, Callback

IInv == TypeOK /\ Ordered /\ NothingSkipped /\ Unstarted /\ Ends /\ Joined /\ Flags

LEMMA IInvHolds == Spec => []IInv
<1>1. Init => IInv
  BY InitTyped, InitOrdered, InitSkipsNothing, InitParts DEF IInv
<1>2. IInv /\ [Next]_vars => IInv'
  BY StepTyped, StepOrdered, StepSkipsNothing, StepUnstarted, StepEnds, StepJoined,
     StepFlags DEF IInv
<1> QED
  BY <1>1, <1>2, PTL DEF Spec

\* What a callback gave enqueue_publish is never dropped but by a full queue or a
\* failed send: until then it is sent, queued or in the publisher's hands.
THEOREM EventsAccountedFor == Spec => []NothingSkipped
<1>1. IInv => NothingSkipped
  BY DEF IInv
<1> QED
  BY <1>1, IInvHolds, PTL

\* When main is done after a stop() that did not give up waiting for the publisher,
\* each event from before that stop() was itself sent, dropped by a full queue or
\* lost by a failed send: none was left in the queue.
THEOREM StoppedHasDrained == Spec => []StopDrains
<1>1. IInv => StopDrains
  <2> SUFFICES ASSUME IInv, main = "done", "pub" \notin cut, NEW e \in 1..mark
               PROVE  e \in sent \/ e \in missed
    BY DEF StopDrains
  <2>1. pub.pc \in {"none", "ended"} /\ mark <= produced
    BY DEF IInv, Joined, Ends, PastStop
  <2>2. e \in 1..produced
    BY <2>1 DEF IInv, TypeOK
  <2>3. pub.pc = "ended"
    BY <2>1, <2>2 DEF IInv, Unstarted
  <2>4. ~Queued(e)
    BY <2>3 DEF IInv, Ends, Queued, TypeOK
  <2> QED BY <2>2, <2>3, <2>4 DEF IInv, NothingSkipped
<1> QED
  BY <1>1, IInvHolds, PTL

\* stop() closes no socket of a thread it did not give two seconds to end.
THEOREM SocketsOutliveThreads == Spec => []ThreadsEndFirst
<1>1. IInv => ThreadsEndFirst
  BY DEF IInv, Joined, ThreadsEndFirst
<1> QED
  BY <1>1, IInvHolds, PTL

\* connect() succeeds only after both sessions logged in.
THEOREM ServingIsLoggedIn == Spec => []ServesOnlyLoggedIn
<1>1. IInv => ServesOnlyLoggedIn
  BY DEF IInv, Flags, ServesOnlyLoggedIn
<1> QED
  BY <1>1, IInvHolds, PTL
=============================================================================
