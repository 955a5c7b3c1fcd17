-------------------------- MODULE OrderCancelProofs --------------------------
(***************************************************************************)
(* Proofs about OrderFlow over time: the marks of pending cancels and the  *)
(* requests they stand for, and the status of a row and the reports that   *)
(* move it.  A mark means a request under way; while a request is          *)
(* unanswered, no other one is made for the same live order; a status goes *)
(* forward; only an order that the registry knows from an active report is *)
(* cancelled; and a row that says PENDING_SUBMIT waits for something.      *)
(***************************************************************************)
EXTENDS OrderIdentityProofs

\* What is in a queue after something is sent, and after its head is taken.
LEMMA SentQueue ==
    ASSUME NEW S, NEW q \in Seq(S), NEW msgs \in Seq(S)
    PROVE  /\ \A i \in DOMAIN q : i \in DOMAIN (q \o msgs) /\ (q \o msgs)[i] = q[i]
           /\ \A j \in DOMAIN msgs : /\ Len(q) + j \in DOMAIN (q \o msgs)
                                     /\ (q \o msgs)[Len(q) + j] = msgs[j]
           /\ \A i \in DOMAIN (q \o msgs) :
                 \/ i \in DOMAIN q /\ (q \o msgs)[i] = q[i]
                 \/ /\ i > Len(q) /\ i - Len(q) \in DOMAIN msgs
                    /\ (q \o msgs)[i] = msgs[i - Len(q)]
OBVIOUS

LEMMA TakenQueue ==
    ASSUME NEW S, NEW q \in Seq(S), q # <<>>
    PROVE  /\ 1 \in DOMAIN q /\ Head(q) = q[1]
           /\ \A i \in DOMAIN q : i = 1 \/ (i - 1 \in DOMAIN Tail(q) /\ Tail(q)[i - 1] = q[i])
           /\ \A i \in DOMAIN Tail(q) : i > 0 /\ i + 1 \in DOMAIN q /\ Tail(q)[i] = q[i + 1]
OBVIOUS

\* What the counter has said of an order, and what update_ctp is to write of it.
Stand(o) == IF broker[o].st \in AtCounter THEN broker[o].st
            ELSE IF broker[o].st = "refused" THEN "REJECTED" ELSE "PENDING_SUBMIT"

\* The steps of the counter that answer no cancel and no query, and what they tell: a
\* report names its session, and says what the counter says of the order from then on;
\* only place_order says PENDING_SUBMIT.
OrdersGoOn ==
    \/ \E k \in Keys : AnswerInsert(k)
    \/ \E o \in OrderIds : BrokerProgress(o)
    \/ \E f \in Foreign, ref \in 1..MaxRef : ForeignOrder(f, ref) \/ ForeignReject(f, ref)

News(m) == /\ m.kind = "RtnOrder" => m.sess # 0
           /\ m.status = Stand(m.order)' /\ m.status # "PENDING_SUBMIT"
Told(msgs) == \A j \in DOMAIN msgs : News(msgs[j])

LEMMA NewsOfOne ==
    ASSUME NEW m \in Message, News(m), Send(<<m>>)
    PROVE  \E msgs \in Seq(Message) : /\ Send(msgs)
                                      /\ Told(msgs)
<1>1. <<m>> \in Seq(Message) /\ DOMAIN <<m>> = {1} /\ <<m>>[1] = m
  OBVIOUS
<1>2. Told(<<m>>)
  BY <1>1 DEF Told
<1> QED BY <1>1, <1>2

LEMMA NewsOfReport ==
    ASSUME TypeOK, NEW o \in OrderIds, NEW b, b.st \in AtCounter, Named(b),
           broker' = [broker EXCEPT ![o] = b], Send(<<Report("RtnOrder", o, b)>>)
    PROVE  \E msgs \in Seq(Message) : /\ Send(msgs)
                                      /\ Told(msgs)
<1>1. PICK m \in Message : m = Report("RtnOrder", o, b)
  BY ReportType
<1>2. m.order = o /\ m.status = b.st /\ m.sess = b.sess
  BY <1>1 DEF Report
<1>3. broker'[o] = b
  BY DEF TypeOK, CounterTypeOK, BrokerTypeOK
<1>4. Stand(o)' = b.st
  BY <1>3 DEF Stand
<1>5. News(m)
  BY <1>2, <1>4, RegistryAssumption DEF Named, News, AtCounter, Live, Active, Terminal
<1>6. Send(<<m>>)
  BY <1>1
<1> QED BY <1>5, <1>6, NewsOfOne

LEMMA NewsOfInsert ==
    ASSUME TypeOK, NEW k \in Keys, AnswerInsert(k)
    PROVE  \E msgs \in Seq(Message) : /\ Send(msgs) \/ UNCHANGED flow
                                      /\ Told(msgs)
<1>1. k \in OrderIds /\ broker[k] \in BrokerOrder /\ broker[k].st = "inflight" /\ Named(broker[k])
  BY DEF AnswerInsert, BrokerAccept, BrokerReject, LoseInsert, OrderIds, TypeOK,
         CounterTypeOK, BrokerTypeOK
<1>2. CASE BrokerAccept(k)
  <2>1. PICK b : b = [broker[k] EXCEPT !.st = "UNKNOWN"]
    OBVIOUS
  <2>2. b.st \in AtCounter /\ Named(b)
    BY <1>1, <2>1 DEF BrokerOrder, Named, AtCounter, Live
  <2>3. broker' = [broker EXCEPT ![k] = b] /\ Send(<<Report("RtnOrder", k, b)>>)
    BY <1>2, <2>1 DEF BrokerAccept, BrokerSets
  <2> QED BY <1>1, <2>2, <2>3, NewsOfReport
<1>3. CASE BrokerReject(k)
  <2>1. PICK kinds \in {<<"RspOrderInsert">>, <<"RspOrderInsert", "ErrRtnOrderInsert">>} :
           IF Sub(broker[k].sess)
           THEN Send([i \in 1..Len(kinds) |-> InputOrder(kinds[i], k, broker[k].ref)])
           ELSE UNCHANGED flow
    BY <1>3 DEF BrokerReject
  <2>2. PICK msgs : msgs = [i \in 1..Len(kinds) |-> InputOrder(kinds[i], k, broker[k].ref)]
    OBVIOUS
  <2>3. \A kind \in {"RspOrderInsert", "ErrRtnOrderInsert"} :
           /\ InputOrder(kind, k, broker[k].ref) \in Message
           /\ InputOrder(kind, k, broker[k].ref).kind # "RtnOrder"
           /\ InputOrder(kind, k, broker[k].ref).status = "REJECTED"
           /\ InputOrder(kind, k, broker[k].ref).order = k
    BY <1>1, InputOrderType DEF Named, InputOrder
  <2>4. msgs \in Seq(Message) /\ \A i \in DOMAIN msgs : /\ msgs[i].kind # "RtnOrder"
                                                        /\ msgs[i].status = "REJECTED"
                                                        /\ msgs[i].order = k
    BY <2>1, <2>2, <2>3
  <2>5. Send(msgs) \/ UNCHANGED flow
    BY <2>1, <2>2
  <2>6. Stand(k)' = "REJECTED"
    <3>1. broker'[k].st = "refused"
      BY <1>1, <1>3 DEF BrokerReject, BrokerOrder, TypeOK, CounterTypeOK, BrokerTypeOK
    <3> QED BY <3>1 DEF Stand, AtCounter, Live, Active, Terminal
  <2> QED BY <2>4, <2>5, <2>6 DEF Told, News
<1>4. CASE LoseInsert(k)
  <2>1. <<>> \in Seq(Message) /\ DOMAIN <<>> = {}
    OBVIOUS
  <2> QED BY <1>4, <2>1 DEF LoseInsert, Told
<1> QED BY <1>2, <1>3, <1>4 DEF AnswerInsert

LEMMA NewsOfOrders ==
    ASSUME TypeOK, OrdersGoOn
    PROVE  /\ UNCHANGED <<registryVars, proxyVars, cancels, qflow, sessions, countVars>>
           /\ \E msgs \in Seq(Message) : /\ Send(msgs) \/ UNCHANGED flow
                                         /\ Told(msgs)
<1>1. UNCHANGED <<registryVars, proxyVars, cancels, qflow, sessions, countVars>>
  BY DEF OrdersGoOn, AnswerInsert, BrokerAccept, BrokerReject, LoseInsert, BrokerProgress,
         ForeignOrder, ForeignReject, BrokerSets
<1>2. ASSUME NEW o \in OrderIds, BrokerProgress(o)
      PROVE  \E msgs \in Seq(Message) : /\ Send(msgs)
                                        /\ Told(msgs)
  <2>1. broker[o] \in BrokerOrder /\ Named(broker[o])
    BY <1>2 DEF BrokerProgress, TypeOK, CounterTypeOK, BrokerTypeOK, Live, Active
  <2>2. PICK st \in Reported : BrokerSets(o, [broker[o] EXCEPT !.st = st])
    BY <1>2 DEF BrokerProgress, Progress, Live, Active, Terminal, Reported
  <2>3. PICK b : b = [broker[o] EXCEPT !.st = st]
    OBVIOUS
  <2>4. b.st = st /\ Named(b) /\ b.st \in AtCounter
    BY <2>1, <2>3 DEF BrokerOrder, Named, Reported, AtCounter, Live
  <2>5. broker' = [broker EXCEPT ![o] = b] /\ Send(<<Report("RtnOrder", o, b)>>)
    BY <2>2, <2>3 DEF BrokerSets
  <2> QED BY <2>4, <2>5, NewsOfReport
<1>3. ASSUME NEW f \in Foreign, NEW ref \in 1..MaxRef, ForeignOrder(f, ref) \/ ForeignReject(f, ref)
      PROVE  \E msgs \in Seq(Message) : /\ Send(msgs)
                                        /\ Told(msgs)
  <2>1. f \in OrderIds
    BY DEF OrderIds
  <2>2. CASE ForeignOrder(f, ref)
    <3>1. PICK b : b = [st |-> "UNKNOWN", ref |-> ref, sess |-> ForeignSess]
      OBVIOUS
    <3>2. b.st \in AtCounter /\ Named(b)
      BY <3>1, FlowAssumption, RegistryAssumption DEF AtCounter, Live, Named, ForeignSess
    <3>3. broker' = [broker EXCEPT ![f] = b] /\ Send(<<Report("RtnOrder", f, b)>>)
      BY <2>2, <3>1 DEF ForeignOrder, BrokerSets
    <3> QED BY <2>1, <3>2, <3>3, NewsOfReport
  <2>3. CASE ForeignReject(f, ref)
    <3>1. PICK m \in Message : m = InputOrder("ErrRtnOrderInsert", f, ref)
      BY <2>1, InputOrderType
    <3>2. News(m)
      <4>1. broker'[f].st = "refused"
        BY <2>1, <2>3 DEF ForeignReject, TypeOK, CounterTypeOK, BrokerTypeOK
      <4>2. Stand(f)' = "REJECTED"
        BY <4>1 DEF Stand, AtCounter, Live, Active, Terminal
      <4>3. m.order = f /\ m.status = "REJECTED" /\ m.kind # "RtnOrder"
        BY <3>1 DEF InputOrder
      <4> QED BY <4>2, <4>3 DEF News
    <3>3. Send(<<m>>)
      BY <2>3, <3>1 DEF ForeignReject
    <3> QED BY <3>2, <3>3, NewsOfOne
  <2> QED BY <1>3, <2>2, <2>3
<1> QED BY <1>1, <1>2, <1>3, NewsOfInsert DEF OrdersGoOn
-----------------------------------------------------------------------------
(***************************************************************************)
(* A mark means a request under way.                                       *)
(***************************************************************************)

\* The connection stays up once it is made, and nobody cancels before it is: a lost
\* connection takes the answer with it that would release the mark.
Connected == "disconnect" \notin Env /\ "early_cancel" \notin Env

Cancelling == cmd.pc \in {"mark", "action", "unmark"}

LoggedIn == /\ link = "login" => spi.sess = sessions
            /\ Cancelling => link # "none"

\* An order report, unlike the answer to a failed request, names its session.
ReportsNamed ==
    /\ \A i \in DOMAIN flow : flow[i].kind = "RtnOrder" => flow[i].sess # 0
    /\ \A i \in DOMAIN qflow : qflow[i].kind = "QryOrder"
    /\ td.pc = "release" /\ td.msg.kind = "RtnOrder" => td.sess = td.msg.sess

\* A request whose answer will reach this session.
Awaited(p) ==
    /\ link = "login"
    /\ \E i \in DOMAIN cancels :
          CancelId(cancels[i]) = p /\ cancels[i].st = "sent" /\ cancels[i].via = sessions

Outstanding == \A p \in pending_cancels : Asking(p) \/ Awaited(p) \/ Released(p)

MarkInv == LoggedIn /\ ReportsNamed /\ Outstanding

LEMMA MarkInit == Init => MarkInv
BY DEF Init, MarkInv, LoggedIn, Cancelling, ReportsNamed, Outstanding, Idle, TdIdle

\* Steps of the command thread outside the part of cancel_order that asks.
LEMMA MarkAside ==
    ASSUME MarkInv, UNCHANGED <<pending_cancels, td, cancels, flow, qflow, sessions, link>>,
           spi'.sess = spi.sess, cmd.pc \notin {"action", "unmark"},
           cmd'.pc = "mark" => link # "none", cmd'.pc \notin {"action", "unmark"}
    PROVE  MarkInv'
<1>1. LoggedIn' /\ ReportsNamed'
  BY DEF MarkInv, LoggedIn, Cancelling, ReportsNamed
<1>2. Outstanding'
  BY DEF MarkInv, Outstanding, Asking, Awaited, Released
<1> QED BY <1>1, <1>2 DEF MarkInv

LEMMA MarkCommand ==
    ASSUME Connected, TypeOK, MarkInv,
           \/ Command \/ LoadOrderRef \/ StoreOrderRef \/ TakeOrderRef
           \/ ReadFrontId \/ ReadSessionId \/ CreateRow
           \/ ReqOrderInsert \/ ReadFrontIdAgain \/ RejectLocally
    PROVE  MarkInv'
<1>1. CASE Command
  <2>1. /\ UNCHANGED <<pending_cancels, td, cancels, flow, qflow, sessions, link, spi>>
        /\ cmd.pc = "idle"
        /\ cmd'.pc = "load_ref" \/ (cmd'.pc = "mark" /\ link # "none")
    <3>1. ASSUME NEW k \in Keys, PlaceOrder(k)
          PROVE  /\ UNCHANGED <<pending_cancels, td, cancels, flow, qflow, sessions, link, spi>>
                 /\ cmd.pc = "idle" /\ cmd'.pc = "load_ref"
      BY <3>1 DEF PlaceOrder, Idle, brokerVars
    <3>2. ASSUME NEW k \in Keys, CancelByKey(k)
          PROVE  /\ UNCHANGED <<pending_cancels, td, cancels, flow, qflow, sessions, link, spi>>
                 /\ cmd.pc = "idle" /\ cmd'.pc = "mark" /\ link # "none"
      BY <3>2 DEF CancelByKey, CanCommand, Connected, brokerVars
    <3>3. ASSUME NEW ref, NEW sess, CancelByIds(ref, sess)
          PROVE  /\ UNCHANGED <<pending_cancels, td, cancels, flow, qflow, sessions, link, spi>>
                 /\ cmd.pc = "idle" /\ cmd'.pc = "mark" /\ link # "none"
      BY <3>3 DEF CancelByIds, CanCommand, Connected, brokerVars
    <3> QED BY <1>1, <3>1, <3>2, <3>3 DEF Command
  <2> QED BY <2>1, MarkAside
<1>2. CASE LoadOrderRef \/ StoreOrderRef \/ TakeOrderRef
  BY <1>2, MarkAside DEF LoadOrderRef, StoreOrderRef, TakeOrderRef, brokerVars, TypeOK,
                         CommandTypeOK, SessionTypeOK
<1>3. CASE ReadFrontId \/ ReadSessionId \/ ReadFrontIdAgain
  BY <1>3, MarkAside DEF ReadFrontId, ReadSessionId, ReadFrontIdAgain, brokerVars, TypeOK,
                         CommandTypeOK
<1>4. CASE CreateRow
  BY <1>4, MarkAside DEF CreateRow, brokerVars, TypeOK, CommandTypeOK, Idle
<1>5. CASE ReqOrderInsert
  BY <1>5, MarkAside DEF ReqOrderInsert, TypeOK, CommandTypeOK, Idle
<1>6. CASE RejectLocally
  BY <1>6, MarkAside DEF RejectLocally, brokerVars, Idle
<1> QED BY <1>1, <1>2, <1>3, <1>4, <1>5, <1>6

LEMMA MarkCancelling ==
    ASSUME TypeOK, MarkInv, MarkCancel \/ ReqOrderAction \/ UnmarkCancel
    PROVE  MarkInv'
<1>1. UNCHANGED <<td, flow, qflow, sessions, link, spi>>
  BY DEF MarkCancel, ReqOrderAction, UnmarkCancel, brokerVars
<1>2. ReportsNamed'
  BY <1>1 DEF MarkInv, ReportsNamed
<1>3. \A p : Released(p) => Released(p)'
  BY <1>1 DEF Released
<1>4. CASE MarkCancel
  <2>1. cancels' = cancels
    BY <1>4 DEF MarkCancel, brokerVars
  <2>2. cmd.pc = "mark" /\ (cmd' = Idle \/ cmd' = [cmd EXCEPT !.pc = "action"])
    BY <1>4 DEF MarkCancel
  <2>3. LoggedIn'
    BY <1>1, <2>2 DEF MarkInv, LoggedIn, Cancelling, Idle
  <2>4. Outstanding'
    <3> SUFFICES ASSUME NEW p \in pending_cancels'
                 PROVE  Asking(p)' \/ Awaited(p)' \/ Released(p)'
      BY DEF Outstanding
    <3>1. CASE p \in pending_cancels
      <4>1. Awaited(p) \/ Released(p)
        BY <2>2, <3>1 DEF MarkInv, Outstanding, Asking
      <4> QED BY <1>1, <1>3, <2>1, <4>1 DEF Awaited
    <3>2. CASE p \notin pending_cancels
      <4>1. p = CancelId(cmd) /\ cmd' = [cmd EXCEPT !.pc = "action"]
        BY <1>4, <3>2 DEF MarkCancel
      <4>2. cmd'.pc = "action" /\ CancelId(cmd)' = p
        BY <4>1 DEF TypeOK, CommandTypeOK, CancelId
      <4> QED BY <4>2 DEF Asking
    <3> QED BY <3>1, <3>2
  <2> QED BY <1>2, <2>3, <2>4 DEF MarkInv
<1>5. CASE ReqOrderAction
  <2>1. pending_cancels' = pending_cancels /\ link # "none"
    BY <1>5 DEF ReqOrderAction, MarkInv, LoggedIn, Cancelling
  <2>2. cmd' = Idle \/ cmd' = [cmd EXCEPT !.pc = "unmark"]
    BY <1>5 DEF ReqOrderAction
  <2>3. LoggedIn'
    BY <1>1, <2>1 DEF MarkInv, LoggedIn
  <2>4. Outstanding'
    <3> SUFFICES ASSUME NEW p \in pending_cancels
                 PROVE  Asking(p)' \/ Awaited(p)' \/ Released(p)'
      BY <2>1 DEF Outstanding
    <3>1. CASE /\ link = "login"
               /\ cancels' = Append(cancels, [sess |-> cmd.sess, ref |-> cmd.ref,
                                              via |-> spi.sess, st |-> "sent"])
      <4>1. PICK c : c = [sess |-> cmd.sess, ref |-> cmd.ref, via |-> spi.sess, st |-> "sent"]
        OBVIOUS
      <4>2. /\ Len(cancels) + 1 \in DOMAIN cancels' /\ cancels'[Len(cancels) + 1] = c
            /\ \A i \in DOMAIN cancels : i \in DOMAIN cancels' /\ cancels'[i] = cancels[i]
        <5> HIDE DEF CancelRequest
        <5> QED BY <3>1, <4>1 DEF TypeOK, CounterTypeOK
      <4>3. c.via = sessions /\ c.st = "sent" /\ CancelId(c) = CancelId(cmd)
        BY <3>1, <4>1 DEF MarkInv, LoggedIn, CancelId
      <4>4. Asking(p) => Awaited(p)'
        BY <1>1, <3>1, <4>2, <4>3 DEF Asking, Awaited
      <4>5. Awaited(p) => Awaited(p)'
        BY <1>1, <4>2 DEF Awaited
      <4> QED BY <1>3, <4>4, <4>5 DEF MarkInv, Outstanding
    <3>2. CASE cmd' = [cmd EXCEPT !.pc = "unmark"] /\ cancels' = cancels
      <4>1. cmd'.pc = "unmark" /\ CancelId(cmd)' = CancelId(cmd)
        BY <3>2 DEF TypeOK, CommandTypeOK, CancelId
      <4>2. Asking(p) => Asking(p)'
        BY <4>1 DEF Asking
      <4>3. Awaited(p) => Awaited(p)'
        BY <1>1, <3>2 DEF Awaited
      <4> QED BY <1>3, <4>2, <4>3 DEF MarkInv, Outstanding
    <3> QED BY <1>5, <2>1, <3>1, <3>2 DEF ReqOrderAction
  <2> QED BY <1>2, <2>3, <2>4 DEF MarkInv
<1>6. CASE UnmarkCancel
  <2>1. /\ cancels' = cancels /\ cmd' = Idle
        /\ pending_cancels' = pending_cancels \ {CancelId(cmd)}
    BY <1>6 DEF UnmarkCancel, brokerVars
  <2>2. LoggedIn'
    BY <1>1, <2>1 DEF MarkInv, LoggedIn, Cancelling, Idle
  <2>3. Outstanding'
    <3> SUFFICES ASSUME NEW p \in pending_cancels, p # CancelId(cmd)
                 PROVE  Awaited(p)' \/ Released(p)'
      BY <2>1 DEF Outstanding
    <3>1. Awaited(p) \/ Released(p)
      BY DEF MarkInv, Outstanding, Asking
    <3> QED BY <1>1, <1>3, <2>1, <3>1 DEF Awaited
  <2> QED BY <1>2, <2>2, <2>3 DEF MarkInv
<1> QED BY <1>4, <1>5, <1>6

LEMMA MarkConnection ==
    ASSUME TypeOK, MarkInv, Login \/ Crash PROVE MarkInv'
<1>1. CASE Login
  <2>1. UNCHANGED <<pending_cancels, td, cancels, flow, qflow, cmd>>
    BY <1>1 DEF Login, Connect, OnRspAuthenticate, OnRspUserLogin, OnRspSettlementInfoConfirm,
                brokerVars
  <2>2. \/ link # "login" /\ (link' = "login" => spi'.sess = sessions')
        \/ UNCHANGED <<link, spi, sessions>>
    BY <1>1 DEF Login, Connect, OnRspAuthenticate, OnRspUserLogin, OnRspSettlementInfoConfirm,
                brokerVars
  <2>3. link' # "none"
    BY <1>1 DEF Login, Connect, OnRspAuthenticate, OnRspUserLogin, OnRspSettlementInfoConfirm
  <2>4. LoggedIn' /\ ReportsNamed'
    BY <2>1, <2>2, <2>3 DEF MarkInv, LoggedIn, ReportsNamed
  <2>5. \A p : /\ Asking(p) => Asking(p)'
               /\ Released(p) => Released(p)'
               /\ Awaited(p) => Awaited(p)'
    BY <2>1, <2>2 DEF Asking, Released, Awaited
  <2> QED BY <2>1, <2>4, <2>5 DEF MarkInv, Outstanding
<1>2. CASE Crash
  BY <1>2 DEF Crash, MarkInv, LoggedIn, Cancelling, ReportsNamed, Outstanding, Idle, TdIdle
<1> QED BY <1>1, <1>2

\* A callback takes a report from the queue; the report that would release a mark is
\* then in hand.
LEMMA MarkReceive ==
    ASSUME TypeOK, MarkInv, OnRtnOrder \/ OnRspQryOrder PROVE MarkInv'
<1>1. UNCHANGED <<pending_cancels, cancels, sessions, link, spi, cmd>> /\ td.pc = "idle"
  BY DEF OnRtnOrder, OnRspQryOrder, NextReport
<1>2. LoggedIn'
  BY <1>1 DEF MarkInv, LoggedIn, Cancelling
<1>3. \A p : (Asking(p) => Asking(p)') /\ (Awaited(p) => Awaited(p)')
  BY <1>1 DEF Asking, Awaited
<1>4. CASE OnRtnOrder
  <2>1. PICK q \in Seq(Message \cup CancelMessage) : q = flow /\ q # <<>>
    BY <1>4 DEF OnRtnOrder, NextReport, TypeOK, CounterTypeOK
  <2>2. PICK m : m = Head(q)
    OBVIOUS
  <2>3. flow' = Tail(q) /\ td'.pc = "release" /\ td'.msg = m
        /\ td'.sess = IF m.sess = 0 THEN spi.sess ELSE m.sess
    BY <1>4, <2>1, <2>2 DEF OnRtnOrder, BeginOrderPayload
  <2>4. /\ 1 \in DOMAIN q /\ m = q[1]
        /\ \A i \in DOMAIN q : i = 1 \/ (i - 1 \in DOMAIN Tail(q) /\ Tail(q)[i - 1] = q[i])
        /\ \A i \in DOMAIN Tail(q) : i + 1 \in DOMAIN q /\ Tail(q)[i] = q[i + 1]
    BY <2>1, <2>2, TakenQueue
  <2>5. ReportsNamed'
    <3>1. m.kind = "RtnOrder" => m.sess # 0
      BY <2>1, <2>4 DEF MarkInv, ReportsNamed
    <3>2. \A i \in DOMAIN Tail(q) : Tail(q)[i].kind = "RtnOrder" => Tail(q)[i].sess # 0
      BY <2>1, <2>4 DEF MarkInv, ReportsNamed
    <3>3. qflow' = qflow
      BY <1>4 DEF OnRtnOrder
    <3> QED BY <2>3, <3>1, <3>2, <3>3 DEF MarkInv, ReportsNamed
  <2>6. ASSUME NEW p, Released(p) PROVE Released(p)'
    <3>1. PICK i \in DOMAIN q : Releases(q[i], p)
      BY <1>1, <2>1, <2>6 DEF Released
    <3>2. CASE i = 1
      <4>1. Releases(m, p)
        BY <2>4, <3>1, <3>2
      <4> QED BY <2>3, <4>1 DEF Released, Releases, CancelId
    <3>3. CASE i - 1 \in DOMAIN Tail(q) /\ Tail(q)[i - 1] = q[i]
      <4>1. Releases(Tail(q)[i - 1], p)
        BY <3>1, <3>3
      <4> QED BY <2>3, <3>3, <4>1 DEF Released, Releases, CancelId
    <3> QED BY <2>4, <3>1, <3>2, <3>3
  <2> QED BY <1>1, <1>2, <1>3, <2>5, <2>6 DEF MarkInv, Outstanding
<1>5. CASE OnRspQryOrder
  <2>1. PICK q \in Seq(Message) : q = qflow /\ q # <<>>
    BY <1>5 DEF OnRspQryOrder, TypeOK, CounterTypeOK
  <2>2. flow' = flow /\ qflow' = Tail(q) /\ td'.msg = Head(q)
    BY <1>5, <2>1 DEF OnRspQryOrder, BeginOrderPayload
  <2>3. /\ 1 \in DOMAIN q /\ Head(q) = q[1]
        /\ \A i \in DOMAIN Tail(q) : i + 1 \in DOMAIN q /\ Tail(q)[i] = q[i + 1]
    BY <2>1, TakenQueue
  <2>4. ReportsNamed'
    <3>1. Head(q).kind = "QryOrder" /\ \A i \in DOMAIN Tail(q) : Tail(q)[i].kind = "QryOrder"
      BY <2>1, <2>3 DEF MarkInv, ReportsNamed
    <3> QED BY <2>2, <3>1 DEF MarkInv, ReportsNamed
  <2>5. ASSUME NEW p, Released(p) PROVE Released(p)'
    <3>1. PICK i \in DOMAIN flow : Releases(flow[i], p)
      BY <1>1, <2>5 DEF Released
    <3> QED BY <2>2, <3>1 DEF Released, Releases, CancelId
  <2> QED BY <1>1, <1>2, <1>3, <2>4, <2>5 DEF MarkInv, Outstanding
<1> QED BY <1>4, <1>5

\* A mark is released by the report that ends its order or refuses its cancel, and
\* no mark that another report releases.
LEMMA MarkRelease ==
    ASSUME TypeOK, MarkInv, ReleaseCancel \/ UpdateAndPublish \/ OnRspOrderAction
    PROVE  MarkInv'
<1>1. UNCHANGED <<cancels, qflow, sessions, link, spi, cmd>>
  BY DEF ReleaseCancel, UpdateAndPublish, OnRspOrderAction, brokerVars
<1>2. LoggedIn'
  BY <1>1 DEF MarkInv, LoggedIn, Cancelling
<1>3. \A p : (Asking(p) => Asking(p)') /\ (Awaited(p) => Awaited(p)')
  BY <1>1 DEF Asking, Awaited
<1>4. CASE ReleaseCancel
  <2>1. /\ td.pc = "release" /\ td'.pc = "update" /\ flow' = flow
        /\ pending_cancels' = IF td.msg.status \in Terminal
                              THEN pending_cancels \ {<<td.sess, td.msg.ref>>}
                              ELSE pending_cancels
    BY <1>4 DEF ReleaseCancel, brokerVars, TypeOK, TraderTypeOK, TdIdle
  <2>2. ReportsNamed'
    BY <1>1, <2>1 DEF MarkInv, ReportsNamed
  <2>3. Outstanding'
    <3> SUFFICES ASSUME NEW p \in pending_cancels',
                        Released(p), ~Asking(p), ~Awaited(p)
                 PROVE  Released(p)'
      BY <1>3, <2>1 DEF MarkInv, Outstanding
    <3>1. td.msg.kind \notin {"RspOrderAction", "ErrRtnOrderAction"}
      BY <2>1 DEF TypeOK, TraderTypeOK, TdIdle, Message
    <3>2. ~Releases(td.msg, p)
      BY <2>1, <3>1 DEF Releases, CancelId, MarkInv, ReportsNamed
    <3>3. PICK i \in DOMAIN flow : Releases(flow[i], p)
      BY <3>2 DEF Released
    <3> QED BY <2>1, <3>3 DEF Released, Releases, CancelId
  <2> QED BY <1>2, <2>2, <2>3 DEF MarkInv
<1>5. CASE UpdateAndPublish
  <2>1. /\ td.pc = "update" /\ td'.pc = "idle"
        /\ UNCHANGED <<flow, pending_cancels>>
    BY <1>5 DEF UpdateAndPublish, brokerVars, TdIdle
  <2>2. ReportsNamed'
    BY <1>1, <2>1 DEF MarkInv, ReportsNamed
  <2>3. \A p : Released(p) => Released(p)'
    BY <2>1 DEF Released, Releases, CancelId
  <2> QED BY <1>2, <1>3, <2>1, <2>2, <2>3 DEF MarkInv, Outstanding
<1>6. CASE OnRspOrderAction
  <2>1. PICK q \in Seq(Message \cup CancelMessage) : q = flow /\ q # <<>>
    BY <1>6 DEF OnRspOrderAction, NextReport, TypeOK, CounterTypeOK
  <2>2. /\ td.pc = "idle" /\ td' = td /\ flow' = Tail(q)
        /\ Head(q).kind \in {"RspOrderAction", "ErrRtnOrderAction"}
        /\ pending_cancels' = pending_cancels \ {CancelId(Head(q))}
    BY <1>6, <2>1 DEF OnRspOrderAction, NextReport
  <2>3. /\ 1 \in DOMAIN q /\ Head(q) = q[1]
        /\ \A i \in DOMAIN q : i = 1 \/ (i - 1 \in DOMAIN Tail(q) /\ Tail(q)[i - 1] = q[i])
        /\ \A i \in DOMAIN Tail(q) : i + 1 \in DOMAIN q /\ Tail(q)[i] = q[i + 1]
    BY <2>1, TakenQueue
  <2>4. ReportsNamed'
    <3>1. \A i \in DOMAIN Tail(q) : Tail(q)[i].kind = "RtnOrder" => Tail(q)[i].sess # 0
      BY <2>1, <2>3 DEF MarkInv, ReportsNamed
    <3> QED BY <1>1, <2>2, <3>1 DEF MarkInv, ReportsNamed
  <2>5. Outstanding'
    <3> SUFFICES ASSUME NEW p \in pending_cancels, p # CancelId(Head(q)),
                        Released(p)
                 PROVE  Released(p)'
      BY <1>3, <2>2 DEF MarkInv, Outstanding
    <3>1. PICK i \in DOMAIN q : Releases(q[i], p)
      BY <2>1, <2>2 DEF Released
    <3>2. i # 1
      BY <2>2, <2>3, <3>1 DEF Releases
    <3>3. i - 1 \in DOMAIN Tail(q) /\ Releases(Tail(q)[i - 1], p)
      BY <2>3, <3>1, <3>2
    <3> QED BY <2>2, <3>3 DEF Released, Releases, CancelId
  <2> QED BY <1>2, <2>4, <2>5 DEF MarkInv
<1> QED BY <1>4, <1>5, <1>6

\* A step of the counter keeps the marks' reasons if it keeps every request whose
\* answer is awaited, or sends the answer.
LEMMA MarkSent ==
    ASSUME TypeOK, MarkInv, UNCHANGED <<proxyVars, sessions>>,
           NEW msgs \in Seq(Message \cup CancelMessage), Send(msgs) \/ UNCHANGED flow,
           \A j \in DOMAIN msgs : msgs[j].kind = "RtnOrder" => msgs[j].sess # 0,
           \A i \in DOMAIN qflow' : qflow'[i].kind = "QryOrder",
           \A p : Awaited(p) => \/ Awaited(p)'
                                \/ Send(msgs) /\ \E j \in DOMAIN msgs : Releases(msgs[j], p)
    PROVE  MarkInv'
<1>1. UNCHANGED <<pending_cancels, td, link, spi, cmd>>
  BY DEF proxyVars
<1>2. LoggedIn'
  BY <1>1 DEF MarkInv, LoggedIn, Cancelling
<1>3. PICK q \in Seq(Message \cup CancelMessage) : q = flow
  BY DEF TypeOK, CounterTypeOK
<1>4. /\ \A i \in DOMAIN q : i \in DOMAIN (q \o msgs) /\ (q \o msgs)[i] = q[i]
      /\ \A j \in DOMAIN msgs : /\ Len(q) + j \in DOMAIN (q \o msgs)
                                /\ (q \o msgs)[Len(q) + j] = msgs[j]
      /\ \A i \in DOMAIN (q \o msgs) :
            \/ i \in DOMAIN q /\ (q \o msgs)[i] = q[i]
            \/ /\ i > Len(q) /\ i - Len(q) \in DOMAIN msgs
               /\ (q \o msgs)[i] = msgs[i - Len(q)]
  BY <1>3, SentQueue
<1>5. flow' = q \/ flow' = q \o msgs
  BY <1>3 DEF Send
<1>6. ReportsNamed'
  <2>1. \A i \in DOMAIN flow' : flow'[i].kind = "RtnOrder" => flow'[i].sess # 0
    <3>1. CASE flow' = q
      BY <1>3, <3>1 DEF MarkInv, ReportsNamed
    <3>2. CASE flow' = q \o msgs
      <4> SUFFICES ASSUME NEW i \in DOMAIN flow', flow'[i].kind = "RtnOrder"
                   PROVE  flow'[i].sess # 0
        OBVIOUS
      <4>1. CASE i \in DOMAIN q /\ flow'[i] = q[i]
        BY <1>3, <4>1 DEF MarkInv, ReportsNamed
      <4>2. CASE i - Len(q) \in DOMAIN msgs /\ flow'[i] = msgs[i - Len(q)]
        BY <4>2
      <4> QED BY <1>4, <3>2, <4>1, <4>2
    <3> QED BY <1>5, <3>1, <3>2
  <2> QED BY <1>1, <2>1 DEF MarkInv, ReportsNamed
<1>7. ASSUME NEW p, Released(p) PROVE Released(p)'
  <2>1. CASE td.pc = "release" /\ Releases(td.msg, p)
    BY <1>1, <2>1 DEF Released, Releases, CancelId
  <2>2. ASSUME NEW i \in DOMAIN flow, Releases(flow[i], p) PROVE Released(p)'
    <3>1. i \in DOMAIN flow' /\ flow'[i] = flow[i]
      BY <1>3, <1>4, <1>5
    <3> QED BY <2>2, <3>1 DEF Released, Releases, CancelId
  <2> QED BY <1>7, <2>1, <2>2 DEF Released
<1>8. ASSUME NEW p, Awaited(p) PROVE Awaited(p)' \/ Released(p)'
  <2>1. CASE Send(msgs) /\ \E j \in DOMAIN msgs : Releases(msgs[j], p)
    <3>1. PICK j \in DOMAIN msgs : Releases(msgs[j], p)
      BY <2>1
    <3>2. flow' = q \o msgs
      BY <1>3, <1>8, <2>1 DEF Awaited, Send
    <3>3. Len(q) + j \in DOMAIN flow' /\ flow'[Len(q) + j] = msgs[j]
      BY <1>4, <3>2
    <3> QED BY <3>1, <3>3 DEF Released, Releases, CancelId
  <2> QED BY <1>8, <2>1
<1>9. \A p : Asking(p) => Asking(p)'
  BY <1>1 DEF Asking
<1> QED BY <1>1, <1>2, <1>6, <1>7, <1>8, <1>9 DEF MarkInv, Outstanding

\* A step of the counter that answers no cancel.
LEMMA MarkNews ==
    ASSUME TypeOK, MarkInv, UNCHANGED <<proxyVars, cancels, qflow, sessions>>,
           NEW msgs \in Seq(Message \cup CancelMessage), Send(msgs) \/ UNCHANGED flow,
           \A j \in DOMAIN msgs : msgs[j].kind = "RtnOrder" => msgs[j].sess # 0
    PROVE  MarkInv'
<1>1. \A i \in DOMAIN qflow' : qflow'[i].kind = "QryOrder"
  BY DEF MarkInv, ReportsNamed
<1>2. \A p : Awaited(p) => Awaited(p)'
  BY DEF Awaited, proxyVars
<1> QED BY <1>1, <1>2, MarkSent

LEMMA MarkQuiet ==
    ASSUME TypeOK, MarkInv, UNCHANGED <<proxyVars, cancels, flow, qflow, sessions>>
    PROVE  MarkInv'
<1>1. <<>> \in Seq(Message \cup CancelMessage) /\ DOMAIN <<>> = {}
  OBVIOUS
<1> QED BY <1>1, MarkNews

LEMMA MarkOrders == ASSUME TypeOK, MarkInv, OrdersGoOn PROVE MarkInv'
<1>1. PICK msgs \in Seq(Message) : /\ Send(msgs) \/ UNCHANGED flow
                                   /\ Told(msgs)
  BY NewsOfOrders
<1>2. UNCHANGED <<proxyVars, cancels, qflow, sessions>>
  BY NewsOfOrders
<1>3. msgs \in Seq(Message \cup CancelMessage)
  OBVIOUS
<1> QED BY <1>1, <1>2, <1>3, MarkNews DEF Told, News

LEMMA MarkSnapshot ==
    ASSUME TypeOK, MarkInv, NEW o \in OrderIds, BrokerSnapshot(o) PROVE MarkInv'
<1>1. /\ UNCHANGED <<proxyVars, cancels, flow, sessions>> /\ broker[o].st \in AtCounter
      /\ qflow' = Append(qflow, Report("QryOrder", o, broker[o]))
  BY DEF BrokerSnapshot
<1>2. PICK m \in Message : m = Report("QryOrder", o, broker[o])
  <2>1. Named(broker[o])
    BY <1>1 DEF TypeOK, CounterTypeOK, BrokerTypeOK, AtCounter, Live, Active, Terminal
  <2> QED BY <1>1, <2>1, ReportType
<1>3. m.kind = "QryOrder"
  BY <1>2 DEF Report
<1>4. PICK q \in Seq(Message) : q = qflow
  BY DEF TypeOK, CounterTypeOK
<1>5. \A i \in DOMAIN Append(q, m) : Append(q, m)[i] = m \/ (i \in DOMAIN q /\ Append(q, m)[i] = q[i])
  <2> HIDE DEF Message
  <2> QED BY <1>4
<1>6. \A i \in DOMAIN qflow' : qflow'[i].kind = "QryOrder"
  BY <1>1, <1>2, <1>3, <1>4, <1>5 DEF MarkInv, ReportsNamed
<1>7. \A p : Awaited(p) => Awaited(p)'
  BY <1>1 DEF Awaited, proxyVars
<1>8. <<>> \in Seq(Message \cup CancelMessage) /\ DOMAIN <<>> = {}
  OBVIOUS
<1> QED BY <1>1, <1>6, <1>7, <1>8, MarkSent

\* The answer to a request goes to the session that awaits it, and releases its mark.
LEMMA MarkAnswerCancel ==
    ASSUME TypeOK, MarkInv, NEW i \in DOMAIN cancels, AnswerCancel(i) PROVE MarkInv'
<1> DEFINE id == CancelId(cancels[i])
<1>1. /\ cancels[i] \in CancelRequest /\ cancels[i].st = "sent"
      /\ UNCHANGED <<proxyVars, qflow, sessions>>
      /\ \E st : cancels' = [cancels EXCEPT ![i].st = st]
  BY DEF AnswerCancel, BrokerCancels, BrokerRefusesCancel, LoseCancel, TypeOK, CounterTypeOK
<1>2. \A j \in DOMAIN cancels \ {i} : j \in DOMAIN cancels' /\ cancels'[j] = cancels[j]
  BY <1>1
<1>3. ASSUME NEW p, Awaited(p) PROVE Awaited(p)' \/ (p = id /\ Sub(cancels[i].via))
  <2>1. link = "login"
    BY <1>3 DEF Awaited
  <2>2. PICK j \in DOMAIN cancels :
           CancelId(cancels[j]) = p /\ cancels[j].st = "sent" /\ cancels[j].via = sessions
    BY <1>3 DEF Awaited
  <2>3. CASE j = i
    BY <2>1, <2>2, <2>3 DEF Sub
  <2>4. CASE j # i
    <3>1. j \in DOMAIN cancels' /\ cancels'[j] = cancels[j]
      BY <1>2, <2>4
    <3>2. CancelId(cancels'[j]) = p
      BY <2>2, <3>1 DEF CancelId
    <3> QED BY <1>1, <2>1, <2>2, <3>1, <3>2 DEF Awaited, proxyVars, CancelId
  <2> QED BY <2>3, <2>4
<1>4. \A j \in DOMAIN qflow' : qflow'[j].kind = "QryOrder"
  BY <1>1 DEF MarkInv, ReportsNamed
<1>5. CASE BrokerCancels(i)
  <2>1. PICK o \in OrderOf(cancels[i].sess, cancels[i].ref) :
           /\ broker' = [broker EXCEPT ![o].st = "CANCELLED"]
           /\ Send(<<Report("RtnOrder", o, broker'[o])>>)
    BY <1>5 DEF BrokerCancels
  <2>2. o \in OrderIds /\ broker[o] \in BrokerOrder /\ Named(broker[o])
        /\ broker[o].sess = cancels[i].sess /\ broker[o].ref = cancels[i].ref
    BY <2>1 DEF OrderOf, TypeOK, CounterTypeOK, BrokerTypeOK, AtCounter, Live, Active, Terminal
  <2>3. broker'[o].st = "CANCELLED" /\ broker'[o].sess = broker[o].sess /\ broker'[o].ref = broker[o].ref
    BY <2>1, <2>2 DEF TypeOK, CounterTypeOK, BrokerTypeOK, BrokerOrder
  <2>4. PICK m \in Message : m = Report("RtnOrder", o, broker'[o])
    <3>1. broker'[o].st \in AtCounter /\ Named(broker'[o])
      BY <2>2, <2>3 DEF Named, AtCounter, Terminal
    <3> QED BY <2>2, <3>1, ReportType
  <2>5. m.sess # 0 /\ Releases(m, id)
    BY <1>1, <2>2, <2>3, <2>4, RegistryAssumption DEF Report, Named, Releases, Terminal, CancelId
  <2>6. <<m>> \in Seq(Message \cup CancelMessage) /\ DOMAIN <<m>> = {1} /\ <<m>>[1] = m
    OBVIOUS
  <2>7. Send(<<m>>)
    BY <2>1, <2>4
  <2>8. \A p : Awaited(p) => Awaited(p)' \/ (Send(<<m>>) /\ \E j \in DOMAIN <<m>> : Releases(<<m>>[j], p))
    BY <1>3, <2>5, <2>6, <2>7
  <2>9. \A j \in DOMAIN <<m>> : <<m>>[j].kind = "RtnOrder" => <<m>>[j].sess # 0
    BY <2>5, <2>6
  <2> QED BY <1>1, <1>4, <2>6, <2>7, <2>8, <2>9, MarkSent
<1>6. CASE BrokerRefusesCancel(i)
  <2>1. PICK kinds \in {<<"RspOrderAction">>, <<"ErrRtnOrderAction">>,
                        <<"RspOrderAction", "ErrRtnOrderAction">>} :
           IF Sub(cancels[i].via)
           THEN Send([j \in 1..Len(kinds) |-> ActionError(kinds[j], cancels[i])])
           ELSE UNCHANGED flow
    BY <1>6 DEF BrokerRefusesCancel
  <2>2. PICK msgs : msgs = [j \in 1..Len(kinds) |-> ActionError(kinds[j], cancels[i])]
    OBVIOUS
  <2>3. \A kind \in {"RspOrderAction", "ErrRtnOrderAction"} :
           /\ ActionError(kind, cancels[i]) \in CancelMessage
           /\ Releases(ActionError(kind, cancels[i]), id)
           /\ ActionError(kind, cancels[i]).kind # "RtnOrder"
    BY <1>1, RegistryAssumption DEF ActionError, CancelMessage, CancelRequest, Releases, CancelId
  <2>4. /\ msgs \in Seq(CancelMessage) /\ 1 \in DOMAIN msgs
        /\ \A j \in DOMAIN msgs : msgs[j].kind # "RtnOrder" /\ Releases(msgs[j], id)
    <3>1. /\ Len(kinds) \in {1, 2}
          /\ \A j \in 1..Len(kinds) : kinds[j] \in {"RspOrderAction", "ErrRtnOrderAction"}
      BY <2>1
    <3>2. DOMAIN msgs = 1..Len(kinds)
      BY <2>2
    <3>3. \A j \in 1..Len(kinds) : /\ msgs[j] \in CancelMessage
                                   /\ msgs[j].kind # "RtnOrder" /\ Releases(msgs[j], id)
      <4> TAKE j \in 1..Len(kinds)
      <4>1. PICK kind \in {"RspOrderAction", "ErrRtnOrderAction"} : kind = kinds[j]
        BY <3>1
      <4>2. msgs[j] = ActionError(kind, cancels[i])
        BY <2>2, <4>1
      <4> QED BY <2>3, <4>1, <4>2
    <3>4. msgs \in Seq(CancelMessage)
      BY <2>2, <3>1, <3>3
    <3>5. 1 \in DOMAIN msgs
      BY <3>1, <3>2
    <3>6. \A j \in DOMAIN msgs : msgs[j].kind # "RtnOrder" /\ Releases(msgs[j], id)
      BY <3>2, <3>3
    <3> QED BY <3>4, <3>5, <3>6
  <2>5. msgs \in Seq(Message \cup CancelMessage)
    BY <2>4
  <2>6. Send(msgs) \/ UNCHANGED flow
    BY <2>1, <2>2
  <2>7. \A p : Awaited(p) => Awaited(p)' \/ (Send(msgs) /\ \E j \in DOMAIN msgs : Releases(msgs[j], p))
    BY <1>3, <2>1, <2>2, <2>4
  <2> QED BY <1>1, <1>4, <2>4, <2>5, <2>6, <2>7, MarkSent
<1>7. CASE LoseCancel(i)
  <2>1. ~Sub(cancels[i].via) /\ flow' = flow
    BY <1>7 DEF LoseCancel
  <2>2. \A p : Awaited(p) => Awaited(p)'
    BY <1>3, <2>1
  <2>3. <<>> \in Seq(Message \cup CancelMessage) /\ DOMAIN <<>> = {}
    OBVIOUS
  <2> QED BY <1>1, <1>4, <2>1, <2>2, <2>3, MarkSent
<1> QED BY <1>5, <1>6, <1>7 DEF AnswerCancel

LEMMA MarkStep == ASSUME Connected, TypeOK, MarkInv, [Next]_vars PROVE MarkInv'
<1>1. CASE Command \/ CommandStep
  BY <1>1, MarkCommand, MarkCancelling DEF CommandStep
<1>2. CASE TraderStep
  BY <1>2, MarkReceive, MarkRelease DEF TraderStep
<1>3. CASE Login \/ Crash
  BY <1>3, MarkConnection
<1>4. CASE Counter
  BY <1>4, MarkOrders, MarkSnapshot, MarkAnswerCancel DEF Counter, OrdersGoOn
<1>5. CASE UNCHANGED vars
  BY <1>5, MarkQuiet DEF vars, brokerVars
<1>6. ~OnFrontDisconnected
  BY DEF OnFrontDisconnected, Connected
<1> QED BY <1>1, <1>2, <1>3, <1>4, <1>5, <1>6 DEF Next

LEMMA MarkAlways == ASSUME Connected PROVE Spec => []MarkInv
<1>1. TypeOK /\ MarkInv /\ [Next]_vars => MarkInv'
  BY MarkStep
<1> QED BY <1>1, MarkInit, TypeCorrect, PTL DEF Spec

\* The client that is told cancel_pending waits for something: the request is being
\* sent, unanswered, or its answer is on the way to the trader thread, whatever is
\* cancelled, however often the process dies, and however late its query answers come.
THEOREM PendingCancelsAreOutstanding ==
    ASSUME Connected
    PROVE  Spec => []PendingCancelIsOutstanding
<1>1. MarkInv => PendingCancelIsOutstanding
  BY DEF MarkInv, Outstanding, Awaited, Unanswered, PendingCancelIsOutstanding
<1> QED BY <1>1, MarkAlways, PTL
-----------------------------------------------------------------------------
(***************************************************************************)
(* A live order has one request.  Its mark is a lock: the command that     *)
(* asks, the unanswered request and the refusal on its way hold it in turn,*)
(* never two of them, until the order has ended.                           *)
(***************************************************************************)

\* A refused cancel is answered once; a second answer could release the mark of the
\* request that followed.
OneRefusal == "two_cancel_errors" \notin Env

Ids == (1..MaxSession) \X (0..MaxRef)

\* The order of this id has ended at the counter, or was never taken.
Ended(p) == \E o \in OrderIds : broker[o].st \in Done /\ CancelId(broker[o]) = p

\* Without a crash the marks cover every request; after one, those of this login.
Covered(c)  == MaxCrashes = 0 \/ c.via = spi.sess
Requests(p) == {i \in DOMAIN cancels : /\ cancels[i].st = "sent" /\ CancelId(cancels[i]) = p
                                       /\ Covered(cancels[i])}
IsRefusal(m) == m.kind \in {"RspOrderAction", "ErrRtnOrderAction"}
Refusals(p)  == {i \in DOMAIN flow : IsRefusal(flow[i]) /\ CancelId(flow[i]) = p}

OneHolder(p) ==
    /\ Asking(p) => Requests(p) = {} /\ Refusals(p) = {}
    /\ Requests(p) = {} \/ Refusals(p) = {}
    /\ \A i, j \in Requests(p) : i = j
    /\ \A i, j \in Refusals(p) : i = j
HeldIsMarked(p) == Asking(p) \/ Requests(p) # {} \/ Refusals(p) # {} => p \in pending_cancels

Locked == \A p \in Ids : ~Ended(p) => OneHolder(p) /\ HeldIsMarked(p)

\* Requests were made through a session of ours.
Ours == \A i \in DOMAIN cancels : cancels[i].via <= sessions

\* The same of requests made through one login before the last crash.
Together(c, d) == MaxCrashes = 0 \/ c.via = d.via
NoTwin ==
    \A i, j \in DOMAIN cancels :
        /\ i # j /\ Together(cancels[i], cancels[j])
        /\ cancels[i].st = "sent" /\ cancels[j].st = "sent"
        /\ CancelId(cancels[i]) = CancelId(cancels[j])
        => Ended(CancelId(cancels[i]))

LockInv == Ours /\ Locked /\ NoTwin

LEMMA LockInit == Init => LockInv
BY DEF Init, LockInv, Ours, Locked, NoTwin, Cancelling, OneHolder, HeldIsMarked, Asking,
       Requests, Refusals, Idle

\* An order that has ended stays so.
LEMMA EndedStays ==
    ASSUME TypeOK, IdInv, [Next]_vars PROVE \A p : Ended(p) => Ended(p)'
<1> SUFFICES ASSUME NEW k \in OrderIds, broker[k].st \in Done
             PROVE  broker'[k].st \in Done /\ CancelId(broker'[k]) = CancelId(broker[k])
  BY DEF Ended, CancelId
<1> USE DEF Done, Terminal
<1>1. k \in OrderIds /\ broker \in [OrderIds -> BrokerOrder]
  BY DEF TypeOK, CounterTypeOK, BrokerTypeOK
<1>2. CASE UNCHANGED broker
  BY <1>2
<1>3. CASE ReqOrderInsert
  <2>1. cmd.key \in Keys /\ broker[cmd.key].st = "none"
    BY <1>3 DEF ReqOrderInsert, TypeOK, CommandTypeOK, IdInv, ThreadInv, Placing
  <2>2. broker'[k] = broker[k]
    BY <1>1, <1>3, <2>1 DEF ReqOrderInsert
  <2> QED BY <2>2
<1>4. ASSUME NEW o \in OrderIds, broker[o].st \notin Done,
             \E b : broker' = [broker EXCEPT ![o] = b]
      PROVE  broker'[k] = broker[k]
  BY <1>1, <1>4
<1>5. CASE Counter
  <2>1. UNCHANGED broker \/ \E o \in OrderIds : /\ broker[o].st \notin Done
                                                /\ \E b : broker' = [broker EXCEPT ![o] = b]
    <3>1. ASSUME NEW o \in Keys, AnswerInsert(o)
          PROVE  o \in OrderIds /\ broker[o].st \notin Done /\ \E b : broker' = [broker EXCEPT ![o] = b]
      BY <3>1 DEF AnswerInsert, BrokerAccept, BrokerReject, LoseInsert, BrokerSets, OrderIds
    <3>2. ASSUME NEW o \in OrderIds, BrokerProgress(o)
          PROVE  broker[o].st \notin Done /\ \E b : broker' = [broker EXCEPT ![o] = b]
      BY <3>2 DEF BrokerProgress, BrokerSets, Live, Active
    <3>3. ASSUME NEW f \in Foreign, NEW ref, ForeignOrder(f, ref) \/ ForeignReject(f, ref)
          PROVE  f \in OrderIds /\ broker[f].st \notin Done /\ \E b : broker' = [broker EXCEPT ![f] = b]
      BY <3>3 DEF ForeignOrder, ForeignReject, BrokerSets, OrderIds
    <3>4. ASSUME NEW i, BrokerCancels(i)
          PROVE  \E o \in OrderIds : broker[o].st \notin Done /\ \E b : broker' = [broker EXCEPT ![o] = b]
      <4>1. PICK o \in OrderOf(cancels[i].sess, cancels[i].ref) :
               broker[o].st \in Live /\ broker' = [broker EXCEPT ![o].st = "CANCELLED"]
        BY <3>4 DEF BrokerCancels
      <4>2. broker[o].st \notin Done
        BY <4>1 DEF Live, Active
      <4>3. broker' = [broker EXCEPT ![o] = [broker[o] EXCEPT !.st = "CANCELLED"]]
        BY <4>1
      <4> QED BY <4>2, <4>3 DEF OrderOf
    <3>5. ASSUME NEW i, BrokerRefusesCancel(i) \/ LoseCancel(i) PROVE UNCHANGED broker
      BY <3>5 DEF BrokerRefusesCancel, LoseCancel
    <3>6. ASSUME NEW o, BrokerSnapshot(o) PROVE UNCHANGED broker
      BY <3>6 DEF BrokerSnapshot
    <3> QED BY <1>5, <3>1, <3>2, <3>3, <3>4, <3>5, <3>6 DEF Counter, AnswerCancel
  <2> QED BY <1>4, <2>1
<1>6. CASE Login \/ TraderStep \/ OnFrontDisconnected \/ Crash
  <2>1. UNCHANGED broker
    BY <1>6 DEF Login, Connect, OnRspAuthenticate, OnRspUserLogin, OnRspSettlementInfoConfirm,
                TraderStep, OnRtnOrder, OnRspQryOrder, ReleaseCancel, UpdateAndPublish,
                OnRspOrderAction, OnFrontDisconnected, Crash, brokerVars
  <2> QED BY <1>2, <2>1
<1>7. CASE Command \/ CommandStep
  <2>1. UNCHANGED broker \/ ReqOrderInsert
    BY <1>7 DEF Command, CommandStep, PlaceOrder, CancelByKey, CancelByIds, LoadOrderRef,
                StoreOrderRef, TakeOrderRef, ReadFrontId, ReadSessionId, CreateRow,
                ReadFrontIdAgain, RejectLocally, MarkCancel, ReqOrderAction, UnmarkCancel,
                brokerVars
  <2> QED BY <1>2, <1>3, <2>1
<1>8. CASE UNCHANGED vars
  BY <1>2, <1>8 DEF vars, brokerVars
<1> QED BY <1>5, <1>6, <1>7, <1>8 DEF Next

LEMMA RequestType ==
    ASSUME TypeOK, NEW i \in DOMAIN cancels
    PROVE  /\ cancels[i] \in CancelRequest
           /\ cancels[i].via \in Nat /\ cancels[i].via # 0
<1>1. cancels[i] \in CancelRequest
  BY DEF TypeOK, CounterTypeOK
<1> QED BY <1>1, RegistryAssumption DEF CancelRequest

\* A step that makes no request, marks and sends nothing, and releases no mark.
LEMMA LockAside ==
    ASSUME TypeOK, LockInv, \A p : Ended(p) => Ended(p)', UNCHANGED <<pending_cancels, cancels>>,
           flow' = flow \/ flow' = <<>>,
           \A p : Asking(p)' => Asking(p),
           sessions' \in Nat /\ sessions' >= sessions,
           spi'.sess = spi.sess \/ \A i \in DOMAIN cancels : cancels[i].via # spi'.sess
    PROVE  LockInv'
<1>1. Ours'
  <2>1. sessions \in Nat /\ \A i \in DOMAIN cancels : cancels[i].via \in Nat
    BY RequestType DEF TypeOK, SessionTypeOK
  <2> QED BY <2>1 DEF LockInv, Ours
<1>2. NoTwin'
  BY DEF LockInv, NoTwin, Together, CancelId
<1>3. \A p : Requests(p)' \subseteq Requests(p) /\ Refusals(p)' \subseteq Refusals(p)
  <2>1. \A p : Requests(p)' \subseteq Requests(p)
    BY DEF Requests, Covered, CancelId
  <2>2. \A p : Refusals(p)' \subseteq Refusals(p)
    BY DEF Refusals, IsRefusal, CancelId
  <2> QED BY <2>1, <2>2
<1>4. Locked'
  <2> SUFFICES ASSUME NEW p \in Ids, ~Ended(p)' PROVE OneHolder(p)' /\ HeldIsMarked(p)'
    BY DEF Locked, Ids
  <2>1. OneHolder(p) /\ HeldIsMarked(p)
    BY DEF LockInv, Locked
  <2>2. OneHolder(p)'
    BY <1>3, <2>1 DEF OneHolder
  <2>3. HeldIsMarked(p)'
    BY <1>3, <2>1 DEF HeldIsMarked
  <2> QED BY <2>2, <2>3
<1> QED BY <1>1, <1>2, <1>4 DEF LockInv

LEMMA LockCommand ==
    ASSUME TypeOK, LockInv, \A p : Ended(p) => Ended(p)',
           \/ Command \/ LoadOrderRef \/ StoreOrderRef \/ TakeOrderRef
           \/ ReadFrontId \/ ReadSessionId \/ CreateRow
           \/ ReqOrderInsert \/ ReadFrontIdAgain \/ RejectLocally
    PROVE  LockInv'
<1>1. /\ UNCHANGED <<pending_cancels, cancels, flow, sessions>> /\ spi'.sess = spi.sess
      /\ Cancelling' => cmd'.pc = "mark"
  <2>1. ASSUME NEW k \in Keys, PlaceOrder(k)
        PROVE  /\ UNCHANGED <<pending_cancels, cancels, flow, sessions, spi>>
               /\ cmd'.pc = "load_ref"
    BY <2>1 DEF PlaceOrder, Idle, brokerVars
  <2>2. ASSUME NEW k \in Keys, CancelByKey(k)
        PROVE  UNCHANGED <<pending_cancels, cancels, flow, sessions, spi>> /\ cmd'.pc = "mark"
    BY <2>2 DEF CancelByKey, brokerVars
  <2>3. ASSUME NEW ref, NEW sess, CancelByIds(ref, sess)
        PROVE  UNCHANGED <<pending_cancels, cancels, flow, sessions, spi>> /\ cmd'.pc = "mark"
    BY <2>3 DEF CancelByIds, brokerVars
  <2>4. CASE Command
    BY <2>1, <2>2, <2>3, <2>4 DEF Command, Cancelling
  <2>5. CASE \/ LoadOrderRef \/ StoreOrderRef \/ TakeOrderRef
             \/ ReadFrontId \/ ReadSessionId \/ ReadFrontIdAgain
    BY <2>5 DEF LoadOrderRef, StoreOrderRef, TakeOrderRef, ReadFrontId, ReadSessionId,
                ReadFrontIdAgain, brokerVars, Cancelling, TypeOK, CommandTypeOK, SessionTypeOK
  <2>6. CASE CreateRow \/ ReqOrderInsert \/ RejectLocally
    BY <2>6 DEF CreateRow, ReqOrderInsert, RejectLocally, brokerVars, Cancelling, Idle,
                TypeOK, CommandTypeOK
  <2> QED BY <2>4, <2>5, <2>6
<1>2. \A p : ~Asking(p)'
  BY <1>1 DEF Asking, Cancelling
<1>3. sessions \in Nat
  BY DEF TypeOK, SessionTypeOK
<1> QED BY <1>1, <1>2, <1>3, LockAside

LEMMA LockConnection ==
    ASSUME TypeOK, IdInv, LockInv, \A p : Ended(p) => Ended(p)',
           Login \/ OnFrontDisconnected
    PROVE  LockInv'
<1>1. /\ UNCHANGED <<pending_cancels, cancels, cmd>> /\ (flow' = flow \/ flow' = <<>>)
  BY DEF Login, Connect, OnRspAuthenticate, OnRspUserLogin, OnRspSettlementInfoConfirm,
         OnFrontDisconnected, brokerVars
<1>2. sessions \in Nat /\ sessions' \in Nat /\ sessions' >= sessions
  BY DEF Login, Connect, OnRspAuthenticate, OnRspUserLogin, OnRspSettlementInfoConfirm,
         OnFrontDisconnected, brokerVars, TypeOK, SessionTypeOK
<1>3. spi'.sess \in {0, spi.sess, sessions + 1}
  BY DEF Login, Connect, OnRspAuthenticate, OnRspUserLogin, OnRspSettlementInfoConfirm,
         OnFrontDisconnected, brokerVars
<1>4. \A i \in DOMAIN cancels : cancels[i].via \in Nat \ {0} /\ cancels[i].via <= sessions
  BY RequestType DEF LockInv, Ours
<1>5. spi'.sess = spi.sess \/ \A i \in DOMAIN cancels : cancels[i].via # spi'.sess
  BY <1>2, <1>3, <1>4
<1>6. \A p : Asking(p)' => Asking(p)
  BY <1>1 DEF Asking
<1> QED BY <1>1, <1>2, <1>5, <1>6, LockAside

\* After a crash nothing holds a mark and no request is this login's.
LEMMA LockCrash ==
    ASSUME TypeOK, LockInv, \A p : Ended(p) => Ended(p)', Crash PROVE LockInv'
<1>1. /\ UNCHANGED <<cancels, sessions>> /\ cmd' = Idle /\ flow' = <<>> /\ spi'.sess = 0
      /\ MaxCrashes # 0
  BY FlowAssumption DEF Crash, TypeOK, CountTypeOK
<1>2. Ours' /\ NoTwin'
  BY <1>1 DEF LockInv, Ours, NoTwin, Together, Cancelling, Idle, CancelId
<1>3. \A p : ~Asking(p)' /\ Requests(p)' = {} /\ Refusals(p)' = {}
  <2>1. \A i \in DOMAIN cancels : cancels[i].via # 0
    BY RequestType
  <2>2. \A p : Requests(p)' = {}
    BY <1>1, <2>1 DEF Requests, Covered
  <2>3. \A p : ~Asking(p)' /\ Refusals(p)' = {}
    BY <1>1 DEF Asking, Refusals, Idle
  <2> QED BY <2>2, <2>3
<1>4. Locked'
  BY <1>3 DEF Locked, OneHolder, HeldIsMarked
<1> QED BY <1>2, <1>4 DEF LockInv

LEMMA LockMark ==
    ASSUME TypeOK, LockInv, \A p : Ended(p) => Ended(p)', MarkCancel PROVE LockInv'
<1>1. UNCHANGED <<cancels, flow, sessions, spi>> /\ cmd.pc = "mark"
  BY DEF MarkCancel, brokerVars
<1>2. PICK id : id = CancelId(cmd)
  OBVIOUS
<1>3. /\ pending_cancels' = pending_cancels \cup {id}
      /\ cmd' = IF id \in pending_cancels THEN Idle ELSE [cmd EXCEPT !.pc = "action"]
  BY <1>2 DEF MarkCancel
<1>4. \/ cmd'.pc = "idle"
      \/ cmd'.pc = "action" /\ cmd'.sess = cmd.sess /\ CancelId(cmd)' = id /\ id \notin pending_cancels
  BY <1>2, <1>3 DEF TypeOK, CommandTypeOK, CancelId, Idle
<1>5. Ours' /\ NoTwin'
  <2>1. Ours'
    BY <1>1, <1>4 DEF LockInv, Ours, Cancelling
  <2>2. NoTwin'
    BY <1>1 DEF LockInv, NoTwin, Together, CancelId
  <2> QED BY <2>1, <2>2
<1>6. \A p : Requests(p)' = Requests(p) /\ Refusals(p)' = Refusals(p)
  BY <1>1 DEF Requests, Refusals, Covered, CancelId, IsRefusal
<1>7. Locked'
  <2> SUFFICES ASSUME NEW p \in Ids, ~Ended(p)' PROVE OneHolder(p)' /\ HeldIsMarked(p)'
    BY DEF Locked, Ids
  <2>1. OneHolder(p) /\ HeldIsMarked(p)
    BY DEF LockInv, Locked
  <2>2. Asking(p)' => p = id /\ id \notin pending_cancels
    BY <1>4 DEF Asking
  <2>3. Asking(p)' => Requests(p) = {} /\ Refusals(p) = {}
    BY <2>1, <2>2 DEF HeldIsMarked
  <2>4. OneHolder(p)'
    BY <1>6, <2>1, <2>3 DEF OneHolder
  <2>5. HeldIsMarked(p)'
    <3>1. ~Asking(p)
      BY <1>1 DEF Asking
    <3> QED BY <1>3, <1>6, <2>1, <2>2, <3>1 DEF HeldIsMarked
  <2> QED BY <2>4, <2>5
<1> QED BY <1>5, <1>7 DEF LockInv

LEMMA LockUnmark ==
    ASSUME TypeOK, LockInv, \A p : Ended(p) => Ended(p)', UnmarkCancel PROVE LockInv'
<1>1. /\ UNCHANGED <<cancels, flow, sessions, spi>> /\ cmd.pc = "unmark" /\ cmd' = Idle
      /\ pending_cancels' = pending_cancels \ {CancelId(cmd)}
  BY DEF UnmarkCancel, brokerVars
<1>2. Ours'
  BY <1>1 DEF LockInv, Ours, Cancelling, Idle
<1>3. NoTwin'
  BY <1>1 DEF LockInv, NoTwin, Together, CancelId
<1>4. \A p : Requests(p)' = Requests(p) /\ Refusals(p)' = Refusals(p) /\ ~Asking(p)'
  BY <1>1 DEF Requests, Refusals, Covered, CancelId, IsRefusal, Asking, Idle
<1>5. Locked'
  <2> SUFFICES ASSUME NEW p \in Ids, ~Ended(p)' PROVE OneHolder(p)' /\ HeldIsMarked(p)'
    BY DEF Locked, Ids
  <2>1. OneHolder(p) /\ HeldIsMarked(p)
    BY DEF LockInv, Locked
  <2>2. p \notin pending_cancels' => p \notin pending_cancels \/ Asking(p)
    BY <1>1 DEF Asking
  <2>3. OneHolder(p)'
    BY <1>4, <2>1 DEF OneHolder
  <2>4. HeldIsMarked(p)'
    BY <1>4, <2>1, <2>2 DEF HeldIsMarked, OneHolder
  <2> QED BY <2>3, <2>4
<1> QED BY <1>2, <1>3, <1>5 DEF LockInv

\* The request takes the mark over from the command that made it.
LEMMA LockRequest ==
    ASSUME TypeOK, IdInv, LockInv, \A p : Ended(p) => Ended(p)', ReqOrderAction PROVE LockInv'
<1>1. UNCHANGED <<pending_cancels, flow, sessions, spi>> /\ cmd.pc = "action"
  BY DEF ReqOrderAction
<1>2. CASE UNCHANGED cancels
  <2>1. cmd'.pc = "idle" \/ (cmd'.pc = "unmark" /\ cmd'.sess = cmd.sess /\ CancelId(cmd)' = CancelId(cmd))
    <3>1. cmd' = Idle \/ cmd' = [cmd EXCEPT !.pc = "unmark"]
      BY DEF ReqOrderAction
    <3> QED BY <3>1 DEF Idle, TypeOK, CommandTypeOK, CancelId
  <2>2. \A p : Asking(p)' => Asking(p)
    BY <1>1, <2>1 DEF Asking
  <2>3. sessions \in Nat
    BY DEF TypeOK, SessionTypeOK
  <2> QED BY <1>1, <1>2, <2>2, <2>3, LockAside
<1>3. CASE ~UNCHANGED cancels
  <2> PICK id : id = CancelId(cmd)
    OBVIOUS
  <2>0. PICK n \in Nat : n = Len(cancels) + 1
    BY DEF TypeOK, CounterTypeOK
  <2>1. PICK c \in CancelRequest :
           c = [sess |-> cmd.sess, ref |-> cmd.ref, via |-> spi.sess, st |-> "sent"]
    <3>1. cmd.sess \in 1..MaxSession /\ cmd.ref \in 0..MaxRef /\ spi.sess \in 1..MaxSession
      BY <1>1, <1>3 DEF ReqOrderAction, TypeOK, CommandTypeOK, SessionTypeOK
    <3> QED BY <3>1 DEF CancelRequest
  <2>2. link = "login" /\ cmd' = Idle /\ cancels' = Append(cancels, c)
    BY <1>1, <1>3, <2>1 DEF ReqOrderAction
  <2>3. /\ c.st = "sent" /\ c.via = spi.sess /\ CancelId(c) = id
        /\ spi.sess <= sessions /\ id \in Ids
    BY <1>1, <2>1, <2>2 DEF CancelId, IdInv, ThreadInv, Current, Ids, TypeOK, CommandTypeOK
  <2>4. /\ n \notin DOMAIN cancels /\ n \in DOMAIN cancels' /\ cancels'[n] = c
        /\ \A i \in DOMAIN cancels : i \in DOMAIN cancels' /\ cancels'[i] = cancels[i]
        /\ \A i \in DOMAIN cancels' : i = n \/ i \in DOMAIN cancels
    <3> HIDE DEF CancelRequest
    <3> QED BY <2>0, <2>2 DEF TypeOK, CounterTypeOK
  <2>5. Asking(id)
    BY <1>1, <2>1 DEF Asking
  <2>6. Ours'
    BY <1>1, <2>2, <2>3, <2>4 DEF LockInv, Ours, Cancelling, Idle
  <2>7. ~Ended(id) => Requests(id) = {} /\ Refusals(id) = {}
    BY <2>3, <2>5 DEF LockInv, Locked, OneHolder
  <2>8. NoTwin'
    <3>1. ASSUME NEW j \in DOMAIN cancels, Together(c, cancels[j]), cancels[j].st = "sent",
                 CancelId(cancels[j]) = id
          PROVE  Ended(id)
      <4>1. j \in Requests(id)
        BY <2>3, <3>1 DEF Requests, Covered, Together
      <4> QED BY <2>7, <4>1
    <3>2. \A d, e : Together(d, e) => Together(e, d)
      BY DEF Together
    <3> SUFFICES ASSUME NEW i \in DOMAIN cancels', NEW j \in DOMAIN cancels', i # j,
                        Together(cancels'[i], cancels'[j]),
                        cancels'[i].st = "sent", cancels'[j].st = "sent",
                        CancelId(cancels'[i]) = CancelId(cancels'[j])
                 PROVE  Ended(CancelId(cancels'[i]))
      BY DEF NoTwin, Together, CancelId
    <3>3. CASE i = n
      BY <2>3, <2>4, <3>1, <3>3
    <3>4. CASE j = n
      BY <2>3, <2>4, <3>1, <3>2, <3>4
    <3>5. CASE i # n /\ j # n
      BY <2>4, <3>5 DEF LockInv, NoTwin
    <3> QED BY <3>3, <3>4, <3>5
  <2>9. Locked'
    <3> SUFFICES ASSUME NEW p \in Ids, ~Ended(p)' PROVE OneHolder(p)' /\ HeldIsMarked(p)'
      BY DEF Locked, Ids
    <3>1. OneHolder(p) /\ HeldIsMarked(p) /\ ~Ended(p)
      BY DEF LockInv, Locked
    <3>2. Refusals(p)' = Refusals(p) /\ ~Asking(p)'
      BY <1>1, <2>2 DEF Refusals, CancelId, IsRefusal, Asking, Idle
    <3>3. CASE p = id
      <4>1. Requests(p)' \subseteq {n}
        BY <1>1, <2>4, <2>7, <3>1, <3>3 DEF Requests, Covered, CancelId
      <4>2. OneHolder(p)'
        BY <2>7, <3>1, <3>2, <3>3, <4>1 DEF OneHolder
      <4> QED BY <1>1, <2>5, <3>1, <3>3, <4>2 DEF HeldIsMarked
    <3>4. CASE p # id
      <4>1. Requests(p)' \subseteq Requests(p)
        BY <1>1, <2>3, <2>4, <3>4 DEF Requests, Covered, CancelId
      <4>2. OneHolder(p)'
        BY <3>1, <3>2, <4>1 DEF OneHolder
      <4> QED BY <1>1, <3>1, <3>2, <4>1, <4>2 DEF HeldIsMarked
    <3> QED BY <3>3, <3>4
  <2> QED BY <2>6, <2>8, <2>9 DEF LockInv
<1> QED BY <1>2, <1>3

\* Taking the head of the queue moves the refusals up, and removes one at the head.
LEMMA RefusalsTaken ==
    ASSUME TypeOK, flow # <<>>, flow' = Tail(flow)
    PROVE  \A p : \A i \in Refusals(p)' : i \in Nat \ {0} /\ i + 1 \in Refusals(p)
<1>1. PICK q \in Seq(Message \cup CancelMessage) : q = flow
  BY DEF TypeOK, CounterTypeOK
<1>2. \A i \in DOMAIN Tail(q) : i \in Nat \ {0} /\ i + 1 \in DOMAIN q /\ Tail(q)[i] = q[i + 1]
  <2> HIDE DEF Message, CancelMessage
  <2> QED BY <1>1, TakenQueue
<1> QED BY <1>1, <1>2 DEF Refusals, CancelId, IsRefusal

LEMMA LockReceive ==
    ASSUME TypeOK, LockInv, \A p : Ended(p) => Ended(p)', OnRtnOrder \/ OnRspQryOrder
    PROVE  LockInv'
<1>1. UNCHANGED <<pending_cancels, cancels, sessions, spi, cmd>>
  BY DEF OnRtnOrder, OnRspQryOrder
<1>2. Ours'
  BY <1>1 DEF LockInv, Ours, Cancelling
<1>3. NoTwin'
  BY <1>1 DEF LockInv, NoTwin, Together, CancelId
<1>4. \A p : Requests(p)' = Requests(p) /\ Asking(p)' = Asking(p)
  BY <1>1 DEF Requests, Covered, CancelId, Asking
<1>5. \A p : /\ Refusals(p)' # {} => Refusals(p) # {}
             /\ (\A i, j \in Refusals(p) : i = j) => \A i, j \in Refusals(p)' : i = j
  <2>1. CASE flow # <<>> /\ flow' = Tail(flow)
    <3>1. \A p : \A i \in Refusals(p)' : i \in Nat /\ i + 1 \in Refusals(p)
      BY <2>1, RefusalsTaken
    <3> SUFFICES ASSUME NEW p
                 PROVE  /\ Refusals(p)' # {} => Refusals(p) # {}
                        /\ (\A i, j \in Refusals(p) : i = j) => \A i, j \in Refusals(p)' : i = j
      OBVIOUS
    <3>2. Refusals(p)' # {} => Refusals(p) # {}
      BY <3>1
    <3>3. ASSUME \A i, j \in Refusals(p) : i = j, NEW i \in Refusals(p)', NEW j \in Refusals(p)'
          PROVE  i = j
      BY <3>1, <3>3
    <3> QED BY <3>2, <3>3
  <2>2. CASE flow' = flow
    BY <2>2 DEF Refusals, CancelId, IsRefusal
  <2> QED BY <2>1, <2>2 DEF OnRtnOrder, OnRspQryOrder, NextReport
<1>6. Locked'
  <2> SUFFICES ASSUME NEW p \in Ids, ~Ended(p)' PROVE OneHolder(p)' /\ HeldIsMarked(p)'
    BY DEF Locked, Ids
  <2>1. OneHolder(p) /\ HeldIsMarked(p)
    BY DEF LockInv, Locked
  <2>2. OneHolder(p)'
    BY <1>4, <1>5, <2>1 DEF OneHolder
  <2>3. HeldIsMarked(p)'
    BY <1>1, <1>4, <1>5, <2>1 DEF HeldIsMarked
  <2> QED BY <2>2, <2>3
<1> QED BY <1>2, <1>3, <1>6 DEF LockInv

\* The report that releases a mark ended the order of the mark.
LEMMA LockRelease ==
    ASSUME TypeOK, IdInv, LockInv, \A p : Ended(p) => Ended(p)', ReleaseCancel PROVE LockInv'
<1>1. /\ UNCHANGED <<cancels, flow, sessions, spi, cmd>>
      /\ td.pc = "release"
      /\ pending_cancels' = IF td.msg.status \in Terminal
                            THEN pending_cancels \ {<<td.sess, td.msg.ref>>} ELSE pending_cancels
  BY DEF ReleaseCancel, brokerVars
<1>2. Ours'
  BY <1>1 DEF LockInv, Ours, Cancelling
<1>3. NoTwin'
  BY <1>1 DEF LockInv, NoTwin, Together, CancelId
<1>4. \A p : Requests(p)' = Requests(p) /\ Refusals(p)' = Refusals(p) /\ Asking(p)' = Asking(p)
  BY <1>1 DEF Requests, Refusals, Covered, CancelId, IsRefusal, Asking
<1>5. ASSUME td.msg.status \in Terminal, <<td.sess, td.msg.ref>> \in Ids
      PROVE  Ended(<<td.sess, td.msg.ref>>)
  <2>1. PICK o \in OrderIds : o = td.msg.order
    BY <1>1 DEF TypeOK, TraderTypeOK, TdIdle, Message
  <2>2. broker[o].st \in Done /\ td.sess = broker[o].sess /\ td.msg.ref = broker[o].ref
    BY <1>1, <1>5, <2>1 DEF IdInv, ReportInv, InHand, Truthful
  <2> QED BY <2>2 DEF Ended, CancelId
<1>6. Locked'
  <2> SUFFICES ASSUME NEW p \in Ids, ~Ended(p)' PROVE OneHolder(p)' /\ HeldIsMarked(p)'
    BY DEF Locked, Ids
  <2>1. OneHolder(p) /\ HeldIsMarked(p) /\ ~Ended(p)
    BY DEF LockInv, Locked
  <2>2. OneHolder(p)'
    BY <1>4, <2>1 DEF OneHolder
  <2>3. p \in pending_cancels => p \in pending_cancels'
    BY <1>1, <1>5, <2>1
  <2>4. HeldIsMarked(p)'
    BY <1>4, <2>1, <2>3 DEF HeldIsMarked
  <2> QED BY <2>2, <2>4
<1> QED BY <1>2, <1>3, <1>6 DEF LockInv

\* The refusal that releases a mark held it: its request is answered and nobody asks.
LEMMA LockRefused ==
    ASSUME TypeOK, LockInv, \A p : Ended(p) => Ended(p)', OnRspOrderAction PROVE LockInv'
<1>1. PICK q \in Seq(Message \cup CancelMessage) : q = flow /\ q # <<>>
  BY DEF OnRspOrderAction, NextReport, TypeOK, CounterTypeOK
<1>2. PICK id : id = CancelId(q[1])
  OBVIOUS
<1>3. 1 \in DOMAIN q /\ Head(q) = q[1]
  BY <1>1, TakenQueue
<1>4. /\ UNCHANGED <<cancels, sessions, spi, cmd>> /\ flow' = Tail(flow)
      /\ IsRefusal(q[1]) /\ pending_cancels' = pending_cancels \ {id}
  BY <1>1, <1>2, <1>3 DEF OnRspOrderAction, NextReport, IsRefusal
<1>5. Ours'
  BY <1>4 DEF LockInv, Ours, Cancelling
<1>6. NoTwin'
  BY <1>4 DEF LockInv, NoTwin, Together, CancelId
<1>7. \A p : Requests(p)' = Requests(p) /\ Asking(p)' = Asking(p)
  BY <1>4 DEF Requests, Covered, CancelId, Asking
<1>8. 1 \in Refusals(id)
  BY <1>1, <1>2, <1>3, <1>4 DEF Refusals
<1>9. \A p : \A i \in Refusals(p)' : i \in Nat \ {0} /\ i + 1 \in Refusals(p)
  BY <1>1, <1>4, RefusalsTaken
<1>10. Locked'
  <2> SUFFICES ASSUME NEW p \in Ids, ~Ended(p)' PROVE OneHolder(p)' /\ HeldIsMarked(p)'
    BY DEF Locked, Ids
  <2>1. OneHolder(p) /\ HeldIsMarked(p)
    BY DEF LockInv, Locked
  <2>2. \A i, j \in Refusals(p)' : i = j
    BY <1>9, <2>1 DEF OneHolder
  <2>3. Refusals(p)' # {} => Refusals(p) # {}
    BY <1>9
  <2>4. OneHolder(p)'
    BY <1>7, <2>1, <2>2, <2>3 DEF OneHolder
  <2>5. CASE p # id
    BY <1>4, <1>7, <2>1, <2>3, <2>4, <2>5 DEF HeldIsMarked
  <2>6. CASE p = id
    <3>1. Requests(p) = {} /\ ~Asking(p)
      BY <1>8, <2>1, <2>6 DEF OneHolder
    <3>2. Refusals(p)' = {}
      <4> SUFFICES ASSUME NEW i \in Refusals(p)' PROVE FALSE
        OBVIOUS
      <4>1. i \in Nat \ {0} /\ i + 1 = 1
        BY <1>8, <1>9, <2>1, <2>6 DEF OneHolder
      <4> QED BY <4>1
    <3> QED BY <1>7, <2>4, <3>1, <3>2 DEF HeldIsMarked
  <2> QED BY <2>5, <2>6
<1> QED BY <1>5, <1>6, <1>10 DEF LockInv

\* What an answer leaves of a request.
LEMMA AnsweredRequest ==
    ASSUME TypeOK, NEW i \in DOMAIN cancels, NEW st, cancels' = [cancels EXCEPT ![i].st = st]
    PROVE  /\ DOMAIN cancels' = DOMAIN cancels
           /\ \A j \in DOMAIN cancels : /\ cancels'[j].sess = cancels[j].sess
                                        /\ cancels'[j].ref = cancels[j].ref
                                        /\ cancels'[j].via = cancels[j].via
                                        /\ j # i => cancels'[j].st = cancels[j].st
           /\ cancels'[i].st = st
<1>1. cancels[i] \in CancelRequest
  BY RequestType
<1> QED BY <1>1 DEF CancelRequest

\* The counter answers a request or not; it makes none and forgets none.
Answering ==
    /\ DOMAIN cancels' = DOMAIN cancels
    /\ \A j \in DOMAIN cancels : /\ CancelId(cancels'[j]) = CancelId(cancels[j])
                                 /\ cancels'[j].sess = cancels[j].sess
                                 /\ cancels'[j].via = cancels[j].via
                                 /\ cancels'[j].st = "sent" => cancels[j].st = "sent"

LEMMA AnsweredOnce ==
    ASSUME TypeOK, NEW i \in DOMAIN cancels, cancels[i].st = "sent",
           NEW st \in {"done", "refused", "lost"}, cancels' = [cancels EXCEPT ![i].st = st]
    PROVE  Answering /\ cancels'[i].st # "sent"
<1>1. /\ DOMAIN cancels' = DOMAIN cancels
      /\ \A j \in DOMAIN cancels : /\ cancels'[j].sess = cancels[j].sess
                                   /\ cancels'[j].ref = cancels[j].ref
                                   /\ cancels'[j].via = cancels[j].via
                                   /\ j # i => cancels'[j].st = cancels[j].st
      /\ cancels'[i].st = st
  BY AnsweredRequest
<1>2. cancels'[i].st # "sent"
  BY <1>1
<1>3. Answering
  BY <1>1, <1>2 DEF Answering, CancelId
<1> QED BY <1>2, <1>3

LEMMA AnsweringKeeps ==
    ASSUME LockInv, \A p : Ended(p) => Ended(p)', UNCHANGED <<proxyVars, sessions>>, Answering
    PROVE  /\ Ours' /\ NoTwin'
           /\ \A p : Requests(p)' \subseteq Requests(p) /\ Asking(p)' = Asking(p)
<1>1. UNCHANGED <<cmd, spi>>
  BY DEF proxyVars
<1>2. Ours'
  BY <1>1 DEF LockInv, Ours, Cancelling, Answering
<1>3. NoTwin'
  <2> SUFFICES ASSUME NEW i \in DOMAIN cancels, NEW j \in DOMAIN cancels, i # j,
                      Together(cancels'[i], cancels'[j]),
                      cancels'[i].st = "sent", cancels'[j].st = "sent",
                      CancelId(cancels'[i]) = CancelId(cancels'[j])
               PROVE  Ended(CancelId(cancels'[i]))
    BY DEF NoTwin, Together, CancelId, Answering
  <2>1. Together(cancels[i], cancels[j]) /\ cancels[i].st = "sent" /\ cancels[j].st = "sent"
        /\ CancelId(cancels[i]) = CancelId(cancels[j])
    BY DEF Answering, Together
  <2> QED BY <2>1 DEF LockInv, NoTwin, Answering
<1>4. \A p : Requests(p)' \subseteq Requests(p) /\ Asking(p)' = Asking(p)
  BY <1>1 DEF Requests, Covered, CancelId, Asking, Answering
<1> QED BY <1>2, <1>3, <1>4

LEMMA LockSent ==
    ASSUME TypeOK, LockInv, \A p : Ended(p) => Ended(p)', UNCHANGED <<proxyVars, sessions>>,
           Answering, NEW msgs \in Seq(Message), Send(msgs) \/ UNCHANGED flow
    PROVE  LockInv'
<1>1. PICK q \in Seq(Message \cup CancelMessage) : q = flow
  BY DEF TypeOK, CounterTypeOK
<1>2. \A i \in DOMAIN (q \o msgs) : \/ i \in DOMAIN q /\ (q \o msgs)[i] = q[i]
                                    \/ (q \o msgs)[i] \in Message
  <2>1. msgs \in Seq(Message \cup CancelMessage)
    OBVIOUS
  <2> HIDE DEF Message, CancelMessage
  <2> QED BY <1>1, <2>1, SentQueue
<1>3. \A m \in Message : ~IsRefusal(m)
  BY DEF Message, IsRefusal
<1>4. \A p : Refusals(p)' = Refusals(p)
  <2>1. flow' = q \/ flow' = q \o msgs
    BY <1>1 DEF Send
  <2>2. CASE flow' = q
    BY <1>1, <2>2 DEF Refusals, IsRefusal, CancelId
  <2>3. CASE flow' = q \o msgs
    <3>1. \A i \in DOMAIN flow' : (i \in DOMAIN q /\ flow'[i] = q[i]) \/ ~IsRefusal(flow'[i])
      BY <1>2, <1>3, <2>3
    <3>2. \A i \in DOMAIN q : i \in DOMAIN flow' /\ flow'[i] = q[i]
      <4>1. msgs \in Seq(Message \cup CancelMessage)
        OBVIOUS
      <4> QED BY <1>1, <2>3, <4>1, SentQueue
    <3> QED BY <1>1, <3>1, <3>2 DEF Refusals, IsRefusal, CancelId
  <2> QED BY <2>1, <2>2, <2>3
<1>5. Locked'
  <2> SUFFICES ASSUME NEW p \in Ids, ~Ended(p)' PROVE OneHolder(p)' /\ HeldIsMarked(p)'
    BY DEF Locked, Ids
  <2>1. OneHolder(p) /\ HeldIsMarked(p)
    BY DEF LockInv, Locked
  <2>2. Requests(p)' \subseteq Requests(p) /\ Asking(p)' = Asking(p)
    BY AnsweringKeeps
  <2>3. OneHolder(p)'
    BY <1>4, <2>1, <2>2 DEF OneHolder
  <2>4. HeldIsMarked(p)'
    BY <1>4, <2>1, <2>2 DEF HeldIsMarked, proxyVars
  <2> QED BY <2>3, <2>4
<1> QED BY <1>5, AnsweringKeeps DEF LockInv

\* The refusal takes the mark over from the request it answers.
LEMMA LockRefuses ==
    ASSUME OneRefusal, TypeOK, IdInv, LockInv, \A p : Ended(p) => Ended(p)',
           NEW i \in DOMAIN cancels, BrokerRefusesCancel(i)
    PROVE  LockInv'
<1>1. /\ cancels[i].st = "sent" /\ cancels' = [cancels EXCEPT ![i].st = "refused"]
      /\ UNCHANGED <<proxyVars, sessions>>
  BY DEF BrokerRefusesCancel
<1>2. Answering /\ cancels'[i].st # "sent"
  BY <1>1, AnsweredOnce
<1>3. CASE ~Sub(cancels[i].via)
  <2>1. UNCHANGED flow
    BY <1>3 DEF BrokerRefusesCancel
  <2>2. <<>> \in Seq(Message)
    OBVIOUS
  <2> QED BY <1>1, <1>2, <2>1, <2>2, LockSent
<1>4. CASE Sub(cancels[i].via)
  <2>1. PICK kind \in {"RspOrderAction", "ErrRtnOrderAction"} :
           Send([j \in 1..Len(<<kind>>) |-> ActionError(<<kind>>[j], cancels[i])])
    BY <1>4 DEF BrokerRefusesCancel, OneRefusal
  <2>2. PICK id, m : id = CancelId(cancels[i]) /\ m = ActionError(kind, cancels[i])
    OBVIOUS
  <2>3. [j \in 1..Len(<<kind>>) |-> ActionError(<<kind>>[j], cancels[i])] = <<m>>
    BY <2>2
  <2>4. m \in CancelMessage /\ CancelId(m) = id
    BY <2>2, RequestType DEF ActionError, CancelMessage, CancelRequest, CancelId
  <2>5. i \in Requests(id)
    BY <1>1, <1>4, <2>2 DEF Requests, Covered, Sub, IdInv, ThreadInv, Current
  <2>6. PICK q \in Seq(Message \cup CancelMessage), n \in Nat : q = flow /\ n = Len(q) + 1
    BY DEF TypeOK, CounterTypeOK
  <2>7. flow' = q \o <<m>>
    BY <1>4, <2>1, <2>3, <2>6 DEF Send, Sub
  <2>8. \A j \in DOMAIN flow' : (j \in DOMAIN q /\ flow'[j] = q[j]) \/ (j = n /\ flow'[j] = m)
    <3> HIDE DEF Message, CancelMessage
    <3> QED BY <2>6, <2>7
  <2>9. \A p : Refusals(p)' \subseteq Refusals(p) \cup (IF p = id THEN {n} ELSE {})
    BY <2>4, <2>6, <2>8 DEF Refusals, IsRefusal, CancelId
  <2>10. Locked'
    <3> SUFFICES ASSUME NEW p \in Ids, ~Ended(p)' PROVE OneHolder(p)' /\ HeldIsMarked(p)'
      BY DEF Locked, Ids
    <3>1. OneHolder(p) /\ HeldIsMarked(p)
      BY DEF LockInv, Locked
    <3>2. /\ Requests(p)' \subseteq Requests(p)
          /\ Asking(p)' = Asking(p) /\ pending_cancels' = pending_cancels
      BY <1>1, <1>2, AnsweringKeeps DEF proxyVars
    <3>3. CASE p # id
      <4>1. Refusals(p)' \subseteq Refusals(p)
        BY <2>9, <3>3
      <4>2. OneHolder(p)'
        BY <3>1, <3>2, <4>1 DEF OneHolder
      <4> QED BY <3>1, <3>2, <4>1, <4>2 DEF HeldIsMarked
    <3>4. CASE p = id
      <4>1. Refusals(p) = {} /\ ~Asking(p) /\ p \in pending_cancels /\ \A j \in Requests(p) : j = i
        BY <2>5, <3>1, <3>4 DEF OneHolder, HeldIsMarked
      <4>2. Refusals(p)' \subseteq {n}
        BY <2>9, <3>4, <4>1
      <4>3. Requests(p)' = {}
        <5>1. i \notin Requests(p)'
          BY <1>2 DEF Requests
        <5> QED BY <3>2, <4>1, <5>1
      <4>4. OneHolder(p)'
        BY <3>2, <4>1, <4>2, <4>3 DEF OneHolder
      <4> QED BY <3>2, <4>1, <4>4 DEF HeldIsMarked
    <3> QED BY <3>3, <3>4
  <2> QED BY <1>1, <1>2, <2>10, AnsweringKeeps DEF LockInv
<1> QED BY <1>3, <1>4

LEMMA LockAnswer ==
    ASSUME TypeOK, LockInv, \A p : Ended(p) => Ended(p)',
           NEW i \in DOMAIN cancels, BrokerCancels(i) \/ LoseCancel(i)
    PROVE  LockInv'
<1>1. /\ cancels[i].st = "sent" /\ UNCHANGED <<proxyVars, sessions>>
      /\ \E st \in {"done", "refused", "lost"} : cancels' = [cancels EXCEPT ![i].st = st]
  BY DEF BrokerCancels, LoseCancel
<1>2. Answering
  BY <1>1, AnsweredOnce
<1>3. \E msgs \in Seq(Message) : Send(msgs) \/ UNCHANGED flow
  <2>1. CASE BrokerCancels(i)
    <3>1. PICK o \in OrderIds : /\ broker[o].st \in Live
                                /\ broker' = [broker EXCEPT ![o].st = "CANCELLED"]
                                /\ Send(<<Report("RtnOrder", o, broker'[o])>>)
      BY <2>1 DEF BrokerCancels, OrderOf
    <3>2. PICK b : b = broker'[o]
      OBVIOUS
    <3>3. b.st \in AtCounter /\ Named(b)
      <4>1. broker[o] \in BrokerOrder /\ Named(broker[o])
        BY <3>1 DEF TypeOK, CounterTypeOK, BrokerTypeOK, Live, Active
      <4>2. b = [broker[o] EXCEPT !.st = "CANCELLED"]
        BY <3>1, <3>2 DEF TypeOK, CounterTypeOK, BrokerTypeOK
      <4> QED BY <4>1, <4>2 DEF BrokerOrder, Named, AtCounter, Terminal
    <3>4. PICK m \in Message : m = Report("RtnOrder", o, b)
      BY <3>3, ReportType
    <3>5. Send(<<m>>) /\ <<m>> \in Seq(Message)
      BY <3>1, <3>2, <3>4
    <3> QED BY <3>5
  <2>2. CASE LoseCancel(i)
    <3>1. <<>> \in Seq(Message)
      OBVIOUS
    <3> QED BY <2>2, <3>1 DEF LoseCancel
  <2> QED BY <2>1, <2>2
<1> QED BY <1>1, <1>2, <1>3, LockSent

LEMMA LockCounter ==
    ASSUME OneRefusal, TypeOK, IdInv, LockInv, \A p : Ended(p) => Ended(p)', Counter
    PROVE  LockInv'
<1>1. UNCHANGED cancels => Answering
  BY DEF Answering, CancelId
<1>2. CASE OrdersGoOn
  <2>1. UNCHANGED <<proxyVars, cancels, sessions>>
    BY <1>2, NewsOfOrders
  <2>2. \E msgs \in Seq(Message) : Send(msgs) \/ UNCHANGED flow
    BY <1>2, NewsOfOrders
  <2> QED BY <1>1, <2>1, <2>2, LockSent
<1>3. ASSUME NEW o \in OrderIds, BrokerSnapshot(o) PROVE LockInv'
  <2>1. UNCHANGED <<proxyVars, cancels, sessions, flow>>
    BY <1>3 DEF BrokerSnapshot
  <2>2. <<>> \in Seq(Message)
    OBVIOUS
  <2> QED BY <1>1, <2>1, <2>2, LockSent
<1>4. ASSUME NEW i \in DOMAIN cancels, AnswerCancel(i) PROVE LockInv'
  BY <1>4, LockAnswer, LockRefuses DEF AnswerCancel
<1> QED BY <1>2, <1>3, <1>4 DEF Counter, OrdersGoOn

\* update_ctp touches neither a mark nor a request.
LEMMA LockQuiet ==
    ASSUME TypeOK, LockInv, \A p : Ended(p) => Ended(p)', UpdateAndPublish \/ UNCHANGED vars
    PROVE  LockInv'
<1>1. UNCHANGED <<pending_cancels, cancels, cmd, flow, sessions, spi>>
  BY DEF UpdateAndPublish, vars, proxyVars, brokerVars
<1>2. \A p : Asking(p)' => Asking(p)
  BY <1>1 DEF Asking
<1>3. sessions \in Nat
  BY DEF TypeOK, SessionTypeOK
<1> QED BY <1>1, <1>2, <1>3, LockAside

LEMMA LockStep ==
    ASSUME Calm, OneRefusal, TypeOK, IdInv, LockInv, [Next]_vars PROVE LockInv'
<1>1. \A p : Ended(p) => Ended(p)'
  BY EndedStays
<1>2. CASE Command \/ CommandStep
  BY <1>1, <1>2, LockCommand, LockMark, LockRequest, LockUnmark DEF CommandStep
<1>3. CASE TraderStep
  BY <1>1, <1>3, LockReceive, LockRelease, LockRefused, LockQuiet DEF TraderStep
<1>4. CASE Login \/ OnFrontDisconnected \/ Crash
  BY <1>1, <1>4, LockConnection, LockCrash
<1>5. CASE Counter
  BY <1>1, <1>5, LockCounter
<1>6. CASE UNCHANGED vars
  BY <1>1, <1>6, LockQuiet
<1> QED BY <1>2, <1>3, <1>4, <1>5, <1>6 DEF Next

LEMMA LockAlways == ASSUME Calm, OneRefusal PROVE Spec => [](TypeOK /\ IdInv /\ LockInv)
<1>1. TypeOK /\ IdInv /\ LockInv /\ [Next]_vars => LockInv'
  BY LockStep
<1> QED BY <1>1, LockInit, TypeCorrect, IdAlways, PTL DEF Spec

\* The orders of other terminals have different references.
ForeignApart ==
    /\ \A f \in Foreign : broker[f].st \in AtCounter \cup {"none"}
    /\ \A f, g \in Foreign : /\ broker[f].st # "none" /\ broker[g].st # "none"
                             /\ broker[f].ref = broker[g].ref
                             => f = g

LEMMA ApartStep ==
    ASSUME Calm, TypeOK, IdInv, ForeignApart, [Next]_vars PROVE ForeignApart'
<1> DEFINE Stays(f) == /\ broker'[f].ref = broker[f].ref
                       /\ broker'[f].st = "none" <=> broker[f].st = "none"
                       /\ broker'[f].st \in AtCounter \cup {"none"}
<1>1. broker \in [OrderIds -> BrokerOrder] /\ Foreign \subseteq OrderIds
      /\ Keys \cap Foreign = {} /\ "none" \notin AtCounter
  BY FlowAssumption
     DEF TypeOK, CounterTypeOK, BrokerTypeOK, OrderIds, AtCounter, Live, Active, Terminal
<1>2. CASE \A f \in Foreign : Stays(f)
  BY <1>2 DEF ForeignApart
<1>3. ASSUME NEW f \in Foreign, NEW ref \in 1..MaxRef, ForeignOrder(f, ref) PROVE ForeignApart'
  <2>1. /\ broker'[f].ref = ref /\ broker'[f].st \in AtCounter
        /\ \A g \in Foreign \ {f} : broker'[g] = broker[g]
    BY <1>1, <1>3 DEF ForeignOrder, BrokerSets, AtCounter, Live
  <2>2. \A g \in Foreign : broker[g].st # "none" => broker[g].ref # ref
    BY <1>1, <1>3 DEF ForeignOrder, OrderOf, ForeignApart, IdInv, CounterInv, Elsewhere
  <2> QED BY <2>1, <2>2 DEF ForeignApart
<1>4. UNCHANGED broker => \A f \in Foreign : Stays(f)
  BY DEF ForeignApart
<1>5. ASSUME NEW k \in Keys, \E b : broker' = [broker EXCEPT ![k] = b]
      PROVE  \A f \in Foreign : Stays(f)
  BY <1>1, <1>5 DEF ForeignApart
<1>6. ASSUME NEW o \in OrderIds, broker[o].st \in Live, NEW st \in Reported,
             broker' = [broker EXCEPT ![o].st = st]
      PROVE  \A f \in Foreign : Stays(f)
  <2>1. \A f \in Foreign \ {o} : broker'[f] = broker[f]
    BY <1>1, <1>6
  <2>2. broker'[o].ref = broker[o].ref /\ broker'[o].st = st
    BY <1>1, <1>6 DEF BrokerOrder
  <2>3. st \in AtCounter /\ broker[o].st # "none"
    BY <1>1, <1>6 DEF Reported, AtCounter, Live
  <2>4. o \in Foreign => Stays(o)
    BY <1>1, <2>2, <2>3
  <2> QED BY <2>1, <2>4 DEF ForeignApart
<1>7. CASE Counter
  <2>1. ASSUME NEW k \in Keys, AnswerInsert(k) PROVE \E b : broker' = [broker EXCEPT ![k] = b]
    BY <2>1 DEF AnswerInsert, BrokerAccept, BrokerReject, LoseInsert, BrokerSets
  <2>2. ASSUME NEW o \in OrderIds, BrokerProgress(o) PROVE \A f \in Foreign : Stays(f)
    <3>0. broker[o].st \in Live
      BY <2>2 DEF BrokerProgress
    <3>1. PICK st \in Progress[broker[o].st] : BrokerSets(o, [broker[o] EXCEPT !.st = st])
      BY <2>2 DEF BrokerProgress
    <3>2. st \in Reported
      BY <3>0, <3>1 DEF Progress, Live, Active, Terminal, Reported
    <3>3. broker' = [broker EXCEPT ![o].st = st]
      BY <3>1 DEF BrokerSets
    <3> QED BY <1>6, <3>0, <3>2, <3>3
  <2>3. ASSUME NEW i, BrokerCancels(i) PROVE \A f \in Foreign : Stays(f)
    <3>1. PICK o \in OrderOf(cancels[i].sess, cancels[i].ref) :
             broker[o].st \in Live /\ broker' = [broker EXCEPT ![o].st = "CANCELLED"]
      BY <2>3 DEF BrokerCancels
    <3>2. o \in OrderIds /\ "CANCELLED" \in Reported
      BY <3>1 DEF OrderOf, Reported, Terminal
    <3> QED BY <1>6, <3>1, <3>2
  <2>4. ASSUME NEW i, BrokerRefusesCancel(i) \/ LoseCancel(i) PROVE UNCHANGED broker
    BY <2>4 DEF BrokerRefusesCancel, LoseCancel
  <2>5. ASSUME NEW o, BrokerSnapshot(o) PROVE UNCHANGED broker
    BY <2>5 DEF BrokerSnapshot
  <2>6. \A f, ref : ~ForeignReject(f, ref)
    BY DEF ForeignReject, Calm
  <2> QED BY <1>2, <1>3, <1>4, <1>5, <1>7, <2>1, <2>2, <2>3, <2>4, <2>5, <2>6
          DEF Counter, AnswerCancel
<1>8. CASE ReqOrderInsert
  <2>1. cmd.key \in Keys
        /\ (UNCHANGED broker \/ \E b : broker' = [broker EXCEPT ![cmd.key] = b])
    BY <1>8 DEF ReqOrderInsert, TypeOK, CommandTypeOK, PlacePCs
  <2>2. PICK k \in Keys : k = cmd.key
    BY <2>1
  <2> QED BY <1>2, <1>4, <1>5, <2>1, <2>2
<1>9. CASE [Next]_vars /\ ~Counter /\ ~ReqOrderInsert
  <2>1. UNCHANGED broker
    BY <1>9 DEF Next, Command, CommandStep, PlaceOrder, CancelByKey, CancelByIds,
                LoadOrderRef, StoreOrderRef, TakeOrderRef, ReadFrontId, ReadSessionId,
                CreateRow, ReadFrontIdAgain, RejectLocally, MarkCancel, ReqOrderAction,
                UnmarkCancel, Login, Connect, OnRspAuthenticate, OnRspUserLogin,
                OnRspSettlementInfoConfirm, TraderStep, OnRtnOrder, OnRspQryOrder,
                ReleaseCancel, UpdateAndPublish, OnRspOrderAction, OnFrontDisconnected,
                Crash, vars, brokerVars
  <2> QED BY <1>2, <1>4, <2>1
<1> QED BY <1>7, <1>8, <1>9

LEMMA ApartAlways == ASSUME Calm PROVE Spec => []ForeignApart
<1>1. Init => ForeignApart
  BY FlowAssumption DEF Init, ForeignApart, OrderIds, NoOrder
<1>2. TypeOK /\ IdInv /\ ForeignApart /\ [Next]_vars => ForeignApart'
  BY ApartStep
<1> QED BY <1>1, <1>2, TypeCorrect, IdAlways, PTL DEF Spec

\* An order that has ended has no live namesake at the counter.
LEMMA EndedIsNotLive ==
    ASSUME TypeOK, IdInv, ForeignApart, NEW sess, NEW ref, Ended(<<sess, ref>>)
    PROVE  \A o \in OrderOf(sess, ref) : broker[o].st \notin Live
<1> SUFFICES ASSUME NEW o \in OrderOf(sess, ref) PROVE broker[o].st \notin Live
  OBVIOUS
<1>1. PICK k \in OrderIds : broker[k].st \in Done /\ broker[k].sess = sess /\ broker[k].ref = ref
  BY DEF Ended, CancelId
<1>2. o \in OrderIds /\ broker[o].st \in AtCounter /\ broker[o].sess = sess /\ broker[o].ref = ref
  BY DEF OrderOf
<1>3. broker[k].st # "none" /\ broker[o].st # "none"
  BY <1>1, <1>2 DEF Done, Terminal, AtCounter, Live, Active
<1>4. /\ \A j \in Keys : broker[j].st # "none" => broker[j].sess # ForeignSess
      /\ \A f \in Foreign : broker[f].st # "none" => broker[f].sess = ForeignSess
  BY RegistryAssumption
     DEF IdInv, CounterInv, AtHome, Elsewhere, RegistryInv, RowsKnown, ForeignSess, TypeOK,
         SessionTypeOK
<1>5. o = k
  <2>1. CASE o \in Keys
    <3>1. k \in Keys
      BY <1>1, <1>2, <1>3, <1>4, <2>1 DEF OrderIds
    <3> QED BY <1>1, <1>2, <1>3, <2>1, <3>1 DEF IdInv, CounterInv, AtHome, RegistryInv, Distinct
  <2>2. CASE o \in Foreign
    <3>1. k \in Foreign
      BY <1>1, <1>2, <1>3, <1>4, <2>2 DEF OrderIds
    <3> QED BY <1>1, <1>2, <1>3, <2>2, <3>1 DEF ForeignApart
  <2> QED BY <1>2, <2>1, <2>2 DEF OrderIds
<1> QED BY <1>1, <1>5 DEF Done, Terminal, Live, Active

\* However often and in whatever order clients cancel, and whatever gets lost with a
\* connection: two requests made through one login, or any two if the process does not
\* die, are not both unanswered while their order is live.
THEOREM OneRequestPerLogin ==
    ASSUME Calm, OneRefusal
    PROVE  Spec => [](\A i, j \in DOMAIN cancels :
              /\ i # j /\ Together(cancels[i], cancels[j])
              /\ CancelId(cancels[i]) = CancelId(cancels[j])
              /\ cancels[i].st = "sent" /\ cancels[j].st = "sent"
              => \A o \in OrderOf(cancels[i].sess, cancels[i].ref) : broker[o].st \notin Live)
<1>1. ASSUME TypeOK, IdInv, LockInv, ForeignApart
      PROVE  \A i, j \in DOMAIN cancels :
                /\ i # j /\ Together(cancels[i], cancels[j])
                /\ CancelId(cancels[i]) = CancelId(cancels[j])
                /\ cancels[i].st = "sent" /\ cancels[j].st = "sent"
                => \A o \in OrderOf(cancels[i].sess, cancels[i].ref) : broker[o].st \notin Live
  BY <1>1, EndedIsNotLive DEF LockInv, NoTwin, CancelId
<1> QED BY <1>1, LockAlways, ApartAlways, PTL

\* A live order never has two unanswered cancel requests at the counter, whatever the
\* command thread and the callbacks do to the marks, in one life of the process.
THEOREM OneRequestPerOrder ==
    ASSUME Calm, OneRefusal, MaxCrashes = 0
    PROVE  Spec => []NoSecondCancel
<1>1. ASSUME TypeOK, IdInv, LockInv, ForeignApart PROVE NoSecondCancel
  BY <1>1, EndedIsNotLive DEF LockInv, NoTwin, Together, CancelId, NoSecondCancel
<1> QED BY <1>1, LockAlways, ApartAlways, PTL
-----------------------------------------------------------------------------
(***************************************************************************)
(* Statuses go forward.  Reports on an order reach its row in the order in *)
(* which the counter made them: what is in a row, the report in hand, the  *)
(* reports in the queue and what the counter says of the order follow each *)
(* other in the stages of an order.                                        *)
(***************************************************************************)

\* Nobody queries orders: a late answer to a query moves a row back.
NoQueries == snapshots = 0 /\ qflow = <<>>

LEMMA StageType == Stage \in [Status -> 0..4]
BY DEF Stage, Status, Active, Terminal

LEMMA NotAfterTransitive ==
    ASSUME NEW s \in Status, NEW t \in Status, NEW u \in Status, NotAfter(s, t), NotAfter(t, u)
    PROVE  NotAfter(s, u)
BY StageType DEF NotAfter

LEMMA PendingIsFirst == \A s \in Status : NotAfter("PENDING_SUBMIT", s)
BY DEF NotAfter, Stage, Status, Active, Terminal

\* What is reported active or final is followed by nothing else.
LEMMA ReportedGoesOn ==
    ASSUME NEW s \in Reported, NEW t \in Status, NotAfter(s, t) PROVE t \in Reported
BY DEF NotAfter, Stage, Status, Reported, Active, Terminal

LEMMA StandType == TypeOK => \A o \in OrderIds : Stand(o) \in Status
BY DEF Stand, Status, AtCounter, Live, Active, Terminal, TypeOK, CounterTypeOK, BrokerTypeOK

Hand(k)    == td.pc # "idle" /\ td.msg.order = k
Says(k, s) == \/ \E j \in DOMAIN flow : flow[j].order = k /\ flow[j].status = s
              \/ Hand(k) /\ td.msg.status = s

MailInOrder(k) ==
    /\ \A s \in Status : Says(k, s) => NotAfter(s, Stand(k))
    /\ \A i, j \in DOMAIN flow :
          i < j /\ flow[i].order = k /\ flow[j].order = k =>
             NotAfter(flow[i].status, flow[j].status)
    /\ Hand(k) => \A j \in DOMAIN flow :
                     flow[j].order = k => NotAfter(td.msg.status, flow[j].status)
RowInOrder(k) ==
    k \in DOMAIN orders /\ broker[k].st # "none" =>
        /\ NotAfter(orders[k].status, Stand(k))
        /\ \A s \in Status : Says(k, s) => NotAfter(orders[k].status, s)

InOrder == \A k \in Keys : MailInOrder(k) /\ RowInOrder(k)
OrderInv == NoQueries /\ InOrder

LEMMA OrderInit == Init => OrderInv
<1> SUFFICES ASSUME Init PROVE OrderInv
  OBVIOUS
<1>1. NoQueries /\ flow = <<>> /\ td.pc = "idle"
  BY DEF Init, NoQueries, TdIdle
<1>2. ASSUME NEW k \in Keys PROVE MailInOrder(k) /\ RowInOrder(k)
  <2>1. \A s : ~Says(k, s)
    BY <1>1 DEF Says, Hand
  <2>2. MailInOrder(k)
    BY <1>1, <2>1 DEF MailInOrder, Hand
  <2>3. ASSUME k \in DOMAIN orders, broker[k].st # "none" PROVE orders[k].status = Stand(k)
    BY <2>3, FlowAssumption
       DEF Init, OrderIds, NoOrder, LegacyOrder, LegacyRow, Stand, AtCounter, Live, Active
  <2> QED BY <2>1, <2>2, <2>3 DEF RowInOrder, NotAfter
<1> QED BY <1>1, <1>2 DEF OrderInv, InOrder

\* What a step does to a row: its number stays, and its session once it has one; its
\* status changes to what the report in hand says, or because ReqOrderInsert failed.
RowGoesOn(k) ==
    /\ k \in DOMAIN orders' /\ orders'[k].ref = orders[k].ref
    /\ orders[k].sess # Null => orders'[k].sess = orders[k].sess
    /\ \/ orders'[k].status = orders[k].status
       \/ UpdateAndPublish /\ td.msg.order = k /\ orders'[k].status = td.msg.status
       \/ /\ RejectLocally /\ cmd.key = k /\ broker[k].st = "none"
          /\ orders[k].status = "PENDING_SUBMIT" /\ orders'[k].status = "REJECTED"

LEMMA RowsGoOn ==
    ASSUME Calm, TypeOK, IdInv, [Next]_vars
    PROVE  \A k \in DOMAIN orders : RowGoesOn(k)
<1> USE DEF IdInv
<1>1. ASSUME NEW key \in DOMAIN orders, NEW sys \in {Null, key}, NEW status, UNCHANGED sessions,
             UpdateCtp(HomeRef(key), HomeSess(key), sys, status)
      PROVE  \A k \in DOMAIN orders :
                /\ k \in DOMAIN orders'
                /\ k # key => orders'[k] = orders[k]
                /\ orders'[k].ref = orders[k].ref
                /\ orders[k].sess # Null => orders'[k].sess = orders[k].sess
                /\ k = key => orders'[k].status = status
  <2>1. RegistryInv
    OBVIOUS
  <2>2. DOMAIN orders' = DOMAIN orders
    BY <1>1, <2>1, RowWritten
  <2>3. \A k \in DOMAIN orders \ {key} : orders'[k] = orders[k]
    BY <1>1, <2>1, RowWritten
  <2>4. orders'[key] = [status |-> status, sess |-> HomeSess(key), ref |-> orders[key].ref,
                        sys |-> sys]
    BY <1>1, <2>1, RowWritten
  <2>5. /\ orders'[key].status = status /\ orders'[key].ref = orders[key].ref
        /\ orders'[key].sess = HomeSess(key)
    BY <2>4
  <2>6. orders[key].sess # Null => orders[key].sess = HomeSess(key)
    BY DEF RegistryInv, RowsKnown
  <2> QED BY <2>2, <2>3, <2>5, <2>6
<1>2. CASE UNCHANGED orders
  BY <1>2 DEF RowGoesOn
<1>3. CASE UpdateAndPublish
  <2>1. /\ UNCHANGED sessions /\ td.pc = "update"
        /\ UpdateCtp(td.msg.ref, td.sess, td.msg.sys, td.msg.status)
    BY <1>3 DEF UpdateAndPublish, brokerVars
  <2>2. PICK o \in OrderIds, sys \in {Null, td.msg.order}, status \in Status :
           o = td.msg.order /\ sys = td.msg.sys /\ status = td.msg.status
    BY <2>1 DEF TypeOK, TraderTypeOK, TdIdle, Message, ReportInv, InHand, Truthful
  <2>3. broker[o].st # "none" /\ td.msg.ref = broker[o].ref /\ td.sess = broker[o].sess
    BY <2>1, <2>2 DEF ReportInv, InHand, Truthful
  <2>4. CASE o \in Keys
    <3>1. o \in DOMAIN orders /\ broker[o].sess = HomeSess(o) /\ broker[o].ref = HomeRef(o)
      BY <2>3, <2>4 DEF CounterInv, AtHome
    <3>2. UpdateCtp(HomeRef(o), HomeSess(o), sys, status) /\ sys \in {Null, o}
      BY <2>1, <2>2, <2>3, <3>1
    <3>3. \A k \in DOMAIN orders : /\ k \in DOMAIN orders'
                                   /\ k # o => orders'[k] = orders[k]
                                   /\ orders'[k].ref = orders[k].ref
                                   /\ orders[k].sess # Null => orders'[k].sess = orders[k].sess
                                   /\ k = o => orders'[k].status = status
      BY <1>1, <2>1, <3>1, <3>2
    <3> QED BY <1>3, <2>1, <2>2, <3>3 DEF RowGoesOn
  <2>5. CASE o \notin Keys
    <3>1. UpdateTarget(td.msg.ref, td.sess) = {}
      <4>1. UpdateTarget(broker[o].ref, broker[o].sess) = Own(o)
        BY <2>3, FindTrue
      <4> QED BY <2>3, <2>5, <4>1 DEF Own
    <3>2. UNCHANGED orders
      BY <2>1, <3>1 DEF UpdateCtp, registryVars
    <3> QED BY <1>2, <3>2
  <2> QED BY <2>4, <2>5
<1>4. CASE RejectLocally
  <2>1. PICK key : key = cmd.key
    OBVIOUS
  <2>2. /\ cmd.pc = "reject_session" /\ key \in DOMAIN orders /\ broker[key].st = "none"
        /\ orders[key].status = "PENDING_SUBMIT"
        /\ HomeSess(key) = spi.sess /\ HomeRef(key) = cmd.ref
        /\ UNCHANGED sessions /\ UpdateCtp(cmd.ref, spi.sess, Null, "REJECTED")
    BY <1>4, <2>1, OnePair DEF RejectLocally, ThreadInv, Placing, brokerVars
  <2>3. UpdateCtp(HomeRef(key), HomeSess(key), Null, "REJECTED") /\ Null \in {Null, key}
    BY <2>2
  <2>4. \A k \in DOMAIN orders : /\ k \in DOMAIN orders'
                                 /\ k # key => orders'[k] = orders[k]
                                 /\ orders'[k].ref = orders[k].ref
                                 /\ orders[k].sess # Null => orders'[k].sess = orders[k].sess
                                 /\ k = key => orders'[k].status = "REJECTED"
    BY <1>1, <2>2, <2>3
  <2> QED BY <1>4, <2>1, <2>2, <2>4 DEF RowGoesOn
<1>5. CASE CreateRow
  <2>1. UNCHANGED orders \/ \E k \in Keys : k \notin DOMAIN orders /\ \E row : Put(k, row)
    <3>1. cmd.key \in Keys
      BY <1>5 DEF CreateRow, TypeOK, CommandTypeOK, PlacePCs
    <3> QED BY <1>5, <3>1 DEF CreateRow, Create, registryVars
  <2>2. ASSUME NEW k \in Keys, NEW row, k \notin DOMAIN orders, Put(k, row)
        PROVE  \A j \in DOMAIN orders : j \in DOMAIN orders' /\ orders'[j] = orders[j]
    BY <2>2 DEF Put
  <2> QED BY <1>2, <2>1, <2>2 DEF RowGoesOn
<1>6. CASE Login \/ OnFrontDisconnected \/ Crash \/ UNCHANGED vars
  <2>1. UNCHANGED orders
    BY <1>6 DEF Login, Connect, OnRspAuthenticate, OnRspUserLogin, OnRspSettlementInfoConfirm,
                OnFrontDisconnected, Crash, vars, registryVars
  <2> QED BY <1>2, <2>1
<1>7. CASE Command \/ (CommandStep /\ ~CreateRow /\ ~RejectLocally)
  <2>1. UNCHANGED orders
    BY <1>7 DEF Command, CommandStep, PlaceOrder, CancelByKey, CancelByIds, LoadOrderRef,
                StoreOrderRef, TakeOrderRef, ReadFrontId, ReadSessionId, ReqOrderInsert,
                ReadFrontIdAgain, MarkCancel, ReqOrderAction, UnmarkCancel, registryVars
  <2> QED BY <1>2, <2>1
<1>8. CASE TraderStep /\ ~UpdateAndPublish
  <2>1. UNCHANGED orders
    BY <1>8 DEF TraderStep, OnRtnOrder, OnRspQryOrder, ReleaseCancel, OnRspOrderAction,
                registryVars
  <2> QED BY <1>2, <2>1
<1>9. CASE Counter
  <2>1. UNCHANGED orders
    BY <1>9 DEF Counter, AnswerInsert, AnswerCancel, BrokerAccept, BrokerReject, LoseInsert,
                BrokerProgress, BrokerSnapshot, ForeignOrder, ForeignReject, BrokerCancels,
                BrokerRefusesCancel, LoseCancel, BrokerSets, registryVars
  <2> QED BY <1>2, <2>1
<1> QED BY <1>3, <1>4, <1>5, <1>6, <1>7, <1>8, <1>9 DEF Next, CommandStep

\* What a step of the queue does to the reports on order k: what is said after it was
\* said before, or is what the counter says of the order from then on.
MailGoesOn(k) == /\ MailInOrder(k)'
                 /\ \A s \in Status : Says(k, s)' => Says(k, s) \/ s = Stand(k)'

\* A report is in hand after a step because it was, or because it was taken.
Taken    == flow # <<>> /\ flow' = Tail(flow)
HandKept == td'.pc # "idle" => \/ td.pc # "idle" /\ td'.msg = td.msg
                               \/ Taken /\ td.pc = "idle" /\ td'.msg = Head(flow)

\* A report on an order of ours is one of the messages that name an order.
LEMMA SaidIsStatus ==
    ASSUME TypeOK, NEW k \in Keys
    PROVE  /\ \A j \in DOMAIN flow : flow[j].order = k => flow[j].status \in Status
           /\ Hand(k) => td.msg.status \in Status
<1>1. k # Null
  BY RegistryAssumption
<1>2. Hand(k) => td.msg \in Message
  BY DEF Hand, TypeOK, TraderTypeOK, TdIdle
<1>3. \A j \in DOMAIN flow : flow[j] \in Message \cup CancelMessage
  BY DEF TypeOK, CounterTypeOK
<1> QED BY <1>1, <1>2, <1>3 DEF Message, CancelMessage

LEMMA MailKept ==
    ASSUME TypeOK, NEW k \in Keys, MailInOrder(k), HandKept,
           flow' = flow \/ flow' = <<>> \/ Taken,
           Stand(k)' \in Status, NotAfter(Stand(k), Stand(k)')
    PROVE  MailGoesOn(k)
<1>1. PICK q \in Seq(Message \cup CancelMessage) : q = flow
  BY DEF TypeOK, CounterTypeOK
<1> HIDE DEF Message, CancelMessage
<1>2. Taken => /\ flow' = Tail(q) /\ 1 \in DOMAIN q /\ Head(q) = q[1]
               /\ \A i \in DOMAIN Tail(q) :
                     i > 0 /\ i \in Int /\ i + 1 \in DOMAIN q /\ Tail(q)[i] = q[i + 1]
  BY <1>1, TakenQueue DEF Taken, Hand
<1>3. \A s \in Status : Says(k, s)' => Says(k, s)
  <2> SUFFICES ASSUME NEW s \in Status, Says(k, s)' PROVE Says(k, s)
    OBVIOUS
  <2>1. ASSUME NEW j \in DOMAIN flow', flow'[j].order = k, flow'[j].status = s
        PROVE  \E i \in DOMAIN q : q[i].order = k /\ q[i].status = s
    BY <1>1, <1>2, <2>1
  <2>2. CASE Hand(k)' /\ td'.msg.status = s
    BY <1>1, <1>2, <2>2 DEF Hand, HandKept, Says
  <2> QED BY <1>1, <2>1, <2>2 DEF Says
<1>4. \A s \in Status : Says(k, s)' => NotAfter(s, Stand(k)')
  BY <1>3, NotAfterTransitive, StandType DEF MailInOrder, OrderIds
<1>5. \A i, j \in DOMAIN q : i < j /\ q[i].order = k /\ q[j].order = k =>
                               NotAfter(q[i].status, q[j].status)
  BY <1>1 DEF MailInOrder
<1>6. \A i, j \in DOMAIN flow' : i < j /\ flow'[i].order = k /\ flow'[j].order = k =>
                                   NotAfter(flow'[i].status, flow'[j].status)
  <2> SUFFICES ASSUME NEW i \in DOMAIN flow', NEW j \in DOMAIN flow', i < j,
                      flow'[i].order = k, flow'[j].order = k
               PROVE  NotAfter(flow'[i].status, flow'[j].status)
    OBVIOUS
  <2>1. CASE Taken
    <3>1. /\ i \in Int /\ i + 1 \in DOMAIN q /\ flow'[i] = q[i + 1]
          /\ j \in Int /\ j + 1 \in DOMAIN q /\ flow'[j] = q[j + 1]
      BY <1>2, <2>1
    <3>2. i + 1 < j + 1
      BY <3>1
    <3> QED BY <1>5, <3>1, <3>2
  <2>2. CASE flow' = flow
    BY <1>1, <1>5, <2>2
  <2> QED BY <2>1, <2>2
<1>7. ASSUME Hand(k)', NEW j \in DOMAIN flow', flow'[j].order = k
      PROVE  NotAfter(td'.msg.status, flow'[j].status)
  <2>1. CASE Taken
    <3>1. j > 0 /\ j \in Int /\ j + 1 \in DOMAIN q /\ flow'[j] = q[j + 1]
      BY <1>2, <1>7, <2>1
    <3>2. CASE td.pc # "idle" /\ td'.msg = td.msg
      BY <1>1, <1>7, <3>1, <3>2 DEF Hand, MailInOrder
    <3>3. CASE td'.msg = Head(flow)
      <4>1. 1 \in DOMAIN q /\ td'.msg = q[1] /\ 1 < j + 1
        BY <1>1, <1>2, <2>1, <3>1, <3>3
      <4> QED BY <1>5, <1>7, <3>1, <4>1 DEF Hand
    <3> QED BY <1>7, <3>2, <3>3 DEF HandKept, Hand
  <2>2. CASE flow' = flow /\ ~Taken
    <3>1. Hand(k) /\ td'.msg = td.msg
      BY <1>7, <2>2 DEF Hand, HandKept
    <3> QED BY <1>7, <2>2, <3>1 DEF MailInOrder
  <2>3. flow' # <<>>
    BY <1>7
  <2> QED BY <2>1, <2>2, <2>3
<1> QED BY <1>3, <1>4, <1>6, <1>7 DEF MailGoesOn, MailInOrder

\* A report that the counter makes goes behind all others, and is the latest.
LEMMA MailSent ==
    ASSUME TypeOK, NEW k \in Keys, MailInOrder(k), UNCHANGED td,
           NEW msgs \in Seq(Message \cup CancelMessage), Send(msgs) \/ UNCHANGED flow,
           \A j \in DOMAIN msgs : msgs[j].order = k => msgs[j].status = Stand(k)',
           Stand(k)' \in Status, NotAfter(Stand(k), Stand(k)')
    PROVE  MailGoesOn(k)
<1>1. PICK q \in Seq(Message \cup CancelMessage) : q = flow
  BY DEF TypeOK, CounterTypeOK
<1> HIDE DEF Message, CancelMessage
<1>2. CASE flow' = q
  BY <1>1, <1>2, MailKept DEF HandKept
<1>3. CASE flow' = q \o msgs
  <2>1. \A i \in DOMAIN flow' : \/ i \in DOMAIN q /\ flow'[i] = q[i]
                                \/ /\ i > Len(q) /\ i - Len(q) \in DOMAIN msgs
                                   /\ flow'[i] = msgs[i - Len(q)]
    BY <1>3, SentQueue
  <2>2. DOMAIN q = 1..Len(q) /\ Len(q) \in Nat /\ \A i \in DOMAIN flow' : i \in Int
    BY <1>3
  <2>3. \A s \in Status : Says(k, s)' => Says(k, s) \/ s = Stand(k)'
    BY <1>1, <2>1 DEF Says, Hand
  <2>4. \A s \in Status : Says(k, s) => NotAfter(s, Stand(k)')
    BY NotAfterTransitive, StandType DEF MailInOrder, OrderIds
  <2>5. \A s \in Status : Says(k, s)' => NotAfter(s, Stand(k)')
    BY <2>3, <2>4 DEF NotAfter
  <2>6. ASSUME NEW i \in DOMAIN flow', NEW j \in DOMAIN flow', i < j,
               flow'[i].order = k, flow'[j].order = k
        PROVE  NotAfter(flow'[i].status, flow'[j].status)
    <3>1. CASE j \in DOMAIN q /\ flow'[j] = q[j]
      <4>1. i \in DOMAIN q /\ flow'[i] = q[i]
        BY <2>1, <2>2, <2>6, <3>1
      <4> QED BY <1>1, <2>6, <3>1, <4>1 DEF MailInOrder
    <3>2. CASE j - Len(q) \in DOMAIN msgs /\ flow'[j] = msgs[j - Len(q)]
      <4>1. flow'[j].status = Stand(k)'
        BY <2>6, <3>2
      <4>2. CASE i \in DOMAIN q /\ flow'[i] = q[i]
        <5>1. flow[i].order = k /\ i \in DOMAIN flow /\ flow'[i] = flow[i]
          BY <1>1, <2>6, <4>2
        <5>2. flow[i].status \in Status /\ Says(k, flow[i].status)
          BY <5>1, SaidIsStatus DEF Says
        <5> QED BY <2>4, <4>1, <5>1, <5>2
      <4>3. CASE i - Len(q) \in DOMAIN msgs /\ flow'[i] = msgs[i - Len(q)]
        BY <2>6, <4>1, <4>3 DEF NotAfter
      <4> QED BY <2>1, <4>2, <4>3
    <3> QED BY <2>1, <3>1, <3>2
  <2>7. ASSUME Hand(k), NEW j \in DOMAIN flow', flow'[j].order = k
        PROVE  NotAfter(td.msg.status, flow'[j].status)
    <3>1. CASE j \in DOMAIN q /\ flow'[j] = q[j]
      BY <1>1, <2>7, <3>1 DEF MailInOrder
    <3>2. CASE j - Len(q) \in DOMAIN msgs /\ flow'[j] = msgs[j - Len(q)]
      <4>1. td.msg.status \in Status /\ Says(k, td.msg.status)
        BY <2>7, SaidIsStatus DEF Says
      <4> QED BY <2>4, <2>7, <3>2, <4>1
    <3> QED BY <2>1, <3>1, <3>2
  <2>8. Hand(k)' = Hand(k)
    BY DEF Hand
  <2> QED BY <2>3, <2>5, <2>6, <2>7, <2>8 DEF MailGoesOn, MailInOrder
<1> QED BY <1>1, <1>2, <1>3 DEF Send

\* What a step does to an order of ours at the counter.
OrderGoesOn(k) ==
    \/ broker'[k].st = broker[k].st
    \/ ReqOrderInsert /\ cmd.key = k /\ broker[k].st = "none" /\ broker'[k].st = "inflight"
    \/ AnswerInsert(k) /\ broker[k].st = "inflight" /\ broker'[k].st \in {"UNKNOWN", "refused", "lost"}
    \/ broker[k].st \in Live /\ broker'[k].st \in Progress[broker[k].st]

LEMMA OrdersAtCounter ==
    ASSUME Calm, TypeOK, IdInv, [Next]_vars PROVE \A k \in Keys : OrderGoesOn(k)
<1>1. broker \in [OrderIds -> BrokerOrder] /\ Keys \subseteq OrderIds /\ Keys \cap Foreign = {}
  BY FlowAssumption DEF TypeOK, CounterTypeOK, BrokerTypeOK, OrderIds
<1>2. CASE UNCHANGED broker
  BY <1>2 DEF OrderGoesOn
<1>3. CASE ReqOrderInsert
  <2>1. cmd.key \in Keys /\ broker[cmd.key].st = "none"
    BY <1>3 DEF ReqOrderInsert, IdInv, ThreadInv, Placing, TypeOK, CommandTypeOK, PlacePCs
  <2>2. UNCHANGED broker \/ broker' = [broker EXCEPT ![cmd.key] =
                                          [st |-> "inflight", ref |-> cmd.ref, sess |-> spi.sess]]
    BY <1>3 DEF ReqOrderInsert
  <2> QED BY <1>1, <1>3, <2>1, <2>2 DEF OrderGoesOn
<1>4. ASSUME NEW o \in OrderIds, NEW st, broker' = [broker EXCEPT ![o].st = st],
             o \in Keys => \/ /\ AnswerInsert(o) /\ broker[o].st = "inflight"
                              /\ st \in {"UNKNOWN", "refused", "lost"}
                           \/ broker[o].st \in Live /\ st \in Progress[broker[o].st]
      PROVE  \A k \in Keys : OrderGoesOn(k)
  <2>1. broker'[o].st = st /\ \A k \in Keys \ {o} : broker'[k] = broker[k]
    BY <1>1, <1>4 DEF BrokerOrder
  <2> QED BY <1>4, <2>1 DEF OrderGoesOn
<1>5. ASSUME NEW k \in Keys, AnswerInsert(k) PROVE \A j \in Keys : OrderGoesOn(j)
  <2>1. PICK st \in {"UNKNOWN", "refused", "lost"} :
           broker[k].st = "inflight" /\ broker' = [broker EXCEPT ![k].st = st]
    BY <1>5 DEF AnswerInsert, BrokerAccept, BrokerReject, LoseInsert, BrokerSets
  <2> QED BY <1>1, <1>4, <1>5, <2>1
<1>6. ASSUME NEW o \in OrderIds, BrokerProgress(o) PROVE \A k \in Keys : OrderGoesOn(k)
  <2>1. PICK st \in Progress[broker[o].st] :
           broker[o].st \in Live /\ broker' = [broker EXCEPT ![o].st = st]
    BY <1>6 DEF BrokerProgress, BrokerSets
  <2> QED BY <1>4, <2>1
<1>7. ASSUME NEW i \in DOMAIN cancels, AnswerCancel(i) PROVE \A k \in Keys : OrderGoesOn(k)
  <2>1. CASE BrokerCancels(i)
    <3>1. PICK o \in OrderIds :
             broker[o].st \in Live /\ broker' = [broker EXCEPT ![o].st = "CANCELLED"]
      BY <2>1 DEF BrokerCancels, OrderOf
    <3>2. "CANCELLED" \in Progress[broker[o].st]
      BY <3>1 DEF Progress, Live, Active
    <3> QED BY <1>4, <3>1, <3>2
  <2>2. CASE BrokerRefusesCancel(i) \/ LoseCancel(i)
    BY <1>2, <2>2 DEF BrokerRefusesCancel, LoseCancel
  <2> QED BY <1>7, <2>1, <2>2 DEF AnswerCancel
<1>8. ASSUME NEW f \in Foreign, NEW ref \in 1..MaxRef, ForeignOrder(f, ref) \/ ForeignReject(f, ref)
      PROVE  \A k \in Keys : OrderGoesOn(k)
  <2>1. PICK b : broker' = [broker EXCEPT ![f] = b]
    BY <1>8 DEF ForeignOrder, ForeignReject, BrokerSets
  <2> QED BY <1>1, <2>1 DEF OrderGoesOn
<1>9. ASSUME NEW o \in OrderIds, BrokerSnapshot(o) PROVE UNCHANGED broker
  BY <1>9 DEF BrokerSnapshot
<1>10. CASE Counter
  BY <1>2, <1>5, <1>6, <1>7, <1>8, <1>9, <1>10 DEF Counter
<1>11. CASE \/ Command \/ (CommandStep /\ ~ReqOrderInsert) \/ TraderStep \/ Login
            \/ OnFrontDisconnected \/ Crash \/ UNCHANGED vars
  <2>1. UNCHANGED broker
    BY <1>11 DEF Command, CommandStep, PlaceOrder, CancelByKey, CancelByIds, LoadOrderRef,
                 StoreOrderRef, TakeOrderRef, ReadFrontId, ReadSessionId, CreateRow,
                 ReadFrontIdAgain, RejectLocally, MarkCancel, ReqOrderAction, UnmarkCancel,
                 TraderStep, OnRtnOrder, OnRspQryOrder, ReleaseCancel, UpdateAndPublish,
                 OnRspOrderAction, Login, Connect, OnRspAuthenticate, OnRspUserLogin,
                 OnRspSettlementInfoConfirm, OnFrontDisconnected, Crash, vars, brokerVars
  <2> QED BY <1>2, <2>1
<1> QED BY <1>3, <1>10, <1>11 DEF Next

LEMMA StandGoesOn ==
    ASSUME Calm, TypeOK, IdInv, [Next]_vars, NEW k \in Keys
    PROVE  /\ Stand(k) \in Status /\ Stand(k)' \in Status /\ NotAfter(Stand(k), Stand(k)')
           /\ broker'[k].st # "none" => broker[k].st # "none" \/ (ReqOrderInsert /\ cmd.key = k)
<1>1. Stand(k) \in Status /\ Stand(k)' \in Status
  <2>1. k \in OrderIds
    BY DEF OrderIds
  <2>2. (\A o \in OrderIds : Stand(o) \in Status)'
    BY NextType, StandType, PTL
  <2>3. \A o \in OrderIds : Stand(o)' \in Status
    BY <2>2
  <2> QED BY <2>1, <2>3, StandType
<1>2. OrderGoesOn(k)
  BY OrdersAtCounter
<1>3. CASE broker'[k].st = broker[k].st
  <2>1. Stand(k)' = Stand(k)
    BY <1>3 DEF Stand
  <2>2. NotAfter(Stand(k), Stand(k)')
    BY <2>1 DEF NotAfter
  <2> QED BY <1>1, <1>3, <2>2
<1>4. CASE broker[k].st \in {"none", "inflight"}
  <2>1. Stand(k) = "PENDING_SUBMIT"
    BY <1>4 DEF Stand, AtCounter, Live, Active, Terminal
  <2> QED BY <1>1, <1>2, <2>1, PendingIsFirst, <1>4 DEF OrderGoesOn, Live, Active
<1>5. CASE broker[k].st \in Live /\ broker'[k].st \in Progress[broker[k].st]
  <2>1. Stand(k) = broker[k].st
    BY <1>5 DEF Stand, AtCounter
  <2>2. broker'[k].st \in AtCounter /\ NotAfter(broker[k].st, broker'[k].st)
    BY <1>5 DEF Progress, NotAfter, Stage, AtCounter, Live, Active, Terminal
  <2>3. Stand(k)' = broker'[k].st
    BY <2>2 DEF Stand
  <2> QED BY <1>1, <1>5, <2>1, <2>2, <2>3 DEF Live, Active
<1> QED BY <1>2, <1>3, <1>4, <1>5 DEF OrderGoesOn

\* What any step of the counter puts in the queue of reports.
LEMMA NewsOfCounter ==
    ASSUME TypeOK, Counter
    PROVE  \E msgs \in Seq(Message \cup CancelMessage) :
              /\ Send(msgs) \/ UNCHANGED flow
              /\ \A j \in DOMAIN msgs : msgs[j] \in CancelMessage \/ News(msgs[j])
<1>1. ASSUME NEW msgs \in Seq(Message), Told(msgs), Send(msgs) \/ UNCHANGED flow
      PROVE  \E ms \in Seq(Message \cup CancelMessage) :
                /\ Send(ms) \/ UNCHANGED flow
                /\ \A j \in DOMAIN ms : ms[j] \in CancelMessage \/ News(ms[j])
  <2>1. msgs \in Seq(Message \cup CancelMessage)
    OBVIOUS
  <2> QED BY <1>1, <2>1 DEF Told
<1>2. CASE OrdersGoOn
  BY <1>1, <1>2, NewsOfOrders
<1>3. CASE UNCHANGED flow
  <2>1. <<>> \in Seq(Message) /\ Told(<<>>)
    BY DEF Told
  <2> QED BY <1>1, <1>3, <2>1
<1>4. ASSUME NEW i \in DOMAIN cancels, BrokerCancels(i)
      PROVE  \E msgs \in Seq(Message) : Send(msgs) /\ Told(msgs)
  <2>1. PICK o \in OrderIds : /\ broker[o].st \in Live
                              /\ broker' = [broker EXCEPT ![o].st = "CANCELLED"]
                              /\ Send(<<Report("RtnOrder", o, broker'[o])>>)
    BY <1>4 DEF BrokerCancels, OrderOf
  <2>2. PICK b : b = [broker[o] EXCEPT !.st = "CANCELLED"]
    OBVIOUS
  <2>3. broker[o] \in BrokerOrder /\ Named(broker[o])
    BY <2>1 DEF TypeOK, CounterTypeOK, BrokerTypeOK, Live, Active
  <2>4. b.st \in AtCounter /\ Named(b)
    BY <2>2, <2>3 DEF BrokerOrder, Named, AtCounter, Terminal
  <2>5. broker' = [broker EXCEPT ![o] = b] /\ broker'[o] = b
    BY <2>1, <2>2 DEF TypeOK, CounterTypeOK, BrokerTypeOK
  <2>6. Send(<<Report("RtnOrder", o, b)>>)
    BY <2>1, <2>5
  <2> QED BY <2>4, <2>5, <2>6, NewsOfReport
<1>5. ASSUME NEW i \in DOMAIN cancels, BrokerRefusesCancel(i)
      PROVE  \E ms \in Seq(Message \cup CancelMessage) :
                /\ Send(ms) \/ UNCHANGED flow
                /\ \A j \in DOMAIN ms : ms[j] \in CancelMessage \/ News(ms[j])
  <2>1. PICK kinds \in {<<"RspOrderAction">>, <<"ErrRtnOrderAction">>,
                        <<"RspOrderAction", "ErrRtnOrderAction">>} :
           \/ Send([j \in 1..Len(kinds) |-> ActionError(kinds[j], cancels[i])])
           \/ UNCHANGED flow
    BY <1>5 DEF BrokerRefusesCancel
  <2>2. PICK msgs : msgs = [j \in 1..Len(kinds) |-> ActionError(kinds[j], cancels[i])]
    OBVIOUS
  <2>3. \A kind \in {"RspOrderAction", "ErrRtnOrderAction"} :
           ActionError(kind, cancels[i]) \in CancelMessage
    BY RequestType, RegistryAssumption DEF ActionError, CancelMessage, CancelRequest
  <2>4. msgs \in Seq(CancelMessage)
    BY <2>1, <2>2, <2>3
  <2>5. msgs \in Seq(Message \cup CancelMessage) /\ \A j \in DOMAIN msgs : msgs[j] \in CancelMessage
    BY <2>4
  <2> QED BY <2>1, <2>2, <2>5
<1>6. ASSUME NEW i \in DOMAIN cancels, LoseCancel(i) PROVE UNCHANGED flow
  BY <1>6 DEF LoseCancel
<1>7. ASSUME NEW o \in OrderIds, BrokerSnapshot(o) PROVE UNCHANGED flow
  BY <1>7 DEF BrokerSnapshot
<1> QED BY <1>1, <1>2, <1>3, <1>4, <1>5, <1>6, <1>7 DEF Counter, OrdersGoOn, AnswerCancel

LEMMA MailCounter ==
    ASSUME Calm, TypeOK, IdInv, OrderInv, Counter, NEW k \in Keys
    PROVE  MailGoesOn(k)
<1>1. UNCHANGED td
  BY DEF Counter, AnswerInsert, AnswerCancel, BrokerAccept, BrokerReject, LoseInsert,
         BrokerProgress, BrokerSnapshot, ForeignOrder, ForeignReject, BrokerCancels,
         BrokerRefusesCancel, LoseCancel, BrokerSets, proxyVars
<1>2. MailInOrder(k) /\ Stand(k)' \in Status /\ NotAfter(Stand(k), Stand(k)')
  <2>1. [Next]_vars
    BY DEF Next
  <2> QED BY <2>1, StandGoesOn DEF OrderInv, InOrder
<1>3. PICK msgs \in Seq(Message \cup CancelMessage) :
         /\ Send(msgs) \/ UNCHANGED flow
         /\ \A j \in DOMAIN msgs : msgs[j] \in CancelMessage \/ News(msgs[j])
  BY NewsOfCounter
<1>4. k # Null /\ \A m \in CancelMessage : m.order = Null
  BY RegistryAssumption DEF CancelMessage
<1>5. \A j \in DOMAIN msgs : msgs[j].order = k => msgs[j].status = Stand(k)'
  BY <1>3, <1>4 DEF News
<1> QED BY <1>1, <1>2, <1>3, <1>5, MailSent

LEMMA MailTrader ==
    ASSUME TypeOK, OrderInv, TraderStep
    PROVE  HandKept /\ (flow' = flow \/ Taken)
<1>1. CASE OnRtnOrder
  BY <1>1 DEF OnRtnOrder, NextReport, BeginOrderPayload, Taken, HandKept
<1>2. ~OnRspQryOrder
  BY DEF OnRspQryOrder, OrderInv, NoQueries
<1>3. CASE ReleaseCancel
  BY <1>3 DEF ReleaseCancel, brokerVars, TypeOK, TraderTypeOK, TdIdle, HandKept
<1>4. CASE UpdateAndPublish
  BY <1>4 DEF UpdateAndPublish, brokerVars, TdIdle, HandKept
<1>5. CASE OnRspOrderAction
  BY <1>5 DEF OnRspOrderAction, NextReport, Taken, HandKept
<1> QED BY <1>1, <1>2, <1>3, <1>4, <1>5 DEF TraderStep

LEMMA MailAside ==
    ASSUME Command \/ CommandStep \/ Login \/ OnFrontDisconnected \/ Crash \/ UNCHANGED vars
    PROVE  HandKept /\ (flow' = flow \/ flow' = <<>>)
<1>1. CASE Command \/ CommandStep
  <2>1. flow' = flow /\ td' = td
    BY <1>1 DEF Command, CommandStep, PlaceOrder, CancelByKey, CancelByIds, LoadOrderRef,
                StoreOrderRef, TakeOrderRef, ReadFrontId, ReadSessionId, CreateRow,
                ReqOrderInsert, ReadFrontIdAgain, RejectLocally, MarkCancel, ReqOrderAction,
                UnmarkCancel, brokerVars
  <2> QED BY <2>1 DEF HandKept
<1>2. CASE Login \/ OnFrontDisconnected \/ UNCHANGED vars
  <2>1. (flow' = flow \/ flow' = <<>>) /\ td' = td
    BY <1>2 DEF Login, Connect, OnRspAuthenticate, OnRspUserLogin, OnRspSettlementInfoConfirm,
                OnFrontDisconnected, vars, proxyVars, brokerVars
  <2> QED BY <2>1 DEF HandKept
<1>3. CASE Crash
  BY <1>3 DEF Crash, TdIdle, HandKept
<1> QED BY <1>1, <1>2, <1>3

LEMMA MailStep ==
    ASSUME Calm, TypeOK, IdInv, OrderInv, [Next]_vars, NEW k \in Keys
    PROVE  MailGoesOn(k)
<1>1. MailInOrder(k) /\ Stand(k)' \in Status /\ NotAfter(Stand(k), Stand(k)')
  BY StandGoesOn DEF OrderInv, InOrder
<1>2. ASSUME HandKept, flow' = flow \/ flow' = <<>> \/ Taken PROVE MailGoesOn(k)
  BY <1>1, <1>2, MailKept
<1> QED BY <1>2, MailCounter, MailTrader, MailAside DEF Next

\* A row moves to a later status, and stays behind what is still to be told.
RowForward(k) == k \in DOMAIN orders => NotAfter(orders[k].status, orders'[k].status)

LEMMA RowStep ==
    ASSUME Calm, TypeOK, IdInv, OrderInv, [Next]_vars, NEW k \in Keys
    PROVE  RowInOrder(k)' /\ RowForward(k)
<1>1. MailGoesOn(k) /\ MailInOrder(k) /\ RowInOrder(k)
  BY MailStep DEF OrderInv, InOrder
<1>2. /\ Stand(k) \in Status /\ Stand(k)' \in Status /\ NotAfter(Stand(k), Stand(k)')
      /\ broker'[k].st # "none" => broker[k].st # "none" \/ (ReqOrderInsert /\ cmd.key = k)
  BY StandGoesOn
<1>3. CASE k \notin DOMAIN orders
  <2>1. broker[k].st = "none" /\ ~(ReqOrderInsert /\ cmd.key = k)
    BY <1>3 DEF IdInv, CounterInv, AtHome, ThreadInv, Placing, ReqOrderInsert
  <2> QED BY <1>2, <1>3, <2>1 DEF RowInOrder, RowForward
<1>4. CASE k \in DOMAIN orders /\ broker[k].st = "none"
  <2>1. RowGoesOn(k) /\ orders[k].status \in Status
    BY <1>4, RowsGoOn DEF TypeOK, RegistryTypeOK, Row
  <2>2. ~(UpdateAndPublish /\ td.msg.order = k)
    BY <1>4 DEF UpdateAndPublish, IdInv, ReportInv, InHand, Truthful
  <2>3. RowForward(k)
    BY <2>1, <2>2 DEF RowGoesOn, RowForward, NotAfter, Stage
  <2>4. ASSUME broker'[k].st # "none" PROVE orders'[k].status = "PENDING_SUBMIT"
    BY <1>2, <1>4, <2>4 DEF ReqOrderInsert, registryVars, IdInv, ThreadInv, Placing
  <2> QED BY <1>2, <2>3, <2>4, PendingIsFirst DEF RowInOrder
<1>5. CASE k \in DOMAIN orders /\ broker[k].st # "none"
  <2>1. RowGoesOn(k) /\ orders[k].status \in Status
    BY <1>5, RowsGoOn DEF TypeOK, RegistryTypeOK, Row
  <2>2. /\ NotAfter(orders[k].status, Stand(k))
        /\ \A s \in Status : Says(k, s) => NotAfter(orders[k].status, s)
    BY <1>1, <1>5 DEF RowInOrder
  <2>3. CASE orders'[k].status = orders[k].status
    <3>1. NotAfter(orders'[k].status, Stand(k)')
      BY <1>2, <2>1, <2>2, <2>3, NotAfterTransitive
    <3>2. ASSUME NEW s \in Status, Says(k, s)' PROVE NotAfter(orders'[k].status, s)
      BY <1>1, <2>2, <2>3, <3>1, <3>2 DEF MailGoesOn
    <3>3. RowForward(k)
      BY <2>3 DEF RowForward, NotAfter
    <3> QED BY <3>1, <3>2, <3>3 DEF RowInOrder
  <2>4. CASE UpdateAndPublish /\ td.msg.order = k /\ orders'[k].status = td.msg.status
    <3>1. PICK s : s = td.msg.status
      OBVIOUS
    <3>2. Hand(k) /\ Says(k, s) /\ s \in Status /\ orders'[k].status = s
      BY <2>4, <3>1, SaidIsStatus DEF UpdateAndPublish, Hand, Says
    <3>3. NotAfter(s, Stand(k)')
      BY <1>1, <1>2, <3>2, NotAfterTransitive DEF MailInOrder
    <3>4. ~Hand(k)' /\ flow' = flow
      BY <2>4 DEF UpdateAndPublish, TdIdle, Hand, brokerVars
    <3>5. ASSUME NEW t \in Status, Says(k, t)' PROVE NotAfter(s, t)
      <4>1. PICK j \in DOMAIN flow : flow[j].order = k /\ flow[j].status = t
        BY <3>4, <3>5 DEF Says
      <4> QED BY <1>1, <3>1, <3>2, <4>1 DEF MailInOrder
    <3>6. RowForward(k)
      BY <2>2, <3>2 DEF RowForward
    <3> QED BY <3>2, <3>3, <3>5, <3>6 DEF RowInOrder
  <2> QED BY <1>5, <2>1, <2>3, <2>4 DEF RowGoesOn
<1> QED BY <1>3, <1>4, <1>5

LEMMA NoQueriesStep ==
    ASSUME MaxSnapshots = 0, TypeOK, NoQueries, [Next]_vars PROVE NoQueries'
<1>1. CASE Command \/ CommandStep \/ Login \/ OnFrontDisconnected \/ Crash \/ UNCHANGED vars
  BY <1>1 DEF Command, CommandStep, PlaceOrder, CancelByKey, CancelByIds, LoadOrderRef,
              StoreOrderRef, TakeOrderRef, ReadFrontId, ReadSessionId, CreateRow,
              ReqOrderInsert, ReadFrontIdAgain, RejectLocally, MarkCancel, ReqOrderAction,
              UnmarkCancel, Login, Connect, OnRspAuthenticate, OnRspUserLogin,
              OnRspSettlementInfoConfirm, OnFrontDisconnected, Crash, vars, brokerVars,
              countVars, NoQueries
<1>2. CASE TraderStep
  BY <1>2 DEF TraderStep, OnRtnOrder, OnRspQryOrder, ReleaseCancel, UpdateAndPublish,
              OnRspOrderAction, brokerVars, countVars, NoQueries
<1>3. CASE Counter
  <2>1. ASSUME NEW i \in DOMAIN cancels, AnswerCancel(i) PROVE UNCHANGED <<qflow, snapshots>>
    BY <2>1 DEF AnswerCancel, BrokerCancels, BrokerRefusesCancel, LoseCancel, countVars
  <2>2. ASSUME NEW o \in OrderIds, BrokerSnapshot(o) PROVE FALSE
    BY <2>2 DEF BrokerSnapshot, NoQueries
  <2>3. OrdersGoOn => UNCHANGED <<qflow, snapshots>>
    BY NewsOfOrders DEF countVars
  <2> QED BY <1>3, <2>1, <2>2, <2>3 DEF Counter, OrdersGoOn, NoQueries
<1> QED BY <1>1, <1>2, <1>3 DEF Next

LEMMA OrderStep ==
    ASSUME Calm, MaxSnapshots = 0, TypeOK, IdInv, OrderInv, [Next]_vars
    PROVE  OrderInv' /\ \A k \in DOMAIN orders : NotAfter(orders[k].status, orders'[k].status)
<1>1. NoQueries'
  BY NoQueriesStep DEF OrderInv
<1>2. \A k \in Keys : MailInOrder(k)' /\ RowInOrder(k)' /\ RowForward(k)
  BY MailStep, RowStep DEF MailGoesOn
<1>3. InOrder'
  BY <1>2 DEF InOrder
<1> QED BY <1>1, <1>2, <1>3 DEF OrderInv, RowForward, TypeOK, RegistryTypeOK

LEMMA OrderAlways ==
    ASSUME Calm, MaxSnapshots = 0 PROVE Spec => [](TypeOK /\ IdInv /\ OrderInv)
<1>1. TypeOK /\ IdInv /\ OrderInv /\ [Next]_vars => OrderInv'
  BY OrderStep
<1> QED BY <1>1, OrderInit, TypeCorrect, IdAlways, PTL DEF Spec

\* While nobody queries orders, what the registry says of an order moves only from a
\* stage to a later one, although update_ctp writes whatever status it is given: with
\* two threads at the row, any crashes, lost connections and orders of other terminals.
THEOREM StatusesGoForward ==
    ASSUME Calm, MaxSnapshots = 0 PROVE Spec => StatusGoesForward
<1>1. TypeOK /\ IdInv /\ OrderInv /\ [Next]_vars =>
         [\A k \in DOMAIN orders : NotAfter(orders[k].status, orders'[k].status)]_vars
  BY OrderStep
<1> QED BY <1>1, OrderAlways, PTL DEF Spec, StatusGoesForward
-----------------------------------------------------------------------------
(***************************************************************************)
(* A cancel follows the first active report: a row that has been reported  *)
(* active or final is not PENDING_SUBMIT or UNKNOWN again under a cancel   *)
(* that is on its way.                                                     *)
(***************************************************************************)

\* A cancel by order_ref does not look at the registry.
ByRegistry == "cancel_by_ids" \notin Env

AsksKnown ==
    Cancelling => /\ cmd.key \in DOMAIN orders /\ orders[cmd.key].status \in Reported
                  /\ CancelId(orders[cmd.key]) = CancelId(cmd)

LEMMA AsksInit == Init => AsksKnown
BY DEF Init, AsksKnown, Cancelling, Idle

\* A cancel begins at a row that is active, and carries its copy of the row on.
LEMMA CancelGoesOn ==
    ASSUME ByRegistry, TypeOK, [Next]_vars, Cancelling'
    PROVE  \/ \E k \in Keys : CancelByKey(k)
           \/ Cancelling /\ cmd'.key = cmd.key /\ CancelId(cmd)' = CancelId(cmd)
<1>1. CASE UNCHANGED cmd
  BY <1>1 DEF Cancelling, CancelId
<1>2. CASE Command
  <2>1. ASSUME NEW k \in Keys, PlaceOrder(k) PROVE cmd'.pc = "load_ref"
    BY <2>1 DEF PlaceOrder, Idle
  <2> QED BY <1>2, <2>1 DEF Command, CancelByIds, ByRegistry, Cancelling
<1>3. CASE CommandStep
  <2>1. CASE \/ LoadOrderRef \/ StoreOrderRef \/ TakeOrderRef
             \/ ReadFrontId \/ ReadSessionId \/ ReadFrontIdAgain
    BY <2>1 DEF LoadOrderRef, StoreOrderRef, TakeOrderRef, ReadFrontId, ReadSessionId,
                ReadFrontIdAgain, Cancelling, TypeOK, CommandTypeOK
  <2>2. CASE CreateRow \/ ReqOrderInsert \/ RejectLocally
    BY <2>2 DEF CreateRow, ReqOrderInsert, RejectLocally, Cancelling, TypeOK, CommandTypeOK,
                Idle
  <2>3. CASE MarkCancel \/ ReqOrderAction \/ UnmarkCancel
    <3>1. cmd' = Idle \/ cmd' = [cmd EXCEPT !.pc = "action"] \/ cmd' = [cmd EXCEPT !.pc = "unmark"]
      BY <2>3 DEF MarkCancel, ReqOrderAction, UnmarkCancel
    <3>2. cmd'.key = cmd.key /\ cmd'.ref = cmd.ref /\ cmd'.sess = cmd.sess
      BY <3>1 DEF Idle, Cancelling, TypeOK, CommandTypeOK
    <3>3. Cancelling
      BY <2>3 DEF MarkCancel, ReqOrderAction, UnmarkCancel, Cancelling
    <3> QED BY <3>2, <3>3 DEF CancelId
  <2> QED BY <1>3, <2>1, <2>2, <2>3 DEF CommandStep
<1>4. CASE TraderStep \/ Login \/ OnFrontDisconnected \/ Counter \/ UNCHANGED vars
  <2>1. UNCHANGED cmd
    BY <1>4 DEF TraderStep, OnRtnOrder, OnRspQryOrder, ReleaseCancel, UpdateAndPublish,
                OnRspOrderAction, Login, Connect, OnRspAuthenticate, OnRspUserLogin,
                OnRspSettlementInfoConfirm, OnFrontDisconnected, Counter, AnswerInsert,
                AnswerCancel, BrokerAccept, BrokerReject, LoseInsert, BrokerProgress,
                BrokerSnapshot, ForeignOrder, ForeignReject, BrokerCancels,
                BrokerRefusesCancel, LoseCancel, BrokerSets, vars, proxyVars
  <2> QED BY <1>1, <2>1
<1>5. ~Crash
  BY DEF Crash, Cancelling, Idle
<1> QED BY <1>2, <1>3, <1>4, <1>5 DEF Next

LEMMA AsksKnownStep ==
    ASSUME Calm, ByRegistry, MaxSnapshots = 0, TypeOK, IdInv, OrderInv, AsksKnown, [Next]_vars
    PROVE  AsksKnown'
<1> SUFFICES ASSUME Cancelling'
             PROVE  /\ cmd'.key \in DOMAIN orders' /\ orders'[cmd'.key].status \in Reported
                    /\ CancelId(orders[cmd.key])' = CancelId(cmd)'
  BY DEF AsksKnown
<1>1. ASSUME NEW k \in Keys, CancelByKey(k)
      PROVE  /\ cmd'.key \in DOMAIN orders' /\ orders'[cmd'.key].status \in Reported
             /\ CancelId(orders[cmd.key])' = CancelId(cmd)'
  <2>1. /\ k \in DOMAIN orders /\ orders[k].status \in Active /\ orders' = orders
        /\ cmd'.key = k /\ cmd'.ref = orders[k].ref /\ cmd'.sess = orders[k].sess
    BY <1>1 DEF CancelByKey, registryVars
  <2> QED BY <2>1 DEF CancelId, Reported
<1>2. ASSUME Cancelling, cmd'.key = cmd.key, CancelId(cmd)' = CancelId(cmd)
      PROVE  /\ cmd'.key \in DOMAIN orders' /\ orders'[cmd'.key].status \in Reported
             /\ CancelId(orders[cmd.key])' = CancelId(cmd)'
  <2>1. PICK k \in DOMAIN orders : /\ k = cmd.key /\ orders[k].status \in Reported
                                   /\ orders[k].sess = cmd.sess /\ orders[k].ref = cmd.ref
    BY <1>2 DEF AsksKnown, CancelId
  <2>2. orders[k].sess # Null
    <3>1. cmd.sess \in 1..MaxSession
      BY <1>2 DEF Cancelling, TypeOK, CommandTypeOK
    <3> QED BY <2>1, <3>1, RegistryAssumption
  <2>3. RowGoesOn(k)
    BY RowsGoOn
  <2>4. orders'[k].status \in Reported
    <3>1. NotAfter(orders[k].status, orders'[k].status)
      BY OrderStep
    <3>2. k \in DOMAIN orders' /\ orders'[k].status \in Status
      BY <2>3, NextType DEF RowGoesOn, TypeOK, RegistryTypeOK, Row
    <3> QED BY <2>1, <3>1, <3>2, ReportedGoesOn
  <2>5. k \in DOMAIN orders' /\ orders'[k].sess = cmd.sess /\ orders'[k].ref = cmd.ref
    BY <2>1, <2>2, <2>3 DEF RowGoesOn
  <2>6. cmd'.sess = cmd.sess /\ cmd'.ref = cmd.ref
    BY <1>2 DEF CancelId
  <2> QED BY <1>2, <2>1, <2>4, <2>5, <2>6 DEF CancelId
<1> QED BY <1>1, <1>2, CancelGoesOn

\* Only cancel_order makes requests.
LEMMA RequestsAreAsked ==
    ASSUME TypeOK, [Next]_vars, Len(cancels') > Len(cancels) PROVE cmd.pc = "action"
<1>1. Len(cancels) \in Nat
  BY DEF TypeOK, CounterTypeOK
<1>2. ~UNCHANGED cancels
  BY <1>1
<1>3. ~Counter
  <2>1. ASSUME NEW i \in DOMAIN cancels, AnswerCancel(i) PROVE FALSE
    <3>1. PICK st : cancels' = [cancels EXCEPT ![i].st = st]
      BY <2>1 DEF AnswerCancel, BrokerCancels, BrokerRefusesCancel, LoseCancel
    <3>2. Len(cancels') = Len(cancels)
      BY <3>1 DEF TypeOK, CounterTypeOK
    <3> QED BY <1>1, <3>2
  <2>2. ASSUME NEW o \in OrderIds, BrokerSnapshot(o) PROVE FALSE
    BY <1>2, <2>2 DEF BrokerSnapshot
  <2>3. OrdersGoOn => UNCHANGED cancels
    BY NewsOfOrders
  <2> QED BY <1>2, <2>1, <2>2, <2>3 DEF Counter, OrdersGoOn
<1>4. ~TraderStep /\ ~Login /\ ~OnFrontDisconnected /\ ~Crash /\ ~UNCHANGED vars
  BY <1>2 DEF TraderStep, OnRtnOrder, OnRspQryOrder, ReleaseCancel, UpdateAndPublish,
              OnRspOrderAction, Login, Connect, OnRspAuthenticate, OnRspUserLogin,
              OnRspSettlementInfoConfirm, OnFrontDisconnected, Crash, vars, brokerVars
<1>5. ~Command /\ (CommandStep => ReqOrderAction)
  BY <1>2 DEF Command, PlaceOrder, CancelByKey, CancelByIds, LoadOrderRef, StoreOrderRef,
              TakeOrderRef, ReadFrontId, ReadSessionId, CreateRow, ReqOrderInsert,
              ReadFrontIdAgain, RejectLocally, MarkCancel, UnmarkCancel, CommandStep,
              brokerVars
<1> QED BY <1>3, <1>4, <1>5 DEF Next, ReqOrderAction

\* What a client cancels by its client_order_id has been reported active, and the
\* registry still says so, or that it ended, when ReqOrderAction sends the request:
\* the trader thread may write the row meanwhile, never back.
THEOREM CancelsFollowReports ==
    ASSUME Calm, ByRegistry, MaxSnapshots = 0 PROVE Spec => CancelAfterActiveReport
<1>1. TypeOK /\ IdInv /\ OrderInv /\ AsksKnown /\ [Next]_vars => AsksKnown'
  BY AsksKnownStep
<1>2. ASSUME TypeOK, AsksKnown, [Next]_vars, Len(cancels') > Len(cancels)
      PROVE  \E k \in DOMAIN orders : /\ orders[k].status \in Active \cup Terminal
                                      /\ CancelId(orders[k]) = CancelId(cmd)
  BY <1>2, RequestsAreAsked DEF AsksKnown, Cancelling, Reported
<1>3. TypeOK /\ AsksKnown /\ [Next]_vars =>
         [Len(cancels') > Len(cancels) =>
            \E k \in DOMAIN orders : /\ orders[k].status \in Active \cup Terminal
                                    /\ CancelId(orders[k]) = CancelId(cmd)]_vars
  BY <1>2
<1> QED BY <1>1, <1>3, AsksInit, OrderAlways, PTL DEF Spec, CancelAfterActiveReport
-----------------------------------------------------------------------------
(***************************************************************************)
(* A row that says PENDING_SUBMIT waits for something.                     *)
(***************************************************************************)

\* A crash or a lost connection takes away the call or the answer the row waits for.
StaysUp == "disconnect" \notin Env /\ MaxCrashes = 0

\* Only place_order says PENDING_SUBMIT.
NeverPending ==
    /\ \A i \in DOMAIN flow : flow[i].status # "PENDING_SUBMIT"
    /\ \A i \in DOMAIN qflow : qflow[i].status # "PENDING_SUBMIT"
    /\ td.pc # "idle" => td.msg.status # "PENDING_SUBMIT"

\* What place_order sends is answered to the session that is still connected.
Up == /\ td_ready \/ cmd.pc \in PlacePCs => link = "login"
      /\ \A k \in Keys : broker[k].st = "inflight" => Sub(broker[k].sess)

AwaitInv == NeverPending /\ Up /\ PendingSubmitIsAwaited

LEMMA AwaitInit == Init => AwaitInv
<1> SUFFICES ASSUME Init PROVE AwaitInv
  OBVIOUS
<1>1. NeverPending
  BY DEF Init, NeverPending, TdIdle
<1>2. \A k \in Keys : broker[k].st # "inflight"
  BY DEF Init, OrderIds, NoOrder, LegacyOrder
<1>3. Up
  BY <1>2 DEF Init, Up, Idle, PlacePCs
<1>4. PendingSubmitIsAwaited
  BY FlowAssumption DEF Init, PendingSubmitIsAwaited, LegacyRow
<1> QED BY <1>1, <1>3, <1>4 DEF AwaitInv

LEMMA SnapshotSent ==
    ASSUME TypeOK, NEW o \in OrderIds, BrokerSnapshot(o)
    PROVE  \E m \in Message : qflow' = Append(qflow, m) /\ m.status # "PENDING_SUBMIT"
<1>1. broker[o].st \in AtCounter /\ Named(broker[o])
  BY DEF BrokerSnapshot, TypeOK, CounterTypeOK, BrokerTypeOK, AtCounter, Live, Active, Terminal
<1>2. Report("QryOrder", o, broker[o]) \in Message
  BY <1>1, ReportType
<1>3. Report("QryOrder", o, broker[o]).status # "PENDING_SUBMIT"
  BY <1>1 DEF Report, AtCounter, Live, Active, Terminal
<1> QED BY <1>2, <1>3 DEF BrokerSnapshot

LEMMA NeverPendingStep == ASSUME TypeOK, NeverPending, [Next]_vars PROVE NeverPending'
<1>1. PICK q \in Seq(Message \cup CancelMessage), qq \in Seq(Message) : q = flow /\ qq = qflow
  BY DEF TypeOK, CounterTypeOK
<1>2. CASE Command \/ CommandStep
  <2>1. UNCHANGED <<flow, qflow, td>>
    BY <1>2 DEF Command, CommandStep, PlaceOrder, CancelByKey, CancelByIds, LoadOrderRef,
                StoreOrderRef, TakeOrderRef, ReadFrontId, ReadSessionId, CreateRow,
                ReqOrderInsert, ReadFrontIdAgain, RejectLocally, MarkCancel, ReqOrderAction,
                UnmarkCancel, brokerVars
  <2> QED BY <2>1 DEF NeverPending
<1>3. CASE Login \/ OnFrontDisconnected \/ Crash \/ UNCHANGED vars
  <2>1. /\ UNCHANGED <<flow, qflow>> \/ (flow' = <<>> /\ qflow' = <<>>)
        /\ UNCHANGED td \/ td'.pc = "idle"
    BY <1>3 DEF Login, Connect, OnRspAuthenticate, OnRspUserLogin, OnRspSettlementInfoConfirm,
                OnFrontDisconnected, Crash, TdIdle, vars, proxyVars, brokerVars
  <2> QED BY <2>1 DEF NeverPending
<1>4. CASE OnRtnOrder \/ OnRspOrderAction
  <2>1. flow # <<>> /\ flow' = Tail(q) /\ qflow' = qflow
        /\ (UNCHANGED td \/ td'.msg = Head(q))
    BY <1>1, <1>4 DEF OnRtnOrder, OnRspOrderAction, NextReport, BeginOrderPayload
  <2>2. Head(q) = q[1] /\ 1 \in DOMAIN q
        /\ \A i \in DOMAIN Tail(q) : i + 1 \in DOMAIN q /\ Tail(q)[i] = q[i + 1]
    BY <1>1, <2>1, TakenQueue
  <2> QED BY <1>1, <2>1, <2>2 DEF NeverPending
<1>5. CASE OnRspQryOrder
  <2>1. qflow # <<>> /\ qflow' = Tail(qq) /\ flow' = flow /\ td'.msg = Head(qq)
    BY <1>1, <1>5 DEF OnRspQryOrder, BeginOrderPayload
  <2>2. Head(qq) = qq[1] /\ 1 \in DOMAIN qq
        /\ \A i \in DOMAIN Tail(qq) : i + 1 \in DOMAIN qq /\ Tail(qq)[i] = qq[i + 1]
    BY <1>1, <2>1, TakenQueue
  <2> QED BY <1>1, <2>1, <2>2 DEF NeverPending
<1>6. CASE ReleaseCancel \/ UpdateAndPublish
  <2>1. UNCHANGED <<flow, qflow>> /\ (td'.pc = "idle" \/ (td.pc # "idle" /\ td'.msg = td.msg))
    BY <1>6 DEF ReleaseCancel, UpdateAndPublish, brokerVars, TypeOK, TraderTypeOK, TdIdle
  <2> QED BY <2>1 DEF NeverPending
<1>7. CASE Counter
  <2>1. UNCHANGED td
    BY <1>7 DEF Counter, AnswerInsert, AnswerCancel, BrokerAccept, BrokerReject, LoseInsert,
           BrokerProgress, BrokerSnapshot, ForeignOrder, ForeignReject, BrokerCancels,
           BrokerRefusesCancel, LoseCancel, BrokerSets, proxyVars
  <2>2. \A i \in DOMAIN flow' : flow'[i].status # "PENDING_SUBMIT"
    <3>1. PICK msgs \in Seq(Message \cup CancelMessage) :
             /\ Send(msgs) \/ UNCHANGED flow
             /\ \A j \in DOMAIN msgs : msgs[j] \in CancelMessage \/ News(msgs[j])
      BY <1>7, NewsOfCounter
    <3>2. \A j \in DOMAIN msgs : msgs[j].status # "PENDING_SUBMIT"
      BY <3>1 DEF News, CancelMessage
    <3> HIDE DEF Message, CancelMessage
    <3>3. CASE flow' = q \o msgs
      BY <1>1, <3>2, <3>3, SentQueue DEF NeverPending
    <3> QED BY <1>1, <3>1, <3>3 DEF Send, NeverPending
  <2>3. \A i \in DOMAIN qflow' : qflow'[i].status # "PENDING_SUBMIT"
    <3>1. ASSUME NEW o \in OrderIds, BrokerSnapshot(o)
          PROVE  \A i \in DOMAIN qflow' : qflow'[i].status # "PENDING_SUBMIT"
      <4>1. PICK m \in Message : qflow' = Append(qq, m) /\ m.status # "PENDING_SUBMIT"
        BY <1>1, <3>1, SnapshotSent
      <4> HIDE DEF Message, CancelMessage
      <4> QED BY <1>1, <4>1 DEF NeverPending
    <3>2. ASSUME NEW i \in DOMAIN cancels, AnswerCancel(i) PROVE UNCHANGED qflow
      BY <3>2 DEF AnswerCancel, BrokerCancels, BrokerRefusesCancel, LoseCancel
    <3>3. OrdersGoOn => UNCHANGED qflow
      BY NewsOfOrders
    <3> QED BY <1>7, <3>1, <3>2, <3>3 DEF Counter, OrdersGoOn, NeverPending
  <2> QED BY <2>1, <2>2, <2>3 DEF NeverPending
<1> QED BY <1>2, <1>3, <1>4, <1>5, <1>6, <1>7 DEF Next, TraderStep

LEMMA UpStep ==
    ASSUME Calm, StaysUp, TypeOK, IdInv, Up, [Next]_vars PROVE Up'
<1>1. ~Crash /\ ~OnFrontDisconnected
  BY DEF Crash, OnFrontDisconnected, StaysUp, TypeOK, CountTypeOK
<1>2. link = "login" => link' = "login" /\ sessions' = sessions
  <2>1. CASE Command \/ CommandStep \/ TraderStep \/ UNCHANGED vars
    BY <2>1 DEF Command, CommandStep, PlaceOrder, CancelByKey, CancelByIds, LoadOrderRef,
                StoreOrderRef, TakeOrderRef, ReadFrontId, ReadSessionId, CreateRow,
                ReqOrderInsert, ReadFrontIdAgain, RejectLocally, MarkCancel, ReqOrderAction,
                UnmarkCancel, TraderStep, OnRtnOrder, OnRspQryOrder, ReleaseCancel,
                UpdateAndPublish, OnRspOrderAction, vars, proxyVars, brokerVars
  <2>2. CASE Login
    BY <2>2 DEF Login, Connect, OnRspAuthenticate, OnRspUserLogin, OnRspSettlementInfoConfirm,
                brokerVars
  <2>3. CASE Counter
    BY <2>3 DEF Counter, AnswerInsert, AnswerCancel, BrokerAccept, BrokerReject, LoseInsert,
                BrokerProgress, BrokerSnapshot, ForeignOrder, ForeignReject, BrokerCancels,
                BrokerRefusesCancel, LoseCancel, BrokerSets, proxyVars
  <2> QED BY <1>1, <2>1, <2>2, <2>3 DEF Next
<1>3. td_ready' => td_ready \/ link = "login"
  <2>1. CASE OnRspSettlementInfoConfirm
    BY <2>1 DEF OnRspSettlementInfoConfirm
  <2>2. CASE Command \/ CommandStep \/ TraderStep \/ UNCHANGED vars
    BY <2>2 DEF Command, CommandStep, PlaceOrder, CancelByKey, CancelByIds, LoadOrderRef,
                StoreOrderRef, TakeOrderRef, ReadFrontId, ReadSessionId, CreateRow,
                ReqOrderInsert, ReadFrontIdAgain, RejectLocally, MarkCancel, ReqOrderAction,
                UnmarkCancel, TraderStep, OnRtnOrder, OnRspQryOrder, ReleaseCancel,
                UpdateAndPublish, OnRspOrderAction, vars, proxyVars, brokerVars
  <2>3. CASE Connect \/ OnRspAuthenticate \/ OnRspUserLogin
    BY <2>3 DEF Connect, OnRspAuthenticate, OnRspUserLogin
  <2>4. CASE Counter
    BY <2>4 DEF Counter, AnswerInsert, AnswerCancel, BrokerAccept, BrokerReject, LoseInsert,
                BrokerProgress, BrokerSnapshot, ForeignOrder, ForeignReject, BrokerCancels,
                BrokerRefusesCancel, LoseCancel, BrokerSets, proxyVars
  <2> QED BY <1>1, <2>1, <2>2, <2>3, <2>4 DEF Next, Login
<1>4. cmd'.pc \in PlacePCs => cmd.pc \in PlacePCs \/ td_ready
  <2>1. CASE Command
    <3>1. \A k \in Keys : /\ PlaceOrder(k) => td_ready
                          /\ CancelByKey(k) => cmd'.pc = "mark"
      BY DEF PlaceOrder, CancelByKey
    <3>2. \A ref, sess : CancelByIds(ref, sess) => cmd'.pc = "mark"
      BY DEF CancelByIds
    <3> QED BY <2>1, <3>1, <3>2 DEF Command, PlacePCs
  <2>2. CASE CommandStep
    <3>1. CASE LoadOrderRef \/ StoreOrderRef \/ TakeOrderRef \/ ReadFrontId \/ ReadSessionId
               \/ CreateRow \/ ReqOrderInsert \/ ReadFrontIdAgain \/ RejectLocally
      <4>1. cmd.pc \in PlacePCs
        BY <3>1 DEF LoadOrderRef, StoreOrderRef, TakeOrderRef, ReadFrontId, ReadSessionId,
                    CreateRow, ReqOrderInsert, ReadFrontIdAgain, RejectLocally, PlacePCs
      <4> QED BY <4>1
    <3>2. CASE MarkCancel \/ ReqOrderAction \/ UnmarkCancel
      <4>1. cmd' = Idle \/ cmd' = [cmd EXCEPT !.pc = "action"] \/ cmd' = [cmd EXCEPT !.pc = "unmark"]
        BY <3>2 DEF MarkCancel, ReqOrderAction, UnmarkCancel
      <4>2. cmd'.pc \in {"idle", "action", "unmark"}
        BY <4>1 DEF Idle, TypeOK, CommandTypeOK
      <4> QED BY <4>2 DEF PlacePCs
    <3> QED BY <2>2, <3>1, <3>2 DEF CommandStep
  <2>3. CASE TraderStep \/ Login \/ Counter \/ UNCHANGED vars
    <3>1. UNCHANGED cmd
      BY <2>3 DEF TraderStep, OnRtnOrder, OnRspQryOrder, ReleaseCancel, UpdateAndPublish,
                OnRspOrderAction, Login, Connect, OnRspAuthenticate, OnRspUserLogin,
                OnRspSettlementInfoConfirm, Counter, AnswerInsert,
                AnswerCancel, BrokerAccept, BrokerReject, LoseInsert, BrokerProgress,
                BrokerSnapshot, ForeignOrder, ForeignReject, BrokerCancels,
                BrokerRefusesCancel, LoseCancel, BrokerSets, vars, proxyVars
    <3> QED BY <3>1
  <2> QED BY <1>1, <2>1, <2>2, <2>3 DEF Next
<1>5. ASSUME NEW k \in Keys, broker'[k].st = "inflight" PROVE Sub(broker[k].sess)'
  <2>1. CASE broker[k].st = "inflight"
    <3>1. broker'[k].sess = broker[k].sess
      <4>1. k \in DOMAIN orders /\ broker[k].sess = HomeSess(k)
        BY <2>1 DEF IdInv, CounterInv, AtHome
      <4>2. RowGoesOn(k)
        BY <4>1, RowsGoOn
      <4>3. IdInv'
        BY IdStep
      <4>4. broker'[k].sess = HomeSess(k)'
        BY <1>5, <4>3 DEF IdInv, CounterInv, AtHome
      <4>5. HomeSess(k)' = HomeSess(k)
        <5>1. k \notin LegacyKeys => orders[k].sess # Null
          BY <4>1, RegistryAssumption
             DEF HomeSess, IdInv, RegistryInv, RowsKnown, TypeOK, SessionTypeOK
        <5> QED BY <4>2, <5>1 DEF HomeSess, RowGoesOn
      <4> QED BY <4>1, <4>4, <4>5
    <3> QED BY <1>2, <2>1, <3>1 DEF Up, Sub
  <2>2. CASE broker[k].st # "inflight"
    <3>1. ReqOrderInsert /\ cmd.key = k /\ broker[k].st = "none"
      BY <1>5, <2>2, OrdersAtCounter DEF OrderGoesOn, Progress, Live, Active
    <3>2. /\ link = "login"
          /\ broker' = [broker EXCEPT ![k] = [st |-> "inflight", ref |-> cmd.ref, sess |-> spi.sess]]
      BY <1>5, <3>1 DEF ReqOrderInsert
    <3>3. broker'[k].sess = spi.sess
      BY <3>2 DEF TypeOK, CounterTypeOK, BrokerTypeOK, OrderIds
    <3> QED BY <1>2, <3>2, <3>3 DEF Sub, IdInv, ThreadInv, Current
  <2> QED BY <2>1, <2>2
<1> QED BY <1>2, <1>3, <1>4, <1>5 DEF Up

\* update_ctp settles the row that a report is about, and the one ReqOrderInsert refused.
LEMMA RowSettled ==
    ASSUME Calm, TypeOK, IdInv, NEW k \in DOMAIN orders
    PROVE  /\ UpdateAndPublish /\ td.msg.order = k => orders'[k].status = td.msg.status
           /\ RejectLocally /\ cmd.key = k => orders'[k].status = "REJECTED"
<1>1. RegistryInv
  BY DEF IdInv
<1>2. ASSUME UpdateAndPublish, td.msg.order = k PROVE orders'[k].status = td.msg.status
  <2>1. PICK sys, status : sys = td.msg.sys /\ status = td.msg.status
    OBVIOUS
  <2>2. /\ UNCHANGED sessions /\ sys \in {Null, k}
        /\ td.msg.ref = broker[k].ref /\ td.sess = broker[k].sess /\ broker[k].st # "none"
    BY <1>2, <2>1 DEF UpdateAndPublish, brokerVars, IdInv, ReportInv, InHand, Truthful
  <2>3. td.msg.ref = HomeRef(k) /\ td.sess = HomeSess(k)
    BY <2>2 DEF IdInv, CounterInv, AtHome, TypeOK, RegistryTypeOK
  <2>4. UpdateCtp(HomeRef(k), HomeSess(k), sys, status)
    BY <1>2, <2>1, <2>3 DEF UpdateAndPublish
  <2>5. orders'[k] = [status |-> status, sess |-> HomeSess(k), ref |-> orders[k].ref, sys |-> sys]
    BY <1>1, <2>2, <2>4, RowWritten
  <2> QED BY <2>1, <2>5
<1>3. ASSUME RejectLocally, cmd.key = k PROVE orders'[k].status = "REJECTED"
  <2>1. /\ UNCHANGED sessions /\ Null \in {Null, k}
        /\ UpdateCtp(HomeRef(k), HomeSess(k), Null, "REJECTED")
    BY <1>3, OnePair DEF RejectLocally, brokerVars, IdInv, ThreadInv, Placing
  <2>2. orders'[k] = [status |-> "REJECTED", sess |-> HomeSess(k), ref |-> orders[k].ref,
                      sys |-> Null]
    BY <1>1, <2>1, RowWritten
  <2> QED BY <2>2
<1> QED BY <1>2, <1>3

\* Only CreateRow makes a row, and ReqOrderInsert is next.
LEMMA RowIsNew ==
    ASSUME TypeOK, [Next]_vars, NEW k \in DOMAIN orders', k \notin DOMAIN orders
    PROVE  cmd'.pc = "insert" /\ cmd'.key = k
<1>1. ~UNCHANGED orders
  OBVIOUS
<1>2. CASE CreateRow
  <2>1. cmd.key = k /\ cmd' = [cmd EXCEPT !.pc = "insert"]
    BY <1>1, <1>2 DEF CreateRow, Create, Put, registryVars
  <2> QED BY <2>1 DEF TypeOK, CommandTypeOK
<1>3. ~UpdateAndPublish /\ ~RejectLocally
  <2>1. ASSUME NEW ref, NEW sess, NEW sys, NEW status, UpdateCtp(ref, sess, sys, status)
        PROVE  DOMAIN orders' = DOMAIN orders
    <3>1. UpdateTarget(ref, sess) \subseteq DOMAIN orders
      BY DEF UpdateTarget, Latest, BySession, ByLegacyRef
    <3> QED BY <2>1, <3>1 DEF UpdateCtp, Put, registryVars
  <2> QED BY <2>1 DEF UpdateAndPublish, RejectLocally
<1>4. ~Command /\ ~Login /\ ~OnFrontDisconnected /\ ~Crash /\ ~UNCHANGED vars
      /\ ~(CommandStep /\ ~CreateRow) /\ ~TraderStep
  BY <1>1, <1>3 DEF Command, PlaceOrder, CancelByKey, CancelByIds, Login, Connect,
        OnRspAuthenticate, OnRspUserLogin, OnRspSettlementInfoConfirm, OnFrontDisconnected,
        Crash, vars, CommandStep, LoadOrderRef, StoreOrderRef, TakeOrderRef, ReadFrontId,
        ReadSessionId, ReqOrderInsert, ReadFrontIdAgain, MarkCancel, ReqOrderAction, UnmarkCancel,
        TraderStep, OnRtnOrder, OnRspQryOrder, ReleaseCancel,
        OnRspOrderAction, registryVars
<1>5. ~Counter
  BY <1>1 DEF Counter, AnswerInsert, AnswerCancel, BrokerAccept, BrokerReject, LoseInsert,
        BrokerProgress, BrokerSnapshot, ForeignOrder, ForeignReject, BrokerCancels,
        BrokerRefusesCancel, LoseCancel, BrokerSets, registryVars
<1> QED BY <1>2, <1>4, <1>5 DEF Next

\* The answer to ReqOrderInsert reaches the queue of the session that sent it.
LEMMA AnswerSent ==
    ASSUME TypeOK, Up, NEW k \in Keys, AnswerInsert(k)
    PROVE  \E j \in DOMAIN flow' : flow'[j].order = k
<1>1. PICK q \in Seq(Message \cup CancelMessage) : q = flow
  BY DEF TypeOK, CounterTypeOK
<1>2. Sub(broker[k].sess) /\ link = "login" /\ k \in OrderIds /\ Named(broker[k])
      /\ broker[k] \in BrokerOrder
  BY DEF AnswerInsert, BrokerAccept, BrokerReject, LoseInsert, Up, Sub, OrderIds, TypeOK,
         CounterTypeOK, BrokerTypeOK
<1>3. ASSUME NEW msgs \in Seq(Message \cup CancelMessage), Send(msgs),
             1 \in DOMAIN msgs, msgs[1].order = k
      PROVE  \E j \in DOMAIN flow' : flow'[j].order = k
  <2> HIDE DEF Message, CancelMessage
  <2> QED BY <1>1, <1>2, <1>3, SentQueue DEF Send
<1>4. CASE BrokerAccept(k)
  <2>1. PICK b : b = [broker[k] EXCEPT !.st = "UNKNOWN"]
    OBVIOUS
  <2>2. Named(b) /\ b.st \in AtCounter
    BY <1>2, <2>1 DEF BrokerOrder, Named, AtCounter, Live
  <2>3. PICK m \in Message : m = Report("RtnOrder", k, b)
    BY <1>2, <2>2, ReportType
  <2>4. m.order = k /\ Send(<<m>>)
    BY <1>4, <2>1, <2>3 DEF BrokerAccept, BrokerSets, Report
  <2>5. <<m>> \in Seq(Message \cup CancelMessage) /\ 1 \in DOMAIN <<m>> /\ <<m>>[1] = m
    OBVIOUS
  <2> QED BY <1>3, <2>4, <2>5
<1>5. CASE BrokerReject(k)
  <2>1. PICK kinds \in {<<"RspOrderInsert">>, <<"RspOrderInsert", "ErrRtnOrderInsert">>} :
           Send([i \in 1..Len(kinds) |-> InputOrder(kinds[i], k, broker[k].ref)])
    BY <1>2, <1>5 DEF BrokerReject
  <2>2. PICK msgs : msgs = [i \in 1..Len(kinds) |-> InputOrder(kinds[i], k, broker[k].ref)]
    OBVIOUS
  <2>3. \A kind \in {"RspOrderInsert", "ErrRtnOrderInsert"} :
           /\ InputOrder(kind, k, broker[k].ref) \in Message
           /\ InputOrder(kind, k, broker[k].ref).order = k
    BY <1>2, InputOrderType DEF Named, InputOrder
  <2>4. msgs \in Seq(Message) /\ 1 \in DOMAIN msgs /\ msgs[1].order = k
    <3>1. msgs \in Seq(Message)
      BY <2>1, <2>2, <2>3
    <3>2. 1 \in 1..Len(kinds) /\ kinds[1] = "RspOrderInsert"
      BY <2>1
    <3>3. 1 \in DOMAIN msgs /\ msgs[1] = InputOrder("RspOrderInsert", k, broker[k].ref)
      BY <2>2, <3>2
    <3> QED BY <2>3, <3>1, <3>3
  <2>5. msgs \in Seq(Message \cup CancelMessage)
    BY <2>4
  <2> QED BY <1>3, <2>1, <2>2, <2>4, <2>5
<1> QED BY <1>2, <1>4, <1>5 DEF AnswerInsert, LoseInsert

LEMMA StillAwaited ==
    ASSUME Calm, StaysUp, TypeOK, IdInv, AwaitInv, [Next]_vars
    PROVE  PendingSubmitIsAwaited'
<1> DEFINE InCommand == cmd.pc \in {"insert", "reject", "reject_session"}
<1> SUFFICES ASSUME NEW k \in DOMAIN orders', orders'[k].status = "PENDING_SUBMIT"
             PROVE  \/ InCommand' /\ cmd'.key = k
                    \/ broker'[k].st = "inflight"
                    \/ \E i \in DOMAIN flow' : flow'[i].order = k
                    \/ Hand(k)'
  BY DEF PendingSubmitIsAwaited, Hand
<1>1. ~Crash /\ ~OnFrontDisconnected
  BY DEF Crash, OnFrontDisconnected, StaysUp, TypeOK, CountTypeOK
<1>2. k \in Keys /\ k # Null
  BY NextType, RegistryAssumption DEF TypeOK, RegistryTypeOK
<1>3. CASE k \notin DOMAIN orders
  BY <1>3, RowIsNew
<1>4. ASSUME k \in DOMAIN orders
      PROVE  /\ orders[k].status = "PENDING_SUBMIT"
             /\ ~(UpdateAndPublish /\ Hand(k)) /\ ~(RejectLocally /\ cmd.key = k)
  <2>1. ~(UpdateAndPublish /\ Hand(k))
    BY <1>4, RowSettled DEF Hand, AwaitInv, NeverPending
  <2>2. ~(RejectLocally /\ cmd.key = k)
    BY <1>4, RowSettled
  <2>3. RowGoesOn(k)
    BY <1>4, RowsGoOn
  <2> QED BY <2>1, <2>2, <2>3 DEF RowGoesOn, UpdateAndPublish, Hand
<1>5. ASSUME k \in DOMAIN orders, InCommand, cmd.key = k
      PROVE  (InCommand' /\ cmd'.key = k) \/ broker'[k].st = "inflight"
  <2>1. CASE UNCHANGED cmd
    BY <1>5, <2>1
  <2>2. CASE ReqOrderInsert
    <3>1. \/ broker' = [broker EXCEPT ![k] = [st |-> "inflight", ref |-> cmd.ref, sess |-> spi.sess]]
          \/ cmd' = [cmd EXCEPT !.pc = "reject"]
      BY <1>5, <2>2 DEF ReqOrderInsert
    <3> QED BY <1>2, <1>5, <3>1 DEF TypeOK, CommandTypeOK, CounterTypeOK, BrokerTypeOK, OrderIds
  <2>3. ~RejectLocally
    BY <1>4, <1>5
  <2>4. ~Command /\ ~(CommandStep /\ ~ReqOrderInsert /\ ~ReadFrontIdAgain /\ ~RejectLocally)
    BY <1>5 DEF Command, PlaceOrder, CancelByKey, CancelByIds, CanCommand, CommandStep,
                LoadOrderRef, StoreOrderRef, TakeOrderRef, ReadFrontId, ReadSessionId, CreateRow,
                MarkCancel, ReqOrderAction, UnmarkCancel
  <2>6. CASE ReadFrontIdAgain
    BY <1>5, <2>6 DEF ReadFrontIdAgain, TypeOK, CommandTypeOK
  <2>5. TraderStep \/ Login \/ Counter \/ UNCHANGED vars => UNCHANGED cmd
    BY DEF TraderStep, OnRtnOrder, OnRspQryOrder, ReleaseCancel, UpdateAndPublish,
           OnRspOrderAction, Login, Connect, OnRspAuthenticate, OnRspUserLogin,
           OnRspSettlementInfoConfirm, Counter, AnswerInsert, AnswerCancel, BrokerAccept,
           BrokerReject, LoseInsert, BrokerProgress, BrokerSnapshot, ForeignOrder,
           ForeignReject, BrokerCancels, BrokerRefusesCancel, LoseCancel, BrokerSets, vars,
           proxyVars
  <2> QED BY <1>1, <2>1, <2>2, <2>3, <2>4, <2>5, <2>6 DEF Next
<1>6. ASSUME broker[k].st = "inflight"
      PROVE  broker'[k].st = "inflight" \/ \E i \in DOMAIN flow' : flow'[i].order = k
  <2>1. CASE AnswerInsert(k)
    BY <1>2, <2>1, AnswerSent DEF AwaitInv
  <2>2. OrderGoesOn(k)
    BY <1>2, OrdersAtCounter
  <2> QED BY <1>6, <2>1, <2>2 DEF OrderGoesOn, Live, Active
<1>7. ASSUME NEW i \in DOMAIN flow, flow[i].order = k
      PROVE  Hand(k)' \/ \E j \in DOMAIN flow' : flow'[j].order = k
  <2>1. PICK q \in Seq(Message \cup CancelMessage) : q = flow
    BY DEF TypeOK, CounterTypeOK
  <2>2. CASE UNCHANGED flow
    BY <1>7, <2>2
  <2>3. CASE OnRtnOrder \/ OnRspOrderAction
    <3>1. Taken /\ flow' = Tail(q)
      BY <2>1, <2>3 DEF OnRtnOrder, OnRspOrderAction, NextReport, Taken
    <3>2. /\ 1 \in DOMAIN q /\ Head(q) = q[1]
          /\ i = 1 \/ (i - 1 \in DOMAIN Tail(q) /\ Tail(q)[i - 1] = q[i])
      <4> HIDE DEF Message, CancelMessage
      <4> QED BY <1>7, <2>1, <3>1, TakenQueue DEF Taken
    <3>3. CASE i = 1 /\ OnRtnOrder
      BY <1>7, <2>1, <3>2, <3>3 DEF OnRtnOrder, BeginOrderPayload, Hand
    <3>4. CASE i = 1 /\ OnRspOrderAction
      <4>1. q[1].kind \in {"RspOrderAction", "ErrRtnOrderAction"}
        BY <2>1, <3>2, <3>4 DEF OnRspOrderAction, NextReport
      <4>2. q[1] \in Message \cup CancelMessage
        BY <3>2
      <4>3. q[1].order = Null
        BY <4>1, <4>2 DEF Message, CancelMessage
      <4> QED BY <1>2, <1>7, <2>1, <3>4, <4>3
    <3> QED BY <1>7, <2>1, <2>3, <3>1, <3>2, <3>3, <3>4
  <2>4. CASE Counter
    <3>1. PICK msgs \in Seq(Message \cup CancelMessage) : Send(msgs) \/ UNCHANGED flow
      BY <2>4, NewsOfCounter
    <3> HIDE DEF Message, CancelMessage
    <3>2. CASE flow' = q \o msgs
      BY <1>7, <2>1, <3>2, SentQueue
    <3> QED BY <2>1, <2>2, <3>1, <3>2 DEF Send
  <2>5. Command \/ CommandStep \/ Login \/ OnRspQryOrder \/ ReleaseCancel \/ UpdateAndPublish
        \/ UNCHANGED vars => UNCHANGED flow
    BY DEF Command, CommandStep, PlaceOrder, CancelByKey, CancelByIds, LoadOrderRef,
           StoreOrderRef, TakeOrderRef, ReadFrontId, ReadSessionId, CreateRow, ReqOrderInsert,
           ReadFrontIdAgain, RejectLocally, MarkCancel, ReqOrderAction, UnmarkCancel, Login,
           Connect, OnRspAuthenticate, OnRspUserLogin, OnRspSettlementInfoConfirm,
           OnRspQryOrder, ReleaseCancel, UpdateAndPublish, vars, brokerVars
  <2> QED BY <1>1, <2>2, <2>3, <2>4, <2>5 DEF Next, TraderStep
<1>8. ASSUME k \in DOMAIN orders, Hand(k) PROVE Hand(k)'
  <2>1. ~UpdateAndPublish
    BY <1>4, <1>8
  <2>2. CASE ReleaseCancel
    BY <1>8, <2>2 DEF ReleaseCancel, Hand, TypeOK, TraderTypeOK, TdIdle
  <2>3. CASE OnRspOrderAction
    BY <1>8, <2>3 DEF OnRspOrderAction, Hand
  <2>4. ~OnRtnOrder /\ ~OnRspQryOrder
    BY <1>8 DEF OnRtnOrder, NextReport, OnRspQryOrder, Hand
  <2>5. Command \/ CommandStep \/ Login \/ Counter \/ UNCHANGED vars => UNCHANGED td
    BY DEF Command, CommandStep, PlaceOrder, CancelByKey, CancelByIds, LoadOrderRef,
           StoreOrderRef, TakeOrderRef, ReadFrontId, ReadSessionId, CreateRow, ReqOrderInsert,
           ReadFrontIdAgain, RejectLocally, MarkCancel, ReqOrderAction, UnmarkCancel, Login,
           Connect, OnRspAuthenticate, OnRspUserLogin, OnRspSettlementInfoConfirm, Counter,
           AnswerInsert, AnswerCancel, BrokerAccept, BrokerReject, LoseInsert, BrokerProgress,
           BrokerSnapshot, ForeignOrder, ForeignReject, BrokerCancels, BrokerRefusesCancel,
           LoseCancel, BrokerSets, vars, proxyVars
  <2> QED BY <1>1, <1>8, <2>1, <2>2, <2>3, <2>4, <2>5 DEF Next, TraderStep, Hand
<1>9. CASE k \in DOMAIN orders
  <2>1. \/ InCommand /\ cmd.key = k
        \/ broker[k].st = "inflight"
        \/ \E i \in DOMAIN flow : flow[i].order = k
        \/ Hand(k)
    BY <1>4, <1>9 DEF AwaitInv, PendingSubmitIsAwaited, Hand
  <2> HIDE DEF InCommand
  <2> QED BY <1>5, <1>6, <1>7, <1>8, <1>9, <2>1
<1> QED BY <1>3, <1>9

\* A row does not say PENDING_SUBMIT for nothing: for any number of orders, reports of
\* other terminals and delayed answers to queries, its order is being sent, refused or
\* answered, or the trader thread has the answer.
THEOREM PendingSubmitAwaitsAnswer ==
    ASSUME Calm, StaysUp PROVE Spec => []PendingSubmitIsAwaited
<1>1. TypeOK /\ IdInv /\ AwaitInv /\ [Next]_vars => AwaitInv'
  BY NeverPendingStep, UpStep, StillAwaited DEF AwaitInv
<1>2. AwaitInv => PendingSubmitIsAwaited
  BY DEF AwaitInv
<1> QED BY <1>1, <1>2, AwaitInit, TypeCorrect, IdAlways, PTL DEF Spec
=============================================================================
