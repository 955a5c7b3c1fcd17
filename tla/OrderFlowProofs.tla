-------------------------- MODULE OrderFlowProofs --------------------------
(***************************************************************************)
(* Proofs about OrderFlow for every set of order keys, every number of     *)
(* sessions, references, cancels and crashes, and every Env.               *)
(*                                                                         *)
(* TypeOK is inductive by itself: it is a conjunction of one part for each *)
(* group of variables, a Keep... lemma says that a part survives a step    *)
(* that leaves its variables alone, and each action has a lemma of its own.*)
(* InsertOnce is not inductive: the row must be known to exist, and the    *)
(* call not to have been made, already while place_order waits to call     *)
(* ReqOrderInsert.  InsertInv says so; StepEffect sums up what any step    *)
(* can do to the rows and the calls.                                       *)
(***************************************************************************)
EXTENDS OrderFlow, OrderRegistryProofs, TLAPS

LEMMA BrokerType ==
    ASSUME BrokerTypeOK, NEW o \in OrderIds, NEW b \in BrokerOrder, Named(b),
           broker' = [broker EXCEPT ![o] = b]
    PROVE  BrokerTypeOK'
BY DEF BrokerTypeOK, Named

LEMMA InitType == Init => TypeOK
<1> SUFFICES ASSUME Init PROVE TypeOK
  OBVIOUS
<1> USE RegistryAssumption, FlowAssumption
<1>1. RegistryTypeOK
  BY DEF Init, RegistryTypeOK, Row, Status, Active, LegacyRow
<1>2. CommandTypeOK
  BY DEF Init, CommandTypeOK, Idle, PlacePCs
<1>3. SessionTypeOK
  <2>1. td_ready \in BOOLEAN
    BY Zenon DEF Init
  <2>2. sessions \in 0..(MaxSession - 1)
    BY DEF Init
  <2>3. spi \in [ref : 0..MaxRef, sess : 0..MaxSession]
    BY DEF Init
  <2>4. ~td_ready
    BY Zenon DEF Init
  <2>5. link = "none" /\ cmd.pc \notin PlacePCs /\ cmd.pc # "load_ref"
    BY DEF Init, Idle, PlacePCs
  <2> QED BY <2>1, <2>2, <2>3, <2>4, <2>5 DEF SessionTypeOK
<1>4. CounterTypeOK
  BY DEF Init, CounterTypeOK, BrokerTypeOK, BrokerOrder, Named, NoOrder, LegacyOrder, AtCounter,
         Live, Active, Terminal
<1>5. TraderTypeOK /\ CancelTypeOK /\ CountTypeOK
  BY DEF Init, TraderTypeOK, CancelTypeOK, CountTypeOK
<1> QED BY <1>1, <1>2, <1>3, <1>4, <1>5 DEF TypeOK

LEMMA KeepRegistry == RegistryTypeOK /\ UNCHANGED registryVars => RegistryTypeOK'
BY DEF RegistryTypeOK, registryVars

LEMMA KeepCommand == CommandTypeOK /\ UNCHANGED <<cmd, spi>> => CommandTypeOK'
BY DEF CommandTypeOK

LEMMA KeepSession ==
    SessionTypeOK /\ UNCHANGED <<link, td_ready, spi, sessions, cmd>> => SessionTypeOK'
BY DEF SessionTypeOK

LEMMA KeepBroker == BrokerTypeOK /\ UNCHANGED broker => BrokerTypeOK'
BY DEF BrokerTypeOK

LEMMA KeepCounter == CounterTypeOK /\ UNCHANGED <<brokerVars, link>> => CounterTypeOK'
BY KeepBroker DEF CounterTypeOK, brokerVars

LEMMA KeepTrader == TraderTypeOK /\ UNCHANGED td => TraderTypeOK'
BY DEF TraderTypeOK

LEMMA KeepCancels == CancelTypeOK /\ UNCHANGED pending_cancels => CancelTypeOK'
BY DEF CancelTypeOK

LEMMA KeepCounts == CountTypeOK /\ UNCHANGED countVars => CountTypeOK'
BY DEF CountTypeOK, countVars

\* The parts of TypeOK about variables that an action leaves alone are kept.
LEMMA Frame ==
    ASSUME TypeOK
    PROVE  /\ UNCHANGED registryVars => RegistryTypeOK'
           /\ UNCHANGED <<cmd, spi>> => CommandTypeOK'
           /\ UNCHANGED <<link, td_ready, spi, sessions, cmd>> => SessionTypeOK'
           /\ UNCHANGED <<brokerVars, link>> => CounterTypeOK'
           /\ UNCHANGED td => TraderTypeOK'
           /\ UNCHANGED pending_cancels => CancelTypeOK'
           /\ UNCHANGED countVars => CountTypeOK'
BY KeepRegistry, KeepCommand, KeepSession, KeepCounter, KeepTrader, KeepCancels,
   KeepCounts DEF TypeOK

LEMMA ConnectType == ASSUME TypeOK, Connect PROVE TypeOK'
<1>1. CommandTypeOK'
  BY RegistryAssumption DEF Connect, TypeOK, CommandTypeOK, SessionTypeOK
<1>2. SessionTypeOK'
  BY RegistryAssumption DEF Connect, TypeOK, SessionTypeOK, brokerVars
<1>3. CounterTypeOK'
  BY KeepBroker DEF Connect, TypeOK, CounterTypeOK, brokerVars
<1> QED BY <1>1, <1>2, <1>3, Frame DEF Connect, TypeOK

LEMMA AuthenticateType == ASSUME TypeOK, OnRspAuthenticate PROVE TypeOK'
<1>1. SessionTypeOK'
  BY DEF OnRspAuthenticate, TypeOK, SessionTypeOK, brokerVars
<1>2. CounterTypeOK'
  BY KeepBroker DEF OnRspAuthenticate, TypeOK, CounterTypeOK, brokerVars
<1> QED BY <1>1, <1>2, Frame DEF OnRspAuthenticate, TypeOK

LEMMA LoginType == ASSUME TypeOK, OnRspUserLogin PROVE TypeOK'
<1> USE RegistryAssumption, FlowAssumption
<1>1. PICK base \in RefBases : spi' = [ref |-> base, sess |-> sessions + 1]
  BY DEF OnRspUserLogin
<1>2. base \in 0..(MaxRef - 1) /\ sessions + 1 \in 1..(MaxSession - 2)
  BY DEF OnRspUserLogin, OurSessions
<1>3. CommandTypeOK'
  BY <1>1, <1>2 DEF OnRspUserLogin, TypeOK, CommandTypeOK
<1>4. SessionTypeOK'
  BY <1>1, <1>2 DEF OnRspUserLogin, TypeOK, SessionTypeOK
<1>5. CounterTypeOK'
  BY KeepBroker DEF OnRspUserLogin, TypeOK, CounterTypeOK
<1> QED BY <1>3, <1>4, <1>5, Frame DEF OnRspUserLogin, TypeOK

LEMMA ConfirmType == ASSUME TypeOK, OnRspSettlementInfoConfirm PROVE TypeOK'
<1>1. SessionTypeOK'
  BY DEF OnRspSettlementInfoConfirm, TypeOK, SessionTypeOK, brokerVars
<1> QED BY <1>1, Frame DEF OnRspSettlementInfoConfirm, TypeOK

LEMMA DisconnectType == ASSUME TypeOK, OnFrontDisconnected PROVE TypeOK'
<1>1. ~td_ready' /\ td_ready' \in BOOLEAN
  BY Zenon DEF OnFrontDisconnected
<1>2. SessionTypeOK'
  BY <1>1 DEF OnFrontDisconnected, TypeOK, SessionTypeOK
<1>3. CounterTypeOK'
  BY KeepBroker DEF OnFrontDisconnected, TypeOK, CounterTypeOK
<1> QED BY <1>2, <1>3, Frame DEF OnFrontDisconnected, TypeOK

LEMMA CrashType == ASSUME TypeOK, Crash PROVE TypeOK'
<1> USE RegistryAssumption
<1>1. ~td_ready' /\ td_ready' \in BOOLEAN
  BY Zenon DEF Crash
<1>2. CommandTypeOK'
  BY DEF Crash, CommandTypeOK, Idle, PlacePCs
<1>3. SessionTypeOK'
  BY <1>1 DEF Crash, TypeOK, SessionTypeOK, Idle, PlacePCs
<1>4. CounterTypeOK'
  BY KeepBroker DEF Crash, TypeOK, CounterTypeOK
<1>5. TraderTypeOK' /\ CancelTypeOK'
  BY DEF Crash, TraderTypeOK, CancelTypeOK
<1>6. CountTypeOK'
  BY DEF Crash, TypeOK, CountTypeOK
<1> QED BY <1>2, <1>3, <1>4, <1>5, <1>6, Frame DEF Crash, TypeOK

\* The session pairs place_order can read while it runs are pairs of sessions.
LEMMA PairsType ==
    ASSUME TypeOK, cmd.pc \in PlacePCs
    PROVE  /\ spi.sess \in 1..MaxSession
           /\ \A first : SessionPairs(first) \subseteq 1..MaxSession
<1>1. spi.sess \in 1..MaxSession
  BY DEF TypeOK, SessionTypeOK
<1> QED BY <1>1, FlowAssumption, RegistryAssumption DEF SessionPairs, TornSess

LEMMA PlaceType ==
    ASSUME TypeOK,
           \/ \E k \in Keys : PlaceOrder(k)
           \/ LoadOrderRef \/ StoreOrderRef \/ TakeOrderRef
           \/ ReadFrontId \/ ReadSessionId \/ CreateRow
           \/ ReqOrderInsert \/ ReadFrontIdAgain \/ RejectLocally
    PROVE  TypeOK'
<1> USE RegistryAssumption, FlowAssumption
<1> USE DEF TypeOK, Idle, PlacePCs
<1>1. ASSUME NEW k \in Keys, PlaceOrder(k) PROVE TypeOK'
  <2>1. CommandTypeOK'
    <3>1. cmd' = [pc |-> "load_ref", key |-> k, ref |-> 0, sess |-> 0] /\ spi' = spi
      BY <1>1 DEF PlaceOrder
    <3> QED BY <3>1 DEF CommandTypeOK
  <2>2. SessionTypeOK'
    BY <1>1 DEF PlaceOrder, SessionTypeOK, brokerVars
  <2> QED BY <1>1, <2>1, <2>2, Frame DEF PlaceOrder
<1>2. CASE LoadOrderRef
  <2>1. spi.ref + 1 \in 0..MaxRef
    BY <1>2 DEF LoadOrderRef, CommandTypeOK, SessionTypeOK
  <2>2. CommandTypeOK'
    BY <1>2, <2>1 DEF LoadOrderRef, CommandTypeOK
  <2>3. SessionTypeOK'
    BY <1>2 DEF LoadOrderRef, SessionTypeOK, CommandTypeOK, brokerVars
  <2> QED BY <1>2, <2>2, <2>3, Frame DEF LoadOrderRef
<1>3. CASE StoreOrderRef
  <2>1. CommandTypeOK'
    BY <1>3 DEF StoreOrderRef, CommandTypeOK
  <2>2. SessionTypeOK'
    BY <1>3 DEF StoreOrderRef, SessionTypeOK, CommandTypeOK, brokerVars
  <2> QED BY <1>3, <2>1, <2>2, Frame DEF StoreOrderRef
<1>7. CASE TakeOrderRef
  <2>1. CommandTypeOK'
    BY <1>7 DEF TakeOrderRef, CommandTypeOK, SessionTypeOK
  <2>2. SessionTypeOK'
    BY <1>7 DEF TakeOrderRef, SessionTypeOK, CommandTypeOK, brokerVars
  <2> QED BY <1>7, <2>1, <2>2, Frame DEF TakeOrderRef
<1>8. CASE ReadFrontId \/ ReadFrontIdAgain
  <2>1. CommandTypeOK'
    <3>1. spi.sess \in 1..MaxSession /\ cmd.key \in Keys
      BY <1>8, PairsType DEF ReadFrontId, ReadFrontIdAgain, CommandTypeOK
    <3>2. cmd'.pc \in {"read_session", "reject_session"} /\ cmd'.key = cmd.key
          /\ cmd'.sess = spi.sess
      BY <1>8 DEF ReadFrontId, ReadFrontIdAgain, CommandTypeOK
    <3>3. cmd' \in [pc : PlacePCs, key : Keys, ref : 0..MaxRef, sess : 1..MaxSession]
      BY <1>8, <3>1 DEF ReadFrontId, ReadFrontIdAgain, CommandTypeOK
    <3> QED BY <3>1, <3>2, <3>3 DEF CommandTypeOK
  <2>2. SessionTypeOK'
    BY <1>8 DEF ReadFrontId, ReadFrontIdAgain, SessionTypeOK, CommandTypeOK, brokerVars
  <2> QED BY <1>8, <2>1, <2>2, Frame DEF ReadFrontId, ReadFrontIdAgain
<1>9. CASE ReadSessionId
  <2>1. PICK sess \in SessionPairs(cmd.sess) : cmd' = [cmd EXCEPT !.pc = "create", !.sess = sess]
    BY <1>9 DEF ReadSessionId
  <2>2. sess \in 1..MaxSession
    BY <1>9, <2>1, PairsType DEF ReadSessionId
  <2>3. CommandTypeOK'
    <3>1. cmd' = [pc |-> "create", key |-> cmd.key, ref |-> cmd.ref, sess |-> sess]
          /\ cmd.key \in Keys /\ cmd.ref \in 0..MaxRef
      BY <1>9, <2>1 DEF ReadSessionId, CommandTypeOK
    <3> QED BY <2>2, <3>1 DEF CommandTypeOK
  <2>4. SessionTypeOK'
    BY <1>9, <2>1 DEF ReadSessionId, SessionTypeOK, CommandTypeOK, brokerVars
  <2> QED BY <1>9, <2>3, <2>4, Frame DEF ReadSessionId
<1>4. CASE CreateRow
  <2>1. CommandTypeOK'
    BY <1>4 DEF CreateRow, CommandTypeOK
  <2>2. SessionTypeOK'
    BY <1>4 DEF CreateRow, SessionTypeOK, CommandTypeOK, brokerVars
  <2>3. cmd.key \in Keys /\ cmd.ref \in 0..MaxRef /\ cmd.sess \in 1..MaxSession
    BY <1>4 DEF CreateRow, CommandTypeOK
  <2>4. RegistryTypeOK'
    BY <1>4, <2>3, CreateType, Frame DEF CreateRow
  <2> QED BY <1>4, <2>1, <2>2, <2>4, Frame DEF CreateRow
<1>5. CASE ReqOrderInsert
  <2>1. CommandTypeOK'
    BY <1>5 DEF ReqOrderInsert, CommandTypeOK
  <2>2. SessionTypeOK'
    BY <1>5 DEF ReqOrderInsert, SessionTypeOK, CommandTypeOK
  <2>3. cmd.key \in Keys /\ cmd.ref \in 0..MaxRef
    BY <1>5 DEF ReqOrderInsert, CommandTypeOK
  <2>4. CountTypeOK'
    BY <1>5, <2>3 DEF ReqOrderInsert, CountTypeOK
  <2>5. CounterTypeOK'
    <3>1. CASE UNCHANGED broker
      BY <1>5, <3>1, KeepBroker DEF ReqOrderInsert, CounterTypeOK
    <3>2. CASE /\ link = "login"
               /\ broker' = [broker EXCEPT ![cmd.key] =
                               [st |-> "inflight", ref |-> cmd.ref, sess |-> spi.sess]]
      <4>1. spi.sess \in 1..MaxSession
        BY <3>2 DEF SessionTypeOK
      <4>2. BrokerTypeOK'
        <5> DEFINE b == [st |-> "inflight", ref |-> cmd.ref, sess |-> spi.sess]
        <5>1. b \in BrokerOrder /\ Named(b)
          BY <2>3, <4>1 DEF BrokerOrder, Named
        <5> HIDE DEF b
        <5>2. cmd.key \in OrderIds
          BY <2>3 DEF OrderIds
        <5>3. broker' = [broker EXCEPT ![cmd.key] = b]
          BY <3>2 DEF b
        <5> QED BY <5>1, <5>2, <5>3, BrokerType DEF CounterTypeOK
      <4> QED BY <1>5, <4>2 DEF ReqOrderInsert, CounterTypeOK
    <3> QED BY <1>5, <3>1, <3>2 DEF ReqOrderInsert
  <2> QED BY <1>5, <2>1, <2>2, <2>4, <2>5, Frame DEF ReqOrderInsert
<1>6. CASE RejectLocally
  <2>1. CommandTypeOK'
    BY <1>6 DEF RejectLocally, CommandTypeOK
  <2>2. SessionTypeOK'
    BY <1>6 DEF RejectLocally, SessionTypeOK, CommandTypeOK, brokerVars
  <2>3. PICK sess \in SessionPairs(cmd.sess) : UpdateCtp(cmd.ref, sess, Null, "REJECTED")
    BY <1>6 DEF RejectLocally
  <2>4. sess \in 1..MaxSession
    BY <1>6, <2>3, PairsType DEF RejectLocally
  <2>5. RegistryTypeOK'
    BY <2>3, <2>4, UpdateType DEF Status, Terminal
  <2> QED BY <1>6, <2>1, <2>2, <2>5, Frame DEF RejectLocally
<1> QED BY <1>1, <1>2, <1>3, <1>4, <1>5, <1>6, <1>7, <1>8, <1>9

LEMMA CancelType ==
    ASSUME TypeOK,
           \/ \E k \in Keys : CancelByKey(k)
           \/ \E ref \in 1..MaxRef, sess \in 1..MaxSession : CancelByIds(ref, sess)
           \/ MarkCancel \/ ReqOrderAction \/ UnmarkCancel
    PROVE  TypeOK'
<1> USE RegistryAssumption, FlowAssumption
<1> USE DEF TypeOK, Idle, PlacePCs
<1>1. ASSUME NEW k \in Keys, CancelByKey(k) PROVE TypeOK'
  <2>1. orders[k].ref \in 0..MaxRef /\ orders[k].sess \in 1..MaxSession
    BY <1>1 DEF CancelByKey, RegistryTypeOK, Row
  <2>2. CommandTypeOK'
    BY <1>1, <2>1 DEF CancelByKey, CommandTypeOK
  <2>3. SessionTypeOK'
    BY <1>1, <2>1 DEF CancelByKey, SessionTypeOK, brokerVars
  <2> QED BY <1>1, <2>2, <2>3, Frame DEF CancelByKey
<1>2. ASSUME NEW ref \in 1..MaxRef, NEW sess \in 1..MaxSession, CancelByIds(ref, sess)
      PROVE  TypeOK'
  <2>1. CommandTypeOK'
    BY <1>2 DEF CancelByIds, CommandTypeOK, OurSessions
  <2>2. SessionTypeOK'
    BY <1>2 DEF CancelByIds, SessionTypeOK, brokerVars
  <2> QED BY <1>2, <2>1, <2>2, Frame DEF CancelByIds
<1>3. CASE MarkCancel
  <2>1. CommandTypeOK'
    BY <1>3 DEF MarkCancel, CommandTypeOK
  <2>2. SessionTypeOK'
    BY <1>3 DEF MarkCancel, SessionTypeOK, CommandTypeOK, brokerVars
  <2>3. CancelTypeOK'
    BY <1>3 DEF MarkCancel, CancelTypeOK, CommandTypeOK, CancelId
  <2> QED BY <1>3, <2>1, <2>2, <2>3, Frame DEF MarkCancel
<1>4. CASE ReqOrderAction
  <2>1. CommandTypeOK'
    BY <1>4 DEF ReqOrderAction, CommandTypeOK
  <2>2. SessionTypeOK'
    BY <1>4 DEF ReqOrderAction, SessionTypeOK, CommandTypeOK
  <2>3. CounterTypeOK'
    <3>1. CASE UNCHANGED cancels
      BY <1>4, <3>1, KeepBroker DEF ReqOrderAction, CounterTypeOK
    <3>2. CASE /\ link = "login"
               /\ cancels' = Append(cancels, [sess |-> cmd.sess, ref |-> cmd.ref,
                                              via |-> spi.sess, st |-> "sent"])
      <4>1. spi.sess \in 1..MaxSession
        BY <3>2 DEF SessionTypeOK
      <4>2. cmd.sess \in 1..MaxSession /\ cmd.ref \in 0..MaxRef
        BY <1>4 DEF ReqOrderAction, CommandTypeOK
      <4>3. cancels' \in Seq(CancelRequest)
        BY <3>2, <4>1, <4>2 DEF CounterTypeOK, CancelRequest
      <4> QED BY <1>4, <4>3, KeepBroker DEF ReqOrderAction, CounterTypeOK
    <3> QED BY <1>4, <3>1, <3>2 DEF ReqOrderAction
  <2> QED BY <1>4, <2>1, <2>2, <2>3, Frame DEF ReqOrderAction
<1>5. CASE UnmarkCancel
  <2>1. CommandTypeOK'
    BY <1>5 DEF UnmarkCancel, CommandTypeOK
  <2>2. SessionTypeOK'
    BY <1>5 DEF UnmarkCancel, SessionTypeOK, CommandTypeOK, brokerVars
  <2>3. CancelTypeOK'
    BY <1>5 DEF UnmarkCancel, CancelTypeOK
  <2> QED BY <1>5, <2>1, <2>2, <2>3, Frame DEF UnmarkCancel
<1> QED BY <1>1, <1>2, <1>3, <1>4, <1>5

\* The head of a queue of reports is a report; the rest is a queue of reports.
LEMMA QueueType ==
    ASSUME NEW S, NEW q \in Seq(S), q # <<>>
    PROVE  Head(q) \in S /\ Tail(q) \in Seq(S)
OBVIOUS

LEMMA PayloadType ==
    ASSUME TypeOK, NEW m \in Message, spi.sess \in 1..MaxSession, BeginOrderPayload(m)
    PROVE  TraderTypeOK'
<1> USE RegistryAssumption
<1> DEFINE s == IF m.sess = 0 THEN spi.sess ELSE m.sess
<1>1. PICK owner \in FindByCtp(m.ref, s, m.sys) :
         td' = [pc |-> "release", msg |-> m, sess |-> s, owner |-> owner]
  BY DEF BeginOrderPayload
<1>2. s \in 1..MaxSession
  BY DEF Message
<1>3. owner \in Keys \cup {Null}
  BY OwnerType DEF TypeOK
<1> QED BY <1>1, <1>2, <1>3 DEF TraderTypeOK

LEMMA TraderType ==
    ASSUME TypeOK, TraderStep PROVE TypeOK'
<1> USE RegistryAssumption, FlowAssumption
<1> USE DEF TypeOK
<1>1. CASE OnRtnOrder
  <2>1. Head(flow) \in Message /\ Tail(flow) \in Seq(Message \cup CancelMessage)
    <3>1. /\ Head(flow) \in Message \cup CancelMessage
          /\ Tail(flow) \in Seq(Message \cup CancelMessage)
      BY <1>1, QueueType DEF OnRtnOrder, NextReport, CounterTypeOK
    <3>2. Head(flow) \notin CancelMessage
      BY <1>1 DEF OnRtnOrder, NextReport, CancelMessage
    <3> QED BY <3>1, <3>2
  <2>2. spi.sess \in 1..MaxSession
    BY <1>1 DEF OnRtnOrder, NextReport, CounterTypeOK, SessionTypeOK
  <2>3. TraderTypeOK'
    BY <1>1, <2>1, <2>2, PayloadType DEF OnRtnOrder
  <2>4. CounterTypeOK'
    BY <1>1, <2>1, KeepBroker DEF OnRtnOrder, NextReport, CounterTypeOK
  <2> QED BY <1>1, <2>3, <2>4, Frame DEF OnRtnOrder
<1>2. CASE OnRspQryOrder
  <2>1. Head(qflow) \in Message /\ Tail(qflow) \in Seq(Message)
    BY <1>2, QueueType DEF OnRspQryOrder, CounterTypeOK
  <2>2. spi.sess \in 1..MaxSession
    BY <1>2 DEF OnRspQryOrder, CounterTypeOK, SessionTypeOK
  <2>3. TraderTypeOK'
    BY <1>2, <2>1, <2>2, PayloadType DEF OnRspQryOrder
  <2>4. CounterTypeOK'
    BY <1>2, <2>1, KeepBroker DEF OnRspQryOrder, CounterTypeOK
  <2> QED BY <1>2, <2>3, <2>4, Frame DEF OnRspQryOrder
<1>3. CASE ReleaseCancel
  <2>1. CancelTypeOK'
    BY <1>3 DEF ReleaseCancel, CancelTypeOK
  <2>2. TraderTypeOK'
    BY <1>3 DEF ReleaseCancel, TraderTypeOK, TdIdle
  <2> QED BY <1>3, <2>1, <2>2, Frame DEF ReleaseCancel, brokerVars
<1>4. CASE UpdateAndPublish
  <2>1. td.sess \in 1..MaxSession /\ td.msg \in Message
    BY <1>4 DEF UpdateAndPublish, TraderTypeOK, TdIdle
  <2>2. td.msg.sys \in SysIds \cup {Null} /\ td.msg.status \in Status
    BY <2>1 DEF Message
  <2>3. RegistryTypeOK'
    BY <1>4, <2>1, <2>2, UpdateType DEF UpdateAndPublish
  <2>4. TraderTypeOK'
    BY <1>4 DEF UpdateAndPublish, TraderTypeOK
  <2> QED BY <1>4, <2>3, <2>4, Frame DEF UpdateAndPublish, brokerVars
<1>5. CASE OnRspOrderAction
  <2>1. Tail(flow) \in Seq(Message \cup CancelMessage)
    BY <1>5, QueueType DEF OnRspOrderAction, NextReport, CounterTypeOK
  <2>2. CounterTypeOK'
    BY <1>5, <2>1, KeepBroker DEF OnRspOrderAction, NextReport, CounterTypeOK
  <2>3. CancelTypeOK'
    BY <1>5 DEF OnRspOrderAction, CancelTypeOK
  <2> QED BY <1>5, <2>2, <2>3, Frame DEF OnRspOrderAction
<1> QED BY <1>1, <1>2, <1>3, <1>4, <1>5 DEF TraderStep

LEMMA ReportType ==
    ASSUME NEW o \in OrderIds, NEW b, b.st \in AtCounter, Named(b)
    PROVE  /\ Report("RtnOrder", o, b) \in Message
           /\ Report("QryOrder", o, b) \in Message
BY FlowAssumption DEF Report, Message, Named, AtCounter, Live, Active, Terminal, Status

LEMMA InputOrderType ==
    ASSUME NEW o \in OrderIds, NEW ref \in 0..MaxRef,
           NEW kind \in {"RspOrderInsert", "ErrRtnOrderInsert"}
    PROVE  InputOrder(kind, o, ref) \in Message
BY RegistryAssumption DEF InputOrder, Message, Terminal, Status

LEMMA SendType ==
    ASSUME CounterTypeOK, NEW msgs \in Seq(Message \cup CancelMessage), Send(msgs)
    PROVE  /\ flow' \in Seq(Message \cup CancelMessage)
           /\ flow' # <<>> => link = "login"
BY DEF CounterTypeOK, Send

LEMMA BrokerSetsType ==
    ASSUME TypeOK, NEW o \in OrderIds, NEW b \in BrokerOrder, b.st \in AtCounter, Named(b),
           BrokerSets(o, b)
    PROVE  TypeOK'
<1>1. <<Report("RtnOrder", o, b)>> \in Seq(Message \cup CancelMessage)
  BY ReportType
<1>2. BrokerTypeOK'
  BY BrokerType DEF BrokerSets, TypeOK, CounterTypeOK
<1>3. CounterTypeOK'
  BY <1>1, <1>2, SendType DEF BrokerSets, TypeOK, CounterTypeOK, proxyVars
<1> QED BY <1>3, Frame DEF BrokerSets, TypeOK, proxyVars

\* An action of the counter that changes neither the proxy nor the tables.
LEMMA CounterFrame ==
    ASSUME TypeOK, CounterTypeOK', UNCHANGED <<registryVars, proxyVars, sessions>>,
           CountTypeOK'
    PROVE  TypeOK'
BY Frame DEF TypeOK, proxyVars

LEMMA InsertAnswerType ==
    ASSUME TypeOK, NEW k \in Keys, AnswerInsert(k) PROVE TypeOK'
<1> DEFINE to(st) == [broker[k] EXCEPT !.st = st]
<1>1. k \in OrderIds /\ broker[k] \in BrokerOrder /\ broker[k].st = "inflight" /\ Named(broker[k])
  BY DEF AnswerInsert, BrokerAccept, BrokerReject, LoseInsert, OrderIds, TypeOK,
         CounterTypeOK, BrokerTypeOK
<1>2. \A st \in {"refused", "lost", "UNKNOWN"} :
         to(st) \in BrokerOrder /\ Named(to(st)) /\ to(st).st = st
  BY <1>1 DEF BrokerOrder, Named, AtCounter, Live
<1> HIDE DEF to
<1>3. CASE BrokerAccept(k)
  BY <1>1, <1>2, <1>3, BrokerSetsType DEF BrokerAccept, to, AtCounter, Live
<1>4. CASE BrokerReject(k)
  <2>1. broker' = [broker EXCEPT ![k] = to("refused")]
    BY <1>4 DEF BrokerReject, to
  <2>2. BrokerTypeOK'
    BY <1>1, <1>2, <2>1, BrokerType DEF TypeOK, CounterTypeOK
  <2>3. PICK kinds \in {<<"RspOrderInsert">>, <<"RspOrderInsert", "ErrRtnOrderInsert">>} :
           IF Sub(broker[k].sess)
           THEN Send([i \in 1..Len(kinds) |-> InputOrder(kinds[i], k, broker[k].ref)])
           ELSE UNCHANGED flow
    BY <1>4 DEF BrokerReject
  <2>4. [i \in 1..Len(kinds) |-> InputOrder(kinds[i], k, broker[k].ref)]
            \in Seq(Message \cup CancelMessage)
    BY <1>1, <2>3, InputOrderType DEF Named
  <2>5. flow' \in Seq(Message \cup CancelMessage) /\ (flow' # <<>> => link = "login")
    BY <2>3, <2>4, SendType DEF TypeOK, CounterTypeOK
  <2>6. CounterTypeOK'
    BY <1>4, <2>2, <2>5 DEF BrokerReject, TypeOK, CounterTypeOK, proxyVars
  <2> QED BY <1>4, <2>6, CounterFrame, Frame DEF BrokerReject
<1>5. CASE LoseInsert(k)
  <2>1. broker' = [broker EXCEPT ![k] = to("lost")]
    BY <1>5 DEF LoseInsert, to
  <2>2. BrokerTypeOK'
    BY <1>1, <1>2, <2>1, BrokerType DEF TypeOK, CounterTypeOK
  <2>3. CounterTypeOK'
    BY <1>5, <2>2 DEF LoseInsert, TypeOK, CounterTypeOK, proxyVars
  <2> QED BY <1>5, <2>3, CounterFrame, Frame DEF LoseInsert
<1> QED BY <1>3, <1>4, <1>5 DEF AnswerInsert

LEMMA ProgressType ==
    ASSUME TypeOK, NEW o \in OrderIds, BrokerProgress(o) PROVE TypeOK'
<1>1. broker[o] \in BrokerOrder /\ broker[o].st \in Live /\ Named(broker[o])
  BY DEF BrokerProgress, TypeOK, CounterTypeOK, BrokerTypeOK, Live, Active
<1>2. PICK st \in Progress[broker[o].st] : BrokerSets(o, [broker[o] EXCEPT !.st = st])
  BY DEF BrokerProgress
<1>3. st \in AtCounter
  BY <1>1, <1>2 DEF Progress, AtCounter, Live, Active, Terminal
<1> DEFINE b == [broker[o] EXCEPT !.st = st]
<1>4. b \in BrokerOrder /\ Named(b) /\ b.st = st
  BY <1>1, <1>3 DEF BrokerOrder, Named
<1> HIDE DEF b
<1> QED BY <1>2, <1>3, <1>4, BrokerSetsType DEF b

LEMMA ForeignType ==
    ASSUME TypeOK, NEW f \in Foreign, NEW ref \in 1..MaxRef,
           ForeignOrder(f, ref) \/ ForeignReject(f, ref)
    PROVE  TypeOK'
<1> USE RegistryAssumption, FlowAssumption
<1> DEFINE order(st) == [st |-> st, ref |-> ref, sess |-> ForeignSess]
<1>1. f \in OrderIds
  BY DEF OrderIds
<1>2. \A st \in {"refused", "UNKNOWN"} :
         order(st) \in BrokerOrder /\ Named(order(st)) /\ order(st).st = st
  BY DEF BrokerOrder, Named, ForeignSess, AtCounter, Live
<1> HIDE DEF order
<1>3. CASE ForeignOrder(f, ref)
  BY <1>1, <1>2, <1>3, BrokerSetsType DEF ForeignOrder, order, AtCounter, Live
<1>4. CASE ForeignReject(f, ref)
  <2>1. broker' = [broker EXCEPT ![f] = order("refused")]
    BY <1>4 DEF ForeignReject, order
  <2>2. BrokerTypeOK'
    BY <1>1, <1>2, <2>1, BrokerType DEF TypeOK, CounterTypeOK
  <2>3. <<InputOrder("ErrRtnOrderInsert", f, ref)>> \in Seq(Message \cup CancelMessage)
    BY <1>1, InputOrderType
  <2>4. flow' \in Seq(Message \cup CancelMessage) /\ (flow' # <<>> => link = "login")
    BY <1>4, <2>3, SendType DEF ForeignReject, TypeOK
  <2>5. CounterTypeOK'
    BY <1>4, <2>2, <2>4 DEF ForeignReject, TypeOK, CounterTypeOK, proxyVars
  <2> QED BY <1>4, <2>5, CounterFrame, Frame DEF ForeignReject
<1> QED BY <1>3, <1>4

LEMMA CancelAnswerType ==
    ASSUME TypeOK, NEW i \in DOMAIN cancels, AnswerCancel(i) PROVE TypeOK'
<1> USE RegistryAssumption
<1>1. cancels \in Seq(CancelRequest) /\ cancels[i] \in CancelRequest
  BY DEF TypeOK, CounterTypeOK
<1>2. \A st \in {"done", "refused", "lost"} :
         [cancels EXCEPT ![i].st = st] \in Seq(CancelRequest)
  <2> TAKE st \in {"done", "refused", "lost"}
  <2>1. [cancels[i] EXCEPT !.st = st] \in CancelRequest
    BY <1>1 DEF CancelRequest
  <2> QED BY <1>1, <2>1
<1>3. CASE BrokerCancels(i)
  <2>1. PICK o \in OrderOf(cancels[i].sess, cancels[i].ref) :
           /\ broker[o].st \in Live
           /\ broker' = [broker EXCEPT ![o].st = "CANCELLED"]
           /\ Send(<<Report("RtnOrder", o, broker'[o])>>)
    BY <1>3 DEF BrokerCancels
  <2>2. o \in OrderIds
    BY <2>1 DEF OrderOf
  <2>3. broker[o] \in BrokerOrder /\ Named(broker[o])
    BY <2>1, <2>2 DEF TypeOK, CounterTypeOK, BrokerTypeOK, Live, Active
  <2> DEFINE b == [broker[o] EXCEPT !.st = "CANCELLED"]
  <2>4. b \in BrokerOrder /\ Named(b) /\ b.st \in AtCounter
    BY <2>3 DEF BrokerOrder, Named, AtCounter, Terminal
  <2>5. broker' = [broker EXCEPT ![o] = b]
    BY <2>1
  <2>6. broker'[o] = b
    BY <2>2, <2>5 DEF TypeOK, CounterTypeOK, BrokerTypeOK
  <2> HIDE DEF b
  <2>7. BrokerTypeOK'
    BY <2>2, <2>4, <2>5, BrokerType DEF TypeOK, CounterTypeOK
  <2>8. <<Report("RtnOrder", o, broker'[o])>> \in Seq(Message \cup CancelMessage)
    BY <2>2, <2>4, <2>6, ReportType
  <2>9. flow' \in Seq(Message \cup CancelMessage) /\ (flow' # <<>> => link = "login")
    BY <2>1, <2>8, SendType DEF TypeOK
  <2>10. CounterTypeOK'
    BY <1>2, <1>3, <2>7, <2>9 DEF BrokerCancels, TypeOK, CounterTypeOK, proxyVars
  <2> QED BY <1>3, <2>10, CounterFrame, Frame DEF BrokerCancels
<1>4. CASE BrokerRefusesCancel(i)
  <2>1. PICK kinds \in {<<"RspOrderAction">>, <<"ErrRtnOrderAction">>,
                        <<"RspOrderAction", "ErrRtnOrderAction">>} :
           IF Sub(cancels[i].via)
           THEN Send([j \in 1..Len(kinds) |-> ActionError(kinds[j], cancels[i])])
           ELSE UNCHANGED flow
    BY <1>4 DEF BrokerRefusesCancel
  <2>2. \A kind \in {"RspOrderAction", "ErrRtnOrderAction"} :
           ActionError(kind, cancels[i]) \in CancelMessage
    BY <1>1 DEF ActionError, CancelMessage, CancelRequest
  <2>3. [j \in 1..Len(kinds) |-> ActionError(kinds[j], cancels[i])]
            \in Seq(Message \cup CancelMessage)
    BY <2>1, <2>2
  <2>4. flow' \in Seq(Message \cup CancelMessage) /\ (flow' # <<>> => link = "login")
    BY <2>1, <2>3, SendType DEF TypeOK, CounterTypeOK
  <2>5. CounterTypeOK'
    BY <1>2, <1>4, <2>4, KeepBroker DEF BrokerRefusesCancel, TypeOK, CounterTypeOK, proxyVars
  <2> QED BY <1>4, <2>5, CounterFrame, Frame DEF BrokerRefusesCancel
<1>5. CASE LoseCancel(i)
  <2>1. CounterTypeOK'
    BY <1>2, <1>5, KeepBroker DEF LoseCancel, TypeOK, CounterTypeOK, proxyVars
  <2> QED BY <1>5, <2>1, CounterFrame, Frame DEF LoseCancel
<1> QED BY <1>3, <1>4, <1>5 DEF AnswerCancel

LEMMA SnapshotType ==
    ASSUME TypeOK, NEW o \in OrderIds, BrokerSnapshot(o) PROVE TypeOK'
<1>1. broker[o].st \in AtCounter /\ Named(broker[o])
  BY DEF BrokerSnapshot, TypeOK, CounterTypeOK, BrokerTypeOK, AtCounter, Live, Active, Terminal
<1>2. qflow' \in Seq(Message)
  BY <1>1, ReportType DEF BrokerSnapshot, TypeOK, CounterTypeOK
<1>3. CounterTypeOK'
  BY <1>2, KeepBroker DEF BrokerSnapshot, TypeOK, CounterTypeOK, proxyVars
<1>4. CountTypeOK'
  BY DEF BrokerSnapshot, TypeOK, CountTypeOK
<1> QED BY <1>3, <1>4, CounterFrame DEF BrokerSnapshot

LEMMA NextType == TypeOK /\ [Next]_vars => TypeOK'
<1> SUFFICES ASSUME TypeOK, [Next]_vars PROVE TypeOK'
  OBVIOUS
<1>1. CASE Login \/ OnFrontDisconnected \/ Crash
  BY <1>1, ConnectType, AuthenticateType, LoginType, ConfirmType, DisconnectType, CrashType
     DEF Login
<1>2. CASE Command \/ CommandStep
  BY <1>2, PlaceType, CancelType DEF Command, CommandStep
<1>3. CASE TraderStep
  BY <1>3, TraderType
<1>4. CASE Counter
  BY <1>4, InsertAnswerType, ProgressType, SnapshotType, ForeignType, CancelAnswerType
     DEF Counter
<1>5. CASE UNCHANGED vars
  BY <1>5, Frame DEF vars, proxyVars, brokerVars, TypeOK
<1> QED BY <1>1, <1>2, <1>3, <1>4, <1>5 DEF Next

\* Every variable keeps its type, whatever the number of keys, sessions,
\* reports and crashes and whatever the environment does.
THEOREM TypeCorrect == Spec => []TypeOK
<1>1. Init => TypeOK
  BY InitType
<1>2. TypeOK /\ [Next]_vars => TypeOK'
  BY NextType
<1> QED BY <1>1, <1>2, PTL DEF Spec
-----------------------------------------------------------------------------
\* At most one ReqOrderInsert for a key, after its row was written.

\* InsertOnce alone is not inductive: between the two steps of place_order the
\* key of the command has a row and was not handed over.
InsertInv ==
    /\ InsertOnce
    /\ cmd.pc = "insert" => cmd.key \in DOMAIN orders /\ inserts[cmd.key] = 0

Quiet == /\ UNCHANGED inserts /\ DOMAIN orders' = DOMAIN orders
         /\ cmd'.pc = "insert" => cmd' = cmd
Claims == /\ cmd.key \in Keys \ DOMAIN orders
          /\ DOMAIN orders' = DOMAIN orders \cup {cmd.key}
          /\ UNCHANGED inserts /\ cmd' = [cmd EXCEPT !.pc = "insert"]
HandsOver == /\ cmd.pc = "insert" /\ cmd'.pc # "insert" /\ cmd.key \in Keys
             /\ inserts' = [inserts EXCEPT ![cmd.key] = @ + 1]
             /\ DOMAIN orders' = DOMAIN orders

\* What any step does to the rows and to the calls.
LEMMA StepEffect == ASSUME TypeOK, [Next]_vars PROVE Quiet \/ Claims \/ HandsOver
<1> USE DEF TypeOK
<1>1. CASE CreateRow
  <2>1. /\ cmd.key \in Keys /\ cmd.ref \in 0..MaxRef /\ cmd.sess \in 1..MaxSession
        /\ UNCHANGED inserts
    BY <1>1 DEF CreateRow, CommandTypeOK, PlacePCs, countVars
  <2>2. CASE Create(cmd.key, cmd.ref, cmd.sess) /\ cmd' = [cmd EXCEPT !.pc = "insert"]
    BY <2>1, <2>2, CreateType DEF Create, Claims
  <2>3. CASE cmd' = Idle /\ UNCHANGED registryVars
    BY <2>1, <2>3 DEF Quiet, Idle, registryVars
  <2> QED BY <1>1, <2>2, <2>3 DEF CreateRow
<1>2. CASE ReqOrderInsert
  BY <1>2 DEF ReqOrderInsert, HandsOver, CommandTypeOK, PlacePCs, Idle, registryVars
<1>3. CASE RejectLocally
  <2>1. PICK sess \in SessionPairs(cmd.sess) : UpdateCtp(cmd.ref, sess, Null, "REJECTED")
    BY <1>3 DEF RejectLocally
  <2>2. sess \in 1..MaxSession
    BY <1>3, <2>1, PairsType DEF RejectLocally, PlacePCs
  <2>3. DOMAIN orders' = DOMAIN orders
    BY <2>1, <2>2, UpdateType DEF Status, Terminal
  <2> QED BY <1>3, <2>3 DEF RejectLocally, Quiet, Idle, countVars
<1>4. CASE UpdateAndPublish
  <2>1. td.sess \in 1..MaxSession /\ td.msg \in Message
    BY <1>4 DEF UpdateAndPublish, TraderTypeOK, TdIdle
  <2>2. DOMAIN orders' = DOMAIN orders
    BY <1>4, <2>1, UpdateType DEF UpdateAndPublish, Message
  <2> QED BY <1>4, <2>2 DEF UpdateAndPublish, Quiet, countVars
<1>5. CASE LoadOrderRef \/ StoreOrderRef \/ TakeOrderRef \/ ReadFrontId \/ ReadSessionId
           \/ ReadFrontIdAgain
  BY <1>5 DEF LoadOrderRef, StoreOrderRef, TakeOrderRef, ReadFrontId, ReadSessionId,
              ReadFrontIdAgain, Quiet, CommandTypeOK, registryVars, countVars
<1>6. CASE MarkCancel \/ ReqOrderAction \/ UnmarkCancel
  BY <1>6 DEF MarkCancel, ReqOrderAction, UnmarkCancel, Quiet, Idle, CommandTypeOK,
              registryVars, countVars
<1>7. CASE Command
  <2>1. ASSUME NEW k \in Keys, PlaceOrder(k) PROVE Quiet
    BY <2>1 DEF PlaceOrder, Quiet, Idle, registryVars, countVars
  <2>2. ASSUME NEW k \in Keys, CancelByKey(k) PROVE Quiet
    BY <2>2 DEF CancelByKey, Quiet, registryVars, countVars
  <2>3. ASSUME NEW ref, NEW sess, CancelByIds(ref, sess) PROVE Quiet
    BY <2>3 DEF CancelByIds, Quiet, registryVars, countVars
  <2> QED BY <1>7, <2>1, <2>2, <2>3 DEF Command
<1>8. CASE Login \/ OnFrontDisconnected \/ Crash
  BY <1>8 DEF Login, Connect, OnRspAuthenticate, OnRspUserLogin, OnRspSettlementInfoConfirm,
              OnFrontDisconnected, Crash, Quiet, Idle, registryVars, countVars
<1>9. CASE OnRtnOrder \/ OnRspQryOrder \/ ReleaseCancel \/ OnRspOrderAction
  BY <1>9 DEF OnRtnOrder, OnRspQryOrder, ReleaseCancel, OnRspOrderAction, Quiet,
              registryVars, countVars
<1>10. CASE Counter
  BY <1>10 DEF Counter, AnswerInsert, AnswerCancel, BrokerAccept, BrokerReject, LoseInsert,
               BrokerProgress, BrokerSets, ForeignOrder, ForeignReject, BrokerCancels,
               BrokerRefusesCancel, LoseCancel, BrokerSnapshot, Quiet,
               registryVars, proxyVars, countVars
<1>11. CASE UNCHANGED vars
  BY <1>11 DEF vars, registryVars, proxyVars, countVars, Quiet
<1> QED BY <1>1, <1>2, <1>3, <1>4, <1>5, <1>6, <1>7, <1>8, <1>9, <1>10, <1>11
        DEF Next, CommandStep, TraderStep

LEMMA InsertInvInit == Init => InsertInv
BY FlowAssumption DEF Init, InsertInv, InsertOnce, Idle

LEMMA InsertInvNext == TypeOK /\ InsertInv /\ [Next]_vars => InsertInv'
<1> SUFFICES ASSUME TypeOK, InsertInv, [Next]_vars PROVE InsertInv'
  OBVIOUS
<1>1. inserts \in [Keys -> Nat] /\ DOMAIN orders \subseteq Keys
  BY DEF TypeOK, CountTypeOK, RegistryTypeOK
<1>2. CASE Quiet
  BY <1>1, <1>2 DEF Quiet, InsertInv, InsertOnce
<1>3. CASE Claims
  <2>1. cmd'.key = cmd.key
    BY <1>3 DEF Claims, TypeOK, CommandTypeOK
  <2> QED BY <1>1, <1>3, <2>1 DEF Claims, InsertInv, InsertOnce
<1>4. CASE HandsOver
  BY <1>1, <1>4 DEF HandsOver, InsertInv, InsertOnce
<1> QED BY <1>2, <1>3, <1>4, StepEffect

\* A key is handed to ReqOrderInsert at most once and only when its row is in
\* the database, across crashes, reconnections and retries of the client.
THEOREM OrderedAtMostOnce == Spec => []InsertOnce
<1>1. TypeOK /\ InsertInv /\ [Next]_vars => InsertInv'
  BY InsertInvNext
<1>2. InsertInv => InsertOnce
  BY DEF InsertInv
<1> QED BY InsertInvInit, <1>1, <1>2, TypeCorrect, PTL DEF Spec

LEMMA DeskStep == TypeOK /\ InsertInv /\ [Next]_vars => [Desk!Next]_(Desk!vars)
<1> SUFFICES ASSUME TypeOK, InsertInv, [Next]_vars PROVE [Desk!Next]_(Desk!vars)
  OBVIOUS
<1>1. CASE Quiet
  BY <1>1 DEF Quiet, Desk!vars
<1>2. CASE Claims
  <2>1. Desk!Claim(cmd.key)
    BY <1>2 DEF Claims, Desk!Claim
  <2> QED BY <1>2, <2>1 DEF Claims, Desk!Next
<1>3. CASE HandsOver
  <2>1. Desk!HandOver(cmd.key)
    <3>1. cmd.key \in DOMAIN orders /\ inserts[cmd.key] = 0
      BY <1>3 DEF HandsOver, InsertInv
    <3>2. inserts' = [inserts EXCEPT ![cmd.key] = 1]
      BY <1>3, <3>1 DEF HandsOver
    <3> QED BY <1>3, <3>1, <3>2 DEF HandsOver, Desk!HandOver
  <2> QED BY <1>3, <2>1 DEF HandsOver, Desk!Next
<1> QED BY <1>1, <1>2, <1>3, StepEffect

\* place_order, with its retries and crashes, implements the idempotent desk.
THEOREM PlacingIsIdempotent == Spec => DeskSpec
<1>1. Init => Desk!Init
  BY FlowAssumption DEF Init, Desk!Init
<1>2. TypeOK /\ InsertInv /\ [Next]_vars => InsertInv'
  BY InsertInvNext
<1>3. TypeOK /\ InsertInv /\ [Next]_vars => [Desk!Next]_(Desk!vars)
  BY DeskStep
<1> QED BY <1>1, <1>2, <1>3, InsertInvInit, TypeCorrect, PTL DEF Spec, DeskSpec, Desk!Spec
=============================================================================
