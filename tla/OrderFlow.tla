------------------------------ MODULE OrderFlow ------------------------------
(***************************************************************************)
(* Placing and cancelling orders: the command thread (CtpProxy             *)
(* .handle_command calling CtpSession.place_order and cancel_order), the   *)
(* CTP trader callback thread (CtpTraderSpi and CtpSession.order_payload), *)
(* the ctp_orders table they share, and, as an external environment, the   *)
(* CTP counter with its connection.                                        *)
(*                                                                         *)
(* A command or a callback is cut into one step per access to state that   *)
(* the other thread also uses.  Commands that only reply change no state   *)
(* and are not steps.  A crash and the restart that systemd or Docker      *)
(* performs are one step.                                                  *)
(***************************************************************************)
EXTENDS OrderRegistry, Sequences

CONSTANTS
    Foreign,      \* orders of other terminals on the same account
    LegacyKeys,   \* rows written by a release that stored no session
    RefBases,     \* the MaxOrderRef values a login may report
    MaxFlow,      \* bound: reports under way at a time
    MaxCancels,   \* bound: ReqOrderAction calls accepted by the API
    MaxSnapshots, \* bound: orders reported in answer to order queries
    MaxCrashes,   \* bound: process deaths
    Env           \* what the clients and the environment of the run do, apart
                  \* from placing and answering orders

EnvBehaviours == {"cancel", "early_cancel", "cancel_by_ids", "disconnect",
                  "relogin_during_place", "foreign_rejects", "two_cancel_errors"}

OrderIds    == Keys \cup Foreign
ForeignSess == MaxSession     \* the session number of the other terminals
TornSess    == MaxSession - 1 \* the FrontID of one login with the SessionID of another;
                              \* no two such pairs are told apart
OurSessions == 1..(MaxSession - 2)

ASSUME FlowAssumption ==
    /\ Keys \cap Foreign = {} /\ Null \notin Foreign
    /\ SysIds = OrderIds
    /\ MaxSession > 2
    /\ LegacyKeys \subseteq Keys /\ \A j, k \in LegacyKeys : j = k
    /\ RefBases \subseteq 0..(MaxRef - 1)
    /\ MaxFlow \in Nat /\ MaxCancels \in Nat /\ MaxSnapshots \in Nat /\ MaxCrashes \in Nat
    /\ Env \subseteq EnvBehaviours

VARIABLES
    link,            \* "none": no td_api yet; "down"; "front": authenticated; "login"
    td_ready,        \* CtpSession.td_ready
    spi,             \* CtpTraderSpi: front_id and session_id (sess), order_ref
    pending_cancels, \* CtpSession._pending_cancels
    cmd,             \* where the command thread is, with its local variables
    td,              \* where the trader callback thread is, likewise
    broker,          \* the orders as the CTP counter knows them
    cancels,         \* the ReqOrderAction requests handed to the API
    flow,            \* reports on their way to the trader thread
    qflow,           \* query answers on their way to the trader thread
    sessions,        \* sessions the counter has given us
    inserts,         \* ReqOrderInsert calls made for each key
    crashes, snapshots

proxyVars  == <<link, td_ready, spi, pending_cancels, cmd, td>>
brokerVars == <<broker, cancels, flow, qflow, sessions>>
countVars  == <<inserts, crashes, snapshots>>
vars == <<registryVars, proxyVars, brokerVars, countVars>>

Idle   == [pc |-> "idle", key |-> Null, ref |-> 0, sess |-> 0]
TdIdle == [pc |-> "idle", msg |-> Null, sess |-> 0, owner |-> Null]
PlacePCs == {"load_ref", "store_ref", "take_ref", "read_front", "read_session",
             "create", "insert", "reject", "reject_session"}

NoOrder == [st |-> "none", ref |-> 0, sess |-> 0]
LegacyOrder == [st |-> "SUBMITTED", ref |-> 1, sess |-> 1]
LegacyRow == [status |-> "SUBMITTED", sess |-> Null, ref |-> 1, sys |-> Null]

\* The proxy starts on the database it left: empty, or with the live orders
\* of the release before, which session 1 submitted.
Init ==
    /\ orders = [k \in LegacyKeys |-> LegacyRow]
    /\ updated_at = [k \in Keys |-> {}]
    /\ link = "none" /\ td_ready = FALSE
    /\ spi = [ref |-> 0, sess |-> 0]
    /\ pending_cancels = {}
    /\ cmd = Idle /\ td = TdIdle
    /\ broker = [o \in OrderIds |-> IF o \in LegacyKeys THEN LegacyOrder ELSE NoOrder]
    /\ cancels = <<>> /\ flow = <<>> /\ qflow = <<>>
    /\ sessions = IF LegacyKeys = {} THEN 0 ELSE 1
    /\ inserts = [k \in Keys |-> IF k \in LegacyKeys THEN 1 ELSE 0]
    /\ crashes = 0 /\ snapshots = 0
-----------------------------------------------------------------------------
\* The connection: CtpSession.connect and the login callbacks.

Connect ==
    /\ link = "none"
    /\ link' = "down"
    /\ spi' = [ref |-> 0, sess |-> 0]
    /\ UNCHANGED <<registryVars, td_ready, pending_cancels, cmd, td, brokerVars, countVars>>

\* OnFrontConnected and a successful OnRspAuthenticate: they ask for the login.
OnRspAuthenticate ==
    /\ link = "down" /\ td.pc = "idle"
    /\ link' = "front"
    /\ UNCHANGED <<registryVars, td_ready, spi, pending_cancels, cmd, td, brokerVars, countVars>>

\* It writes front_id, session_id and order_ref, in this order; place_order reads
\* order_ref first and the other two later, so that it sees of the three writes what
\* it could see of one step.  Without "relogin_during_place" in Env, a place_order
\* that passed its readiness check ends before the next login completes.
OnRspUserLogin ==
    /\ link = "front" /\ td.pc = "idle"
    /\ sessions + 1 \in OurSessions
    /\ "relogin_during_place" \in Env \/ cmd.pc \notin PlacePCs
    /\ link' = "login"
    /\ sessions' = sessions + 1
    /\ \E base \in RefBases : spi' = [ref |-> base, sess |-> sessions + 1]
    /\ UNCHANGED <<registryVars, td_ready, pending_cancels, cmd, td,
                   broker, cancels, flow, qflow, countVars>>

OnRspSettlementInfoConfirm ==
    /\ link = "login" /\ ~td_ready /\ td.pc = "idle"
    /\ td_ready' = TRUE
    /\ UNCHANGED <<registryVars, link, spi, pending_cancels, cmd, td, brokerVars, countVars>>

\* THOST_TERT_QUICK: what was on its way is not sent again after the next login.
OnFrontDisconnected ==
    /\ "disconnect" \in Env
    /\ link \in {"front", "login"} /\ td.pc = "idle"
    /\ link' = "down"
    /\ td_ready' = FALSE
    /\ flow' = <<>> /\ qflow' = <<>>
    /\ UNCHANGED <<registryVars, spi, pending_cancels, cmd, td,
                   broker, cancels, sessions, countVars>>

\* The process dies anywhere and is started again, up to proxy.start().
Crash ==
    /\ crashes < MaxCrashes
    /\ crashes' = crashes + 1
    /\ link' = "none" /\ td_ready' = FALSE
    /\ spi' = [ref |-> 0, sess |-> 0]
    /\ pending_cancels' = {}
    /\ cmd' = Idle /\ td' = TdIdle
    /\ flow' = <<>> /\ qflow' = <<>>
    /\ UNCHANGED <<registryVars, broker, cancels, sessions, inserts, snapshots>>
-----------------------------------------------------------------------------
\* place_order, on the command thread.

PlaceOrder(k) ==
    /\ cmd.pc = "idle" /\ td_ready
    /\ spi.ref < MaxRef
    /\ cmd' = [Idle EXCEPT !.pc = "load_ref", !.key = k]
    /\ UNCHANGED <<registryVars, link, td_ready, spi, pending_cancels, td, brokerVars, countVars>>

\* order_ref += 1 is a load and a store, and the number is then read once more.  The
\* login callback does not take _request_lock: a login in between is overwritten, or
\* the order gets the login's MaxOrderRef itself.
LoadOrderRef ==
    /\ cmd.pc = "load_ref"
    /\ cmd' = [cmd EXCEPT !.pc = "store_ref", !.ref = spi.ref + 1]
    /\ UNCHANGED <<registryVars, link, td_ready, spi, pending_cancels, td, brokerVars, countVars>>

StoreOrderRef ==
    /\ cmd.pc = "store_ref"
    /\ spi' = [spi EXCEPT !.ref = cmd.ref]
    /\ cmd' = [cmd EXCEPT !.pc = "take_ref"]
    /\ UNCHANGED <<registryVars, link, td_ready, pending_cancels, td, brokerVars, countVars>>

\* A number one above the bound, as an increment after the read would leave it.
TakeOrderRef_Increment ==
    /\ cmd.pc = "take_ref"
    /\ cmd' = [cmd EXCEPT !.pc = "read_front", !.ref = spi.ref + 1]
    /\ UNCHANGED <<registryVars, link, td_ready, spi, pending_cancels, td, brokerVars, countVars>>

TakeOrderRef ==
    /\ cmd.pc = "take_ref"
    /\ cmd' = [cmd EXCEPT !.pc = "read_front", !.ref = spi.ref]
    /\ UNCHANGED <<registryVars, link, td_ready, spi, pending_cancels, td, brokerVars, countVars>>

\* front_id is read, and then session_id: of the same login, or, when another one
\* came in between, of the new one; the pair is then that of no login, or the new
\* one's when both have the same FrontID.
ReadFrontId ==
    /\ cmd.pc = "read_front"
    /\ cmd' = [cmd EXCEPT !.pc = "read_session", !.sess = spi.sess]
    /\ UNCHANGED <<registryVars, link, td_ready, spi, pending_cancels, td, brokerVars, countVars>>

SessionPairs(first) == {spi.sess} \cup IF first = spi.sess THEN {} ELSE {TornSess}

\* A place_order that sends first and records the order never.
ReadSessionId_SendFirst ==
    /\ cmd.pc = "read_session"
    /\ \E sess \in SessionPairs(cmd.sess) : cmd' = [cmd EXCEPT !.pc = "insert", !.sess = sess]
    /\ UNCHANGED <<registryVars, link, td_ready, spi, pending_cancels, td, brokerVars, countVars>>

ReadSessionId ==
    /\ cmd.pc = "read_session"
    /\ \E sess \in SessionPairs(cmd.sess) : cmd' = [cmd EXCEPT !.pc = "create", !.sess = sess]
    /\ UNCHANGED <<registryVars, link, td_ready, spi, pending_cancels, td, brokerVars, countVars>>

\* A place_order that sends whether or not the row is new.
CreateRow_IgnoreConflict ==
    /\ cmd.pc = "create"
    /\ IF cmd.key \in DOMAIN orders THEN UNCHANGED registryVars
                                    ELSE Create(cmd.key, cmd.ref, cmd.sess)
    /\ cmd' = [cmd EXCEPT !.pc = "insert"]
    /\ UNCHANGED <<link, td_ready, spi, pending_cancels, td, brokerVars, countVars>>

CreateRow ==
    /\ cmd.pc = "create"
    /\ \/ /\ Create(cmd.key, cmd.ref, cmd.sess)
          /\ cmd' = [cmd EXCEPT !.pc = "insert"]
       \/ /\ cmd.key \in DOMAIN orders        \* the reply says duplicate
          /\ cmd' = Idle /\ UNCHANGED registryVars
    /\ UNCHANGED <<link, td_ready, spi, pending_cancels, td, brokerVars, countVars>>

\* ReqOrderInsert: 0 needs a login; another result may come at any time.
ReqOrderInsert ==
    /\ cmd.pc = "insert"
    /\ inserts' = [inserts EXCEPT ![cmd.key] = @ + 1]
    /\ \/ /\ link = "login"
          /\ broker' = [broker EXCEPT ![cmd.key] =
                           [st |-> "inflight", ref |-> cmd.ref, sess |-> spi.sess]]
          /\ cmd' = Idle
       \/ /\ cmd' = [cmd EXCEPT !.pc = "reject"]
          /\ UNCHANGED broker
    /\ UNCHANGED <<registryVars, link, td_ready, spi, pending_cancels, td,
                   cancels, flow, qflow, sessions, crashes, snapshots>>

\* The failure path reads front_id and session_id again, one after the other.
ReadFrontIdAgain ==
    /\ cmd.pc = "reject"
    /\ cmd' = [cmd EXCEPT !.pc = "reject_session", !.sess = spi.sess]
    /\ UNCHANGED <<registryVars, link, td_ready, spi, pending_cancels, td, brokerVars, countVars>>

\* A failure path that only raises.
RejectLocally_NoUpdate ==
    /\ cmd.pc = "reject_session"
    /\ cmd' = Idle
    /\ UNCHANGED <<registryVars, link, td_ready, spi, pending_cancels, td, brokerVars, countVars>>

RejectLocally ==
    /\ cmd.pc = "reject_session"
    /\ \E sess \in SessionPairs(cmd.sess) : UpdateCtp(cmd.ref, sess, Null, "REJECTED")
    /\ cmd' = Idle
    /\ UNCHANGED <<link, td_ready, spi, pending_cancels, td, brokerVars, countVars>>
-----------------------------------------------------------------------------
\* cancel_order, on the command thread.

CanCommand == cmd.pc = "idle" /\ (link # "none" \/ "early_cancel" \in Env)

\* A cancel by client_order_id that does not look at the recorded status.
CancelByKey_AnyStatus(k) ==
    /\ "cancel" \in Env /\ CanCommand
    /\ k \in DOMAIN orders /\ orders[k].sess # Null
    /\ cmd' = [pc |-> "mark", key |-> k, ref |-> orders[k].ref, sess |-> orders[k].sess]
    /\ UNCHANGED <<registryVars, link, td_ready, spi, pending_cancels, td, brokerVars, countVars>>

\* A cancel by client_order_id that names the current session.
CancelByKey_CurrentSession(k) ==
    /\ "cancel" \in Env /\ CanCommand
    /\ k \in DOMAIN orders /\ orders[k].status \in Active
    /\ spi.sess # 0
    /\ cmd' = [pc |-> "mark", key |-> k, ref |-> orders[k].ref, sess |-> spi.sess]
    /\ UNCHANGED <<registryVars, link, td_ready, spi, pending_cancels, td, brokerVars, countVars>>

\* The record is read once; the rest of the command works on this copy.
CancelByKey(k) ==
    /\ "cancel" \in Env /\ CanCommand
    /\ k \in DOMAIN orders /\ orders[k].status \in Active
    /\ orders[k].sess # Null
    /\ cmd' = [pc |-> "mark", key |-> k, ref |-> orders[k].ref, sess |-> orders[k].sess]
    /\ UNCHANGED <<registryVars, link, td_ready, spi, pending_cancels, td, brokerVars, countVars>>

\* A request with order_ref, front_id and session_id and no client_order_id: whatever
\* order they name, also one of another terminal, or none.
CancelByIds(ref, sess) ==
    /\ "cancel_by_ids" \in Env
    /\ CanCommand
    /\ cmd' = [pc |-> "mark", key |-> Null, ref |-> ref, sess |-> sess]
    /\ UNCHANGED <<registryVars, link, td_ready, spi, pending_cancels, td, brokerVars, countVars>>

CancelId(x) == <<x.sess, x.ref>>

\* A cancel that is marked without looking at the marks.
MarkCancel_NoCheck ==
    /\ cmd.pc = "mark"
    /\ pending_cancels' = pending_cancels \cup {CancelId(cmd)}
    /\ cmd' = [cmd EXCEPT !.pc = "action"]
    /\ UNCHANGED <<registryVars, link, td_ready, spi, td, brokerVars, countVars>>

MarkCancel ==
    /\ cmd.pc = "mark"
    /\ pending_cancels' = pending_cancels \cup {CancelId(cmd)}
    /\ cmd' = IF CancelId(cmd) \in pending_cancels  \* the reply says cancel_pending
              THEN Idle ELSE [cmd EXCEPT !.pc = "action"]
    /\ UNCHANGED <<registryVars, link, td_ready, spi, td, brokerVars, countVars>>

\* A ReqOrderAction whose failure leaves the cancel marked.
ReqOrderAction_NoUnmark ==
    /\ cmd.pc = "action"
    /\ cmd' = Idle
    /\ \/ /\ link = "login" /\ Len(cancels) < MaxCancels
          /\ cancels' = Append(cancels, [sess |-> cmd.sess, ref |-> cmd.ref,
                                         via |-> spi.sess, st |-> "sent"])
       \/ UNCHANGED cancels
    /\ UNCHANGED <<registryVars, link, td_ready, spi, pending_cancels, td,
                   broker, flow, qflow, sessions, countVars>>

\* Without a td_api the call raises and cancel_order ends there.
ReqOrderAction ==
    /\ cmd.pc = "action"
    /\ \/ /\ link = "login" /\ Len(cancels) < MaxCancels
          /\ cancels' = Append(cancels, [sess |-> cmd.sess, ref |-> cmd.ref,
                                         via |-> spi.sess, st |-> "sent"])
          /\ cmd' = Idle
       \/ /\ link # "none"
          /\ cmd' = [cmd EXCEPT !.pc = "unmark"] /\ UNCHANGED cancels
       \/ /\ link = "none"
          /\ cmd' = Idle /\ UNCHANGED cancels
    /\ UNCHANGED <<registryVars, link, td_ready, spi, pending_cancels, td,
                   broker, flow, qflow, sessions, countVars>>

UnmarkCancel ==
    /\ cmd.pc = "unmark"
    /\ pending_cancels' = pending_cancels \ {CancelId(cmd)}
    /\ cmd' = Idle
    /\ UNCHANGED <<registryVars, link, td_ready, spi, td, brokerVars, countVars>>
-----------------------------------------------------------------------------
\* The trader callback thread.

NextReport(kinds) == td.pc = "idle" /\ flow # <<>> /\ Head(flow).kind \in kinds

\* order_payload up to find_by_ctp.  A field of InputOrder that is missing
\* (sess 0) is taken from the current login.
BeginOrderPayload(m) ==
    LET sess == IF m.sess = 0 THEN spi.sess ELSE m.sess
    IN  \E owner \in FindByCtp(m.ref, sess, m.sys) :
           td' = [pc |-> "release", msg |-> m, sess |-> sess, owner |-> owner]

\* OnRtnOrder, and OnRspOrderInsert or OnErrRtnOrderInsert with an error.
OnRtnOrder ==
    /\ NextReport({"RtnOrder", "RspOrderInsert", "ErrRtnOrderInsert"})
    /\ BeginOrderPayload(Head(flow))
    /\ flow' = Tail(flow)
    /\ UNCHANGED <<registryVars, link, td_ready, spi, pending_cancels, cmd,
                   broker, cancels, qflow, sessions, countVars>>

OnRspQryOrder ==
    /\ td.pc = "idle" /\ qflow # <<>>
    /\ BeginOrderPayload(Head(qflow))
    /\ qflow' = Tail(qflow)
    /\ UNCHANGED <<registryVars, link, td_ready, spi, pending_cancels, cmd,
                   broker, cancels, flow, sessions, countVars>>

ReleaseCancel ==
    /\ td.pc = "release"
    /\ pending_cancels' = IF td.msg.status \in Terminal
                          THEN pending_cancels \ {<<td.sess, td.msg.ref>>}
                          ELSE pending_cancels
    /\ td' = [td EXCEPT !.pc = "update"]
    /\ UNCHANGED <<registryVars, link, td_ready, spi, cmd, brokerVars, countVars>>

\* update_ctp; then publish_order sends the report to the account's topic and
\* to the topic of owner's strategy, except an answer to a query.
UpdateAndPublish ==
    /\ td.pc = "update"
    /\ UpdateCtp(td.msg.ref, td.sess, td.msg.sys, td.msg.status)
    /\ td' = TdIdle
    /\ UNCHANGED <<link, td_ready, spi, pending_cancels, cmd, brokerVars, countVars>>

\* A publish_cancel_error that reports and keeps the cancel pending.
OnRspOrderAction_KeepPending ==
    /\ NextReport({"RspOrderAction", "ErrRtnOrderAction"})
    /\ flow' = Tail(flow)
    /\ UNCHANGED <<registryVars, link, td_ready, spi, cmd, td, pending_cancels,
                   broker, cancels, qflow, sessions, countVars>>

\* publish_cancel_error; its event goes to the shared topic errors.CTP.
OnRspOrderAction ==
    /\ NextReport({"RspOrderAction", "ErrRtnOrderAction"})
    /\ pending_cancels' = pending_cancels \ {CancelId(Head(flow))}
    /\ flow' = Tail(flow)
    /\ UNCHANGED <<registryVars, link, td_ready, spi, cmd, td,
                   broker, cancels, qflow, sessions, countVars>>
-----------------------------------------------------------------------------
(***************************************************************************)
(* The CTP counter.  It reports every order of the account, whoever placed *)
(* it, to a session that is logged in.  The answer to a request that failed*)
(* (InputOrder) names no session; it reaches the session that asked.       *)
(***************************************************************************)
Live       == Active \cup {"UNKNOWN"}
AtCounter  == Live \cup Terminal
OrderOf(sess, ref) == {o \in OrderIds : broker[o].st \in AtCounter
                                        /\ broker[o].sess = sess /\ broker[o].ref = ref}
Sub(sess)  == link = "login" /\ sess = sessions \* sess is the connected session

Report(kind, o, b) ==
    [kind |-> kind, order |-> o, status |-> b.st, ref |-> b.ref, sess |-> b.sess,
     sys |-> IF b.st = "UNKNOWN" THEN Null ELSE o]
InputOrder(kind, o, ref) ==
    [kind |-> kind, order |-> o, status |-> "REJECTED", ref |-> ref, sess |-> 0, sys |-> Null]
ActionError(kind, c) ==
    [kind |-> kind, order |-> Null, status |-> "UNKNOWN", ref |-> c.ref,
     sess |-> c.sess, sys |-> Null]

Send(msgs) ==
    /\ link = "login" => Len(flow) + Len(msgs) <= MaxFlow
    /\ flow' = IF link = "login" THEN flow \o msgs ELSE flow

BrokerSets(o, b) ==
    /\ broker' = [broker EXCEPT ![o] = b]
    /\ Send(<<Report("RtnOrder", o, b)>>)
    /\ UNCHANGED <<registryVars, proxyVars, cancels, qflow, sessions, countVars>>

\* An OrderRef is accepted once in a session.
BrokerAccept(k) ==
    /\ broker[k].st = "inflight"
    /\ OrderOf(broker[k].sess, broker[k].ref) = {}
    /\ BrokerSets(k, [broker[k] EXCEPT !.st = "UNKNOWN"])

BrokerReject(k) ==
    /\ broker[k].st = "inflight"
    /\ broker' = [broker EXCEPT ![k].st = "refused"]
    /\ \E kinds \in {<<"RspOrderInsert">>, <<"RspOrderInsert", "ErrRtnOrderInsert">>} :
          IF Sub(broker[k].sess)
          THEN Send([i \in 1..Len(kinds) |-> InputOrder(kinds[i], k, broker[k].ref)])
          ELSE UNCHANGED flow
    /\ UNCHANGED <<registryVars, proxyVars, cancels, qflow, sessions, countVars>>

LoseInsert(k) ==
    /\ broker[k].st = "inflight" /\ ~Sub(broker[k].sess)
    /\ broker' = [broker EXCEPT ![k].st = "lost"]
    /\ UNCHANGED <<registryVars, proxyVars, cancels, flow, qflow, sessions, countVars>>

Progress == [UNKNOWN    |-> {"SUBMITTED", "CANCELLED"},
             SUBMITTED  |-> {"PARTTRADED", "TRADED", "CANCELLED"},
             PARTTRADED |-> {"TRADED", "CANCELLED"}]

BrokerProgress(o) ==
    /\ broker[o].st \in Live
    /\ \E st \in Progress[broker[o].st] : BrokerSets(o, [broker[o] EXCEPT !.st = st])

ForeignOrder(f, ref) ==
    /\ broker[f].st = "none" /\ OrderOf(ForeignSess, ref) = {}
    /\ BrokerSets(f, [st |-> "UNKNOWN", ref |-> ref, sess |-> ForeignSess])

\* The refusal of another terminal's order is reported to this session too.
ForeignReject(f, ref) ==
    /\ "foreign_rejects" \in Env
    /\ broker[f].st = "none"
    /\ broker' = [broker EXCEPT ![f] = [st |-> "refused", ref |-> ref, sess |-> ForeignSess]]
    /\ Send(<<InputOrder("ErrRtnOrderInsert", f, ref)>>)
    /\ UNCHANGED <<registryVars, proxyVars, cancels, qflow, sessions, countVars>>

BrokerCancels(i) ==
    /\ cancels[i].st = "sent"
    /\ cancels' = [cancels EXCEPT ![i].st = "done"]
    /\ \E o \in OrderOf(cancels[i].sess, cancels[i].ref) :
          /\ broker[o].st \in Live
          /\ broker' = [broker EXCEPT ![o].st = "CANCELLED"]
          /\ Send(<<Report("RtnOrder", o, broker'[o])>>)
    /\ UNCHANGED <<registryVars, proxyVars, qflow, sessions, countVars>>

BrokerRefusesCancel(i) ==
    /\ cancels[i].st = "sent"
    /\ cancels' = [cancels EXCEPT ![i].st = "refused"]
    /\ \E kinds \in {<<"RspOrderAction">>, <<"ErrRtnOrderAction">>}
              \cup (IF "two_cancel_errors" \in Env
                    THEN {<<"RspOrderAction", "ErrRtnOrderAction">>} ELSE {}) :
          IF Sub(cancels[i].via)
          THEN Send([j \in 1..Len(kinds) |-> ActionError(kinds[j], cancels[i])])
          ELSE UNCHANGED flow
    /\ UNCHANGED <<registryVars, proxyVars, broker, qflow, sessions, countVars>>

LoseCancel(i) ==
    /\ cancels[i].st = "sent" /\ ~Sub(cancels[i].via)
    /\ cancels' = [cancels EXCEPT ![i].st = "lost"]
    /\ UNCHANGED <<registryVars, proxyVars, broker, flow, qflow, sessions, countVars>>

\* One order of the answer to ReqQryOrder, on a flow of its own.
BrokerSnapshot(o) ==
    /\ snapshots < MaxSnapshots /\ link = "login"
    /\ broker[o].st \in AtCounter
    /\ qflow' = Append(qflow, Report("QryOrder", o, broker[o]))
    /\ snapshots' = snapshots + 1
    /\ UNCHANGED <<registryVars, proxyVars, broker, cancels, flow, sessions,
                   inserts, crashes>>
-----------------------------------------------------------------------------
Command ==
    \/ \E k \in Keys : PlaceOrder(k) \/ CancelByKey(k)
    \/ \E ref \in 1..MaxRef, sess \in 1..MaxSession : CancelByIds(ref, sess)

CommandStep == \/ LoadOrderRef \/ StoreOrderRef \/ TakeOrderRef
               \/ ReadFrontId \/ ReadSessionId \/ CreateRow
               \/ ReqOrderInsert \/ ReadFrontIdAgain \/ RejectLocally
               \/ MarkCancel \/ ReqOrderAction \/ UnmarkCancel

Login == Connect \/ OnRspAuthenticate \/ OnRspUserLogin \/ OnRspSettlementInfoConfirm

TraderStep == \/ OnRtnOrder \/ OnRspQryOrder \/ ReleaseCancel \/ UpdateAndPublish
              \/ OnRspOrderAction

AnswerInsert(k) == BrokerAccept(k) \/ BrokerReject(k) \/ LoseInsert(k)
AnswerCancel(i) == BrokerCancels(i) \/ BrokerRefusesCancel(i) \/ LoseCancel(i)

Counter ==
    \/ \E k \in Keys : AnswerInsert(k)
    \/ \E o \in OrderIds : BrokerProgress(o) \/ BrokerSnapshot(o)
    \/ \E f \in Foreign, ref \in 1..MaxRef : ForeignOrder(f, ref) \/ ForeignReject(f, ref)
    \/ \E i \in DOMAIN cancels : AnswerCancel(i)

Next == \/ Command \/ CommandStep \/ Login \/ TraderStep
        \/ OnFrontDisconnected \/ Crash \/ Counter

Spec == Init /\ [][Next]_vars

\* The two threads of the proxy run; the network connects; the counter
\* answers what it was asked.  Nobody has to send commands or to trade.
Fairness ==
    /\ WF_vars(CommandStep) /\ WF_vars(TraderStep) /\ WF_vars(Login)
    /\ \A k \in Keys : WF_vars(AnswerInsert(k))
    /\ \A i \in 1..MaxCancels : WF_vars(i \in DOMAIN cancels /\ AnswerCancel(i))

FairSpec == Spec /\ Fairness
-----------------------------------------------------------------------------
\* Properties.

Message == [kind : {"RtnOrder", "RspOrderInsert", "ErrRtnOrderInsert", "QryOrder"},
            order : OrderIds, status : Status, ref : 0..MaxRef,
            sess : 0..MaxSession, sys : SysIds \cup {Null}]
CancelMessage == [kind : {"RspOrderAction", "ErrRtnOrderAction"},
                  order : {Null}, status : {"UNKNOWN"}, ref : 0..MaxRef,
                  sess : 1..MaxSession, sys : {Null}]

CommandTypeOK ==
    /\ cmd \in [pc : PlacePCs \cup {"idle", "mark", "action", "unmark"},
               key : Keys \cup {Null}, ref : 0..MaxRef, sess : 0..MaxSession]
    /\ cmd.pc \in PlacePCs => cmd.key \in Keys
    /\ cmd.pc \notin {"idle", "load_ref", "store_ref", "take_ref", "read_front"} =>
          cmd.sess \in 1..MaxSession

SessionTypeOK ==
    /\ link \in {"none", "down", "front", "login"} /\ td_ready \in BOOLEAN
    /\ spi \in [ref : 0..MaxRef, sess : 0..MaxSession]
    /\ cmd.pc = "load_ref" => spi.ref < MaxRef
    /\ sessions \in 0..(MaxSession - 1)
    /\ link = "none" => ~td_ready /\ cmd.pc \notin PlacePCs
    /\ td_ready \/ link = "login" \/ cmd.pc \in PlacePCs => spi.sess \in 1..MaxSession

BrokerOrder == [st : {"none", "inflight", "refused", "lost"} \cup AtCounter,
                ref : 0..MaxRef, sess : 0..MaxSession]
Named(b)    == b.ref \in 0..MaxRef /\ b.sess \in 1..MaxSession
BrokerTypeOK ==
    /\ broker \in [OrderIds -> BrokerOrder]
    /\ \A o \in OrderIds : broker[o].st # "none" => Named(broker[o])

CancelRequest == [sess : 1..MaxSession, ref : 0..MaxRef, via : 1..MaxSession,
                  st : {"sent", "done", "refused", "lost"}]
CounterTypeOK ==
    /\ BrokerTypeOK
    /\ cancels \in Seq(CancelRequest)
    /\ flow \in Seq(Message \cup CancelMessage)
    /\ qflow \in Seq(Message)
    /\ flow # <<>> \/ qflow # <<>> => link = "login"

TraderTypeOK ==
    \/ td = TdIdle
    \/ td \in [pc : {"release", "update"}, msg : Message, sess : 1..MaxSession,
              owner : Keys \cup {Null}]

CancelTypeOK == pending_cancels \subseteq (1..MaxSession) \X (0..MaxRef)

CountTypeOK == inserts \in [Keys -> Nat] /\ crashes \in Nat /\ snapshots \in Nat

\* Every variable has its type; in particular no OrderRef exceeds the bound, and
\* place_order and its row name a session.
TypeOK == /\ RegistryTypeOK /\ CommandTypeOK /\ SessionTypeOK
          /\ CounterTypeOK /\ TraderTypeOK /\ CancelTypeOK /\ CountTypeOK

\* A key reaches ReqOrderInsert at most once, across crashes and whatever the
\* client retries, and only when its row is already in the database.
InsertOnce ==
    \A k \in Keys : /\ inserts[k] \in {0, 1}
                    /\ inserts[k] = 1 => k \in DOMAIN orders

\* The same seen from outside: placing orders implements an idempotent desk.
Desk == INSTANCE OrderDesk WITH Old <- LegacyKeys, claimed <- DOMAIN orders,
                                calls <- inserts
DeskSpec == Desk!Spec

Own(o) == {o} \cap Keys

\* A report is told to the strategy of the order it is about and updates that
\* order's row; a report on an order of another terminal is told to no strategy
\* and updates no row (find_by_ctp and update_ctp agree).
OwnReports ==
    td.pc # "idle" =>
        /\ {td.owner} = IF Own(td.msg.order) = {} THEN {Null} ELSE Own(td.msg.order)
        /\ UpdateTarget(td.msg.ref, td.sess) = Own(td.msg.order)

\* The strategy is told an order is finished, and a cancel is answered with
\* already_terminal, only when the counter finished it or never took it.
TerminalRowIsDone ==
    \A k \in DOMAIN orders :
        orders[k].status \in Terminal =>
            broker[k].st \in Terminal \cup {"none", "refused"}

\* A cancel by client_order_id names, until it is sent, the very order of that
\* id at the counter, which had reported it active; also when the order was
\* placed in an earlier session or finishes meanwhile.
CancelNamesItsOrder ==
    cmd.pc \in {"mark", "action", "unmark"} /\ cmd.key # Null =>
        /\ CancelId(cmd) = CancelId(broker[cmd.key])
        /\ broker[cmd.key].st \in Active \cup Terminal

Asking(p)    == cmd.pc \in {"action", "unmark"} /\ CancelId(cmd) = p
Unanswered(p) == \E i \in DOMAIN cancels : CancelId(cancels[i]) = p /\ cancels[i].st = "sent"
Releases(m, p) ==
    \/ m.kind \in {"RspOrderAction", "ErrRtnOrderAction"} /\ CancelId(m) = p
    \/ m.kind = "RtnOrder" /\ m.status \in Terminal /\ CancelId(m) = p
Released(p)  == \/ \E i \in DOMAIN flow : Releases(flow[i], p)
                \/ td.pc = "release" /\ Releases(td.msg, p)

\* While cancel_order answers cancel_pending, a request really is under way:
\* being sent, unanswered, or with its answer on the way to the trader thread; as long
\* as the connection stays up.
PendingCancelIsOutstanding ==
    \A p \in pending_cancels : Asking(p) \/ Unanswered(p) \/ Released(p)

\* A live order never has two unanswered cancel requests at the counter, as long as a
\* refusal is reported once: with "two_cancel_errors" in Env the second report releases
\* the mark of a retry, and a third request (MaxCancels > 2) goes out beside it.
NoSecondCancel ==
    \A i, j \in DOMAIN cancels :
        /\ i # j /\ CancelId(cancels[i]) = CancelId(cancels[j])
        /\ cancels[i].st = "sent" /\ cancels[j].st = "sent"
        => \A o \in OrderOf(cancels[i].sess, cancels[i].ref) : broker[o].st \notin Live

\* Only an order that the registry knows from an active report is cancelled.
CancelAfterActiveReport ==
    [][Len(cancels') > Len(cancels) =>
         \E k \in DOMAIN orders : /\ orders[k].status \in Active \cup Terminal
                                 /\ CancelId(orders[k]) = CancelId(cmd)]_vars

Stage == [PENDING_SUBMIT |-> 0, UNKNOWN |-> 1, SUBMITTED |-> 2, PARTTRADED |-> 3,
          TRADED |-> 4, CANCELLED |-> 4, REJECTED |-> 4]
NotAfter(s, t) == s = t \/ Stage[s] < Stage[t]

\* While nobody queries orders, what the registry says of an order never goes back:
\* update_ctp writes whatever it is given, and a finished order stays finished.
StatusGoesForward ==
    [][\A k \in DOMAIN orders : NotAfter(orders[k].status, orders'[k].status)]_vars

\* What src/tests/test_ctp_session.py:452 expects of a cancel: an order that was
\* recorded as finished is not cancelled at CTP, so its row must stay finished.  TLC
\* refutes it: a delayed answer to an order query takes the row back.
FinishedStaysFinished ==
    [][\A k \in DOMAIN orders :
          orders[k].status \in Terminal => orders'[k].status \in Terminal]_vars

\* A row that says PENDING_SUBMIT waits for something: ReqOrderInsert is still to be
\* called or its failure to be recorded, the counter has not answered, or its
\* answer is on the way to update_ctp.
PendingSubmitIsAwaited ==
    \A k \in DOMAIN orders : orders[k].status = "PENDING_SUBMIT" =>
        \/ cmd.pc \in {"insert", "reject", "reject_session"} /\ cmd.key = k
        \/ broker[k].st = "inflight"
        \/ \E i \in DOMAIN flow : flow[i].order = k
        \/ td.pc # "idle" /\ td.msg.order = k

\* A recorded order does not stay PENDING_SUBMIT: the client that waits for an
\* order event before it cancels gets one.
PendingSubmitResolves ==
    \A k \in Keys : (k \in DOMAIN orders /\ orders[k].status = "PENDING_SUBMIT")
                        ~> (k \in DOMAIN orders /\ orders[k].status # "PENDING_SUBMIT")

\* A cancel does not stay pending: the order ends or a retry is sent again.
PendingCancelResolves ==
    \A sess \in 1..MaxSession, ref \in 0..MaxRef :
        (<<sess, ref>> \in pending_cancels) ~> (<<sess, ref>> \notin pending_cancels)
=============================================================================
