------------------------- MODULE OrderIdentityProofs -------------------------
(***************************************************************************)
(* Proofs about OrderFlow: how the proxy knows an order again.  A report   *)
(* finds the row and the strategy of its own order, a finished row is a    *)
(* finished order, and a cancel by client_order_id names its own order,    *)
(* for any number of keys, sessions, orders of other terminals, crashes,   *)
(* lost connections and delayed answers to queries.                        *)
(***************************************************************************)
EXTENDS OrderFlowProofs

\* What the theorems ask of the environment: no login is completed in the middle of
\* place_order, no refusal of another terminal's order is reported without its
\* session, and rows without a session do not meet orders of other terminals.
Calm ==
    /\ "relogin_during_place" \notin Env /\ "foreign_rejects" \notin Env
    /\ LegacyKeys = {} \/ Foreign = {}

\* The session and the OrderRef under which the order of row k was sent.
HomeSess(k) == IF k \in LegacyKeys THEN 1 ELSE orders[k].sess
HomeRef(k)  == IF k \in LegacyKeys THEN 1 ELSE orders[k].ref

\* A row has its order's session and number, or not yet.
RowsKnown ==
    /\ LegacyKeys \subseteq DOMAIN orders
    /\ \A k \in DOMAIN orders :
          /\ HomeSess(k) \in 1..sessions
          /\ orders[k].ref = HomeRef(k)
          /\ orders[k].sess = HomeSess(k) \/ (orders[k].sess = Null /\ k \in LegacyKeys)
          /\ orders[k].sys \in {Null, k}

Distinct ==
    \A j, k \in DOMAIN orders : HomeSess(j) = HomeSess(k) /\ HomeRef(j) = HomeRef(k) => j = k

\* Every order at the counter has a row, unless another terminal placed it.
AtHome ==
    \A k \in Keys : broker[k].st # "none" =>
        k \in DOMAIN orders /\ broker[k].sess = HomeSess(k) /\ broker[k].ref = HomeRef(k)
Elsewhere == \A f \in Foreign : broker[f].st # "none" => broker[f].sess = ForeignSess

\* References are taken in order within a session; the one place_order has taken
\* is new.
Current ==
    /\ spi.sess <= sessions /\ (link = "login" => spi.sess = sessions)
    /\ \A k \in DOMAIN orders : HomeSess(k) = spi.sess => HomeRef(k) <= spi.ref
Placing ==
    /\ cmd.pc = "store_ref" => cmd.ref = spi.ref + 1
    /\ cmd.pc = "take_ref" =>
          \A k \in DOMAIN orders : HomeSess(k) = spi.sess => HomeRef(k) < spi.ref
    /\ cmd.pc \in {"read_front", "read_session", "create"} =>
          /\ cmd.ref <= spi.ref
          /\ \A k \in DOMAIN orders : HomeSess(k) = spi.sess => HomeRef(k) < cmd.ref
    /\ cmd.pc \in {"read_session", "create", "reject_session"} => cmd.sess = spi.sess
    /\ cmd.pc \in {"insert", "reject", "reject_session"} =>
          /\ cmd.key \in DOMAIN orders \ LegacyKeys
          /\ HomeSess(cmd.key) = spi.sess /\ HomeRef(cmd.key) = cmd.ref
          /\ broker[cmd.key].st = "none"
          /\ orders[cmd.key].status = "PENDING_SUBMIT"

\* What a report says of its order was true and, of a final status, still is.
Done     == Terminal \cup {"refused"}
Reported == Active \cup Terminal
Truthful(m) ==
    LET b == broker[m.order]
    IN  /\ b.st # "none" /\ m.ref = b.ref /\ m.sys \in {Null, m.order}
        /\ m.status \in Active => b.st \in Reported
        /\ m.status \in Terminal => b.st \in Done
Addressed(m) == m.sess = broker[m.order].sess \/ (m.sess = 0 /\ broker[m.order].sess = sessions)

Mail(q) == \A i \in DOMAIN q : q[i] \in Message => Truthful(q[i]) /\ Addressed(q[i])
InHand ==
    td.pc # "idle" =>
        /\ Truthful(td.msg) /\ td.sess = broker[td.msg.order].sess
        /\ {td.owner} = IF Own(td.msg.order) = {} THEN {Null} ELSE Own(td.msg.order)

ActiveWasReported ==
    \A k \in DOMAIN orders : orders[k].status \in Active => broker[k].st \in Reported

RegistryInv == RowsKnown /\ Distinct
CounterInv  == AtHome /\ Elsewhere
ThreadInv   == Current /\ Placing
ReportInv   == Mail(flow) /\ Mail(qflow) /\ InHand
StatusInv   == ActiveWasReported /\ TerminalRowIsDone /\ CancelNamesItsOrder

IdInv == RegistryInv /\ CounterInv /\ ThreadInv /\ ReportInv /\ StatusInv
-----------------------------------------------------------------------------
LEMMA IdInit == Init => IdInv
<1> SUFFICES ASSUME Init PROVE IdInv
  OBVIOUS
<1> USE FlowAssumption, RegistryAssumption
<1>1. DOMAIN orders = LegacyKeys /\ \A k \in LegacyKeys : orders[k] = LegacyRow
  BY DEF Init
<1>2. RegistryInv
  BY <1>1 DEF Init, RegistryInv, RowsKnown, Distinct, HomeSess, HomeRef, LegacyRow
<1>3. \A o \in OrderIds : broker[o] = IF o \in LegacyKeys THEN LegacyOrder ELSE NoOrder
  BY DEF Init
<1>4. CounterInv
  BY <1>1, <1>3 DEF CounterInv, AtHome, Elsewhere, HomeSess, HomeRef, LegacyOrder, NoOrder,
                    OrderIds
<1>5. ThreadInv
  BY <1>1 DEF Init, ThreadInv, Current, Placing, HomeSess, HomeRef, Idle
<1>6. ReportInv
  BY DEF Init, ReportInv, Mail, InHand, TdIdle
<1>7. StatusInv
  BY <1>1, <1>3 DEF Init, StatusInv, ActiveWasReported, TerminalRowIsDone, CancelNamesItsOrder,
                    Reported, LegacyRow, LegacyOrder, Active, Terminal, Idle, OrderIds
<1> QED BY <1>2, <1>4, <1>5, <1>6, <1>7 DEF IdInv

LEMMA LatestOfOne == \A k : Latest({k}) = {k}
BY DEF Latest

LEMMA LatestOfNone == Latest({}) = {}
BY DEF Latest

\* find_by_ctp and update_ctp find the row of an order of ours by its session and
\* OrderRef, whether the row has them or not.
LEMMA FindOwn ==
    ASSUME TypeOK, RegistryInv, NEW k \in DOMAIN orders, NEW sys \in {Null, k}
    PROVE  /\ FindByCtp(HomeRef(k), HomeSess(k), sys) = {k}
           /\ UpdateTarget(HomeRef(k), HomeSess(k)) = {k}
<1> DEFINE sess == HomeSess(k)
           ref  == HomeRef(k)
<1>1. /\ sess \in Nat \ {0} /\ sess # Null
      /\ \A j \in DOMAIN orders : orders[j].sess = Null => j \in LegacyKeys
  BY RegistryAssumption DEF RegistryInv, RowsKnown, TypeOK, SessionTypeOK
<1>2. BySession(ref, sess) \subseteq {k}
  BY <1>1 DEF BySession, RegistryInv, RowsKnown, Distinct
<1>3. BySysId(sys) \subseteq {k}
  BY DEF BySysId, RegistryInv, RowsKnown
<1>4. CASE orders[k].sess = sess
  <2>1. BySession(ref, sess) = {k}
    BY <1>2, <1>4 DEF BySession, RegistryInv, RowsKnown
  <2> QED BY <1>1, <2>1, LatestOfOne DEF FindByCtp, UpdateTarget
<1>5. CASE orders[k].sess = Null
  <2>1. k \in LegacyKeys
    BY <1>1, <1>5
  <2>2. BySession(ref, sess) = {}
    BY <1>1, <1>2, <1>5 DEF BySession
  <2>3. ByLegacyRef(ref) = {k}
    BY <1>1, <1>5, <2>1, FlowAssumption DEF ByLegacyRef, RegistryInv, RowsKnown
  <2>4. BySysId(sys) = {} \/ BySysId(sys) = {k}
    BY <1>3
  <2>5. FindByCtp(ref, sess, sys) = Latest({k})
    BY <1>1, <2>2, <2>3, <2>4 DEF FindByCtp
  <2>6. UpdateTarget(ref, sess) = Latest({k})
    BY <2>2, <2>3 DEF UpdateTarget
  <2> QED BY <2>5, <2>6, LatestOfOne
<1> QED BY <1>4, <1>5 DEF RegistryInv, RowsKnown

\* An order of another terminal finds no row.
LEMMA FindForeign ==
    ASSUME Calm, TypeOK, RegistryInv, NEW f \in Foreign, NEW sys \in {Null, f}, NEW ref
    PROVE  /\ FindByCtp(ref, ForeignSess, sys) = {Null}
           /\ UpdateTarget(ref, ForeignSess) = {}
<1>1. ForeignSess \in Nat \ {0} /\ ForeignSess \notin 1..sessions
  BY FlowAssumption, RegistryAssumption DEF TypeOK, SessionTypeOK, ForeignSess
<1>2. BySession(ref, ForeignSess) = {}
  BY <1>1, RegistryAssumption DEF BySession, RegistryInv, RowsKnown
<1>3. BySysId(sys) = {}
  BY FlowAssumption DEF BySysId, RegistryInv, RowsKnown, TypeOK, RegistryTypeOK
<1>4. ByLegacyRef(ref) = {}
  <2>1. LegacyKeys = {}
    BY DEF Calm
  <2>2. \A k \in DOMAIN orders : orders[k].sess # Null
    <3>1. \A s \in 1..sessions : s # Null
      BY RegistryAssumption DEF TypeOK, SessionTypeOK
    <3> QED BY <2>1, <3>1 DEF RegistryInv, RowsKnown
  <2> QED BY <2>2 DEF ByLegacyRef
<1> QED BY <1>1, <1>2, <1>3, <1>4, LatestOfNone DEF FindByCtp, UpdateTarget

\* Together: what the counter says of an order leads to its row and its owner.
LEMMA FindTrue ==
    ASSUME Calm, TypeOK, RegistryInv, CounterInv, NEW o \in OrderIds,
           broker[o].st # "none", NEW sys \in {Null, o}
    PROVE  /\ FindByCtp(broker[o].ref, broker[o].sess, sys)
                 = IF Own(o) = {} THEN {Null} ELSE Own(o)
           /\ UpdateTarget(broker[o].ref, broker[o].sess) = Own(o)
<1>1. CASE o \in Keys
  <2>1. o \in DOMAIN orders /\ broker[o].sess = HomeSess(o) /\ broker[o].ref = HomeRef(o)
    BY <1>1 DEF CounterInv, AtHome
  <2>2. Own(o) = {o}
    BY <1>1 DEF Own
  <2> QED BY <2>1, <2>2, FindOwn
<1>2. CASE o \in Foreign
  <2>1. broker[o].sess = ForeignSess
    BY <1>2 DEF CounterInv, Elsewhere
  <2>2. Own(o) = {}
    BY <1>2, FlowAssumption DEF Own
  <2> QED BY <1>2, <2>1, <2>2, FindForeign
<1> QED BY <1>1, <1>2 DEF OrderIds
-----------------------------------------------------------------------------
\* Steps that write no row and keep the orders of the counter.

Kept == UNCHANGED <<orders, broker>>

LEMMA KeepHomes ==
    ASSUME UNCHANGED orders
    PROVE  \A k : HomeSess(k)' = HomeSess(k) /\ HomeRef(k)' = HomeRef(k)
BY DEF HomeSess, HomeRef

LEMMA KeepRegistryInv == RegistryInv /\ UNCHANGED <<orders, sessions>> => RegistryInv'
BY DEF RegistryInv, RowsKnown, Distinct, HomeSess, HomeRef

LEMMA KeepCounterInv == CounterInv /\ Kept => CounterInv'
BY DEF CounterInv, AtHome, Elsewhere, HomeSess, HomeRef, Kept

LEMMA KeepThreadInv ==
    ThreadInv /\ Kept /\ UNCHANGED <<spi, sessions, link, cmd>> => ThreadInv'
BY DEF ThreadInv, Current, Placing, HomeSess, HomeRef, Kept

LEMMA KeepMail == \A q : Mail(q) /\ UNCHANGED <<broker, sessions>> => Mail(q)'
BY DEF Mail, Truthful, Addressed

LEMMA KeepInHand == InHand /\ UNCHANGED <<broker, td>> => InHand'
BY DEF InHand, Truthful

LEMMA KeepStatusInv == StatusInv /\ Kept /\ UNCHANGED cmd => StatusInv'
BY DEF StatusInv, ActiveWasReported, TerminalRowIsDone, CancelNamesItsOrder, CancelId, Kept

\* CancelNamesItsOrder is about the cancel under way only.
LEMMA KeepRowStatus ==
    ASSUME StatusInv, Kept, CancelNamesItsOrder'
    PROVE  StatusInv'
BY DEF StatusInv, ActiveWasReported, TerminalRowIsDone, Kept

LEMMA NotCancelling ==
    ASSUME cmd'.pc \notin {"mark", "action", "unmark"} PROVE CancelNamesItsOrder'
BY DEF CancelNamesItsOrder

LEMMA SessionsStep ==
    ASSUME Calm, TypeOK, IdInv, Login \/ OnFrontDisconnected \/ Crash PROVE IdInv'
<1> USE DEF IdInv
<1>1. CASE Connect
  <2>1. Kept /\ UNCHANGED <<sessions, cmd, td, flow, qflow>> /\ link' = "down"
        /\ spi' = [ref |-> 0, sess |-> 0] /\ link = "none"
    BY <1>1 DEF Connect, Kept, registryVars, brokerVars
  <2>2. cmd.pc \notin PlacePCs /\ sessions \in Nat
    BY <2>1 DEF TypeOK, SessionTypeOK
  <2>3. ThreadInv'
    <3>1. \A k \in DOMAIN orders : HomeSess(k)' # 0
      BY <2>1, KeepHomes DEF RegistryInv, RowsKnown, Kept
    <3> QED BY <2>1, <2>2, <3>1 DEF ThreadInv, Current, Placing, PlacePCs, Kept
  <2>4. Mail(flow)' /\ Mail(qflow)' /\ InHand'
    BY <2>1, KeepMail, KeepInHand DEF Kept, ReportInv, Mail
  <2> QED BY <2>1, <2>3, <2>4, KeepRegistryInv, KeepCounterInv, KeepStatusInv DEF Kept, ReportInv
<1>2. CASE OnRspAuthenticate \/ OnRspSettlementInfoConfirm
  <2>1. Kept /\ UNCHANGED <<sessions, cmd, td, spi, flow, qflow>>
        /\ (link' = "login" => link = "login")
    BY <1>2 DEF OnRspAuthenticate, OnRspSettlementInfoConfirm, Kept, registryVars, brokerVars
  <2>2. ThreadInv'
    BY <2>1, KeepHomes DEF ThreadInv, Current, Placing, Kept
  <2>3. Mail(flow)' /\ Mail(qflow)' /\ InHand'
    BY <2>1, KeepMail, KeepInHand DEF Kept, ReportInv, Mail
  <2> QED BY <2>1, <2>2, <2>3, KeepRegistryInv, KeepCounterInv, KeepStatusInv DEF Kept, ReportInv
<1>3. CASE OnRspUserLogin
  <2>1. PICK base \in RefBases : spi' = [ref |-> base, sess |-> sessions + 1]
    BY <1>3 DEF OnRspUserLogin
  <2>2. /\ Kept /\ UNCHANGED <<cmd, td, flow, qflow>> /\ sessions' = sessions + 1
        /\ cmd.pc \notin PlacePCs /\ sessions \in Nat /\ td.pc = "idle"
        /\ flow = <<>> /\ qflow = <<>>
    BY <1>3 DEF OnRspUserLogin, Calm, Kept, registryVars, TypeOK, SessionTypeOK, CounterTypeOK
  <2>3. \A k \in DOMAIN orders : HomeSess(k) \in 1..(sessions + 1) /\ HomeSess(k) # sessions + 1
    BY <2>2 DEF RegistryInv, RowsKnown
  <2>4. RegistryInv'
    BY <2>2, <2>3, KeepHomes DEF RegistryInv, RowsKnown, Distinct, Kept
  <2>5. ThreadInv'
    BY <2>1, <2>2, <2>3, KeepHomes DEF ThreadInv, Current, Placing, PlacePCs, Kept
  <2>6. ReportInv'
    BY <2>2 DEF ReportInv, Mail, InHand
  <2> QED BY <2>2, <2>4, <2>5, <2>6, KeepCounterInv, KeepStatusInv
<1>4. CASE OnFrontDisconnected
  <2>1. Kept /\ UNCHANGED <<sessions, cmd, td, spi>> /\ link' = "down"
        /\ flow' = <<>> /\ qflow' = <<>>
    BY <1>4 DEF OnFrontDisconnected, Kept, registryVars
  <2>2. ThreadInv'
    BY <2>1, KeepHomes DEF ThreadInv, Current, Placing, Kept
  <2>3. Mail(flow)' /\ Mail(qflow)' /\ InHand'
    BY <2>1, KeepInHand DEF Kept, ReportInv, Mail
  <2> QED BY <2>1, <2>2, <2>3, KeepRegistryInv, KeepCounterInv, KeepStatusInv DEF Kept, ReportInv
<1>5. CASE Crash
  <2>1. Kept /\ UNCHANGED sessions /\ link' = "none" /\ cmd' = Idle /\ td' = TdIdle
        /\ spi' = [ref |-> 0, sess |-> 0] /\ flow' = <<>> /\ qflow' = <<>>
    BY <1>5 DEF Crash, Kept, registryVars
  <2>2. sessions \in Nat
    BY DEF TypeOK, SessionTypeOK
  <2>3. ThreadInv'
    <3>1. \A k \in DOMAIN orders : HomeSess(k)' # 0
      BY <2>1, KeepHomes DEF RegistryInv, RowsKnown, Kept
    <3> QED BY <2>1, <2>2, <3>1 DEF ThreadInv, Current, Placing, Idle, Kept
  <2>4. ReportInv'
    BY <2>1 DEF ReportInv, Mail, InHand, TdIdle
  <2>5. CancelNamesItsOrder'
    BY <2>1, NotCancelling DEF Idle
  <2> QED BY <2>1, <2>3, <2>4, <2>5, KeepRegistryInv, KeepCounterInv, KeepRowStatus DEF Kept
<1> QED BY <1>1, <1>2, <1>3, <1>4, <1>5 DEF Login
-----------------------------------------------------------------------------
\* A row that is written keeps its home.
LEMMA RowWritten ==
    ASSUME TypeOK, RegistryInv, UNCHANGED sessions, NEW k \in DOMAIN orders,
           NEW sys \in {Null, k}, NEW status,
           UpdateCtp(HomeRef(k), HomeSess(k), sys, status)
    PROVE  /\ DOMAIN orders' = DOMAIN orders
           /\ \A j \in DOMAIN orders \ {k} : orders'[j] = orders[j]
           /\ orders'[k] = [status |-> status, sess |-> HomeSess(k), ref |-> orders[k].ref,
                            sys |-> sys]
           /\ \A j \in DOMAIN orders : HomeSess(j)' = HomeSess(j) /\ HomeRef(j)' = HomeRef(j)
           /\ RegistryInv'
<1> DEFINE row == [status |-> status, sess |-> HomeSess(k), ref |-> orders[k].ref, sys |-> sys]
<1>1. Put(k, row)
  <2>1. UpdateTarget(HomeRef(k), HomeSess(k)) = {k}
    BY FindOwn
  <2> QED BY <2>1 DEF UpdateCtp
<1>2. /\ DOMAIN orders' = DOMAIN orders
      /\ \A j \in DOMAIN orders \ {k} : orders'[j] = orders[j]
      /\ orders'[k] = row
  BY <1>1 DEF Put
<1>3. row.sess = HomeSess(k) /\ row.ref = orders[k].ref /\ row.sys = sys
  OBVIOUS
<1> HIDE DEF row
<1>4. \A j \in DOMAIN orders : HomeSess(j)' = HomeSess(j) /\ HomeRef(j)' = HomeRef(j)
  <2>1. HomeSess(k)' = HomeSess(k) /\ HomeRef(k)' = HomeRef(k)
    BY <1>2, <1>3 DEF HomeSess, HomeRef
  <2>2. \A j \in DOMAIN orders \ {k} : HomeSess(j)' = HomeSess(j) /\ HomeRef(j)' = HomeRef(j)
    BY <1>2 DEF HomeSess, HomeRef
  <2> QED BY <2>1, <2>2
<1>5. RowsKnown'
  <2>1. HomeSess(k)' \in 1..sessions' /\ orders'[k].ref = HomeRef(k)'
        /\ orders'[k].sess = HomeSess(k)' /\ orders'[k].sys \in {Null, k}
    BY <1>2, <1>3, <1>4 DEF RegistryInv, RowsKnown
  <2>2. \A j \in DOMAIN orders \ {k} :
           /\ HomeSess(j)' \in 1..sessions'
           /\ orders'[j].ref = HomeRef(j)'
           /\ orders'[j].sess = HomeSess(j)' \/ (orders'[j].sess = Null /\ j \in LegacyKeys)
           /\ orders'[j].sys \in {Null, j}
    BY <1>2, <1>4 DEF RegistryInv, RowsKnown
  <2>3. LegacyKeys \subseteq DOMAIN orders'
    BY <1>2 DEF RegistryInv, RowsKnown
  <2> QED BY <1>2, <2>1, <2>2, <2>3 DEF RowsKnown
<1>6. Distinct'
  BY <1>2, <1>4 DEF RegistryInv, Distinct
<1> QED BY <1>2, <1>4, <1>5, <1>6 DEF row, RegistryInv

\* The row of a new key, under a session and a reference that no row has.
LEMMA RowCreated ==
    ASSUME TypeOK, RegistryInv, UNCHANGED sessions, NEW key \in Keys,
           NEW sess \in 1..sessions, NEW ref \in 0..MaxRef, Create(key, ref, sess),
           \A j \in DOMAIN orders : HomeSess(j) # sess \/ HomeRef(j) # ref
    PROVE  /\ DOMAIN orders' = DOMAIN orders \cup {key}
           /\ \A j \in DOMAIN orders : orders'[j] = orders[j]
           /\ orders'[key].status = "PENDING_SUBMIT"
           /\ \A j \in DOMAIN orders : HomeSess(j)' = HomeSess(j) /\ HomeRef(j)' = HomeRef(j)
           /\ key \notin DOMAIN orders /\ key \notin LegacyKeys
           /\ HomeSess(key)' = sess /\ HomeRef(key)' = ref
           /\ RegistryInv'
<1> DEFINE row == [status |-> "PENDING_SUBMIT", sess |-> sess, ref |-> ref, sys |-> Null]
<1>1. Put(key, row) /\ key \notin DOMAIN orders /\ key \notin LegacyKeys
  BY DEF Create, RegistryInv, RowsKnown
<1>2. /\ DOMAIN orders' = DOMAIN orders \cup {key}
      /\ \A j \in DOMAIN orders : orders'[j] = orders[j]
      /\ orders'[key] = row
  BY <1>1 DEF Put
<1>3. row.sess = sess /\ row.ref = ref /\ row.sys = Null /\ row.status = "PENDING_SUBMIT"
  OBVIOUS
<1> HIDE DEF row
<1>4. \A j \in DOMAIN orders : HomeSess(j)' = HomeSess(j) /\ HomeRef(j)' = HomeRef(j)
  BY <1>2 DEF HomeSess, HomeRef
<1>5. HomeSess(key)' = sess /\ HomeRef(key)' = ref
  BY <1>1, <1>2, <1>3 DEF HomeSess, HomeRef
<1>6. RowsKnown'
  <2>1. \A j \in DOMAIN orders :
           /\ HomeSess(j)' \in 1..sessions'
           /\ orders'[j].ref = HomeRef(j)'
           /\ orders'[j].sess = HomeSess(j)' \/ (orders'[j].sess = Null /\ j \in LegacyKeys)
           /\ orders'[j].sys \in {Null, j}
    BY <1>2, <1>4 DEF RegistryInv, RowsKnown
  <2>2. LegacyKeys \subseteq DOMAIN orders'
    BY <1>2 DEF RegistryInv, RowsKnown
  <2> QED BY <1>2, <1>3, <1>5, <2>1, <2>2 DEF RowsKnown
<1>7. Distinct'
  BY <1>2, <1>4, <1>5 DEF RegistryInv, Distinct
<1> QED BY <1>1, <1>2, <1>3, <1>4, <1>5, <1>6, <1>7 DEF RegistryInv
-----------------------------------------------------------------------------
\* place_order.

\* A step of the command thread touches no report.
LEMMA CommandReports ==
    ASSUME ReportInv, UNCHANGED <<broker, sessions, flow, qflow, td>>
    PROVE  ReportInv'
<1>1. Mail(flow)' /\ Mail(qflow)'
  BY DEF ReportInv, Mail, Truthful, Addressed
<1> QED BY <1>1, KeepInHand DEF ReportInv

\* Without a login in between, front_id and session_id are those of one login.
LEMMA OnePair == ThreadInv /\ cmd.pc \in {"read_session", "reject_session"}
                     => SessionPairs(cmd.sess) = {spi.sess}
BY DEF ThreadInv, Placing, SessionPairs

LEMMA TakeRef ==
    ASSUME Calm, TypeOK, IdInv,
           \/ \E k \in Keys : PlaceOrder(k)
           \/ LoadOrderRef \/ StoreOrderRef \/ TakeOrderRef
           \/ ReadFrontId \/ ReadSessionId \/ ReadFrontIdAgain
    PROVE  IdInv'
<1> USE DEF IdInv
<1>1. /\ Kept /\ UNCHANGED <<sessions, link, td, flow, qflow>>
      /\ cmd'.pc \in {"load_ref", "store_ref", "take_ref", "read_front", "read_session",
                      "create", "reject_session"}
  BY DEF PlaceOrder, LoadOrderRef, StoreOrderRef, TakeOrderRef, ReadFrontId, ReadSessionId,
         ReadFrontIdAgain, Kept, registryVars, brokerVars, TypeOK, CommandTypeOK, Idle
<1>2. ReportInv' /\ RegistryInv' /\ CounterInv'
  BY <1>1, CommandReports, KeepRegistryInv, KeepCounterInv DEF Kept
<1>3. StatusInv'
  BY <1>1, NotCancelling, KeepRowStatus
<1>4. ThreadInv'
  <2>1. spi \in [ref : Nat, sess : 0..MaxSession] /\ DOMAIN orders' = DOMAIN orders
        /\ \A k \in DOMAIN orders : HomeRef(k) \in Nat
    BY <1>1 DEF TypeOK, SessionTypeOK, RegistryInv, RowsKnown, RegistryTypeOK, Row, Kept
  <2>2. CASE \E k \in Keys : PlaceOrder(k)
    <3>1. UNCHANGED spi /\ cmd'.pc = "load_ref"
      BY <2>2 DEF PlaceOrder, Idle
    <3> QED BY <1>1, <3>1, KeepHomes DEF ThreadInv, Current, Placing, Kept
  <2>3. CASE LoadOrderRef
    <3>1. UNCHANGED spi /\ cmd'.pc = "store_ref" /\ cmd'.ref = spi.ref + 1
      BY <2>3 DEF LoadOrderRef, TypeOK, CommandTypeOK
    <3> QED BY <1>1, <3>1, KeepHomes DEF ThreadInv, Current, Placing, Kept
  <2>4. CASE StoreOrderRef
    <3>1. cmd.ref = spi.ref + 1
      BY <2>4 DEF StoreOrderRef, ThreadInv, Placing
    <3>2. spi'.ref = spi.ref + 1 /\ spi'.sess = spi.sess /\ cmd'.pc = "take_ref"
      BY <2>1, <2>4, <3>1 DEF StoreOrderRef, TypeOK, CommandTypeOK
    <3>3. \A k \in DOMAIN orders :
             HomeSess(k) = spi.sess => HomeRef(k) <= spi.ref + 1 /\ HomeRef(k) < spi.ref + 1
      BY <2>1 DEF ThreadInv, Current
    <3> QED BY <1>1, <2>1, <3>2, <3>3, KeepHomes DEF ThreadInv, Current, Placing, Kept
  <2>5. CASE TakeOrderRef
    <3>1. UNCHANGED spi /\ cmd.pc = "take_ref" /\ cmd'.pc = "read_front" /\ cmd'.ref = spi.ref
      BY <2>5 DEF TakeOrderRef, TypeOK, CommandTypeOK
    <3> QED BY <1>1, <2>1, <3>1, KeepHomes DEF ThreadInv, Current, Placing, Kept
  <2>6. CASE ReadFrontId
    <3>1. /\ UNCHANGED spi /\ cmd.pc = "read_front" /\ cmd'.pc = "read_session"
          /\ cmd'.ref = cmd.ref /\ cmd'.sess = spi.sess
      BY <2>6 DEF ReadFrontId, TypeOK, CommandTypeOK
    <3> QED BY <1>1, <3>1, KeepHomes DEF ThreadInv, Current, Placing, Kept
  <2>7. CASE ReadSessionId
    <3>1. SessionPairs(cmd.sess) = {spi.sess}
      BY <2>7, OnePair DEF ReadSessionId
    <3>2. cmd' = [cmd EXCEPT !.pc = "create", !.sess = spi.sess]
      BY <2>7, <3>1 DEF ReadSessionId
    <3>3. /\ UNCHANGED spi /\ cmd.pc = "read_session" /\ cmd'.pc = "create"
          /\ cmd'.ref = cmd.ref /\ cmd'.sess = spi.sess
      BY <2>7, <3>2 DEF ReadSessionId, TypeOK, CommandTypeOK
    <3> QED BY <1>1, <3>3, KeepHomes DEF ThreadInv, Current, Placing, Kept
  <2>8. CASE ReadFrontIdAgain
    <3>1. /\ UNCHANGED spi /\ cmd.pc = "reject" /\ cmd'.pc = "reject_session"
          /\ cmd'.ref = cmd.ref /\ cmd'.key = cmd.key /\ cmd'.sess = spi.sess
      BY <2>8 DEF ReadFrontIdAgain, TypeOK, CommandTypeOK
    <3> QED BY <1>1, <3>1, KeepHomes DEF ThreadInv, Current, Placing, Kept
  <2> QED BY <2>2, <2>3, <2>4, <2>5, <2>6, <2>7, <2>8
<1> QED BY <1>2, <1>3, <1>4

LEMMA CreateIt == ASSUME Calm, TypeOK, IdInv, CreateRow PROVE IdInv'
<1> USE DEF IdInv
<1>1. /\ cmd.pc = "create" /\ cmd.sess = spi.sess /\ cmd.key \in Keys /\ cmd.ref \in 0..MaxRef
      /\ UNCHANGED <<broker, sessions, link, spi, td, flow, qflow>>
      /\ \A j \in DOMAIN orders : HomeSess(j) = spi.sess => HomeRef(j) < cmd.ref
      /\ cmd.ref <= spi.ref
  BY DEF CreateRow, ThreadInv, Placing, brokerVars, TypeOK, CommandTypeOK, PlacePCs
<1>2. spi.sess \in 1..sessions
  BY <1>1 DEF TypeOK, SessionTypeOK, PlacePCs, ThreadInv, Current
<1>3. ReportInv'
  BY <1>1, CommandReports
<1>4. CASE cmd' = Idle /\ UNCHANGED registryVars
  <2>1. Kept
    BY <1>1, <1>4 DEF Kept, registryVars
  <2>2. cmd'.pc = "idle"
    BY <1>4 DEF Idle
  <2>3. ThreadInv'
    BY <1>1, <2>1, <2>2, KeepHomes DEF ThreadInv, Current, Placing, Kept
  <2>4. StatusInv'
    BY <2>1, <2>2, NotCancelling, KeepRowStatus
  <2> QED BY <1>1, <1>3, <2>1, <2>3, <2>4, KeepRegistryInv, KeepCounterInv DEF Kept
<1>5. CASE Create(cmd.key, cmd.ref, cmd.sess) /\ cmd' = [cmd EXCEPT !.pc = "insert"]
  <2>0. PICK key : key = cmd.key
    OBVIOUS
  <2>1. \A j \in DOMAIN orders : HomeSess(j) # cmd.sess \/ HomeRef(j) # cmd.ref
    BY <1>1 DEF TypeOK, RegistryTypeOK, Row, RegistryInv, RowsKnown
  <2>2. /\ DOMAIN orders' = DOMAIN orders \cup {key}
        /\ \A j \in DOMAIN orders : orders'[j] = orders[j]
        /\ orders'[key].status = "PENDING_SUBMIT"
        /\ \A j \in DOMAIN orders : HomeSess(j)' = HomeSess(j) /\ HomeRef(j)' = HomeRef(j)
        /\ key \notin DOMAIN orders /\ key \notin LegacyKeys
        /\ HomeSess(key)' = spi.sess /\ HomeRef(key)' = cmd.ref
        /\ RegistryInv'
    <3>1. PICK ref \in 0..MaxRef, sess \in 1..sessions : ref = cmd.ref /\ sess = cmd.sess
      BY <1>1, <1>2
    <3>2. Create(key, ref, sess)
      BY <1>5, <2>0, <3>1 DEF Create, Put
    <3>3. key \in Keys /\ UNCHANGED sessions
          /\ \A j \in DOMAIN orders : HomeSess(j) # sess \/ HomeRef(j) # ref
      BY <1>1, <2>0, <2>1, <3>1
    <3>4. DOMAIN orders' = DOMAIN orders \cup {key} /\ orders'[key].status = "PENDING_SUBMIT"
      BY <3>2, <3>3, RowCreated
    <3>5. \A j \in DOMAIN orders : orders'[j] = orders[j]
      BY <3>2, <3>3, RowCreated
    <3>6. \A j \in DOMAIN orders : HomeSess(j)' = HomeSess(j) /\ HomeRef(j)' = HomeRef(j)
      BY <3>2, <3>3, RowCreated
    <3>7. key \notin DOMAIN orders /\ key \notin LegacyKeys /\ RegistryInv'
      BY <3>2, <3>3, RowCreated
    <3>8. HomeSess(key)' = sess /\ HomeRef(key)' = ref
      BY <3>2, <3>3, RowCreated
    <3> QED BY <1>1, <3>1, <3>4, <3>5, <3>6, <3>7, <3>8
  <2>3. broker[key].st = "none"
    BY <1>1, <2>0, <2>2 DEF CounterInv, AtHome
  <2>4. CounterInv'
    BY <1>1, <2>2 DEF CounterInv, AtHome, Elsewhere
  <2>5. cmd'.pc = "insert" /\ cmd'.key = key /\ cmd'.ref = cmd.ref
    BY <1>5, <2>0 DEF TypeOK, CommandTypeOK
  <2>6. Current'
    <3>1. spi' = spi /\ sessions' = sessions /\ link' = link
      BY <1>1
    <3>2. \A j \in DOMAIN orders : HomeSess(j)' = spi.sess => HomeRef(j)' <= spi.ref
      BY <2>2 DEF ThreadInv, Current
    <3>3. HomeRef(key)' <= spi.ref
      BY <1>1, <2>2
    <3>4. \A j \in DOMAIN orders' : HomeSess(j)' = spi.sess => HomeRef(j)' <= spi.ref
      BY <2>2, <3>2, <3>3
    <3> QED BY <3>1, <3>4 DEF ThreadInv, Current
  <2>7. Placing'
    BY <1>1, <2>2, <2>3, <2>5 DEF Placing
  <2>8. StatusInv'
    <3>1. "PENDING_SUBMIT" \notin Active \cup Terminal
      BY DEF Active, Terminal
    <3>2. ActiveWasReported' /\ TerminalRowIsDone'
      BY <1>1, <2>2, <3>1 DEF StatusInv, ActiveWasReported, TerminalRowIsDone
    <3> QED BY <2>5, <3>2, NotCancelling DEF StatusInv
  <2> QED BY <1>3, <2>2, <2>4, <2>6, <2>7, <2>8 DEF ThreadInv
<1> QED BY <1>4, <1>5 DEF CreateRow

LEMMA InsertIt == ASSUME Calm, TypeOK, IdInv, ReqOrderInsert PROVE IdInv'
<1> USE DEF IdInv
<1>0. PICK key : key = cmd.key
  OBVIOUS
<1>1. /\ cmd.pc = "insert" /\ key \in DOMAIN orders \ LegacyKeys /\ key \in Keys
      /\ HomeSess(key) = spi.sess /\ HomeRef(key) = cmd.ref
      /\ broker[key].st = "none" /\ orders[key].status = "PENDING_SUBMIT"
      /\ UNCHANGED <<registryVars, sessions, link, spi, td, flow, qflow>>
  BY <1>0 DEF ReqOrderInsert, ThreadInv, Placing, TypeOK, CommandTypeOK, PlacePCs
<1>2. UNCHANGED orders
  BY <1>1 DEF registryVars
<1>3. CASE cmd' = [cmd EXCEPT !.pc = "reject"] /\ UNCHANGED broker
  <2>1. cmd'.pc = "reject" /\ cmd'.key = key /\ cmd'.ref = cmd.ref
    BY <1>0, <1>3 DEF TypeOK, CommandTypeOK
  <2>2. Kept
    BY <1>2, <1>3 DEF Kept
  <2>3. Placing'
    BY <1>1, <1>2, <1>3, <2>1, KeepHomes DEF Placing
  <2>4. Current'
    BY <1>1, <1>2, KeepHomes DEF ThreadInv, Current
  <2>5. StatusInv'
    BY <2>1, <2>2, NotCancelling, KeepRowStatus
  <2>6. ReportInv'
    BY <1>1, <1>3, CommandReports
  <2> QED BY <1>1, <1>2, <2>2, <2>3, <2>4, <2>5, <2>6, KeepRegistryInv, KeepCounterInv
          DEF ThreadInv
<1>4. CASE /\ broker' = [broker EXCEPT ![key] =
                            [st |-> "inflight", ref |-> cmd.ref, sess |-> spi.sess]]
           /\ cmd' = Idle
  <2> DEFINE b == [st |-> "inflight", ref |-> cmd.ref, sess |-> spi.sess]
  <2>1. b.st = "inflight" /\ b.ref = cmd.ref /\ b.sess = spi.sess
    OBVIOUS
  <2> HIDE DEF b
  <2>2. broker'[key] = b /\ \A o \in OrderIds \ {key} : broker'[o] = broker[o]
    BY <1>1, <1>4 DEF b, TypeOK, CounterTypeOK, BrokerTypeOK, OrderIds
  <2>3. cmd'.pc = "idle"
    BY <1>4 DEF Idle
  <2>4. RegistryInv'
    BY <1>1, <1>2, KeepRegistryInv
  <2>5. CounterInv'
    <3>1. AtHome'
      BY <1>1, <1>2, <2>1, <2>2, KeepHomes DEF CounterInv, AtHome, OrderIds
    <3>2. Elsewhere'
      <4>1. \A f \in Foreign : f # key /\ f \in OrderIds
        BY <1>1, FlowAssumption DEF OrderIds
      <4> QED BY <2>2, <4>1 DEF CounterInv, Elsewhere
    <3> QED BY <3>1, <3>2 DEF CounterInv
  <2>6. ThreadInv'
    BY <1>1, <1>2, <2>3, KeepHomes DEF ThreadInv, Current, Placing
  <2>7. \A m \in Message : Truthful(m) => m.order # key
    BY <1>1 DEF Truthful
  <2>8. \A m \in Message : Truthful(m) => broker'[m.order] = broker[m.order]
    BY <2>2, <2>7 DEF Message
  <2>9. Mail(flow)' /\ Mail(qflow)'
    <3>1. \A m \in Message : Truthful(m) /\ Addressed(m) => Truthful(m)' /\ Addressed(m)'
      BY <1>1, <2>8 DEF Truthful, Addressed
    <3>2. flow' = flow /\ qflow' = qflow
      BY <1>1
    <3> QED BY <3>1, <3>2 DEF ReportInv, Mail
  <2>10. InHand'
    <3>1. td' = td
      BY <1>1
    <3>2. td.pc # "idle" => td.msg \in Message
      BY DEF TypeOK, TraderTypeOK, TdIdle
    <3> QED BY <2>8, <3>1, <3>2 DEF ReportInv, InHand, Truthful
  <2>11. ActiveWasReported' /\ TerminalRowIsDone'
    <3>1. \A k \in DOMAIN orders : k \in OrderIds
      BY DEF TypeOK, RegistryTypeOK, OrderIds
    <3>2. "PENDING_SUBMIT" \notin Active \cup Terminal
      BY DEF Active, Terminal
    <3> QED BY <1>1, <1>2, <2>2, <3>1, <3>2 DEF StatusInv, ActiveWasReported, TerminalRowIsDone
  <2> QED BY <2>3, <2>4, <2>5, <2>6, <2>9, <2>10, <2>11, NotCancelling DEF ReportInv, StatusInv
<1> QED BY <1>0, <1>3, <1>4 DEF ReqOrderInsert

LEMMA RejectIt == ASSUME Calm, TypeOK, IdInv, RejectLocally PROVE IdInv'
<1> USE DEF IdInv
<1>0. PICK key : key = cmd.key
  OBVIOUS
<1>1. /\ cmd.pc = "reject_session" /\ key \in DOMAIN orders \ LegacyKeys
      /\ HomeSess(key) = spi.sess /\ HomeRef(key) = cmd.ref
      /\ broker[key].st = "none" /\ cmd' = Idle
      /\ UpdateCtp(HomeRef(key), HomeSess(key), Null, "REJECTED")
      /\ UNCHANGED <<broker, sessions, link, spi, td, flow, qflow>>
  BY <1>0, OnePair DEF RejectLocally, ThreadInv, Placing, brokerVars
<1>2. /\ DOMAIN orders' = DOMAIN orders
      /\ \A j \in DOMAIN orders \ {key} : orders'[j] = orders[j]
      /\ orders'[key].status = "REJECTED"
      /\ \A j \in DOMAIN orders : HomeSess(j)' = HomeSess(j) /\ HomeRef(j)' = HomeRef(j)
      /\ RegistryInv'
  <2>1. RegistryInv /\ UNCHANGED sessions /\ key \in DOMAIN orders
        /\ UpdateCtp(HomeRef(key), HomeSess(key), Null, "REJECTED") /\ Null \in {Null, key}
    BY <1>1
  <2>2. DOMAIN orders' = DOMAIN orders
    BY <2>1, RowWritten
  <2>3. \A j \in DOMAIN orders \ {key} : orders'[j] = orders[j]
    BY <2>1, RowWritten
  <2>4. RegistryInv'
    BY <2>1, RowWritten
  <2>5. orders'[key] = [status |-> "REJECTED", sess |-> HomeSess(key), ref |-> orders[key].ref,
                        sys |-> Null]
    BY <2>1, RowWritten
  <2>6. \A j \in DOMAIN orders : HomeSess(j)' = HomeSess(j) /\ HomeRef(j)' = HomeRef(j)
    BY <2>1, RowWritten
  <2> QED BY <2>1, <2>2, <2>3, <2>4, <2>5, <2>6
<1>3. cmd'.pc = "idle"
  BY <1>1 DEF Idle
<1>4. CounterInv'
  BY <1>1, <1>2 DEF CounterInv, AtHome, Elsewhere
<1>5. ThreadInv'
  BY <1>1, <1>2, <1>3 DEF ThreadInv, Current, Placing
<1>6. ReportInv'
  BY <1>1, CommandReports
<1>7. ActiveWasReported' /\ TerminalRowIsDone'
  BY <1>1, <1>2 DEF StatusInv, ActiveWasReported, TerminalRowIsDone, Active
<1> QED BY <1>2, <1>3, <1>4, <1>5, <1>6, <1>7, NotCancelling DEF StatusInv
-----------------------------------------------------------------------------
\* cancel_order.

LEMMA CancelIt ==
    ASSUME Calm, TypeOK, IdInv,
           \/ \E k \in Keys : CancelByKey(k)
           \/ \E ref \in 1..MaxRef, sess \in 1..MaxSession : CancelByIds(ref, sess)
           \/ MarkCancel \/ ReqOrderAction \/ UnmarkCancel
    PROVE  IdInv'
<1> USE DEF IdInv
<1>1. /\ Kept /\ UNCHANGED <<sessions, link, spi, td, flow, qflow>>
      /\ cmd'.pc \notin PlacePCs
  BY DEF CancelByKey, CancelByIds, MarkCancel, ReqOrderAction, UnmarkCancel, Kept,
         registryVars, brokerVars, TypeOK, CommandTypeOK, PlacePCs, Idle
<1>2. ThreadInv'
  BY <1>1, KeepHomes DEF ThreadInv, Current, Placing, PlacePCs, Kept
<1>3. ReportInv' /\ RegistryInv' /\ CounterInv'
  BY <1>1, CommandReports, KeepRegistryInv, KeepCounterInv DEF Kept
<1>4. CancelNamesItsOrder'
  <2>1. ASSUME NEW k \in Keys, CancelByKey(k) PROVE CancelNamesItsOrder'
    <3>1. /\ k \in DOMAIN orders /\ orders[k].status \in Active /\ orders[k].sess # Null
          /\ cmd'.key = k /\ cmd'.ref = orders[k].ref /\ cmd'.sess = orders[k].sess
          /\ broker' = broker
      BY <2>1, <1>1 DEF CancelByKey, Kept
    <3>2. broker[k].st \in Reported
      BY <3>1 DEF StatusInv, ActiveWasReported
    <3>3. broker[k].st # "none"
      BY <3>2 DEF Reported, Active, Terminal
    <3>4. broker[k].sess = orders[k].sess /\ broker[k].ref = orders[k].ref
      BY <3>1, <3>3 DEF CounterInv, AtHome, RegistryInv, RowsKnown
    <3> QED BY <3>1, <3>2, <3>4 DEF CancelNamesItsOrder, CancelId, Reported
  <2>2. ASSUME NEW ref, NEW sess, CancelByIds(ref, sess) PROVE CancelNamesItsOrder'
    BY <2>2 DEF CancelByIds, CancelNamesItsOrder
  <2>3. ASSUME MarkCancel \/ ReqOrderAction \/ UnmarkCancel PROVE CancelNamesItsOrder'
    <3>1. \/ cmd'.pc = "idle"
          \/ /\ cmd.pc \in {"mark", "action", "unmark"}
             /\ cmd'.key = cmd.key /\ cmd'.ref = cmd.ref /\ cmd'.sess = cmd.sess
      BY <2>3 DEF MarkCancel, ReqOrderAction, UnmarkCancel, Idle, TypeOK, CommandTypeOK
    <3> QED BY <1>1, <3>1 DEF StatusInv, CancelNamesItsOrder, CancelId, Kept
  <2> QED BY <2>1, <2>2, <2>3
<1>5. StatusInv'
  BY <1>1, <1>4, KeepRowStatus
<1> QED BY <1>2, <1>3, <1>5
-----------------------------------------------------------------------------
\* The trader thread.

\* A true report meets its order's row, whatever session number it carries.
LEMMA TakeReport ==
    ASSUME Calm, TypeOK, IdInv, NEW m \in Message, Truthful(m), Addressed(m),
           spi.sess = sessions, BeginOrderPayload(m), UNCHANGED broker
    PROVE  InHand'
<1> USE DEF IdInv
<1> DEFINE o == m.order
           s == IF m.sess = 0 THEN spi.sess ELSE m.sess
           whose == IF Own(o) = {} THEN {Null} ELSE Own(o)
<1>1. o \in OrderIds /\ broker[o].st # "none" /\ m.ref = broker[o].ref /\ m.sys \in {Null, o}
  BY DEF Message, Truthful
<1>2. s = broker[o].sess
  BY <1>1, RegistryAssumption DEF Addressed, TypeOK, CounterTypeOK, BrokerTypeOK, Named
<1>3. PICK owner \in FindByCtp(m.ref, s, m.sys) :
         td' = [pc |-> "release", msg |-> m, sess |-> s, owner |-> owner]
  BY DEF BeginOrderPayload
<1>4. FindByCtp(m.ref, s, m.sys) = whose
  BY <1>1, <1>2, FindTrue
<1>5. {owner} = whose
  <2>1. Own(o) = {} \/ Own(o) = {o}
    BY DEF Own
  <2> QED BY <1>3, <1>4, <2>1
<1>6. td'.msg = m /\ td'.sess = s /\ td'.owner = owner
  BY <1>3
<1> HIDE DEF s
<1>7. Truthful(td.msg)'
  BY <1>6 DEF Truthful
<1> QED BY <1>2, <1>5, <1>6, <1>7 DEF InHand, Own

LEMMA TailMail ==
    ASSUME NEW S, NEW q \in Seq(S), q # <<>>, Mail(q)
    PROVE  Mail(Tail(q)) /\ (Head(q) \in Message => Truthful(Head(q)) /\ Addressed(Head(q)))
<1>1. \A i \in DOMAIN Tail(q) : Tail(q)[i] = q[i + 1] /\ i + 1 \in DOMAIN q
  OBVIOUS
<1>2. Head(q) = q[1] /\ 1 \in DOMAIN q
  OBVIOUS
<1> QED BY <1>1, <1>2 DEF Mail

LEMMA ReceiveIt == ASSUME Calm, TypeOK, IdInv, OnRtnOrder \/ OnRspQryOrder PROVE IdInv'
<1> USE DEF IdInv
<1>1. Kept /\ UNCHANGED <<sessions, link, spi, cmd>>
  BY DEF OnRtnOrder, OnRspQryOrder, Kept, registryVars
<1>2. spi.sess = sessions
  BY DEF OnRtnOrder, NextReport, OnRspQryOrder, TypeOK, CounterTypeOK, ThreadInv, Current
<1>3. ReportInv'
  <2>1. CASE OnRtnOrder
    <3>1. flow \in Seq(Message \cup CancelMessage) /\ flow # <<>>
      BY <2>1 DEF OnRtnOrder, NextReport, TypeOK, CounterTypeOK
    <3>2. Head(flow) \in Message
      <4>1. Head(flow) \in Message \cup CancelMessage
        BY <3>1, QueueType
      <4> QED BY <2>1, <4>1 DEF OnRtnOrder, NextReport, CancelMessage
    <3>3. Mail(Tail(flow)) /\ Truthful(Head(flow)) /\ Addressed(Head(flow))
      BY <3>1, <3>2, TailMail DEF ReportInv
    <3>4. InHand'
      BY <1>1, <1>2, <2>1, <3>2, <3>3, TakeReport DEF OnRtnOrder, Kept
    <3>5. flow' = Tail(flow) /\ qflow' = qflow
      BY <2>1 DEF OnRtnOrder
    <3>6. Mail(flow)' /\ Mail(qflow)'
      BY <1>1, <3>3, <3>5 DEF ReportInv, Mail, Truthful, Addressed, Kept
    <3> QED BY <3>4, <3>6 DEF ReportInv
  <2>2. CASE OnRspQryOrder
    <3>1. qflow \in Seq(Message) /\ qflow # <<>>
      BY <2>2 DEF OnRspQryOrder, TypeOK, CounterTypeOK
    <3>2. Head(qflow) \in Message
      BY <3>1, QueueType
    <3>3. Mail(Tail(qflow)) /\ Truthful(Head(qflow)) /\ Addressed(Head(qflow))
      BY <3>1, <3>2, TailMail DEF ReportInv
    <3>4. InHand'
      BY <1>1, <1>2, <2>2, <3>2, <3>3, TakeReport DEF OnRspQryOrder, Kept
    <3>5. qflow' = Tail(qflow) /\ flow' = flow
      BY <2>2 DEF OnRspQryOrder
    <3>6. Mail(flow)' /\ Mail(qflow)'
      BY <1>1, <3>3, <3>5 DEF ReportInv, Mail, Truthful, Addressed, Kept
    <3> QED BY <3>4, <3>6 DEF ReportInv
  <2> QED BY <2>1, <2>2
<1> QED BY <1>1, <1>3, KeepRegistryInv, KeepCounterInv, KeepThreadInv, KeepStatusInv DEF Kept

LEMMA ReleaseIt == ASSUME Calm, TypeOK, IdInv, ReleaseCancel \/ OnRspOrderAction PROVE IdInv'
<1> USE DEF IdInv
<1>1. Kept /\ UNCHANGED <<sessions, link, spi, cmd, qflow>>
  BY DEF ReleaseCancel, OnRspOrderAction, brokerVars, Kept, registryVars
<1>2. Mail(qflow)'
  BY <1>1 DEF ReportInv, Mail, Truthful, Addressed, Kept
<1>3. ReportInv'
  <2>1. CASE ReleaseCancel
    <3>1. flow' = flow /\ td.pc = "release" /\ td' = [td EXCEPT !.pc = "update"]
      BY <2>1 DEF ReleaseCancel, brokerVars
    <3>2. td'.msg = td.msg /\ td'.sess = td.sess /\ td'.owner = td.owner
      BY <3>1 DEF TypeOK, TraderTypeOK, TdIdle
    <3>3. InHand'
      BY <1>1, <3>1, <3>2 DEF ReportInv, InHand, Truthful, Kept
    <3>4. Mail(flow)'
      BY <1>1, <3>1 DEF ReportInv, Mail, Truthful, Addressed, Kept
    <3> QED BY <1>2, <3>3, <3>4 DEF ReportInv
  <2>2. CASE OnRspOrderAction
    <3>1. flow' = Tail(flow) /\ td' = td /\ flow # <<>>
      BY <2>2 DEF OnRspOrderAction, NextReport
    <3>2. Mail(Tail(flow))
      BY <3>1, TailMail DEF ReportInv, TypeOK, CounterTypeOK
    <3>3. Mail(flow)'
      BY <1>1, <3>1, <3>2 DEF Mail, Truthful, Addressed, Kept
    <3> QED BY <1>1, <1>2, <3>1, <3>3, KeepInHand DEF ReportInv, Kept
  <2> QED BY <2>1, <2>2
<1> QED BY <1>1, <1>3, KeepRegistryInv, KeepCounterInv, KeepThreadInv, KeepStatusInv DEF Kept

LEMMA UpdateIt == ASSUME Calm, TypeOK, IdInv, UpdateAndPublish PROVE IdInv'
<1> USE DEF IdInv
<1>1. /\ UNCHANGED <<broker, sessions, link, spi, cmd, flow, qflow>> /\ td' = TdIdle
      /\ UpdateCtp(td.msg.ref, td.sess, td.msg.sys, td.msg.status)
      /\ td.pc = "update"
  BY DEF UpdateAndPublish, brokerVars
<1>2. PICK o \in OrderIds, sys \in {Null, td.msg.order}, status \in Status :
         o = td.msg.order /\ sys = td.msg.sys /\ status = td.msg.status
  BY <1>1 DEF TypeOK, TraderTypeOK, TdIdle, Message, ReportInv, InHand, Truthful
<1>3. /\ broker[o].st # "none" /\ td.msg.ref = broker[o].ref /\ td.sess = broker[o].sess
      /\ status \in Active => broker[o].st \in Reported
      /\ status \in Terminal => broker[o].st \in Done
  BY <1>1, <1>2 DEF ReportInv, InHand, Truthful
<1>4. UpdateTarget(td.msg.ref, td.sess) = Own(o)
  BY <1>2, <1>3, FindTrue
<1>5. td'.pc = "idle"
  BY <1>1 DEF TdIdle
<1>6. ReportInv'
  <2>1. Mail(flow)' /\ Mail(qflow)'
    BY <1>1 DEF ReportInv, Mail, Truthful, Addressed
  <2> QED BY <1>5, <2>1 DEF ReportInv, InHand
<1>7. CancelNamesItsOrder'
  BY <1>1 DEF StatusInv, CancelNamesItsOrder, CancelId
<1>8. CASE o \in Keys
  <2>1. o \in DOMAIN orders /\ broker[o].sess = HomeSess(o) /\ broker[o].ref = HomeRef(o)
    BY <1>3, <1>8 DEF CounterInv, AtHome
  <2>2. /\ UpdateCtp(HomeRef(o), HomeSess(o), sys, status)
        /\ UNCHANGED sessions /\ sys \in {Null, o} /\ o \in DOMAIN orders /\ RegistryInv
    BY <1>1, <1>2, <1>3, <2>1
  <2>3. DOMAIN orders' = DOMAIN orders
    BY <2>2, RowWritten
  <2>4. \A j \in DOMAIN orders \ {o} : orders'[j] = orders[j]
    BY <2>2, RowWritten
  <2>5. orders'[o] = [status |-> status, sess |-> HomeSess(o), ref |-> orders[o].ref,
                      sys |-> sys]
    BY <2>2, RowWritten
  <2>6. \A j \in DOMAIN orders : HomeSess(j)' = HomeSess(j) /\ HomeRef(j)' = HomeRef(j)
    BY <2>2, RowWritten
  <2>7. RegistryInv'
    BY <2>2, RowWritten
  <2>8. CounterInv'
    BY <1>1, <2>3, <2>6 DEF CounterInv, AtHome, Elsewhere
  <2>9. ThreadInv'
    <3>1. cmd.pc \in {"insert", "reject", "reject_session"} => cmd.key # o
      BY <1>3 DEF ThreadInv, Placing
    <3>2. Current'
      BY <1>1, <2>3, <2>6 DEF ThreadInv, Current
    <3>3. Placing'
      BY <1>1, <2>3, <2>4, <2>6, <3>1 DEF ThreadInv, Placing
    <3> QED BY <3>2, <3>3 DEF ThreadInv
  <2>10. orders'[o].status = status
    BY <2>5
  <2>11. ActiveWasReported' /\ TerminalRowIsDone'
    BY <1>1, <1>3, <2>3, <2>4, <2>10
       DEF StatusInv, ActiveWasReported, TerminalRowIsDone, Done
  <2> QED BY <1>6, <1>7, <2>7, <2>8, <2>9, <2>11 DEF StatusInv
<1>9. CASE o \notin Keys
  <2>1. UNCHANGED registryVars
    <3>1. UpdateTarget(td.msg.ref, td.sess) = {}
      BY <1>4, <1>9 DEF Own
    <3> QED BY <1>1, <3>1 DEF UpdateCtp
  <2>2. Kept
    BY <1>1, <2>1 DEF Kept, registryVars
  <2> QED BY <1>1, <1>6, <2>2, KeepRegistryInv, KeepCounterInv, KeepThreadInv, KeepStatusInv
          DEF Kept
<1> QED BY <1>8, <1>9
-----------------------------------------------------------------------------
\* The counter.

\* An order that changes at the counter goes on, or is a new one of another
\* terminal.
Moves(o) ==
    \/ broker'[o] = broker[o]
    \/ /\ broker[o].st # "none" /\ broker'[o].st # "none"
       /\ broker'[o].sess = broker[o].sess /\ broker'[o].ref = broker[o].ref
       /\ broker[o].st \in Reported => broker'[o].st \in Reported
       /\ broker[o].st \in Done => broker'[o].st \in Done
    \/ o \in Foreign /\ broker[o].st = "none" /\ broker'[o].sess = ForeignSess

LEMMA KeepTruth ==
    ASSUME \A o \in OrderIds : Moves(o), UNCHANGED sessions,
           NEW m, m.order \in OrderIds, Truthful(m)
    PROVE  /\ Truthful(m)'
           /\ broker'[m.order].sess = broker[m.order].sess
           /\ Addressed(m) => Addressed(m)'
<1>1. Moves(m.order) /\ broker[m.order].st # "none"
  BY DEF Truthful
<1> QED BY <1>1 DEF Moves, Truthful, Addressed

LEMMA CounterStep ==
    ASSUME Calm, TypeOK, IdInv, \A o \in OrderIds : Moves(o),
           UNCHANGED <<registryVars, proxyVars, sessions>>,
           Mail(flow)', Mail(qflow)'
    PROVE  IdInv'
<1> USE DEF IdInv
<1>1. UNCHANGED <<orders, link, spi, cmd, td, sessions>>
  BY DEF registryVars, proxyVars
<1>2. RegistryInv'
  BY <1>1, KeepRegistryInv
<1>3. \A k \in Keys : k \in OrderIds /\ k \notin Foreign
  BY FlowAssumption DEF OrderIds
<1>4. CounterInv'
  <2>1. AtHome'
    <3> SUFFICES ASSUME NEW k \in Keys, broker'[k].st # "none"
                 PROVE  /\ k \in DOMAIN orders'
                        /\ broker'[k].sess = HomeSess(k)' /\ broker'[k].ref = HomeRef(k)'
      BY DEF AtHome
    <3>1. /\ broker[k].st # "none"
          /\ broker'[k].sess = broker[k].sess /\ broker'[k].ref = broker[k].ref
      BY <1>3 DEF Moves
    <3> QED BY <1>1, <3>1, KeepHomes DEF CounterInv, AtHome
  <2>2. Elsewhere'
    BY DEF CounterInv, Elsewhere, Moves, OrderIds
  <2> QED BY <2>1, <2>2 DEF CounterInv
<1>5. ThreadInv'
  <2>1. cmd.pc \in {"insert", "reject", "reject_session"} => broker'[cmd.key].st = "none"
    <3>1. cmd.pc \in {"insert", "reject", "reject_session"} =>
             cmd.key \in Keys /\ broker[cmd.key].st = "none"
      BY DEF ThreadInv, Placing, TypeOK, CommandTypeOK, PlacePCs
    <3> QED BY <1>3, <3>1 DEF Moves
  <2>2. Current'
    BY <1>1, KeepHomes DEF ThreadInv, Current
  <2>3. Placing'
    BY <1>1, <2>1, KeepHomes DEF ThreadInv, Placing
  <2> QED BY <2>2, <2>3 DEF ThreadInv
<1>6. InHand'
  <2>1. td.pc # "idle" => td.msg.order \in OrderIds
    BY DEF TypeOK, TraderTypeOK, TdIdle, Message
  <2>2. td.pc # "idle" => Truthful(td.msg)' /\ broker'[td.msg.order].sess = broker[td.msg.order].sess
    <3> SUFFICES ASSUME td.pc # "idle"
                 PROVE  /\ Truthful(td.msg)'
                        /\ broker'[td.msg.order].sess = broker[td.msg.order].sess
      OBVIOUS
    <3>1. PICK m : m = td.msg
      OBVIOUS
    <3>2. Truthful(m) /\ m.order \in OrderIds
      BY <2>1, <3>1 DEF ReportInv, InHand
    <3>3. Truthful(m)' /\ broker'[m.order].sess = broker[m.order].sess
      BY <1>1, <3>2, KeepTruth
    <3> QED BY <1>1, <3>1, <3>3 DEF Truthful
  <2> QED BY <1>1, <2>2 DEF ReportInv, InHand
<1>7. StatusInv'
  <2>1. \A k \in DOMAIN orders : k \in Keys
    BY DEF TypeOK, RegistryTypeOK
  <2>2. \A k \in Keys : /\ broker[k].st \in Reported => broker'[k].st \in Reported
                        /\ broker[k].st \in Done \cup {"none"} => broker'[k].st \in Done \cup {"none"}
                        /\ broker[k].st # "none" => /\ broker'[k].sess = broker[k].sess
                                                    /\ broker'[k].ref = broker[k].ref
    BY <1>3 DEF Moves
  <2>3. ActiveWasReported'
    BY <1>1, <2>1, <2>2 DEF StatusInv, ActiveWasReported
  <2>4. TerminalRowIsDone'
    BY <1>1, <2>1, <2>2 DEF StatusInv, TerminalRowIsDone, Done
  <2>5. CancelNamesItsOrder'
    <3> SUFFICES ASSUME cmd'.pc \in {"mark", "action", "unmark"}, cmd'.key # Null
                 PROVE  /\ CancelId(cmd) = CancelId(broker[cmd.key])
                        /\ broker[cmd.key].st \in Reported
                        /\ CancelId(cmd)' = CancelId(broker[cmd.key])'
                        /\ broker'[cmd'.key].st \in Reported
      BY DEF CancelNamesItsOrder, Reported
    <3>1. cmd.key \in Keys /\ CancelId(cmd) = CancelId(broker[cmd.key])
          /\ broker[cmd.key].st \in Reported
      BY <1>1 DEF StatusInv, CancelNamesItsOrder, Reported, TypeOK, CommandTypeOK
    <3>2. broker[cmd.key].st # "none"
      BY <3>1 DEF Reported, Active, Terminal
    <3> QED BY <1>1, <2>2, <3>1, <3>2 DEF CancelId
  <2> QED BY <2>3, <2>4, <2>5 DEF StatusInv
<1> QED BY <1>2, <1>4, <1>5, <1>6, <1>7 DEF ReportInv

LEMMA OldMail ==
    ASSUME \A o \in OrderIds : Moves(o), UNCHANGED sessions, NEW q, Mail(q)
    PROVE  Mail(q)'
<1>1. \A m \in Message : Truthful(m) /\ Addressed(m) => Truthful(m)' /\ Addressed(m)'
  <2> TAKE m \in Message
  <2>1. m.order \in OrderIds
    BY DEF Message
  <2> QED BY <2>1, KeepTruth
<1> QED BY <1>1 DEF Mail

LEMMA SendMail ==
    ASSUME TypeOK, IdInv, \A o \in OrderIds : Moves(o),
           UNCHANGED <<registryVars, proxyVars, qflow, sessions>>,
           NEW msgs \in Seq(Message \cup CancelMessage), Send(msgs) \/ UNCHANGED flow,
           \A i \in DOMAIN msgs : msgs[i] \in Message => Truthful(msgs[i])' /\ Addressed(msgs[i])'
    PROVE  Mail(flow)' /\ Mail(qflow)'
<1> USE DEF IdInv
<1>1. PICK p \in Seq(Message \cup CancelMessage), q \in Seq(Message) : p = flow /\ q = qflow
  BY DEF TypeOK, CounterTypeOK
<1>2. Mail(p)' /\ Mail(q)'
  <2>1. Mail(p) /\ Mail(q)
    BY <1>1 DEF ReportInv
  <2> QED BY <2>1, OldMail
<1>3. Mail(qflow)'
  <2>1. qflow' = q
    BY <1>1
  <2> QED BY <1>2, <2>1 DEF Mail
<1>4. Mail(flow)'
  <2>1. flow' = p \/ flow' = p \o msgs
    BY <1>1 DEF Send
  <2>2. CASE flow' = p
    BY <1>2, <2>2 DEF Mail
  <2>3. CASE flow' = p \o msgs
    <3> SUFFICES ASSUME NEW i \in DOMAIN flow', NEW m \in Message, m = flow'[i]
                 PROVE  Truthful(m)' /\ Addressed(m)'
      BY DEF Mail
    <3>1. \/ i \in DOMAIN p /\ m = p[i]
          \/ i - Len(p) \in DOMAIN msgs /\ m = msgs[i - Len(p)]
      <4> HIDE DEF Message, CancelMessage
      <4> QED BY <1>1, <2>3
    <3>2. CASE i \in DOMAIN p /\ m = p[i]
      BY <1>2, <3>2 DEF Mail
    <3>3. CASE i - Len(p) \in DOMAIN msgs /\ m = msgs[i - Len(p)]
      BY <3>3
    <3> QED BY <3>1, <3>2, <3>3
  <2> QED BY <2>1, <2>2, <2>3
<1> QED BY <1>3, <1>4

\* A report of the counter says what it then knows of the order.
LEMMA ReportTrue ==
    ASSUME TypeOK, NEW o \in OrderIds, NEW b, b.st \in AtCounter, broker'[o] = b,
           NEW kind
    PROVE  Truthful(Report(kind, o, b))' /\ Addressed(Report(kind, o, b))'
<1> DEFINE m == Report(kind, o, b)
<1>1. m.order = o /\ m.status = b.st /\ m.ref = b.ref /\ m.sess = b.sess /\ m.sys \in {Null, o}
  BY DEF Report
<1> HIDE DEF m
<1>2. b.st # "none" /\ (b.st \in Active => b.st \in Reported) /\ (b.st \in Terminal => b.st \in Done)
  BY DEF AtCounter, Live, Active, Terminal, Reported, Done
<1> QED BY <1>1, <1>2 DEF Truthful, Addressed, m

LEMMA NoNews ==
    ASSUME IdInv, \A o \in OrderIds : Moves(o), UNCHANGED <<flow, sessions>>
    PROVE  /\ Mail(flow)'
           /\ UNCHANGED qflow => Mail(qflow)'
<1>1. PICK p, q : p = flow /\ q = qflow
  OBVIOUS
<1>2. Mail(p)' /\ Mail(q)'
  <2>1. Mail(p) /\ Mail(q)
    BY <1>1 DEF IdInv, ReportInv
  <2> QED BY <2>1, OldMail
<1> QED BY <1>1, <1>2 DEF Mail

LEMMA SetsStep ==
    ASSUME Calm, TypeOK, IdInv, NEW o \in OrderIds, NEW b, b.st \in AtCounter, Named(b),
           broker' = [broker EXCEPT ![o] = b], Send(<<Report("RtnOrder", o, b)>>),
           UNCHANGED <<registryVars, proxyVars, qflow, sessions>>,
           \/ /\ broker[o].st \in {"inflight"} \cup Live
              /\ b.sess = broker[o].sess /\ b.ref = broker[o].ref
              /\ broker[o].st \in Reported => b.st \in Reported
           \/ o \in Foreign /\ broker[o].st = "none" /\ b.sess = ForeignSess
    PROVE  IdInv'
<1>1. Send(<<Report("RtnOrder", o, b)>>)
  OBVIOUS
<1>2. broker'[o] = b /\ \A j \in OrderIds \ {o} : broker'[j] = broker[j]
  BY DEF TypeOK, CounterTypeOK, BrokerTypeOK
<1>3. Moves(o)
  BY <1>2 DEF Moves, Done, Live, Active, Terminal, AtCounter
<1>4. \A j \in OrderIds : Moves(j)
  BY <1>2, <1>3 DEF Moves
<1>5. Report("RtnOrder", o, b) \in Message
  BY ReportType
<1>6. Mail(flow)' /\ Mail(qflow)'
  <2>1. PICK m \in Message : m = Report("RtnOrder", o, b)
    BY <1>5
  <2>2. Truthful(m)' /\ Addressed(m)'
    BY <1>2, <2>1, ReportTrue
  <2>3. <<m>> \in Seq(Message \cup CancelMessage) /\ DOMAIN <<m>> = {1} /\ <<m>>[1] = m
    OBVIOUS
  <2>4. Send(<<m>>)
    BY <1>1, <2>1
  <2> QED BY <1>4, <2>2, <2>3, <2>4, SendMail
<1> QED BY <1>4, <1>6, CounterStep

LEMMA AnswerInsertIt ==
    ASSUME Calm, TypeOK, IdInv, NEW k \in Keys, AnswerInsert(k) PROVE IdInv'
<1> DEFINE to(st) == [broker[k] EXCEPT !.st = st]
<1>1. k \in OrderIds /\ broker[k] \in BrokerOrder /\ broker[k].st = "inflight" /\ Named(broker[k])
  BY DEF AnswerInsert, BrokerAccept, BrokerReject, LoseInsert, OrderIds, TypeOK,
         CounterTypeOK, BrokerTypeOK
<1>2. \A st : to(st).st = st /\ to(st).sess = broker[k].sess /\ to(st).ref = broker[k].ref
  BY <1>1 DEF BrokerOrder
<1>3. "inflight" \notin Reported /\ "inflight" \notin Done
  BY DEF Reported, Done, Active, Terminal
<1> HIDE DEF to
<1>4. CASE BrokerAccept(k)
  <2>1. BrokerSets(k, to("UNKNOWN"))
    BY <1>4 DEF BrokerAccept, to
  <2>2. to("UNKNOWN").st \in AtCounter /\ Named(to("UNKNOWN"))
    BY <1>1, <1>2 DEF Named, AtCounter, Live
  <2> QED BY <1>1, <1>2, <1>3, <2>1, <2>2, SetsStep DEF BrokerSets
<1>5. ASSUME NEW st \in {"refused", "lost"}, broker' = [broker EXCEPT ![k] = to(st)]
      PROVE  broker'[k] = to(st) /\ \A j \in OrderIds : Moves(j)
  <2>1. broker'[k] = to(st) /\ \A j \in OrderIds \ {k} : broker'[j] = broker[j]
    BY <1>1, <1>5 DEF TypeOK, CounterTypeOK, BrokerTypeOK
  <2> QED BY <1>1, <1>2, <1>3, <2>1 DEF Moves
<1>6. CASE BrokerReject(k)
  <2>1. broker' = [broker EXCEPT ![k] = to("refused")]
        /\ UNCHANGED <<registryVars, proxyVars, qflow, sessions>>
    BY <1>6 DEF BrokerReject, to
  <2>2. PICK kinds \in {<<"RspOrderInsert">>, <<"RspOrderInsert", "ErrRtnOrderInsert">>} :
           IF Sub(broker[k].sess)
           THEN Send([i \in 1..Len(kinds) |-> InputOrder(kinds[i], k, broker[k].ref)])
           ELSE UNCHANGED flow
    BY <1>6 DEF BrokerReject
  <2>3. \A j \in OrderIds : Moves(j)
    BY <1>5, <2>1
  <2>4. CASE ~Sub(broker[k].sess)
    <3>1. UNCHANGED flow
      BY <2>2, <2>4
    <3> QED BY <2>1, <2>3, <3>1, NoNews, CounterStep
  <2>5. CASE Sub(broker[k].sess)
    <3>1. PICK ref \in 0..MaxRef : ref = broker[k].ref
      BY <1>1 DEF Named
    <3>2. \A kind \in {"RspOrderInsert", "ErrRtnOrderInsert"} :
             /\ InputOrder(kind, k, ref) \in Message
             /\ Truthful(InputOrder(kind, k, ref))' /\ Addressed(InputOrder(kind, k, ref))'
      <4> TAKE kind \in {"RspOrderInsert", "ErrRtnOrderInsert"}
      <4>1. InputOrder(kind, k, ref) \in Message
        BY <1>1, InputOrderType
      <4>2. PICK m : m = InputOrder(kind, k, ref)
        OBVIOUS
      <4>3. m.order = k /\ m.status = "REJECTED" /\ m.ref = ref /\ m.sess = 0 /\ m.sys = Null
        BY <4>2 DEF InputOrder
      <4>4. broker'[k].st = "refused" /\ broker'[k].ref = ref /\ broker'[k].sess = broker[k].sess
        BY <1>2, <1>5, <2>1, <3>1
      <4>5. sessions' = broker[k].sess
        BY <2>1, <2>5 DEF Sub
      <4>6. Truthful(m)' /\ Addressed(m)'
        BY <4>3, <4>4, <4>5 DEF Truthful, Addressed, Active, Done
      <4> QED BY <4>1, <4>2, <4>6
    <3>3. PICK msgs : msgs = [i \in 1..Len(kinds) |-> InputOrder(kinds[i], k, ref)]
      OBVIOUS
    <3>4. Send(msgs)
      BY <2>2, <2>5, <3>1, <3>3
    <3>5. /\ DOMAIN msgs = 1..Len(kinds) /\ Len(kinds) \in Nat
          /\ \A i \in 1..Len(kinds) : /\ kinds[i] \in {"RspOrderInsert", "ErrRtnOrderInsert"}
                                      /\ msgs[i] = InputOrder(kinds[i], k, ref)
      BY <3>3
    <3>6. msgs \in Seq(Message \cup CancelMessage)
      BY <3>2, <3>3, <3>5
    <3>7. \A i \in DOMAIN msgs : Truthful(msgs[i])' /\ Addressed(msgs[i])'
      BY <3>2, <3>5
    <3> QED BY <2>1, <2>3, <3>4, <3>6, <3>7, SendMail, CounterStep
  <2> QED BY <2>4, <2>5
<1>7. CASE LoseInsert(k)
  <2>1. broker' = [broker EXCEPT ![k] = to("lost")]
        /\ UNCHANGED <<registryVars, proxyVars, flow, qflow, sessions>>
    BY <1>7 DEF LoseInsert, to
  <2>2. \A j \in OrderIds : Moves(j)
    BY <1>5, <2>1
  <2> QED BY <2>1, <2>2, NoNews, CounterStep
<1> QED BY <1>4, <1>6, <1>7 DEF AnswerInsert

LEMMA ProgressIt ==
    ASSUME Calm, TypeOK, IdInv, NEW o \in OrderIds, BrokerProgress(o) PROVE IdInv'
<1>1. broker[o] \in BrokerOrder /\ broker[o].st \in Live /\ Named(broker[o])
  BY DEF BrokerProgress, TypeOK, CounterTypeOK, BrokerTypeOK, Live, Active
<1>2. PICK st \in Progress[broker[o].st] : BrokerSets(o, [broker[o] EXCEPT !.st = st])
  BY DEF BrokerProgress
<1>3. st \in Reported
  BY <1>1, <1>2 DEF Progress, Live, Active, Terminal, Reported
<1> DEFINE b == [broker[o] EXCEPT !.st = st]
<1>4. b.st = st /\ b.sess = broker[o].sess /\ b.ref = broker[o].ref
  BY <1>1 DEF BrokerOrder
<1>5. BrokerSets(o, b)
  BY <1>2
<1> HIDE DEF b
<1>6. b.st \in AtCounter /\ Named(b)
  BY <1>1, <1>3, <1>4 DEF Named, AtCounter, Live, Reported
<1> QED BY <1>1, <1>3, <1>4, <1>5, <1>6, SetsStep DEF BrokerSets

LEMMA ForeignOrderIt ==
    ASSUME Calm, TypeOK, IdInv, NEW f \in Foreign, NEW ref \in 1..MaxRef,
           ForeignOrder(f, ref) \/ ForeignReject(f, ref)
    PROVE  IdInv'
<1> DEFINE b == [st |-> "UNKNOWN", ref |-> ref, sess |-> ForeignSess]
<1>1. f \in OrderIds /\ broker[f].st = "none" /\ BrokerSets(f, b)
  BY DEF ForeignOrder, ForeignReject, Calm, OrderIds
<1>2. b.st = "UNKNOWN" /\ b.ref = ref /\ b.sess = ForeignSess
  OBVIOUS
<1> HIDE DEF b
<1>3. b.st \in AtCounter /\ Named(b)
  BY <1>2, RegistryAssumption, FlowAssumption DEF Named, AtCounter, Live, ForeignSess
<1> QED BY <1>1, <1>2, <1>3, SetsStep DEF BrokerSets

LEMMA AnswerCancelIt ==
    ASSUME Calm, TypeOK, IdInv, NEW i \in DOMAIN cancels, AnswerCancel(i) PROVE IdInv'
<1>1. CASE BrokerCancels(i)
  <2>1. PICK o \in OrderOf(cancels[i].sess, cancels[i].ref) :
           /\ broker[o].st \in Live
           /\ broker' = [broker EXCEPT ![o].st = "CANCELLED"]
           /\ Send(<<Report("RtnOrder", o, broker'[o])>>)
    BY <1>1 DEF BrokerCancels
  <2>2. o \in OrderIds /\ broker[o] \in BrokerOrder /\ Named(broker[o])
    BY <2>1 DEF OrderOf, TypeOK, CounterTypeOK, BrokerTypeOK, Live, Active
  <2>3. PICK b : b = [broker[o] EXCEPT !.st = "CANCELLED"]
    OBVIOUS
  <2>4. b.st = "CANCELLED" /\ b.sess = broker[o].sess /\ b.ref = broker[o].ref
    BY <2>2, <2>3 DEF BrokerOrder
  <2>5. broker' = [broker EXCEPT ![o] = b] /\ broker'[o] = b
    BY <2>1, <2>2, <2>3 DEF TypeOK, CounterTypeOK, BrokerTypeOK
  <2>6. /\ Send(<<Report("RtnOrder", o, b)>>)
        /\ UNCHANGED <<registryVars, proxyVars, qflow, sessions>>
    BY <1>1, <2>1, <2>5 DEF BrokerCancels
  <2>7. b.st \in AtCounter /\ b.st \in Reported /\ Named(b)
    BY <2>2, <2>4 DEF AtCounter, Reported, Terminal, Named
  <2> QED BY <2>1, <2>2, <2>4, <2>5, <2>6, <2>7, SetsStep
<1>2. CASE BrokerRefusesCancel(i)
  <2>1. UNCHANGED <<registryVars, proxyVars, broker, qflow, sessions>>
    BY <1>2 DEF BrokerRefusesCancel
  <2>2. PICK kinds \in {<<"RspOrderAction">>, <<"ErrRtnOrderAction">>,
                        <<"RspOrderAction", "ErrRtnOrderAction">>} :
           IF Sub(cancels[i].via)
           THEN Send([j \in 1..Len(kinds) |-> ActionError(kinds[j], cancels[i])])
           ELSE UNCHANGED flow
    BY <1>2 DEF BrokerRefusesCancel
  <2>3. \A kind \in {"RspOrderAction", "ErrRtnOrderAction"} :
           ActionError(kind, cancels[i]) \in CancelMessage
    <3>1. cancels[i] \in CancelRequest
      BY DEF TypeOK, CounterTypeOK
    <3> QED BY <3>1, RegistryAssumption DEF ActionError, CancelMessage, CancelRequest
  <2>4. PICK msgs : msgs = [j \in 1..Len(kinds) |-> ActionError(kinds[j], cancels[i])]
    OBVIOUS
  <2>5. msgs \in Seq(CancelMessage)
    BY <2>2, <2>3, <2>4
  <2>6. Send(msgs) \/ UNCHANGED flow
    BY <2>2, <2>4
  <2>7. CancelMessage \cap Message = {}
    BY DEF CancelMessage, Message
  <2>8. msgs \in Seq(Message \cup CancelMessage) /\ \A j \in DOMAIN msgs : msgs[j] \notin Message
    BY <2>5, <2>7
  <2>9. \A o \in OrderIds : Moves(o)
    BY <2>1 DEF Moves
  <2> QED BY <2>1, <2>6, <2>8, <2>9, SendMail, CounterStep
<1>3. CASE LoseCancel(i)
  <2>1. UNCHANGED <<registryVars, proxyVars, broker, flow, qflow, sessions>>
    BY <1>3 DEF LoseCancel
  <2>2. \A o \in OrderIds : Moves(o)
    BY <2>1 DEF Moves
  <2> QED BY <2>1, <2>2, NoNews, CounterStep
<1> QED BY <1>1, <1>2, <1>3 DEF AnswerCancel

LEMMA SnapshotIt ==
    ASSUME Calm, TypeOK, IdInv, NEW o \in OrderIds, BrokerSnapshot(o) PROVE IdInv'
<1>1. UNCHANGED <<registryVars, proxyVars, broker, flow, sessions>>
      /\ broker[o].st \in AtCounter /\ qflow' = Append(qflow, Report("QryOrder", o, broker[o]))
  BY DEF BrokerSnapshot
<1>2. \A j \in OrderIds : Moves(j)
  BY <1>1 DEF Moves
<1>3. PICK q \in Seq(Message), b \in BrokerOrder, m \in Message :
         q = qflow /\ b = broker[o] /\ m = Report("QryOrder", o, b)
  <2>1. broker[o] \in BrokerOrder /\ Named(broker[o]) /\ qflow \in Seq(Message)
    BY <1>1 DEF TypeOK, CounterTypeOK, BrokerTypeOK, AtCounter, Live, Active, Terminal
  <2>2. Report("QryOrder", o, broker[o]) \in Message
    BY <1>1, <2>1, ReportType
  <2> QED BY <2>1, <2>2
<1>4. Truthful(m)' /\ Addressed(m)'
  BY <1>1, <1>3, ReportTrue
<1>5. Mail(q)'
  BY <1>1, <1>2, <1>3, OldMail DEF IdInv, ReportInv
<1>6. Mail(qflow)'
  <2>1. qflow' = Append(q, m)
    BY <1>1, <1>3
  <2> SUFFICES ASSUME NEW i \in DOMAIN qflow', NEW n \in Message, n = qflow'[i]
               PROVE  Truthful(n)' /\ Addressed(n)'
    BY DEF Mail
  <2>2. (i \in DOMAIN q /\ n = q[i]) \/ n = m
    <3> HIDE DEF Message
    <3> QED BY <1>3, <2>1
  <2> QED BY <1>4, <1>5, <2>2 DEF Mail
<1>7. Mail(flow)'
  BY <1>1, <1>2, NoNews
<1> QED BY <1>1, <1>2, <1>6, <1>7, CounterStep
-----------------------------------------------------------------------------
LEMMA IdStep == ASSUME Calm, TypeOK, IdInv, [Next]_vars PROVE IdInv'
<1>1. CASE Command \/ CommandStep
  BY <1>1, TakeRef, CreateIt, InsertIt, RejectIt, CancelIt DEF Command, CommandStep
<1>2. CASE TraderStep
  BY <1>2, ReceiveIt, ReleaseIt, UpdateIt DEF TraderStep
<1>3. CASE Login \/ OnFrontDisconnected \/ Crash
  BY <1>3, SessionsStep
<1>4. CASE Counter
  BY <1>4, AnswerInsertIt, ProgressIt, SnapshotIt, ForeignOrderIt, AnswerCancelIt DEF Counter
<1>5. CASE UNCHANGED vars
  <2>1. /\ Kept /\ UNCHANGED <<sessions, link, spi, cmd, td, flow, qflow>>
    BY <1>5 DEF vars, Kept, registryVars, proxyVars, brokerVars
  <2>2. ReportInv'
    BY <2>1, CommandReports DEF IdInv, Kept
  <2> QED BY <2>1, <2>2, KeepRegistryInv, KeepCounterInv, KeepThreadInv, KeepStatusInv
          DEF IdInv, Kept
<1> QED BY <1>1, <1>2, <1>3, <1>4, <1>5 DEF Next

\* The report in hand finds its order's row still when it is written.
LEMMA HandFindsRow == ASSUME Calm, TypeOK, IdInv PROVE OwnReports
<1> SUFFICES ASSUME td.pc # "idle"
             PROVE  /\ {td.owner} = IF Own(td.msg.order) = {} THEN {Null} ELSE Own(td.msg.order)
                    /\ UpdateTarget(td.msg.ref, td.sess) = Own(td.msg.order)
  BY DEF OwnReports
<1>1. td.msg.order \in OrderIds
  BY DEF TypeOK, TraderTypeOK, TdIdle, Message
<1>2. PICK o \in OrderIds : o = td.msg.order
  BY <1>1
<1>3. /\ broker[o].st # "none" /\ td.msg.ref = broker[o].ref /\ td.sess = broker[o].sess
      /\ {td.owner} = IF Own(o) = {} THEN {Null} ELSE Own(o)
  BY <1>2 DEF IdInv, ReportInv, InHand, Truthful
<1>4. UpdateTarget(broker[o].ref, broker[o].sess) = Own(o)
  BY <1>3, FindTrue DEF IdInv
<1> QED BY <1>2, <1>3, <1>4

LEMMA IdAlways == ASSUME Calm PROVE Spec => []IdInv
<1>1. TypeOK /\ IdInv /\ [Next]_vars => IdInv'
  BY IdStep
<1> QED BY <1>1, IdInit, TypeCorrect, PTL DEF Spec

\* The order that a report is about, and no other, is told of it and recorded
\* with it, on either side of a restart, a new login or an upgrade: what
\* find_by_ctp found when the callback began update_ctp finds when it ends.
THEOREM ReportsReachTheirOrder == ASSUME Calm PROVE Spec => []OwnReports
<1>1. TypeOK /\ IdInv => OwnReports
  BY HandFindsRow
<1> QED BY <1>1, IdAlways, TypeCorrect, PTL

\* A row that says an order is finished is believed, by cancel_order
\* and by the strategy, only of an order that will not trade again.
THEOREM FinishedMeansFinished == ASSUME Calm PROVE Spec => []TerminalRowIsDone
<1>1. IdInv => TerminalRowIsDone
  BY DEF IdInv, StatusInv
<1> QED BY <1>1, IdAlways, PTL

\* The identifiers that cancel_order copied from the row are those of the order
\* until ReqOrderAction has sent them, whatever the trader thread writes meanwhile.
THEOREM CancelsNameTheirOrder == ASSUME Calm PROVE Spec => []CancelNamesItsOrder
<1>1. IdInv => CancelNamesItsOrder
  BY DEF IdInv, StatusInv
<1> QED BY <1>1, IdAlways, PTL
=============================================================================
