------------------------- MODULE TradeLedgerProofs -------------------------
(***************************************************************************)
(* Proofs about TradeLedger for every set of orders, fills and owners, any *)
(* page size and limit, and any number of repeated reports, lost           *)
(* connections and process deaths.                                         *)
(***************************************************************************)
EXTENDS TradeLedger, OrderRegistryProofs, FiniteSetTheorems, WellFoundedInduction, TLAPS

\* The rows of ctp_orders.  An order of this day keeps its session and has its own
\* number or none; the row of the earlier day never takes the session and OrderRef of
\* an order of this day, and if it has the number of one, it was written before it.
Rows ==
    /\ \A k \in Keys : orders[k].ref = RefOf[k]
    /\ \A k \in Keys \ Old : orders[k].sess = 2 /\ orders[k].sys \in {NumberOf[k], Null}
    /\ \A j \in Old, k \in Keys \ Old :
          /\ orders[j].sess = 2 => RefOf[k] # RefOf[j]
          /\ orders[j].sys = NumberOf[k] => j \in updated_at[k] /\ k \notin updated_at[j]

\* A report or an answer names its order by its own number or by none, an error by none.
OwnNumber(m) == /\ m.sys \in {NumberOf[m.order], Null}
                /\ m.kind = "ErrRtnOrderInsert" => m.sys = Null
Reports == \A i \in DOMAIN flow : OwnNumber(flow[i])

\* A row of ctp_trades is named after its fill and is older than next_id.
Recorded == \A r \in ledger : r.event = EventId(r.trade) /\ r.id < next_id /\ r.id # 0

\* Between the INSERT and the publish call a fill is stored and not yet published.
Handled ==
    td.pc = "publish" => /\ published[td.trade] = 0
                         /\ \E r \in ledger : r.trade = td.trade

\* Whose key a fill may be stored for.
OwnKey(t, k) == k = OrderOf[t] \/ (t \in strays /\ k \in Old \cup {Null})

\* The owner that trade_payload found.
Owned == td.pc # "idle" => OwnKey(td.trade, td.key)

\* A reader has taken what is stored up to its cursor.
ReadsAll ==
    \A o \in Owners :
        /\ reader[o].cursor < next_id
        /\ reader[o].seen = {r.id : r \in {s \in Stored(o) : s.id <= reader[o].cursor}}
-----------------------------------------------------------------------------
LEMMA InitTyped == Init => TypeOK
<1> SUFFICES ASSUME Init PROVE TypeOK
  OBVIOUS
<1> USE LedgerAssumption, RegistryAssumption
<1>1. RegistryTypeOK /\ DOMAIN orders = Keys
  <2>1. ASSUME NEW k \in Keys PROVE orders[k] \in Row
    <3>1. RefOf[k] \in 1..MaxRef /\ 1 \in 1..MaxSession /\ 2 \in 1..MaxSession
      BY DEF OrderIds
    <3> QED BY <3>1 DEF Init, Row, AnyStatus, Status, Active, Terminal
  <2>2. DOMAIN orders = Keys /\ orders \in [Keys -> Row]
    BY <2>1 DEF Init
  <2>3. updated_at \in [Keys -> SUBSET Keys]
    BY DEF Init
  <2> QED BY <2>2, <2>3 DEF RegistryTypeOK
<1>2. /\ td \in [pc : {"idle", "record", "publish"}, trade : Trades \cup {Null},
                key : Keys \cup {Null}]
      /\ td.pc = "idle"
  BY DEF Init, TdIdle
<1>3. /\ ledger \in SUBSET TradeRow /\ IsFiniteSet(ledger)
      /\ \A r, s \in ledger : r.id = s.id \/ r.event = s.event => r = s
  BY FS_EmptySet DEF Init
<1>4. reader \in [Owners -> [cursor : Nat, seen : SUBSET Nat]]
  BY DEF Init
<1> QED BY <1>1, <1>2, <1>3, <1>4 DEF Init, TypeOK

\* A row that is new in id and event joins the ledger.
LEMMA InsertTyped ==
    ASSUME TypeOK, Recorded, NEW t \in Trades, NEW k \in Keys \cup {Null},
           ~Duplicate(t), Insert(t, k)
    PROVE  /\ ledger' \in SUBSET TradeRow /\ IsFiniteSet(ledger')
           /\ \A r, s \in ledger' : r.id = s.id \/ r.event = s.event => r = s
           /\ next_id' \in Nat \ {0}
           /\ Recorded'
           /\ \E r \in ledger' : r.trade = t
           /\ next_id' = next_id + 1
<1> DEFINE row == [id |-> next_id, event |-> EventId(t), trade |-> t, key |-> k]
<1>1. ledger' = ledger \cup {row} /\ next_id' = next_id + 1 /\ next_id \in Nat \ {0}
  BY DEF Insert, TypeOK
<1>2. row \in TradeRow
  BY <1>1 DEF TradeRow
<1>3. ledger' \in SUBSET TradeRow /\ IsFiniteSet(ledger')
  BY <1>1, <1>2, FS_AddElement DEF TypeOK
<1>4. ASSUME NEW r \in ledger PROVE r.id # row.id /\ r.event # row.event
                                    /\ r.id < next_id' /\ r.event = EventId(r.trade)
  <2>1. r.id \in Nat /\ r.id < next_id /\ r.event = EventId(r.trade)
    BY DEF TypeOK, TradeRow, Recorded
  <2>2. r.event # EventId(t)
    BY DEF Duplicate
  <2> QED BY <1>1, <2>1, <2>2
<1>5. \A r, s \in ledger' : r.id = s.id \/ r.event = s.event => r = s
  BY <1>1, <1>4 DEF TypeOK
<1>6. row.event = EventId(row.trade) /\ row.id < next_id' /\ row.id # 0 /\ row.trade = t
  BY <1>1
<1>7. Recorded'
  <2> HIDE DEF row
  <2> QED BY <1>1, <1>4, <1>6 DEF Recorded
<1> HIDE DEF row
<1> QED BY <1>1, <1>3, <1>5, <1>6, <1>7

LEMMA SendTyped ==
    ASSUME TypeOK, NEW m \in Message, Send(m)
    PROVE  flow' \in Seq(Message)
BY DEF TypeOK, Send

\* The message at the head of the flow.
LEMMA HeadTyped ==
    ASSUME TypeOK, flow # <<>>
    PROVE  /\ Head(flow) \in Message /\ Tail(flow) \in Seq(Message)
           /\ 1 \in DOMAIN flow /\ Head(flow) = flow[1]
<1>1. flow \in Seq(Message)
  BY DEF TypeOK
<1> HIDE DEF Message
<1> QED BY <1>1

\* What the counter says of an order: a message with its own number or none.
LEMMA OrderSent ==
    ASSUME NEW o \in OrderIds, Report(o) \/ AnswerQuery(o) \/ Refuse(o)
    PROVE  /\ \E m \in Message : flow' = Append(flow, m) /\ OwnNumber(m)
           /\ UNCHANGED <<registryVars, td, ledger, next_id, published, reader, bounds,
                          history>>
<1> DEFINE msg(kind, sys) == [kind |-> kind, order |-> o, trade |-> Null, sys |-> sys]
<1>1. PICK kind \in {"RtnOrder", "RspQryOrder", "ErrRtnOrderInsert"},
           sys \in {NumberOf[o], Null} :
              /\ SendOrder(kind, o, sys) /\ o \notin Old
              /\ kind = "ErrRtnOrderInsert" => sys = Null
  BY LedgerAssumption DEF Report, AnswerQuery, Refuse
<1>2. NumberOf[o] \in SysIds
  BY LedgerAssumption
<1>3. msg(kind, sys) \in Message
  BY <1>1, <1>2 DEF Message
<1>4. OwnNumber(msg(kind, sys))
  BY <1>1 DEF OwnNumber
<1> QED BY <1>1, <1>3, <1>4 DEF SendOrder, Send

\* What the three handlers of an order do, each to the session that its message names
\* or, for the error, to that of the login.
LEMMA OrderHandled ==
    ASSUME TypeOK, Reports, OrderStep
    PROVE  LET m == Head(flow)
           IN  /\ m \in Message /\ m.order \in OrderIds \ Old /\ m.sys \in SysIds \cup {Null}
               /\ \E sess \in 2..MaxSession :
                     /\ UpdateCtp(RefOf[m.order], sess, m.sys, AnyStatus)
                     /\ m.sys # Null => sess = SessionOf(m.order) /\ m.sys = NumberOf[m.order]
               /\ known' = IF m.sys = Null THEN known ELSE known \cup ({m.order} \cap Keys)
               /\ td.pc = "idle" /\ flow # <<>> /\ flow' = Tail(flow)
               /\ UNCHANGED <<td, ledger, next_id, published, reader, bounds, strays,
                              received, failed>>
<1> DEFINE m == Head(flow)
<1>1. flow # <<>>
  BY DEF OrderStep, OnRtnOrder, OnRspQryOrder, OnErrRtnOrderInsert, OrderPayload
<1>2. /\ m \in Message /\ m.sys \in {NumberOf[m.order], Null}
      /\ m.kind = "ErrRtnOrderInsert" => m.sys = Null
  <2> HIDE DEF Message
  <2> QED BY <1>1, HeadTyped DEF Reports, OwnNumber
<1>3. m.order \in OrderIds \ Old /\ NumberOf[m.order] \in SysIds
  BY <1>2, LedgerAssumption DEF Message
<1>4. SessionOf(m.order) \in 2..MaxSession /\ Login \in 2..MaxSession
  BY LedgerAssumption, RegistryAssumption DEF SessionOf, Login, TypeOK
<1>5. PICK sess \in 2..MaxSession,
           kind \in {"RtnOrder", "RspQryOrder", "ErrRtnOrderInsert"} :
        /\ OrderPayload(kind, sess)
        /\ m.kind = "ErrRtnOrderInsert" \/ sess = SessionOf(m.order)
  <2> HIDE DEF Message
  <2>1. CASE OnRtnOrder \/ OnRspQryOrder
    BY <1>4, <2>1 DEF OnRtnOrder, OnRspQryOrder
  <2>2. CASE OnErrRtnOrderInsert
    <3>1. OrderPayload("ErrRtnOrderInsert", Login)
      BY <2>2 DEF OnErrRtnOrderInsert
    <3>2. m.kind = "ErrRtnOrderInsert"
      BY <3>1 DEF OrderPayload
    <3> QED BY <1>4, <3>1, <3>2
  <2> QED BY <2>1, <2>2 DEF OrderStep
<1>6. /\ UpdateCtp(RefOf[m.order], sess, m.sys, AnyStatus)
      /\ m.sys # Null => sess = SessionOf(m.order) /\ m.sys = NumberOf[m.order]
  BY <1>2, <1>5 DEF OrderPayload
<1> QED BY <1>1, <1>2, <1>3, <1>5, <1>6 DEF OrderPayload

\* A page is a part of what is stored for its owner.
LEMMA PageStored ==
    ASSUME NEW o, NEW after, NEW limit
    PROVE  /\ ListTrades(o, after, limit).trades \subseteq {r \in Stored(o) : r.id > after}
           /\ Stored(o) \subseteq ledger
BY DEF ListTrades, First, Stored

\* A set of rows that is not empty has a last one.
LEMMA LastIsLast ==
    ASSUME TypeOK, Recorded, NEW rows \in SUBSET ledger, rows # {}
    PROVE  Last(rows) \in rows /\ \A s \in rows : s.id <= Last(rows).id
<1> DEFINE R == {ss \in Nat \X Nat : ss[1] < ss[2]}
           T == {next_id - r.id : r \in rows}
<1>1. IsWellFoundedOn(OpToRel(<, Nat), Nat)
  BY NatLessThanWellFounded
<1>2. OpToRel(<, Nat) = R
  BY DEF OpToRel
<1>3. \A r \in rows : r.id \in Nat /\ r.id < next_id
  BY DEF TypeOK, TradeRow, Recorded
<1>4. T \subseteq Nat /\ T # {}
  BY <1>3 DEF TypeOK
<1>5. PICK x \in T : \A y \in T : <<y, x>> \notin R
  <2> HIDE DEF T, R
  <2> QED BY <1>1, <1>2, <1>4, WFMin
<1>6. PICK r \in rows : x = next_id - r.id
  OBVIOUS
<1>7. \A s \in rows : s.id <= r.id
  <2> SUFFICES ASSUME NEW s \in rows PROVE s.id <= r.id
    OBVIOUS
  <2>1. <<next_id - s.id, next_id - r.id>> \notin R
    BY <1>5, <1>6
  <2>2. next_id - s.id \in Nat /\ next_id - r.id \in Nat
    BY <1>3 DEF TypeOK
  <2>3. ~(next_id - s.id < next_id - r.id)
    BY <2>1, <2>2
  <2> QED BY <1>3, <2>3 DEF TypeOK
<1> QED BY <1>7 DEF Last

\* ORDER BY id LIMIT n takes a row only with all that come before it.
LEMMA FirstIsDownward ==
    ASSUME TypeOK, NEW rows \in SUBSET ledger, NEW n \in Nat,
           NEW c \in First(n, rows), NEW r \in rows, r.id <= c.id
    PROVE  r \in First(n, rows)
<1> DEFINE below(x) == {s \in rows : s.id <= x.id}
<1>1. \A s \in rows : s.id \in Nat
  BY DEF TypeOK, TradeRow
<1>2. c \in rows /\ Cardinality(below(c)) <= n
  BY DEF First
<1>3. below(r) \subseteq below(c)
  BY <1>1, <1>2
<1>4. IsFiniteSet(below(c))
  BY FS_Subset DEF TypeOK
<1>5. IsFiniteSet(below(r)) /\ Cardinality(below(r)) <= Cardinality(below(c))
  BY <1>3, <1>4, FS_Subset
<1>6. Cardinality(below(r)) \in Nat /\ Cardinality(below(c)) \in Nat
  BY <1>4, <1>5, FS_CardinalityType
<1>7. Cardinality(below(r)) <= n
  BY <1>2, <1>5, <1>6
<1> QED BY <1>7 DEF First

\* A page holds what is stored between the cursor asked for and the one returned.
LEMMA PageIsNext ==
    ASSUME TypeOK, Recorded, NEW o \in Owners, NEW after \in Nat, after < next_id,
           NEW limit \in Int
    PROVE  LET p == ListTrades(o, after, limit)
           IN  /\ p.next_after_id \in Nat /\ after <= p.next_after_id
               /\ p.next_after_id < next_id
               /\ p.trades = {r \in Stored(o) : after < r.id /\ r.id <= p.next_after_id}
<1> DEFINE all == {r \in Stored(o) : r.id > after}
           n == PageSize(limit)
           rows == First(n + 1, all)
           page == First(n, rows)
           next == IF page = {} THEN after ELSE Last(page).id
<1>1. /\ ListTrades(o, after, limit).trades = page
      /\ ListTrades(o, after, limit).next_after_id = next
  BY DEF ListTrades
<1>2. n \in Nat
  BY LedgerAssumption DEF PageSize, Limit
<1>3. all \subseteq ledger /\ rows \subseteq all /\ page \subseteq rows
  BY DEF Stored, First
<1>4. \A r \in ledger : r.id \in Nat /\ r.id < next_id
  BY DEF TypeOK, TradeRow, Recorded
<1>5. CASE page = {}
  BY <1>1, <1>3, <1>4, <1>5
<1>6. CASE page # {}
  <2>1. Last(page) \in page /\ (\A s \in page : s.id <= Last(page).id)
    <3> HIDE DEF page
    <3> QED BY <1>3, <1>6, LastIsLast
  <2>2. ASSUME NEW r \in all, r.id <= Last(page).id PROVE r \in page
    <3>1. Last(page) \in rows
      BY <1>3, <2>1
    <3>2. r \in rows
      <4> HIDE DEF page
      <4> QED BY <1>2, <1>3, <2>2, <3>1, FirstIsDownward
    <3>3. rows \in SUBSET ledger
      BY <1>3
    <3> HIDE DEF rows
    <3> QED BY <1>2, <2>1, <2>2, <3>2, <3>3, FirstIsDownward
  <2>3. next = Last(page).id /\ next \in Nat /\ next > after /\ next < next_id
    <3> HIDE DEF page
    <3> QED BY <1>3, <1>4, <1>6, <2>1
  <2>4. page = {r \in Stored(o) : after < r.id /\ r.id <= next}
    <3> SUFFICES ASSUME NEW r \in Stored(o)
                 PROVE  r \in page <=> after < r.id /\ r.id <= next
      BY <1>3
    <3>1. r \in all <=> after < r.id
      OBVIOUS
    <3> HIDE DEF page, all, rows, next
    <3> QED BY <1>3, <2>1, <2>2, <2>3, <3>1
  <2> HIDE DEF page, next
  <2> QED BY <1>1, <2>3, <2>4
<1> QED BY <1>5, <1>6
-----------------------------------------------------------------------------
\* The groups of variables that TypeOK speaks about.

TableTyped == RegistryTypeOK /\ DOMAIN orders = Keys

ThreadTyped ==
    /\ td \in [pc : {"idle", "record", "publish"}, trade : Trades \cup {Null},
              key : Keys \cup {Null}]
    /\ td.pc = "idle" \/ td.trade \in Trades

LedgerTyped ==
    /\ ledger \in SUBSET TradeRow /\ IsFiniteSet(ledger)
    /\ \A r, s \in ledger : r.id = s.id \/ r.event = s.event => r = s
    /\ next_id \in Nat \ {0}

ReadersTyped == reader \in [Owners -> [cursor : Nat, seen : SUBSET Nat]]

HistoryTyped ==
    /\ sends \in Nat /\ faults \in 0..MaxFaults
    /\ known \in SUBSET Keys /\ strays \in SUBSET Trades
    /\ received \in SUBSET Trades /\ failed \in SUBSET Trades

LEMMA TypeParts ==
    TypeOK <=> /\ TableTyped /\ ThreadTyped /\ flow \in Seq(Message)
               /\ LedgerTyped /\ published \in [Trades -> Nat]
               /\ ReadersTyped /\ HistoryTyped
BY DEF TypeOK, TableTyped, ThreadTyped, LedgerTyped, ReadersTyped, HistoryTyped

LEMMA TypePartsNext ==
    /\ TableTyped' /\ ThreadTyped' /\ flow' \in Seq(Message)
    /\ LedgerTyped' /\ published' \in [Trades -> Nat]
    /\ ReadersTyped' /\ HistoryTyped'
    => TypeOK'
BY DEF TypeOK, TableTyped, ThreadTyped, LedgerTyped, ReadersTyped, HistoryTyped

LEMMA KeepTable == TableTyped /\ UNCHANGED registryVars => TableTyped'
BY DEF TableTyped, RegistryTypeOK, registryVars

LEMMA KeepThread == ThreadTyped /\ UNCHANGED td => ThreadTyped'
BY DEF ThreadTyped

LEMMA KeepLedger == LedgerTyped /\ UNCHANGED <<ledger, next_id>> => LedgerTyped'
BY DEF LedgerTyped

LEMMA KeepReaders == ReadersTyped /\ UNCHANGED reader => ReadersTyped'
BY DEF ReadersTyped

LEMMA KeepHistory == HistoryTyped /\ UNCHANGED <<bounds, history>> => HistoryTyped'
BY DEF HistoryTyped, bounds, history

\* RecordTrade and RecordTradeFails: a row that is no duplicate, or none.
LEMMA RecordTyped ==
    ASSUME TypeOK, Recorded, td.pc = "record",
           \/ UNCHANGED ledger /\ next_id' \in {next_id, next_id + 1}
           \/ ~Duplicate(td.trade) /\ Insert(td.trade, td.key)
    PROVE  LedgerTyped' /\ Recorded'
<1>1. td.trade \in Trades /\ td.key \in Keys \cup {Null} /\ next_id \in Nat \ {0}
  BY DEF TypeOK
<1>2. CASE UNCHANGED ledger /\ next_id' \in {next_id, next_id + 1}
  <2>1. next_id' \in Nat \ {0} /\ next_id' >= next_id
    BY <1>1, <1>2
  <2>2. \A r \in ledger : r.id \in Nat
    BY DEF TypeOK, TradeRow
  <2> QED BY <1>1, <1>2, <2>1, <2>2 DEF TypeOK, LedgerTyped, Recorded
<1>3. CASE ~Duplicate(td.trade) /\ Insert(td.trade, td.key)
  BY <1>1, <1>3, InsertTyped DEF LedgerTyped
<1> QED BY <1>2, <1>3

LEMMA StepTyped ==
    ASSUME TypeOK, Reports, Recorded, ReadsAll, [Next]_vars
    PROVE  TypeOK'
<1> USE TypeParts, TypePartsNext, KeepTable, KeepThread, KeepLedger, KeepReaders, KeepHistory
<1>1. CASE OrderStep
  <2> DEFINE m == Head(flow)
  <2>1. m \in Message /\ m.sys \in SysIds \cup {Null} /\ Tail(flow) \in Seq(Message)
    <3> HIDE DEF Message
    <3> QED BY <1>1, OrderHandled, HeadTyped
  <2>2. PICK sess \in 2..MaxSession : UpdateCtp(RefOf[m.order], sess, m.sys, AnyStatus)
    BY <1>1, OrderHandled
  <2>3. TableTyped'
    <3>1. sess \in 1..MaxSession /\ AnyStatus \in Status
      BY RegistryAssumption DEF AnyStatus, Status
    <3> HIDE DEF m
    <3> QED BY <2>1, <2>2, <3>1, UpdateType DEF TableTyped
  <2>4. /\ known' = IF m.sys = Null THEN known ELSE known \cup ({m.order} \cap Keys)
        /\ flow' = Tail(flow)
        /\ UNCHANGED <<td, ledger, next_id, published, reader, bounds, strays, received, failed>>
    BY <1>1, OrderHandled
  <2>5. HistoryTyped'
    <3> HIDE DEF m
    <3> QED BY <2>4 DEF HistoryTyped, bounds
  <2> QED BY <2>1, <2>3, <2>4, <2>5
<1>2. CASE OnRtnTrade
  <2>1. Tail(flow) \in Seq(Message) /\ Head(flow).trade \in Trades
    BY <1>2, HeadTyped DEF OnRtnTrade, Message
  <2>2. ThreadTyped'
    <3>1. PICK k \in FindByCtp(RefOf[OrderOf[Head(flow).trade]], 0,
                              NumberOf[OrderOf[Head(flow).trade]]) :
             td' = [pc |-> "record", trade |-> Head(flow).trade, key |-> k]
      BY <1>2 DEF OnRtnTrade
    <3>2. k \in Keys \cup {Null}
      BY <3>1, OwnerType DEF TypeOK
    <3> QED BY <2>1, <3>1, <3>2 DEF ThreadTyped
  <2>3. HistoryTyped'
    BY <1>2, <2>1 DEF OnRtnTrade, HistoryTyped, bounds
  <2>4. flow' = Tail(flow) /\ UNCHANGED <<registryVars, ledger, next_id, published, reader>>
    BY <1>2 DEF OnRtnTrade
  <2> QED BY <2>1, <2>2, <2>3, <2>4
<1>3. CASE RecordTrade
  <2>1. LedgerTyped'
    BY <1>3, RecordTyped DEF RecordTrade
  <2>2. ThreadTyped'
    BY <1>3 DEF RecordTrade, ThreadTyped, TdIdle
  <2> QED BY <1>3, <2>1, <2>2 DEF RecordTrade
<1>4. CASE RecordTradeFails
  <2>1. LedgerTyped'
    BY <1>4, RecordTyped DEF RecordTradeFails
  <2>2. ThreadTyped' /\ HistoryTyped'
    BY <1>4 DEF RecordTradeFails, ThreadTyped, HistoryTyped, TdIdle, bounds
  <2> QED BY <1>4, <2>1, <2>2 DEF RecordTradeFails
<1>5. CASE PublishTrade
  <2>1. ThreadTyped' /\ published' \in [Trades -> Nat]
    BY <1>5 DEF PublishTrade, ThreadTyped, TdIdle
  <2> QED BY <1>5, <2>1 DEF PublishTrade
<1>6. ASSUME NEW o \in Owners, GetTrades(o) PROVE TypeOK'
  <2> DEFINE p == ListTrades(o, reader[o].cursor, LimitOf[o])
  <2>1. p.next_after_id \in Nat /\ p.trades \subseteq ledger
    <3>1. reader[o].cursor \in Nat /\ reader[o].cursor < next_id /\ LimitOf[o] \in Int
      BY LedgerAssumption DEF ReadersTyped, ReadsAll
    <3>2. p.next_after_id \in Nat
      BY <3>1, PageIsNext
    <3>3. p.trades \subseteq ledger
      BY PageStored
    <3> QED BY <3>2, <3>3
  <2>2. {r.id : r \in p.trades} \subseteq Nat
    BY <2>1 DEF LedgerTyped, TradeRow
  <2>3. reader' = [reader EXCEPT ![o] = [cursor |-> p.next_after_id,
                                         seen |-> reader[o].seen \cup {r.id : r \in p.trades}]]
    BY <1>6 DEF GetTrades
  <2>4. ReadersTyped'
    <3> HIDE DEF p
    <3> QED BY <2>1, <2>2, <2>3 DEF ReadersTyped
  <2> QED BY <1>6, <2>4 DEF GetTrades
<1>7. ASSUME NEW o \in Owners, GetTradeCursor(o) PROVE TypeOK'
  <2>1. Stored(o) \subseteq ledger
    BY DEF Stored
  <2>2. \A r \in ledger : r.id \in Nat
    BY DEF LedgerTyped, TradeRow
  <2> DEFINE c == IF Stored(o) = {} THEN 0 ELSE Last(Stored(o)).id
             s == {r.id : r \in Stored(o)}
  <2>3. c \in Nat /\ s \subseteq Nat
    BY <2>1, <2>2, LastIsLast
  <2>4. reader' = [reader EXCEPT ![o].cursor = c, ![o].seen = s]
    BY <1>7 DEF GetTradeCursor
  <2>5. ReadersTyped'
    <3> HIDE DEF c, s
    <3> QED BY <2>3, <2>4 DEF ReadersTyped
  <2> QED BY <1>7, <2>5 DEF GetTradeCursor
<1>8. ASSUME NEW o \in OrderIds, Report(o) \/ AnswerQuery(o) \/ Refuse(o) PROVE TypeOK'
  <2> HIDE DEF Message
  <2>1. PICK m \in Message : flow' = Append(flow, m)
    BY <1>8, OrderSent
  <2>2. flow' \in Seq(Message)
    BY <2>1
  <2> QED BY <1>8, <2>2, OrderSent
<1>9. ASSUME NEW t \in Trades, Fill(t) PROVE TypeOK'
  <2>1. flow' \in Seq(Message)
    <3>1. [kind |-> "RtnTrade", order |-> OrderOf[t], trade |-> t,
           sys |-> NumberOf[OrderOf[t]]] \in Message
      BY LedgerAssumption DEF Message
    <3> HIDE DEF Message
    <3> QED BY <1>9, <3>1, SendTyped DEF Fill
  <2>2. HistoryTyped'
    BY <1>9 DEF Fill, HistoryTyped, history
  <2> QED BY <1>9, <2>1, <2>2 DEF Fill
<1>10. CASE Reconnect
  <2>1. flow' \in Seq(Message)
    BY <1>10 DEF Reconnect
  <2>2. HistoryTyped'
    BY <1>10, LedgerAssumption DEF Reconnect, HistoryTyped, history
  <2> QED BY <1>10, <2>1, <2>2 DEF Reconnect
<1>11. CASE Crash
  <2>1. flow' \in Seq(Message) /\ ThreadTyped' /\ HistoryTyped'
    BY <1>11, LedgerAssumption DEF Crash, ThreadTyped, TdIdle, HistoryTyped
  <2> QED BY <1>11, <2>1 DEF Crash
<1>12. CASE UNCHANGED vars
  BY <1>12 DEF vars
<1> QED
  BY <1>1, <1>2, <1>3, <1>4, <1>5, <1>6, <1>7, <1>8, <1>9, <1>10, <1>11, <1>12
     DEF Next, TradeStep, Engine, Counter
-----------------------------------------------------------------------------
\* What a step can do to ctp_trades.
Stores(t, k) == /\ td.pc = "record" /\ td.trade = t /\ td.key = k
                /\ ~Duplicate(t) /\ Insert(t, k)

LEMMA LedgerSteps ==
    ASSUME TypeOK, [Next]_vars
    PROVE  \/ UNCHANGED ledger /\ next_id' \in {next_id, next_id + 1} /\ next_id' >= next_id
           \/ Stores(td.trade, td.key) /\ UNCHANGED <<reader, orders, updated_at, published>>
<1>1. next_id \in Nat
  BY DEF TypeOK
<1>2. CASE UNCHANGED <<ledger, next_id>>
  BY <1>1, <1>2
<1>3. CASE RecordTrade \/ RecordTradeFails
  BY <1>1, <1>3 DEF RecordTrade, RecordTradeFails, Stores, registryVars
<1> QED
  BY <1>2, <1>3 DEF Next, vars, TradeStep, Engine, Counter, OrderStep, OnRtnOrder,
                    OnRspQryOrder, OnErrRtnOrderInsert, OrderPayload, OnRtnTrade, PublishTrade,
                    GetTrades, GetTradeCursor, Report, AnswerQuery, Refuse, SendOrder, Fill,
                    Reconnect, Crash

LEMMA StepRecorded ==
    ASSUME TypeOK, Recorded, [Next]_vars
    PROVE  Recorded' /\ ledger \subseteq ledger' /\ next_id' >= next_id
<1>1. \A r \in ledger : r.id \in Nat
  BY DEF TypeOK, TradeRow
<1>2. next_id \in Nat
  BY DEF TypeOK
<1>3. CASE UNCHANGED ledger /\ next_id' \in {next_id, next_id + 1} /\ next_id' >= next_id
  BY <1>1, <1>2, <1>3 DEF Recorded
<1>4. CASE Stores(td.trade, td.key)
  <2>1. td.trade \in Trades /\ td.key \in Keys \cup {Null}
    BY <1>4 DEF Stores, TypeOK
  <2> QED BY <1>2, <1>4, <2>1, InsertTyped DEF Stores, Insert
<1> QED BY <1>3, <1>4, LedgerSteps

\* A fill is published only out of the state after its INSERT.
Published ==
    /\ \A t \in Trades : /\ published[t] \in {0, 1}
                         /\ published[t] = 1 => \E r \in ledger : r.trade = t
    /\ Handled

LEMMA StepPublished ==
    ASSUME TypeOK, Recorded, Published, [Next]_vars
    PROVE  Published'
<1>1. ledger \subseteq ledger'
  BY StepRecorded
<1>2. published \in [Trades -> Nat] /\ (td.pc = "idle" \/ td.trade \in Trades)
  BY DEF TypeOK
<1>3. CASE RecordTrade
  <2>1. UNCHANGED published /\ td.trade \in Trades
    BY <1>2, <1>3 DEF RecordTrade
  <2>2. CASE Duplicate(td.trade)
    BY <1>1, <1>3, <2>1, <2>2 DEF RecordTrade, Published, Handled, TdIdle
  <2>3. CASE ~Duplicate(td.trade)
    <3>1. Insert(td.trade, td.key) /\ td' = [td EXCEPT !.pc = "publish"]
      BY <1>3, <2>3 DEF RecordTrade
    <3>2. td'.trade = td.trade /\ \E r \in ledger' : r.trade = td.trade
      <4>1. td'.trade = td.trade
        BY <3>1 DEF TypeOK
      <4>2. \E r \in ledger' : r.trade = td.trade
        BY <1>2, <2>1, <2>3, <3>1, InsertTyped DEF TypeOK
      <4> QED BY <4>1, <4>2
    <3>3. ~ \E r \in ledger : r.trade = td.trade
      BY <2>3 DEF Duplicate, Recorded
    <3>4. published[td.trade] = 0
      BY <2>1, <3>3 DEF Published
    <3> QED BY <1>1, <2>1, <3>2, <3>4 DEF Published, Handled
  <2> QED BY <2>2, <2>3
<1>4. CASE PublishTrade
  <2>1. td.trade \in Trades /\ published[td.trade] = 0 /\ \E r \in ledger : r.trade = td.trade
    BY <1>2, <1>4 DEF PublishTrade, Published, Handled
  <2>2. published' = [published EXCEPT ![td.trade] = 1] /\ td'.pc = "idle"
    BY <1>2, <1>4, <2>1 DEF PublishTrade, TdIdle
  <2> QED BY <1>1, <1>2, <2>1, <2>2 DEF Published, Handled
<1>5. CASE RecordTradeFails \/ Crash \/ OnRtnTrade
  <2>1. UNCHANGED published /\ td'.pc # "publish"
    BY <1>5 DEF RecordTradeFails, Crash, OnRtnTrade, TdIdle
  <2> QED BY <1>1, <2>1 DEF Published, Handled
<1>6. CASE UNCHANGED <<published, td>>
  BY <1>1, <1>6 DEF Published, Handled
<1> QED
  BY <1>3, <1>4, <1>5, <1>6 DEF Next, vars, TradeStep, Engine, Counter, OrderStep, OnRtnOrder,
     OnRspQryOrder, OnErrRtnOrderInsert, OrderPayload,
     GetTrades, GetTradeCursor, Report, AnswerQuery, Refuse, SendOrder, Fill, Reconnect

\* What is stored for an owner grows only by the row that is inserted.
LEMMA StoredGrows ==
    ASSUME TypeOK, NEW o \in Owners
    PROVE  /\ UNCHANGED ledger => Stored(o)' = Stored(o)
           /\ \A t, k : Insert(t, k) =>
                 LET row == [id |-> next_id, event |-> EventId(t), trade |-> t, key |-> k]
                 IN  Stored(o)' = Stored(o) \cup
                        (IF k # Null /\ OwnerOf[k] = o THEN {row} ELSE {})
BY DEF Stored, Insert

LEMMA StepReadsAll ==
    ASSUME TypeOK, Recorded, ReadsAll, [Next]_vars
    PROVE  ReadsAll'
<1>1. /\ reader \in [Owners -> [cursor : Nat, seen : SUBSET Nat]]
      /\ next_id \in Nat /\ \A r \in ledger : r.id \in Nat /\ r.id < next_id /\ r.id # 0
  BY DEF TypeOK, TradeRow, Recorded
<1>2. \A o : Stored(o) \subseteq ledger
  BY DEF Stored
<1>3. CASE UNCHANGED reader
  <2> SUFFICES ASSUME NEW o \in Owners
               PROVE  /\ reader[o].cursor < next_id'
                      /\ {r.id : r \in {s \in Stored(o)' : s.id <= reader[o].cursor}}
                         = {r.id : r \in {s \in Stored(o) : s.id <= reader[o].cursor}}
    BY <1>3 DEF ReadsAll
  <2>1. reader[o].cursor < next_id /\ reader[o].cursor \in Nat
    BY <1>1 DEF ReadsAll
  <2>2. CASE UNCHANGED ledger /\ next_id' \in {next_id, next_id + 1}
    BY <1>1, <2>1, <2>2, StoredGrows
  <2>3. CASE Stores(td.trade, td.key)
    <3> DEFINE row == [id |-> next_id, event |-> EventId(td.trade), trade |-> td.trade,
                       key |-> td.key]
    <3>1. Insert(td.trade, td.key)
      BY <2>3 DEF Stores
    <3>2. Stored(o)' \subseteq Stored(o) \cup {row} /\ Stored(o) \subseteq Stored(o)'
      BY <3>1, StoredGrows
    <3>3. row.id = next_id /\ next_id' = next_id + 1
      BY <3>1 DEF Insert
    <3> HIDE DEF row
    <3>4. {s \in Stored(o)' : s.id <= reader[o].cursor}
          = {s \in Stored(o) : s.id <= reader[o].cursor}
      BY <1>1, <2>1, <3>2, <3>3
    <3> QED BY <1>1, <2>1, <3>3, <3>4
  <2> QED BY <2>2, <2>3, LedgerSteps
<1>4. ASSUME NEW o \in Owners, GetTrades(o) PROVE ReadsAll'
  <2> DEFINE p == ListTrades(o, reader[o].cursor, LimitOf[o])
             c == reader[o].cursor
  <2>1. c \in Nat /\ c < next_id /\ LimitOf[o] \in Int
        /\ reader[o].seen = {r.id : r \in {s \in Stored(o) : s.id <= c}}
    BY <1>1, LedgerAssumption DEF ReadsAll
  <2>2. /\ p.next_after_id \in Nat /\ c <= p.next_after_id /\ p.next_after_id < next_id
        /\ p.trades = {r \in Stored(o) : c < r.id /\ r.id <= p.next_after_id}
    BY <2>1, PageIsNext
  <2>3. reader' = [reader EXCEPT ![o] = [cursor |-> p.next_after_id,
                                         seen |-> reader[o].seen \cup {r.id : r \in p.trades}]]
        /\ UNCHANGED <<ledger, next_id>>
    BY <1>4 DEF GetTrades
  <2>4. reader[o].seen \cup {r.id : r \in p.trades}
        = {r.id : r \in {s \in Stored(o) : s.id <= p.next_after_id}}
    <3> HIDE DEF p
    <3>1. {s \in Stored(o) : s.id <= p.next_after_id}
          = {s \in Stored(o) : s.id <= c} \cup p.trades
      BY <1>1, <1>2, <2>1, <2>2
    <3> QED BY <2>1, <3>1
  <2>5. \A q \in Owners : Stored(q)' = Stored(q)
    BY <2>3, StoredGrows
  <2> HIDE DEF p, c
  <2> QED BY <1>1, <2>2, <2>3, <2>4, <2>5 DEF ReadsAll
<1>5. ASSUME NEW o \in Owners, GetTradeCursor(o) PROVE ReadsAll'
  <2> DEFINE c == IF Stored(o) = {} THEN 0 ELSE Last(Stored(o)).id
             s == {r.id : r \in Stored(o)}
  <2>1. reader' = [reader EXCEPT ![o].cursor = c, ![o].seen = s] /\ UNCHANGED <<ledger, next_id>>
    BY <1>5 DEF GetTradeCursor
  <2>2. Stored(o) # {} => /\ Last(Stored(o)) \in ledger
                          /\ \A r \in Stored(o) : r.id <= Last(Stored(o)).id
    BY <1>2, LastIsLast
  <2>3. next_id > 0
    BY DEF TypeOK
  <2>4. c < next_id /\ \A r \in Stored(o) : r.id <= c
    BY <1>1, <2>2, <2>3
  <2>5. s = {r.id : r \in {q \in Stored(o) : q.id <= c}}
    <3> HIDE DEF c
    <3> QED BY <2>4
  <2>6. \A q \in Owners : Stored(q)' = Stored(q)
    BY <2>1, StoredGrows
  <2> HIDE DEF c, s
  <2> QED BY <1>1, <2>1, <2>4, <2>5, <2>6 DEF ReadsAll
<1> QED
  BY <1>3, <1>4, <1>5 DEF Next, vars, TradeStep, Engine, Counter, OrderStep, OnRtnOrder,
                          OnRspQryOrder, OnErrRtnOrderInsert, OrderPayload, OnRtnTrade,
                          RecordTrade, RecordTradeFails, PublishTrade, Report, AnswerQuery,
                          Refuse, SendOrder, Fill, Reconnect, Crash
-----------------------------------------------------------------------------
LEMMA StepReports ==
    ASSUME TypeOK, Reports, [Next]_vars
    PROVE  Reports'
<1> HIDE DEF Message
<1>1. flow \in Seq(Message)
  BY DEF TypeOK
<1>2. CASE UNCHANGED flow
  BY <1>2 DEF Reports
<1>3. CASE OrderStep \/ OnRtnTrade
  <2>1. flow # <<>> /\ flow' = Tail(flow)
    BY <1>3, OrderHandled DEF OnRtnTrade
  <2>2. \A i \in DOMAIN flow' : i + 1 \in DOMAIN flow /\ flow'[i] = flow[i + 1]
    BY <1>1, <2>1
  <2> QED BY <2>2 DEF Reports
<1>4. CASE Reconnect \/ Crash
  BY <1>4 DEF Reconnect, Crash, Reports
<1>5. ASSUME NEW m \in Message, flow' = Append(flow, m), OwnNumber(m)
      PROVE  Reports'
  <2>1. flow' = Append(flow, m)
    BY <1>5
  <2>2. \A i \in DOMAIN flow' : (i \in DOMAIN flow /\ flow'[i] = flow[i]) \/ flow'[i] = m
    BY <1>1, <2>1
  <2> QED BY <1>5, <2>2 DEF Reports
<1>6. ASSUME NEW t \in Trades, Fill(t) PROVE Reports'
  <2> DEFINE m == [kind |-> "RtnTrade", order |-> OrderOf[t], trade |-> t,
                   sys |-> NumberOf[OrderOf[t]]]
  <2>1. m \in Message
    BY LedgerAssumption DEF Message
  <2>2. OwnNumber(m)
    BY DEF OwnNumber
  <2>3. flow' = Append(flow, m)
    BY <1>6 DEF Fill, Send
  <2> HIDE DEF m
  <2> QED BY <1>5, <2>1, <2>2, <2>3
<1>7. ASSUME NEW o \in OrderIds, Report(o) \/ AnswerQuery(o) \/ Refuse(o) PROVE Reports'
  <2>1. \E m \in Message : flow' = Append(flow, m) /\ OwnNumber(m)
    BY <1>7, OrderSent
  <2> QED BY <1>5, <2>1
<1> QED
  BY <1>2, <1>3, <1>4, <1>6, <1>7 DEF Next, vars, TradeStep, Engine, Counter, RecordTrade,
     RecordTradeFails, PublishTrade, GetTrades, GetTradeCursor

\* The row that a message about an order of this day is written to: with the session
\* of the orders of this day the one with the OrderRef, otherwise at most the old row.
LEMMA TargetIsOwn ==
    ASSUME TypeOK, Rows, NEW o \in OrderIds \ Old, NEW sess \in 2..MaxSession,
           NEW k \in UpdateTarget(RefOf[o], sess)
    PROVE  /\ k \in Keys /\ RefOf[k] = RefOf[o]
           /\ k \notin Old => sess = 2
           /\ k \in Old /\ sess = 2 => \A m \in Keys \ Old : RefOf[m] # RefOf[k]
<1>1. DOMAIN orders = Keys /\ Null \notin Nat
  BY RegistryAssumption DEF TypeOK
<1>2. \/ k \in BySession(RefOf[o], sess)
      \/ BySession(RefOf[o], sess) = {} /\ k \in ByLegacyRef(RefOf[o])
  BY DEF UpdateTarget, Latest
<1>3. k \in Keys /\ RefOf[k] = RefOf[o]
  BY <1>1, <1>2 DEF BySession, ByLegacyRef, Rows
<1>4. k \notin Old => sess = 2
  BY <1>1, <1>2, <1>3 DEF BySession, ByLegacyRef, Rows
<1>5. ASSUME k \in Old, sess = 2, NEW m \in Keys \ Old PROVE RefOf[m] # RefOf[k]
  <2> SUFFICES ASSUME RefOf[m] = RefOf[k] PROVE FALSE
    OBVIOUS
  <2>1. m \in BySession(RefOf[o], sess)
    BY <1>1, <1>3, <1>5 DEF BySession, Rows
  <2>2. orders[k].sess = 2
    BY <1>2, <1>5, <2>1 DEF BySession
  <2> QED BY <1>5, <2>2 DEF Rows
<1> QED BY <1>3, <1>4, <1>5

\* A row that is written with the session sess and the number sys of a message about o.
LEMMA PutRows ==
    ASSUME TypeOK, Rows, NEW o \in OrderIds \ Old, NEW sess \in 2..MaxSession,
           NEW sys \in SysIds \cup {Null}, NEW status,
           NEW k \in UpdateTarget(RefOf[o], sess),
           Put(k, [status |-> status, sess |-> sess, ref |-> orders[k].ref, sys |-> sys]),
           sys # Null => sess = SessionOf(o) /\ sys = NumberOf[o]
    PROVE  Rows'
<1> USE LedgerAssumption
<1>1. /\ k \in Keys /\ RefOf[k] = RefOf[o]
      /\ k \notin Old => sess = 2
      /\ k \in Old /\ sess = 2 => \A m \in Keys \ Old : RefOf[m] # RefOf[k]
  BY TargetIsOwn
<1>2. DOMAIN orders = Keys /\ updated_at \in [Keys -> SUBSET Keys] /\ Null \notin SysIds
  BY RegistryAssumption DEF TypeOK, RegistryTypeOK
<1>3. /\ orders'[k].sess = sess /\ orders'[k].sys = sys /\ orders'[k].ref = orders[k].ref
      /\ \A j \in Keys \ {k} : orders'[j] = orders[j]
      /\ updated_at'[k] = Keys \ {k}
      /\ \A j \in Keys \ {k} : updated_at'[j] = updated_at[j] \ {k}
  BY <1>1, <1>2 DEF Put
<1>4. \A j \in Keys : orders'[j].ref = RefOf[j]
  BY <1>1, <1>3 DEF Rows
<1>5. CASE k \notin Old
  <2>1. sess = 2 /\ sys \in {NumberOf[k], Null}
    <3>1. sys # Null => o \in Keys \ Old
      BY <1>1, <1>5 DEF SessionOf, OrderIds
    <3>2. sys # Null => o = k
      BY <1>1, <1>5, <3>1
    <3> QED BY <1>1, <1>5, <3>2
  <2>2. \A j \in Keys \ Old : orders'[j].sess = 2 /\ orders'[j].sys \in {NumberOf[j], Null}
    BY <1>3, <2>1 DEF Rows
  <2>3. \A j \in Old : orders'[j] = orders[j] /\ updated_at'[j] = updated_at[j] \ {k}
    BY <1>3, <1>5
  <2>4. ASSUME NEW j \in Old, NEW m \in Keys \ Old, orders'[j].sys = NumberOf[m]
        PROVE  j \in updated_at'[m] /\ m \notin updated_at'[j]
    <3>1. j \in updated_at[m] /\ m \notin updated_at[j]
      BY <2>3, <2>4 DEF Rows
    <3>2. CASE m = k
      BY <1>2, <1>3, <1>5, <2>3, <3>1, <3>2
    <3>3. CASE m # k
      BY <1>3, <1>5, <2>3, <3>1, <3>3
    <3> QED BY <3>2, <3>3
  <2> QED BY <1>4, <2>2, <2>3, <2>4 DEF Rows
<1>6. CASE k \in Old
  <2>1. \A j \in Keys \ Old : orders'[j] = orders[j]
    BY <1>3, <1>6
  <2>2. \A j \in Old : j = k
    BY <1>6
  <2>3. ASSUME NEW m \in Keys \ Old PROVE sys # NumberOf[m]
    <3>1. NumberOf[m] \in SysIds
      BY DEF OrderIds
    <3> SUFFICES ASSUME sys # Null, sys = NumberOf[m] PROVE FALSE
      BY <1>2, <3>1
    <3>2. sess = SessionOf(o) /\ NumberOf[o] = NumberOf[m]
      OBVIOUS
    <3>3. o = m
      BY <3>2 DEF OrderIds
    <3>4. sess = 2
      BY <3>2, <3>3 DEF SessionOf
    <3> QED BY <1>1, <1>6, <3>3, <3>4
  <2>4. \A m \in Keys \ Old : orders'[k].sess = 2 => RefOf[m] # RefOf[k]
    BY <1>1, <1>3, <1>6
  <2>5. \A m \in Keys \ Old : orders'[k].sys # NumberOf[m]
    BY <1>3, <2>3
  <2> QED BY <1>4, <2>1, <2>2, <2>4, <2>5 DEF Rows
<1> QED BY <1>5, <1>6

LEMMA StepRows ==
    ASSUME TypeOK, Rows, Reports, [Next]_vars
    PROVE  Rows'
<1>1. CASE UNCHANGED <<orders, updated_at>>
  BY <1>1 DEF Rows
<1>2. CASE OrderStep
  <2> DEFINE m == Head(flow)
  <2>1. m.order \in OrderIds \ Old /\ m.sys \in SysIds \cup {Null}
    BY <1>2, OrderHandled
  <2>2. PICK sess \in 2..MaxSession :
             /\ UpdateCtp(RefOf[m.order], sess, m.sys, AnyStatus)
             /\ m.sys # Null => sess = SessionOf(m.order) /\ m.sys = NumberOf[m.order]
    BY <1>2, OrderHandled
  <2> HIDE DEF m
  <2>3. CASE UNCHANGED registryVars
    BY <1>1, <2>3 DEF registryVars
  <2>4. CASE \E k \in UpdateTarget(RefOf[m.order], sess) :
                Put(k, [status |-> AnyStatus, sess |-> sess, ref |-> orders[k].ref,
                        sys |-> m.sys])
    BY <2>1, <2>2, <2>4, PutRows
  <2> QED BY <2>2, <2>3, <2>4 DEF UpdateCtp
<1>3. ASSUME NEW o \in OrderIds, Report(o) \/ AnswerQuery(o) \/ Refuse(o) PROVE Rows'
  BY <1>1, <1>3, OrderSent DEF registryVars
<1> QED
  BY <1>1, <1>2, <1>3 DEF Next, vars, registryVars, TradeStep, Engine, Counter, OnRtnTrade,
     RecordTrade, RecordTradeFails, PublishTrade, GetTrades, GetTradeCursor, Fill,
     Reconnect, Crash

\* Whom find_by_ctp names for a fill: its own order when that has its number, for no
\* row of this day has another's number and the old row was written before it.
LEMMA OwnerIsOwn ==
    ASSUME TypeOK, Rows, NEW o \in OrderIds \ Old,
           NEW k \in FindByCtp(RefOf[o], 0, NumberOf[o])
    PROVE  /\ k = o \/ k \in Old \cup {Null}
           /\ o \in Keys /\ orders[o].sys = NumberOf[o] => k = o
<1> USE LedgerAssumption
<1> DEFINE S == BySysId(NumberOf[o])
           L == ByLegacyRef(RefOf[o])
<1>1. DOMAIN orders = Keys /\ NumberOf[o] \in SysIds /\ Null \notin SysIds \cup Nat
  BY RegistryAssumption DEF TypeOK
<1>2. k \in IF S # {} THEN Latest(S) ELSE IF L # {} THEN Latest(L) ELSE {Null}
  BY DEF FindByCtp
<1>3. L \subseteq Old
  BY <1>1 DEF ByLegacyRef, Rows
<1>4. S = {j \in Keys : orders[j].sys = NumberOf[o]}
  BY <1>1 DEF BySysId
<1>5. S \subseteq {o} \cup Old
  <2> SUFFICES ASSUME NEW j \in Keys \ Old, orders[j].sys = NumberOf[o] PROVE j = o
    BY <1>4
  <2>1. NumberOf[j] = NumberOf[o]
    BY <1>1 DEF Rows
  <2> QED BY <2>1 DEF OrderIds
<1>6. k = o \/ k \in Old \cup {Null}
  <2> HIDE DEF S, L
  <2> QED BY <1>2, <1>3, <1>5 DEF Latest
<1>7. ASSUME o \in Keys, orders[o].sys = NumberOf[o] PROVE k = o
  <2>1. o \in S
    BY <1>4, <1>7
  <2>2. k \in S /\ S \ {k} \subseteq updated_at[k]
    <3> HIDE DEF S, L
    <3> QED BY <1>2, <2>1 DEF Latest
  <2>3. k \in Old => o \notin updated_at[k]
    BY <1>4, <1>7, <2>2 DEF Rows
  <2> HIDE DEF S
  <2> QED BY <1>5, <2>1, <2>2, <2>3
<1> QED BY <1>6, <1>7

LEMMA StepOwned ==
    ASSUME TypeOK, Rows, Owned, TradeIsOwn, [Next]_vars
    PROVE  Owned' /\ TradeIsOwn'
<1>1. strays \subseteq strays'
  BY DEF Next, vars, history, TradeStep, Engine, Counter, OrderStep, OnRtnOrder, OnRspQryOrder,
         OnErrRtnOrderInsert, OrderPayload, OnRtnTrade, RecordTrade, RecordTradeFails,
         PublishTrade, GetTrades, GetTradeCursor, Report, AnswerQuery, Refuse, SendOrder, Fill,
         Reconnect, Crash
<1>2. \A t, k : OwnKey(t, k) => OwnKey(t, k)'
  BY <1>1 DEF OwnKey
<1>3. TradeIsOwn'
  <2>1. CASE UNCHANGED ledger
    BY <1>2, <2>1 DEF TradeIsOwn, OwnKey
  <2>2. CASE Stores(td.trade, td.key)
    <3>1. \A r \in ledger' : r \in ledger \/ (r.trade = td.trade /\ r.key = td.key)
      <4>1. ledger' = ledger \cup {[id |-> next_id, event |-> EventId(td.trade),
                                   trade |-> td.trade, key |-> td.key]}
        BY <2>2 DEF Stores, Insert
      <4> QED BY <4>1
    <3>2. OwnKey(td.trade, td.key)
      BY <2>2 DEF Stores, Owned
    <3> QED BY <1>2, <3>1, <3>2 DEF TradeIsOwn, OwnKey
  <2> QED BY <2>1, <2>2, LedgerSteps
<1>4. Owned'
  <2>1. CASE OnRtnTrade
    <3>1. PICK t, k : /\ t \in Trades
                      /\ k \in FindByCtp(RefOf[OrderOf[t]], 0, NumberOf[OrderOf[t]])
                      /\ td' = [pc |-> "record", trade |-> t, key |-> k]
                      /\ Numbered(t) \/ t \in strays'
      <4>1. Head(flow).trade \in Trades
        BY <2>1, HeadTyped DEF OnRtnTrade, Message
      <4> QED BY <2>1, <4>1 DEF OnRtnTrade
    <3>2. OrderOf[t] \in OrderIds \ Old
      BY <3>1, LedgerAssumption
    <3>3. OwnKey(t, k)'
      BY <3>1, <3>2, OwnerIsOwn DEF OwnKey, Numbered
    <3> QED BY <3>1, <3>3 DEF Owned
  <2>2. CASE td'.pc = "idle"
    BY <2>2 DEF Owned
  <2>3. CASE td.pc # "idle" /\ td'.trade = td.trade /\ td'.key = td.key
    BY <1>2, <2>3 DEF Owned
  <2>4. CASE UNCHANGED td
    BY <1>2, <2>4 DEF Owned
  <2>5. CASE RecordTrade
    <3>1. td' = TdIdle \/ (td.pc = "record" /\ td' = [td EXCEPT !.pc = "publish"])
      BY <2>5 DEF RecordTrade
    <3> QED BY <2>2, <2>3, <3>1 DEF TdIdle, TypeOK
  <2>6. CASE RecordTradeFails \/ PublishTrade \/ Crash
    BY <2>2, <2>6 DEF RecordTradeFails, PublishTrade, Crash, TdIdle
  <2> QED
    BY <2>1, <2>4, <2>5, <2>6 DEF Next, vars, TradeStep, Engine, Counter, OrderStep, OnRtnOrder,
     OnRspQryOrder, OnErrRtnOrderInsert, OrderPayload,
       GetTrades, GetTradeCursor, Report, AnswerQuery, Refuse, SendOrder, Fill, Reconnect
<1> QED BY <1>3, <1>4

\* Two fills have different identities.
LEMMA EventIdsDiffer ==
    ASSUME NEW t \in Trades, NEW u \in Trades, EventId(t) = EventId(u)
    PROVE  t = u
BY FillsDiffer DEF EventId

LEMMA StepReceived ==
    ASSUME TypeOK, Recorded, ReceivedIsStored, [Next]_vars
    PROVE  ReceivedIsStored'
<1>1. ledger \subseteq ledger'
  BY StepRecorded
<1>2. failed \subseteq failed'
  BY DEF Next, vars, history, TradeStep, Engine, Counter, OrderStep, OnRtnOrder, OnRspQryOrder,
         OnErrRtnOrderInsert, OrderPayload, OnRtnTrade, RecordTrade, RecordTradeFails,
         PublishTrade, GetTrades, GetTradeCursor, Report, AnswerQuery, Refuse, SendOrder, Fill,
         Reconnect, Crash
<1>3. CASE OnRtnTrade
  <2>1. received' = received \cup {Head(flow).trade} /\ td.pc = "idle"
        /\ td'.pc = "record" /\ td'.trade = Head(flow).trade
    BY <1>3 DEF OnRtnTrade
  <2> QED BY <1>1, <1>2, <2>1 DEF ReceivedIsStored
<1>4. CASE RecordTrade
  <2>1. td.trade \in Trades /\ td.key \in Keys \cup {Null} /\ UNCHANGED <<received, failed>>
    BY <1>4 DEF RecordTrade, TypeOK, history
  <2>2. \E r \in ledger' : r.trade = td.trade
    <3>1. CASE Duplicate(td.trade)
      <4>1. PICK r \in ledger : r.event = EventId(td.trade)
        BY <3>1 DEF Duplicate
      <4>2. r.trade \in Trades /\ r.event = EventId(r.trade)
        BY DEF TypeOK, TradeRow, Recorded
      <4>3. r.trade = td.trade
        BY <2>1, <4>1, <4>2, EventIdsDiffer
      <4> QED BY <1>1, <4>3
    <3>2. CASE ~Duplicate(td.trade)
      BY <1>4, <2>1, <3>2, InsertTyped DEF RecordTrade
    <3> QED BY <3>1, <3>2
  <2> QED BY <1>1, <2>1, <2>2 DEF ReceivedIsStored
<1>5. CASE RecordTradeFails \/ Crash
  <2>1. UNCHANGED received /\ (td.pc = "record" => td.trade \in failed')
    BY <1>5, LedgerAssumption DEF RecordTradeFails, Crash, TypeOK
  <2> QED BY <1>1, <1>2, <2>1 DEF ReceivedIsStored
<1>6. CASE PublishTrade
  BY <1>1, <1>2, <1>6 DEF PublishTrade, ReceivedIsStored, history
<1>7. CASE UNCHANGED <<td, received>>
  BY <1>1, <1>2, <1>7 DEF ReceivedIsStored
<1> QED
  BY <1>3, <1>4, <1>5, <1>6, <1>7 DEF Next, vars, history, TradeStep, Engine, Counter,
                                      OrderStep, OnRtnOrder, OnRspQryOrder, OnErrRtnOrderInsert,
                                      OrderPayload, GetTrades, GetTradeCursor, Report,
                                      AnswerQuery, Refuse, SendOrder, Fill, Reconnect
-----------------------------------------------------------------------------
IInv == /\ TypeOK /\ Recorded /\ ReadsAll /\ Published /\ Reports /\ Rows
        /\ Owned /\ TradeIsOwn /\ ReceivedIsStored

LEMMA InitInv == Init => IInv
<1> SUFFICES ASSUME Init PROVE IInv
  OBVIOUS
<1>1. Rows
  <2>1. PICK sess \in {1, Null}, sys \in [Old -> SysIds \cup {Null}] :
           orders = [k \in Keys |->
              IF k \in Old
              THEN [status |-> AnyStatus, sess |-> sess, ref |-> RefOf[k], sys |-> sys[k]]
              ELSE [status |-> AnyStatus, sess |-> 2, ref |-> RefOf[k], sys |-> Null]]
    BY Zenon DEF Init
  <2>2. sess # 2 /\ Old \subseteq Keys
    BY RegistryAssumption, LedgerAssumption
  <2>3. /\ \A k \in Keys : orders[k].ref = RefOf[k]
        /\ \A k \in Keys \ Old : orders[k].sess = 2 /\ orders[k].sys = Null
        /\ \A j \in Old : orders[j].sess # 2
    BY <2>1, <2>2
  <2>4. \A k \in Keys : updated_at[k] = IF k \in Old THEN {} ELSE Old
    BY DEF Init
  <2> QED BY <2>2, <2>3, <2>4 DEF Rows
<1>2. ReadsAll
  BY DEF Init, ReadsAll, Stored
<1>3. Published /\ Owned
  BY DEF Init, Published, Handled, Owned, TdIdle
<1>4. Recorded /\ Reports /\ TradeIsOwn /\ ReceivedIsStored
  BY DEF Init, Recorded, Reports, TradeIsOwn, ReceivedIsStored
<1> QED BY <1>1, <1>2, <1>3, <1>4, InitTyped DEF IInv

LEMMA IInvHolds == Spec => []IInv
<1>1. IInv /\ [Next]_vars => IInv'
  BY StepTyped, StepRecorded, StepReadsAll, StepPublished, StepReports, StepRows, StepOwned,
     StepReceived DEF IInv
<1> QED BY <1>1, InitInv, PTL DEF Spec

\* Every variable keeps its type; ids and events of the ledger stay unique.
THEOREM LedgerTypeCorrect == Spec => []TypeOK
<1>1. IInv => TypeOK
  BY DEF IInv
<1> QED BY <1>1, IInvHolds, PTL

\* A fill whose order's row has the number is stored for that order; one whose row
\* has none (not reported yet, or erased by a later message), or of another terminal,
\* is stored for nobody or for a row of the earlier day that has its number or, without
\* a session, its OrderRef; none is ever stored for another order of the day.
THEOREM FillsKeepTheirOwner == Spec => []TradeIsOwn
<1>1. IInv => TradeIsOwn
  BY DEF IInv
<1> QED BY <1>1, IInvHolds, PTL

\* However often CTP repeats a fill and wherever the process dies, the fill is
\* published at most once, and not before it is stored.
THEOREM FillsPublishedOnce == Spec => []PublishedOnce
<1>1. IInv => PublishedOnce
  BY DEF IInv, Published, PublishedOnce
<1> QED BY <1>1, IInvHolds, PTL

\* No fill that was received is taken for another one.
THEOREM FillsAreStored == Spec => []ReceivedIsStored
<1>1. IInv => ReceivedIsStored
  BY DEF IInv
<1> QED BY <1>1, IInvHolds, PTL
-----------------------------------------------------------------------------
\* Seen from the engines, an INSERT appends to the log of the owner.
LEMMA InsertAppends ==
    ASSUME TypeOK, Recorded, NEW t \in Trades, NEW k \in Keys \cup {Null},
           Insert(t, k), UNCHANGED reader
    PROVE  [Log!Next]_(Log!vars)
<1> DEFINE row == [id |-> next_id, event |-> EventId(t), trade |-> t, key |-> k]
           ids(o) == {r.id : r \in Stored(o)}
<1>1. \A o \in Owners : Stored(o)' = Stored(o) \cup
                          (IF k # Null /\ OwnerOf[k] = o THEN {row} ELSE {})
  BY StoredGrows
<1>2. row.id = next_id
  OBVIOUS
<1> HIDE DEF row
<1>3. CASE k = Null
  BY <1>1, <1>3 DEF Log!vars
<1>4. CASE k # Null
  <2>1. OwnerOf[k] \in Owners
    BY <1>4, LedgerAssumption
  <2>2. \A o \in Owners : ids(o)' = ids(o) \cup (IF OwnerOf[k] = o THEN {next_id} ELSE {})
    BY <1>1, <1>2, <1>4
  <2>3. \A d \in ids(OwnerOf[k]) : d < next_id
    BY DEF Stored, Recorded
  <2>4. [o \in Owners |-> ids(o)'] = [[o \in Owners |-> ids(o)] EXCEPT ![OwnerOf[k]] =
                                         @ \cup {next_id}]
    BY <2>1, <2>2
  <2>5. UNCHANGED [o \in Owners |-> reader[o].seen]
    OBVIOUS
  <2>6. PICK c : c = next_id
    OBVIOUS
  <2>7. Log!Append(OwnerOf[k], c)
    BY <2>1, <2>3, <2>4, <2>5, <2>6 DEF Log!Append
  <2>8. c \in ([o \in Owners |-> {r.id : r \in Stored(o)}]')[OwnerOf[k]]
    BY <2>1, <2>2, <2>6
  <2> QED BY <2>1, <2>7, <2>8 DEF Log!Next
<1> QED BY <1>3, <1>4

\* A page, or the start at the latest cursor, takes the next trades of the log.
LEMMA ReadTakes ==
    ASSUME TypeOK, NEW o \in Owners, NEW c \in Nat, NEW S, UNCHANGED ledger,
           reader[o].cursor \in Nat, reader[o].cursor <= c,
           reader[o].seen = {r.id : r \in {s \in Stored(o) : s.id <= reader[o].cursor}},
           S = {r.id : r \in {s \in Stored(o) : reader[o].cursor < s.id /\ s.id <= c}},
           reader'[o].seen = reader[o].seen \cup S,
           \A q \in Owners \ {o} : reader'[q] = reader[q]
    PROVE  Log!Next
<1> DEFINE ids == {r.id : r \in Stored(o)}
<1>1. \A r \in Stored(o) : r.id \in Nat
  BY DEF Stored, TypeOK, TradeRow
<1>2. S \subseteq ids \ reader[o].seen
  BY <1>1
<1>3. \A d \in S, e \in ids \ (reader[o].seen \cup S) : d < e
  BY <1>1
<1>4. [q \in Owners |-> reader'[q].seen]
      = [[q \in Owners |-> reader[q].seen] EXCEPT ![o] = @ \cup S]
  OBVIOUS
<1>5. \A q \in Owners : Stored(q)' = Stored(q)
  BY StoredGrows
<1>6. Log!Take(o, S)
  BY <1>2, <1>3, <1>4, <1>5 DEF Log!Take
<1>7. S \in SUBSET ([q \in Owners |-> {r.id : r \in Stored(q)}][o]
                   \ [q \in Owners |-> reader[q].seen][o])
  BY <1>2
<1> QED BY <1>6, <1>7 DEF Log!Next

\* The ledger and the pages are a log for each owner that only grows at its end, and
\* from which the owner's engine takes every trade once and in order.
THEOREM LedgerIsLog == Spec => LogSpec
<1>1. Init => Log!Init
  BY DEF Init, Log!Init, Stored
<1>2. IInv /\ [Next]_vars => [Log!Next]_(Log!vars)
  <2> SUFFICES ASSUME IInv, [Next]_vars PROVE [Log!Next]_(Log!vars)
    OBVIOUS
  <2>1. TypeOK /\ Recorded /\ ReadsAll
    BY DEF IInv
  <2>2. CASE Stores(td.trade, td.key) /\ UNCHANGED reader
    BY <2>1, <2>2, InsertAppends DEF Stores, TypeOK
  <2>3. CASE UNCHANGED <<ledger, reader>>
    BY <2>1, <2>3, StoredGrows DEF Log!vars
  <2>4. ASSUME NEW o \in Owners, GetTrades(o) PROVE Log!Next
    <3> DEFINE p == ListTrades(o, reader[o].cursor, LimitOf[o])
               S == {r.id : r \in p.trades}
    <3>1. /\ reader[o].cursor \in Nat /\ reader[o].cursor < next_id /\ LimitOf[o] \in Int
          /\ reader[o].seen = {r.id : r \in {s \in Stored(o) : s.id <= reader[o].cursor}}
      BY <2>1, LedgerAssumption DEF ReadsAll, TypeOK
    <3>2. /\ p.next_after_id \in Nat /\ reader[o].cursor <= p.next_after_id
          /\ p.trades = {r \in Stored(o) : reader[o].cursor < r.id /\ r.id <= p.next_after_id}
      BY <2>1, <3>1, PageIsNext
    <3>3. /\ reader' = [reader EXCEPT ![o] = [cursor |-> p.next_after_id,
                                             seen |-> reader[o].seen \cup S]]
          /\ UNCHANGED ledger
      BY <2>4 DEF GetTrades
    <3>4. /\ reader'[o].seen = reader[o].seen \cup S
          /\ \A q \in Owners \ {o} : reader'[q] = reader[q]
      <4> HIDE DEF p, S
      <4> QED BY <2>1, <3>3 DEF TypeOK
    <3> HIDE DEF p
    <3> QED BY <2>1, <3>1, <3>2, <3>3, <3>4, ReadTakes
  <2>5. ASSUME NEW o \in Owners, GetTradeCursor(o) PROVE Log!Next
    <3> DEFINE c == IF Stored(o) = {} THEN 0 ELSE Last(Stored(o)).id
               S == {r.id : r \in Stored(o)}
    <3>1. /\ reader[o].cursor = 0 /\ UNCHANGED ledger
          /\ reader' = [reader EXCEPT ![o].cursor = c, ![o].seen = S]
      BY <2>5 DEF GetTradeCursor
    <3>2. \A r \in Stored(o) : r \in ledger /\ r.id \in Nat /\ r.id # 0
      BY <2>1 DEF Stored, TypeOK, TradeRow, Recorded
    <3>3. reader[o].seen = {r.id : r \in {s \in Stored(o) : s.id <= reader[o].cursor}}
      BY <2>1 DEF ReadsAll
    <3>4. Stored(o) # {} => /\ Last(Stored(o)) \in Stored(o)
                            /\ \A r \in Stored(o) : r.id <= Last(Stored(o)).id
      BY <2>1, <3>2, LastIsLast
    <3>5. c \in Nat /\ \A r \in Stored(o) : r.id <= c
      BY <3>2, <3>4
    <3>6. /\ reader[o].seen = {}
          /\ S = {r.id : r \in {s \in Stored(o) : reader[o].cursor < s.id /\ s.id <= c}}
      <4> HIDE DEF c
      <4> QED BY <3>1, <3>2, <3>3, <3>5
    <3>7. /\ reader'[o].seen = reader[o].seen \cup S
          /\ \A q \in Owners \ {o} : reader'[q] = reader[q]
      <4> HIDE DEF c, S
      <4> QED BY <2>1, <3>1, <3>6 DEF TypeOK
    <3>8. reader[o].cursor \in Nat /\ reader[o].cursor <= c
      BY <3>1, <3>5
    <3> HIDE DEF c, S
    <3> QED BY <2>1, <3>1, <3>3, <3>5, <3>6, <3>7, <3>8, ReadTakes
  <2> QED
    BY <2>1, <2>2, <2>3, <2>4, <2>5 DEF Next, vars, TradeStep, Engine, Counter, OrderStep,
       OnRtnOrder, OnRspQryOrder, OnErrRtnOrderInsert, OrderPayload, OnRtnTrade, RecordTrade,
       RecordTradeFails, PublishTrade, Report, AnswerQuery, Refuse, SendOrder, Fill, Reconnect,
       Crash, Stores
<1> QED
  BY <1>1, <1>2, IInvHolds, PTL DEF Spec, LogSpec, Log!Spec
-----------------------------------------------------------------------------
\* A set of rows that is not empty has a first one.
LEMMA FirstExists ==
    ASSUME TypeOK, NEW rows \in SUBSET ledger, rows # {}
    PROVE  \E r \in rows : \A s \in rows : r.id <= s.id
<1> DEFINE R == {ss \in Nat \X Nat : ss[1] < ss[2]}
           T == {r.id : r \in rows}
<1>1. IsWellFoundedOn(R, Nat)
  BY NatLessThanWellFounded DEF OpToRel
<1>2. \A r \in rows : r.id \in Nat
  BY DEF TypeOK, TradeRow
<1>3. T \subseteq Nat /\ T # {}
  BY <1>2
<1>4. PICK x \in T : \A y \in T : <<y, x>> \notin R
  <2> HIDE DEF T, R
  <2> QED BY <1>1, <1>3, WFMin
<1>5. \A y \in T : x <= y
  <2> SUFFICES ASSUME NEW y \in T PROVE x <= y
    OBVIOUS
  <2>1. x \in Nat /\ y \in Nat /\ <<y, x>> \notin R
    BY <1>3, <1>4
  <2> QED BY <2>1
<1> QED BY <1>5

\* The row beyond the page tells: without one the page holds all that follows.
LEMMA NoMoreIsAll ==
    ASSUME TypeOK, Recorded, NEW all \in SUBSET ledger, NEW n \in Nat,
           First(n, First(n + 1, all)) = First(n + 1, all)
    PROVE  First(n + 1, all) = all
<1> DEFINE rows == First(n + 1, all)
           below(r) == {s \in all : s.id <= r.id}
<1> SUFFICES ASSUME all \ rows # {} PROVE FALSE
  BY DEF First
<1>1. /\ IsFiniteSet(all) /\ IsFiniteSet(rows) /\ rows \subseteq all
      /\ \A r \in all : r.id \in Nat
  <2>1. IsFiniteSet(ledger) /\ \A r \in ledger : r.id \in Nat
    BY DEF TypeOK, TradeRow
  <2>2. IsFiniteSet(all)
    BY <2>1, FS_Subset
  <2>3. rows \subseteq all
    BY DEF First
  <2>4. IsFiniteSet(rows)
    <3> HIDE DEF rows
    <3> QED BY <2>2, <2>3, FS_Subset
  <2> QED BY <2>1, <2>2, <2>3, <2>4
<1>2. PICK r \in all \ rows : \A s \in all \ rows : r.id <= s.id
  <2> HIDE DEF rows
  <2> QED BY FirstExists
<1>3. below(r) \ {r} \subseteq rows
  <2> SUFFICES ASSUME NEW s \in all, s.id <= r.id, s # r PROVE s \in rows
    OBVIOUS
  <2>1. s.id # r.id
    BY DEF TypeOK
  <2> QED BY <1>1, <1>2, <2>1
<1>4. IsFiniteSet(below(r)) /\ r \in below(r)
  BY <1>1, <1>2, FS_Subset
<1>5. Cardinality(below(r)) \in Nat /\ ~(Cardinality(below(r)) <= n + 1)
  BY <1>2, <1>4, FS_CardinalityType DEF First
<1>6. Cardinality(below(r) \ {r}) = Cardinality(below(r)) - 1
  <2> HIDE DEF below
  <2> QED BY <1>4, FS_RemoveElement
<1>7. Cardinality(rows) \in Nat /\ Cardinality(rows) > n
  <2>1. Cardinality(below(r) \ {r}) <= Cardinality(rows)
    <3> HIDE DEF below, rows
    <3> QED BY <1>1, <1>3, FS_Subset
  <2>2. Cardinality(rows) \in Nat
    BY <1>1, FS_CardinalityType
  <2> HIDE DEF below, rows
  <2> QED BY <1>5, <1>6, <2>1, <2>2
<1>8. rows # {}
  <2> HIDE DEF rows
  <2> QED BY <1>7, FS_EmptySet
<1>9. Last(rows) \in rows /\ \A s \in rows : s.id <= Last(rows).id
  <2> HIDE DEF rows
  <2> QED BY <1>1, <1>8, LastIsLast
<1>10. {s \in rows : s.id <= Last(rows).id} = rows
  BY <1>9
<1>11. Last(rows) \notin First(n, rows)
  <2> HIDE DEF rows
  <2> QED BY <1>7, <1>10 DEF First
<1> QED BY <1>9, <1>11

\* A page is told to be the last exactly when with it the engine has read all its
\* trades.
THEOREM NoMoreMeansEnd == Spec => []EndOfPagesIsEnd
<1>1. IInv => EndOfPagesIsEnd
  <2> SUFFICES ASSUME IInv, NEW o \in Owners
               PROVE  LET p == ListTrades(o, reader[o].cursor, LimitOf[o])
                      IN  p.has_more <=> \E r \in Stored(o) :
                                            r \notin p.trades /\ r.id \notin reader[o].seen
    BY DEF EndOfPagesIsEnd
  <2> DEFINE c == reader[o].cursor
             all == {r \in Stored(o) : r.id > c}
             n == PageSize(LimitOf[o])
             rows == First(n + 1, all)
             page == First(n, rows)
             p == ListTrades(o, c, LimitOf[o])
  <2>1. TypeOK /\ Recorded /\ ReadsAll
    BY DEF IInv
  <2>2. /\ c \in Nat /\ \A r \in Stored(o) : r \in ledger /\ r.id \in Nat
        /\ reader[o].seen = {r.id : r \in {s \in Stored(o) : s.id <= c}}
    BY <2>1 DEF TypeOK, Stored, TradeRow, ReadsAll
  <2>3. p.trades = page /\ p.has_more = (rows # page)
    BY DEF ListTrades
  <2>4. page \subseteq rows /\ rows \subseteq all
    BY DEF First
  <2>5. n \in Nat /\ all \in SUBSET ledger
    BY <2>2, LedgerAssumption DEF PageSize, Limit
  <2>6. rows = page => rows = all
    <3> HIDE DEF n, all
    <3> QED BY <2>1, <2>5, NoMoreIsAll
  <2>7. \A r \in Stored(o) : r.id \in reader[o].seen <=> r \notin all
    <3>1. \A r \in Stored(o) : r.id \in reader[o].seen <=> r.id <= c
      BY <2>2
    <3> QED BY <2>2, <3>1
  <2>8. page # all <=> \E r \in Stored(o) : r \notin page /\ r \in all
    <3>1. all \subseteq Stored(o) /\ page \subseteq all
      BY <2>4
    <3> HIDE DEF page, all
    <3> QED BY <3>1
  <2>9. rows # page <=> page # all
    <3> HIDE DEF page, rows, all
    <3> QED BY <2>4, <2>6
  <2>10. page # all <=> \E r \in Stored(o) : r \notin page /\ r.id \notin reader[o].seen
    <3> HIDE DEF page, all
    <3> QED BY <2>7, <2>8
  <2> HIDE DEF page, rows, all, p
  <2>11. p.has_more <=> page # all
    BY <2>3, <2>9
  <2>12. p.has_more <=> \E r \in Stored(o) : r \notin p.trades /\ r.id \notin reader[o].seen
    BY <2>3, <2>10, <2>11
  <2> QED BY <2>12 DEF p
<1> QED BY <1>1, IInvHolds, PTL
=============================================================================
