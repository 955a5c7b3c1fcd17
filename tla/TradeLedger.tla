---------------------------- MODULE TradeLedger ----------------------------
(***************************************************************************)
(* Trades: OnRtnTrade on the trader thread (trade_payload, publish_trade,  *)
(* OrderRegistry.record_trade), the ctp_orders rows that say whose trade   *)
(* it is, the ctp_trades table, and the pages get_trades gives the engines.*)
(* order_payload, which every order report and every answer to an order    *)
(* query goes through, is here for what it does to the number of a row.    *)
(* External: the CTP counter that reports orders and fills, and engines    *)
(* that page.                                                              *)
(*                                                                         *)
(* The orders are already placed, under the login numbered 2 (OrderFlow    *)
(* models placing); each lost connection or crash is followed by a login   *)
(* of its own.  Everything survives a crash that is in the database or at  *)
(* an engine.                                                              *)
(***************************************************************************)
EXTENDS OrderRegistry, Sequences, FiniteSets

CONSTANTS
    Foreign,    \* orders of other terminals on the same account
    Old,        \* a key of an earlier day, perhaps of a release without sessions
    Refused,    \* orders the exchange refuses, whose error names no session
    NumberOf,   \* the number the exchange gave each order: unique in one day
    RefOf,      \* the OrderRef of each order
    Trades,     \* the fills
    OrderOf,    \* the order of each fill; those of the earlier day are filled
    TradeIdOf,  \* its TradeID, or Null
    Owners,     \* the (client_id, strategy_id) pairs
    OwnerOf,    \* the owner of each key
    LimitOf,    \* the limit each owner's engine asks for; 0 for none
    DefaultLimit, \* the limit of a request without one (500 in the code)
    MaxPage,    \* the largest page (1000 in the code)
    MaxSends,   \* bound: fills reported, repeated ones counted again
    MaxFlow,    \* bound: reports under way at a time
    MaxFaults   \* bound: connections lost and process deaths

OrderIds == Keys \cup Foreign

ASSUME LedgerAssumption ==
    /\ MaxFaults \in Nat /\ MaxSession > 2 + MaxFaults /\ Null \notin OrderIds
    /\ Foreign \cap Keys = {}
    /\ Old \subseteq Keys /\ \A j, k \in Old : j = k
    /\ Refused \subseteq OrderIds \ Old
    /\ NumberOf \in [OrderIds -> SysIds]
    /\ \A o, p \in OrderIds \ Old : NumberOf[o] = NumberOf[p] => o = p
    /\ RefOf \in [OrderIds -> 1..MaxRef]
    /\ \A j, k \in Keys \ Old : RefOf[j] = RefOf[k] => j = k
    /\ OrderOf \in [Trades -> OrderIds \ (Old \cup Refused)]
    /\ Null \notin Trades \cup Owners
    /\ OwnerOf \in [Keys -> Owners]
    /\ LimitOf \in [Owners -> Int]
    /\ DefaultLimit \in Nat \ {0} /\ MaxPage \in Nat \ {0}
    /\ MaxSends \in Nat /\ MaxFlow \in Nat

\* The exchange numbers the fills, or no two fills of an order are alike.
ASSUME FillsDiffer ==
    \A t, u \in Trades :
        TradeIdOf[t] = TradeIdOf[u] /\ t # u => TradeIdOf[t] = Null /\ OrderOf[t] # OrderOf[u]

VARIABLES
    td,        \* where the trader callback thread is in OnRtnTrade
    flow,      \* reports on their way to it
    ledger,    \* the rows of ctp_trades
    next_id,   \* the sequence of its BIGSERIAL column
    published, \* how often each fill was published
    reader,    \* each owner's engine: its cursor and what it read
    sends, faults,
    known,     \* history: keys that had a report with the number handled
    strays,    \* history: fills handled while no row of their order had its number
    received,  \* history: fills handed to OnRtnTrade
    failed     \* history: fills that met a database error or a crash

history == <<known, strays, received, failed>>
bounds  == <<sends, faults>>
vars == <<registryVars, td, flow, ledger, next_id, published, reader, bounds, history>>

TdIdle == [pc |-> "idle", trade |-> Null, key |-> Null]

\* find_by_ctp does not look at the status of a row: here every row and every
\* message about an order has this one.
AnyStatus == "UNKNOWN"

\* The session of the trader's latest login.
Login == 2 + faults

Init ==
    /\ \E sess \in {1, Null} :
          \E sys \in [Old -> SysIds \cup {Null}] :
             /\ \A k \in Old : sys[k] \in {NumberOf[k], Null}
             /\ orders = [k \in Keys |->
                   IF k \in Old
                   THEN [status |-> AnyStatus, sess |-> sess, ref |-> RefOf[k], sys |-> sys[k]]
                   ELSE [status |-> AnyStatus, sess |-> 2, ref |-> RefOf[k], sys |-> Null]]
    /\ updated_at = [k \in Keys |-> IF k \in Old THEN {} ELSE Old]
    /\ td = TdIdle /\ flow = <<>>
    /\ ledger = {} /\ next_id = 1
    /\ published = [t \in Trades |-> 0]
    /\ reader = [o \in Owners |-> [cursor |-> 0, seen |-> {}]]
    /\ sends = 0 /\ faults = 0
    /\ known = {} /\ strays = {} /\ received = {} /\ failed = {}
-----------------------------------------------------------------------------
\* The trader callback thread.

\* An identity that leaves the TradeID out.
EventId_NoTradeId(t) == <<OrderOf[t], Null>>

\* _trade_event_id: the TradeID of the exchange; without one, the contents of
\* the fill, in which two fills of one order may be alike.
EventId(t) == IF TradeIdOf[t] = Null THEN <<OrderOf[t], Null>> ELSE <<TradeIdOf[t]>>

\* order_payload: the row takes whatever number the message has, an empty one too
\* (OrderFlow models what else it does).
OrderPayload(kind, sess) ==
    /\ td.pc = "idle" /\ flow # <<>> /\ Head(flow).kind = kind
    /\ LET m == Head(flow)
       IN  /\ UpdateCtp(RefOf[m.order], sess, m.sys, AnyStatus)
           /\ known' = IF m.sys = Null THEN known ELSE known \cup ({m.order} \cap Keys)
    /\ flow' = Tail(flow)
    /\ UNCHANGED <<td, ledger, next_id, published, reader, bounds, strays, received, failed>>

SessionOf(o) == IF o \in Foreign THEN MaxSession ELSE 2

OnRtnOrder    == OrderPayload("RtnOrder", SessionOf(Head(flow).order))
OnRspQryOrder == OrderPayload("RspQryOrder", SessionOf(Head(flow).order))

\* The error names no session: order_payload takes the one of the login.
OnErrRtnOrderInsert == OrderPayload("ErrRtnOrderInsert", Login)

\* The row of the order of fill t has the number that the fill names.
Numbered(t) == OrderOf[t] \in Keys /\ orders[OrderOf[t]].sys = NumberOf[OrderOf[t]]

\* A trade_payload that takes OrderRef for an order of the current session.
OnRtnTrade_CurrentSession ==
    /\ td.pc = "idle" /\ flow # <<>> /\ Head(flow).kind = "RtnTrade"
    /\ LET t == Head(flow).trade
           o == OrderOf[t]
       IN  /\ \E k \in FindByCtp(RefOf[o], 2, NumberOf[o]) :
                 td' = [pc |-> "record", trade |-> t, key |-> k]
           /\ strays' = IF Numbered(t) THEN strays ELSE strays \cup {t}
           /\ received' = received \cup {t}
    /\ flow' = Tail(flow)
    /\ UNCHANGED <<registryVars, ledger, next_id, published, reader, bounds, known, failed>>

\* trade_payload: the owner is looked for without a session, a trade names none.
OnRtnTrade ==
    /\ td.pc = "idle" /\ flow # <<>> /\ Head(flow).kind = "RtnTrade"
    /\ LET t == Head(flow).trade
           o == OrderOf[t]
       IN  /\ \E k \in FindByCtp(RefOf[o], 0, NumberOf[o]) :
                 td' = [pc |-> "record", trade |-> t, key |-> k]
           /\ strays' = IF Numbered(t) THEN strays ELSE strays \cup {t}
           /\ received' = received \cup {t}
    /\ flow' = Tail(flow)
    /\ UNCHANGED <<registryVars, ledger, next_id, published, reader, bounds, known, failed>>

Duplicate(t) == \E r \in ledger : r.event = EventId(t)

Insert(t, k) ==
    /\ ledger' = ledger \cup {[id |-> next_id, event |-> EventId(t), trade |-> t, key |-> k]}
    /\ next_id' = next_id + 1

\* A publish_trade that publishes a duplicate too.
RecordTrade_PublishDuplicate ==
    /\ td.pc = "record"
    /\ IF Duplicate(td.trade)
       THEN next_id' = next_id + 1 /\ UNCHANGED ledger
       ELSE Insert(td.trade, td.key)
    /\ td' = [td EXCEPT !.pc = "publish"]
    /\ UNCHANGED <<registryVars, flow, published, reader, bounds, history>>

\* An INSERT into a table whose event_id is not unique.
RecordTrade_NoConflict ==
    /\ td.pc = "record"
    /\ Insert(td.trade, td.key)
    /\ td' = [td EXCEPT !.pc = "publish"]
    /\ UNCHANGED <<registryVars, flow, published, reader, bounds, history>>

\* record_trade: the row and its cursor, or nothing for a duplicate, which uses
\* up a number of the sequence.
RecordTrade ==
    /\ td.pc = "record"
    /\ IF Duplicate(td.trade)
       THEN td' = TdIdle /\ next_id' = next_id + 1 /\ UNCHANGED ledger
       ELSE Insert(td.trade, td.key) /\ td' = [td EXCEPT !.pc = "publish"]
    /\ UNCHANGED <<registryVars, flow, published, reader, bounds, history>>

\* record_trade raises, before the INSERT or after its commit: the trade is
\* logged, not published and not tried again.
RecordTradeFails ==
    /\ td.pc = "record"
    /\ \/ UNCHANGED <<ledger, next_id>>
       \/ ~Duplicate(td.trade) /\ Insert(td.trade, td.key)
    /\ failed' = failed \cup {td.trade}
    /\ td' = TdIdle
    /\ UNCHANGED <<registryVars, flow, published, reader, bounds, known, strays, received>>

\* To the topic of the account and, when the owner is known, of its strategy.
PublishTrade ==
    /\ td.pc = "publish"
    /\ published' = [published EXCEPT ![td.trade] = @ + 1]
    /\ td' = TdIdle
    /\ UNCHANGED <<registryVars, flow, ledger, next_id, reader, bounds, history>>
-----------------------------------------------------------------------------
\* get_trades and get_trade_cursor; an engine asks for its own trades only.

Stored(o) == {r \in ledger : r.key # Null /\ OwnerOf[r.key] = o}

\* request.get("limit") or 500
Limit(limit) == IF limit = 0 THEN DefaultLimit ELSE limit

\* A page that is as large as the request says.
PageSize_NotClamped(limit) == IF Limit(limit) > MaxPage THEN MaxPage ELSE Limit(limit)

PageSize(limit) ==
    IF Limit(limit) < 1 THEN 1
    ELSE IF Limit(limit) > MaxPage THEN MaxPage ELSE Limit(limit)

\* The n rows with the largest ids.
First_Newest(n, rows) == {r \in rows : Cardinality({s \in rows : s.id >= r.id}) <= n}

\* ORDER BY id ASC LIMIT n
First(n, rows) == {r \in rows : Cardinality({s \in rows : s.id <= r.id}) <= n}

Last(rows) == CHOOSE r \in rows : \A s \in rows : s.id <= r.id

\* A has_more that is read off a page fetched without an extra row.
ListTrades_NoExtraRow(o, after, limit) ==
    LET page == First(PageSize(limit), {r \in Stored(o) : r.id > after})
    IN  [trades |-> page, has_more |-> FALSE,
         next_after_id |-> IF page = {} THEN after ELSE Last(page).id]

\* list_trades: one row more than the page tells whether more follow.
ListTrades(o, after, limit) ==
    LET rows == First(PageSize(limit) + 1, {r \in Stored(o) : r.id > after})
        page == First(PageSize(limit), rows)
    IN  [trades |-> page, has_more |-> rows # page,
         next_after_id |-> IF page = {} THEN after ELSE Last(page).id]

GetTrades(o) ==
    /\ LET p == ListTrades(o, reader[o].cursor, LimitOf[o])
       IN  reader' = [reader EXCEPT ![o] = [cursor |-> p.next_after_id,
                                            seen |-> @.seen \cup {r.id : r \in p.trades}]]
    /\ UNCHANGED <<registryVars, td, flow, ledger, next_id, published, bounds, history>>

\* latest_trade_cursor: an engine that starts here takes what is stored as seen.
GetTradeCursor(o) ==
    /\ reader[o].cursor = 0
    /\ reader' = [reader EXCEPT ![o].cursor = IF Stored(o) = {} THEN 0 ELSE Last(Stored(o)).id,
                                ![o].seen = {r.id : r \in Stored(o)}]
    /\ UNCHANGED <<registryVars, td, flow, ledger, next_id, published, bounds, history>>
-----------------------------------------------------------------------------
\* The counter reports an order, first without its number and then with it;
\* answers queries, perhaps with what was true before it had one; and reports
\* each fill, perhaps more than once and before the order's report has come.

Send(m) == Len(flow) < MaxFlow /\ flow' = Append(flow, m)

SendOrder(kind, o, sys) ==
    /\ Send([kind |-> kind, order |-> o, trade |-> Null, sys |-> sys])
    /\ UNCHANGED <<registryVars, td, ledger, next_id, published, reader, bounds, history>>

Report(o) ==
    /\ o \notin Old \cup Refused
    /\ \/ SendOrder("RtnOrder", o, NumberOf[o])
       \/ o \notin known /\ SendOrder("RtnOrder", o, Null)

AnswerQuery(o) ==
    /\ o \notin Old
    /\ \/ o \notin Refused /\ SendOrder("RspQryOrder", o, NumberOf[o])
       \/ SendOrder("RspQryOrder", o, Null)

Refuse(o) == o \in Refused /\ SendOrder("ErrRtnOrderInsert", o, Null)

Fill(t) ==
    /\ sends < MaxSends
    /\ sends' = sends + 1
    /\ Send([kind |-> "RtnTrade", order |-> OrderOf[t], trade |-> t, sys |-> NumberOf[OrderOf[t]]])
    /\ UNCHANGED <<registryVars, td, ledger, next_id, published, reader, faults, history>>

\* THOST_TERT_QUICK: what a lost connection held is not sent again.
Reconnect ==
    /\ faults < MaxFaults
    /\ flow' = <<>> /\ faults' = faults + 1
    /\ UNCHANGED <<registryVars, td, ledger, next_id, published, reader, sends, history>>

Crash ==
    /\ faults < MaxFaults
    /\ faults' = faults + 1
    /\ flow' = <<>> /\ td' = TdIdle
    /\ failed' = failed \cup ({td.trade} \ {Null})
    /\ UNCHANGED <<registryVars, ledger, next_id, published, reader, sends,
                   known, strays, received>>
-----------------------------------------------------------------------------
OrderStep  == OnRtnOrder \/ OnRspQryOrder \/ OnErrRtnOrderInsert
TradeStep  == OnRtnTrade \/ RecordTrade \/ RecordTradeFails \/ PublishTrade
Engine(o)  == GetTrades(o) \/ GetTradeCursor(o)
Counter    == \/ \E o \in OrderIds : Report(o) \/ AnswerQuery(o) \/ Refuse(o)
              \/ \E t \in Trades : Fill(t)

Next == \/ OrderStep \/ TradeStep \/ (\E o \in Owners : Engine(o)) \/ Counter
        \/ Reconnect \/ Crash

Spec == Init /\ [][Next]_vars

\* Engines page as long as there is something to read.
FairSpec == Spec /\ \A o \in Owners : WF_vars(GetTrades(o))
-----------------------------------------------------------------------------
TradeRow == [id : Nat, event : {EventId(t) : t \in Trades}, trade : Trades,
             key : Keys \cup {Null}]

Message == [kind : {"RtnOrder", "RspQryOrder", "ErrRtnOrderInsert"}, order : OrderIds \ Old,
            trade : {Null}, sys : SysIds \cup {Null}]
           \cup [kind : {"RtnTrade"}, order : OrderIds \ Old, trade : Trades, sys : SysIds]

\* Every variable has its type; ids and events of the ledger are unique.
TypeOK ==
    /\ RegistryTypeOK /\ DOMAIN orders = Keys
    /\ td \in [pc : {"idle", "record", "publish"}, trade : Trades \cup {Null},
              key : Keys \cup {Null}]
    /\ td.pc = "idle" \/ td.trade \in Trades
    /\ flow \in Seq(Message)
    /\ ledger \in SUBSET TradeRow /\ IsFiniteSet(ledger)
    /\ \A r, s \in ledger : r.id = s.id \/ r.event = s.event => r = s
    /\ next_id \in Nat \ {0}
    /\ published \in [Trades -> Nat]
    /\ reader \in [Owners -> [cursor : Nat, seen : SUBSET Nat]]
    /\ sends \in Nat /\ faults \in 0..MaxFaults
    /\ known \in SUBSET Keys /\ strays \in SUBSET Trades
    /\ received \in SUBSET Trades /\ failed \in SUBSET Trades

\* A fill is stored for its own order when the order's row has the number, whatever
\* rows of an earlier day have the same number or OrderRef; otherwise for its own
\* order, for nobody or for a row of an earlier day, but never for another order of
\* the day.
TradeIsOwn ==
    \A r \in ledger : \/ r.key = OrderOf[r.trade]
                      \/ r.trade \in strays /\ r.key \in Old \cup {Null}

\* A fill is published at most once and only after it was stored, however often
\* CTP reports it and wherever the process died before.
PublishedOnce ==
    \A t \in Trades : /\ published[t] \in {0, 1}
                      /\ published[t] = 1 => \E r \in ledger : r.trade = t

\* A fill that was received is stored, unless the database failed or the
\* process died while it was handled: no two fills are taken for one.
ReceivedIsStored ==
    \A t \in received : \/ \E r \in ledger : r.trade = t
                        \/ t \in failed
                        \/ td.pc = "record" /\ td.trade = t

\* Seen from the engines the ledger is a log for each owner.
Log == INSTANCE TradeLog WITH
          log  <- [o \in Owners |-> {r.id : r \in Stored(o)}],
          read <- [o \in Owners |-> reader[o].seen]
LogSpec == Log!Spec

\* A page says that more trades follow exactly when an engine that has read it, and
\* those before it, has not read all that is stored for it.
EndOfPagesIsEnd ==
    \A o \in Owners :
        LET p == ListTrades(o, reader[o].cursor, LimitOf[o])
        IN  p.has_more <=> \E r \in Stored(o) : r \notin p.trades /\ r.id \notin reader[o].seen

\* Again and again an engine that pages has read all that is stored for it,
\* whatever limit it gives.
StoredIsRead ==
    \A o \in Owners : []<>({r.id : r \in Stored(o)} = reader[o].seen)

\* What src/README.md:238 (an order of another terminal has no strategy) and 182
\* (get_trades is isolated by owner) say: a fill of another terminal is stored for no
\* owner.  TLC refutes it.
ForeignFillHasNoOwner ==
    \A r \in ledger : OrderOf[r.trade] \in Foreign => r.key = Null

\* What src/README.md:182-183 says (get_trades recovers the trades an engine missed):
\* a fill of an order whose number the proxy was told is found by its owner.  TLC
\* refutes it.
KnownFillIsOwn ==
    td.pc = "record" /\ OrderOf[td.trade] \in known => td.key = OrderOf[td.trade]
=============================================================================
