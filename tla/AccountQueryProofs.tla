------------------------- MODULE AccountQueryProofs -------------------------
(***************************************************************************)
(* Proofs about AccountQuery for answers of any size and any number of     *)
(* queries, account changes and lost connections: which rows a query can   *)
(* return although an answer is matched to a query by its kind alone.      *)
(* QInv says of every row, wherever it is, whose answer it belongs to.     *)
(***************************************************************************)
EXTENDS AccountQuery, TLAPS

PCs == {"idle", "cache", "ready", "locked", "register", "send", "wait"}

CommandTyped ==
    /\ td_ready \in BOOLEAN
    /\ cmd \in [pc : PCs, kind : AllKinds, forced : BOOLEAN, since : Nat, id : Nat]

PendingTyped ==
    /\ pending \in [state : {"none", "waiting", "ok", "error"}, by : Nat, rows : SUBSET Row]
    /\ pending # Absent <=> cmd.pc \in {"send", "wait"}

SnapshotsTyped ==
    /\ cache \in [AllKinds -> [state : {"none", "put"}, rows : SUBSET Row]]
    /\ buffer \in [AllKinds -> SUBSET Row]

ReplyTyped == reply \in [forced : BOOLEAN, since : Nat, id : Nat, rows : SUBSET Row]

CounterTyped ==
    /\ asked \in Seq([kind : AllKinds, id : Nat])
    /\ flow \in Seq(Message)
    /\ version \in Nat /\ sent \in Nat /\ drops \in Nat

HistoryTyped == overdue \in SUBSET Nat /\ cut \in SUBSET Nat /\ reused \in SUBSET Nat

LEMMA TypeParts ==
    TypeOK <=> /\ CommandTyped /\ PendingTyped /\ SnapshotsTyped /\ ReplyTyped
               /\ CounterTyped /\ HistoryTyped
BY Zenon DEF TypeOK, PCs, CommandTyped, PendingTyped, SnapshotsTyped, ReplyTyped, CounterTyped,
       HistoryTyped

LEMMA TypePartsNext ==
    /\ CommandTyped' /\ PendingTyped' /\ SnapshotsTyped' /\ ReplyTyped'
    /\ CounterTyped' /\ HistoryTyped'
    => TypeOK'
BY Zenon DEF TypeOK, PCs, CommandTyped, PendingTyped, SnapshotsTyped, ReplyTyped, CounterTyped,
       HistoryTyped

LEMMA KeepCommand == CommandTyped /\ UNCHANGED <<td_ready, cmd>> => CommandTyped'
BY DEF CommandTyped

LEMMA KeepPending == PendingTyped /\ UNCHANGED <<pending, cmd>> => PendingTyped'
BY DEF PendingTyped

LEMMA KeepSnapshots == SnapshotsTyped /\ UNCHANGED <<cache, buffer>> => SnapshotsTyped'
BY DEF SnapshotsTyped

LEMMA KeepReply == ReplyTyped /\ UNCHANGED reply => ReplyTyped'
BY DEF ReplyTyped

LEMMA KeepCounter ==
    CounterTyped /\ UNCHANGED <<asked, flow, version, sent, drops>> => CounterTyped'
BY DEF CounterTyped

LEMMA KeepHistory == HistoryTyped /\ UNCHANGED <<overdue, cut, reused>> => HistoryTyped'
BY DEF HistoryTyped

LEMMA InitTyped == Init => TypeOK
<1> SUFFICES ASSUME Init PROVE TypeOK
  OBVIOUS
<1>1. CommandTyped
  <2>1. td_ready \in BOOLEAN
    BY Zenon DEF Init
  <2>2. cmd \in [pc : PCs, kind : AllKinds, forced : BOOLEAN, since : Nat, id : Nat]
    BY DEF Init, Idle, PCs, AllKinds
  <2> QED BY <2>1, <2>2 DEF CommandTyped
<1>2. PendingTyped /\ ReplyTyped
  BY DEF Init, PendingTyped, ReplyTyped, Absent, NoReply, Idle
<1>3. SnapshotsTyped
  BY DEF Init, SnapshotsTyped, Empty
<1>4. CounterTyped /\ HistoryTyped
  BY DEF Init, CounterTyped, HistoryTyped
<1> QED BY <1>1, <1>2, <1>3, <1>4, TypeParts

\* How a step of the command thread ends: it goes on, returns rows or raises.
LEMMA AdvanceTyped ==
    ASSUME TypeOK, NEW pc \in PCs, cmd' = [cmd EXCEPT !.pc = pc], UNCHANGED td_ready
    PROVE  CommandTyped' /\ cmd'.pc = pc
BY TypeParts DEF CommandTyped

LEMMA IdleTyped == ASSUME TypeOK, cmd' = Idle, UNCHANGED td_ready
                   PROVE CommandTyped' /\ cmd'.pc = "idle"
<1>1. Idle \in [pc : PCs, kind : AllKinds, forced : BOOLEAN, since : Nat, id : Nat]
      /\ Idle.pc = "idle"
  BY DEF Idle, PCs, AllKinds
<1> QED BY <1>1, TypeParts DEF CommandTyped

LEMMA ReturnTyped ==
    ASSUME TypeOK, NEW rows \in SUBSET Row, Return(rows), UNCHANGED td_ready
    PROVE  CommandTyped' /\ ReplyTyped' /\ cmd'.pc = "idle"
<1>1. ReplyTyped'
  BY TypeParts DEF Return, ReplyTyped, CommandTyped
<1> QED BY <1>1, IdleTyped DEF Return

LEMMA RaiseTyped ==
    ASSUME TypeOK, Raise, UNCHANGED td_ready
    PROVE  CommandTyped' /\ ReplyTyped' /\ cmd'.pc = "idle"
<1>1. ReplyTyped'
  BY DEF Raise, ReplyTyped, NoReply
<1> QED BY <1>1, IdleTyped DEF Raise

\* The outcome of complete_query, for a query that is registered.
LEMMA CompleteTyped ==
    ASSUME TypeOK, NEW kind, NEW state \in {"ok", "error"}, NEW by \in Nat,
           NEW rows \in SUBSET Row, Complete(kind, state, by, rows), UNCHANGED cmd
    PROVE  PendingTyped'
BY TypeParts DEF PendingTyped, Complete, Absent

\* A message at the head of the flow.
LEMMA HeadTyped ==
    ASSUME TypeOK, flow # <<>>
    PROVE  Head(flow) \in Message /\ Tail(flow) \in Seq(Message)
<1>1. flow \in Seq(Message)
  BY DEF TypeOK
<1> QED BY <1>1

\* The trader thread takes one message.
LEMMA TakeTyped ==
    ASSUME TypeOK, flow # <<>>, flow' = Tail(flow), UNCHANGED <<asked, version, sent, drops>>
    PROVE  CounterTyped'
BY HeadTyped, TypeParts DEF CounterTyped

LEMMA RowsTyped ==
    ASSUME TypeOK, NEW kind, buffer[kind] \subseteq Row, flow # <<>>
    PROVE  /\ buffer[kind] \cup Head(flow).rows \in SUBSET Row
           /\ Head(flow).query \in Nat /\ Head(flow).rows \in SUBSET Row
BY HeadTyped DEF Message

LEMMA SpiRowsTyped ==
    ASSUME TypeOK, NEW kind \in {"positions", "orders"}, OnRspRows(kind)
    PROVE  TypeOK'
<1> DEFINE m == Head(flow)
           rows == buffer[kind] \cup m.rows
<1>1. flow # <<>> /\ flow' = Tail(flow)
      /\ UNCHANGED <<td_ready, cmd, reply, asked, version, sent, drops, overdue, cut, reused>>
  BY DEF OnRspRows, NextIs, historyVars
<1>2. kind \in AllKinds /\ buffer \in [AllKinds -> SUBSET Row]
  BY DEF AllKinds, TypeOK
<1>3. rows \in SUBSET Row /\ m.query \in Nat /\ {} \in SUBSET Row
  BY <1>1, <1>2, RowsTyped
<1>4. CASE /\ buffer' = [buffer EXCEPT ![kind] = {}]
           /\ Complete(kind, "error", m.query, {}) /\ UNCHANGED cache
  <2>1. PendingTyped'
    BY <1>1, <1>3, <1>4, CompleteTyped
  <2>2. SnapshotsTyped'
    BY <1>2, <1>4, TypeParts DEF SnapshotsTyped
  <2> QED BY <1>1, <2>1, <2>2, TakeTyped, TypeParts, TypePartsNext, KeepCommand, KeepReply,
             KeepHistory
<1>5. CASE /\ buffer' = [buffer EXCEPT ![kind] = {}]
           /\ cache' = [cache EXCEPT ![kind] = Item(rows)]
           /\ Complete(kind, "ok", m.query, rows)
  <2> HIDE DEF m, rows
  <2>1. PendingTyped'
    BY <1>1, <1>3, <1>5, CompleteTyped
  <2>2. SnapshotsTyped'
    BY <1>2, <1>3, <1>5, TypeParts DEF SnapshotsTyped, Item
  <2> QED BY <1>1, <2>1, <2>2, TakeTyped, TypeParts, TypePartsNext, KeepCommand, KeepReply,
             KeepHistory
<1>6. CASE buffer' = [buffer EXCEPT ![kind] = rows] /\ UNCHANGED <<cache, pending>>
  <2> HIDE DEF m, rows
  <2>1. SnapshotsTyped'
    BY <1>2, <1>3, <1>6, TypeParts DEF SnapshotsTyped
  <2> QED BY <1>1, <1>6, <2>1, TakeTyped, TypeParts, TypePartsNext, KeepCommand, KeepReply,
             KeepHistory, KeepPending
<1> QED BY <1>4, <1>5, <1>6 DEF OnRspRows

LEMMA SpiAccountTyped ==
    ASSUME TypeOK, OnRspQryTradingAccount
    PROVE  TypeOK'
<1> DEFINE m == Head(flow)
<1>1. flow # <<>> /\ flow' = Tail(flow)
      /\ UNCHANGED <<td_ready, cmd, buffer, reply, asked, version, sent, drops, overdue, cut>>
  BY DEF OnRspQryTradingAccount, NextIs, historyVars
<1>2. m \in Message /\ m.query \in Nat /\ m.rows \in SUBSET Row /\ "account" \in AllKinds
      /\ {} \in SUBSET Row
  BY <1>1, HeadTyped DEF Message, AllKinds
<1>3. cache \in [AllKinds -> [state : {"none", "put"}, rows : SUBSET Row]]
  BY DEF TypeOK
<1>4. cache' = cache \/ cache' = [cache EXCEPT !["account"] = Item(m.rows)]
  BY DEF OnRspQryTradingAccount
<1> HIDE DEF m
<1>5. SnapshotsTyped' /\ cache'["account"].rows \in SUBSET Row
  BY <1>1, <1>2, <1>3, <1>4, TypeParts DEF SnapshotsTyped, Item
<1>6. \/ Complete("account", "error", m.query, {})
      \/ Complete("account", "ok", m.query, cache'["account"].rows)
      \/ UNCHANGED pending
  BY DEF OnRspQryTradingAccount, m
<1>7. PendingTyped'
  BY <1>1, <1>2, <1>5, <1>6, CompleteTyped, KeepPending, TypeParts
<1>8. HistoryTyped'
  <2>1. {r.query : r \in cache["account"].rows} \in SUBSET Nat
    BY <1>2, <1>3 DEF Row
  <2>2. Reused(m) \in SUBSET Nat
    BY <2>1 DEF Reused
  <2>3. reused' = reused \cup Reused(m) /\ UNCHANGED <<overdue, cut>>
    BY <1>1 DEF OnRspQryTradingAccount, m
  <2> QED BY <2>2, <2>3, TypeParts DEF HistoryTyped
<1> QED BY <1>1, <1>5, <1>7, <1>8, TakeTyped, TypeParts, TypePartsNext, KeepCommand, KeepReply

\* An answer is a sequence of messages.
LEMMA AnswerTyped ==
    ASSUME TypeOK, Answer
    PROVE  CounterTyped'
<1> DEFINE q == Head(asked)
<1>1. asked \in Seq([kind : AllKinds, id : Nat]) /\ asked # <<>> /\ asked' = Tail(asked)
  BY DEF TypeOK, Answer
<1>2. q \in [kind : AllKinds, id : Nat] /\ asked' \in Seq([kind : AllKinds, id : Nat])
  <2> DEFINE Q == [kind : AllKinds, id : Nat]
  <2>1. asked \in Seq(Q)
    BY <1>1
  <2> HIDE DEF Q
  <2>2. Head(asked) \in Q /\ Tail(asked) \in Seq(Q)
    BY <1>1, <2>1
  <2> QED BY <1>1, <2>2 DEF Q
<1>3. q.kind \in AllKinds /\ q.id \in Nat
  BY <1>2
<1> HIDE DEF q
<1>4. \A error \in BOOLEAN : Single(q, error) \in Seq(Message)
  BY <1>3 DEF Single, Message
<1>5. ASSUME NEW n \in Nat PROVE Rows(q, n) \in Seq(Message)
  <2>1. ASSUME NEW i \in 1..n
        PROVE  [kind |-> q.kind, query |-> q.id, error |-> FALSE, last |-> i = n,
                rows |-> {[query |-> q.id, part |-> i, of |-> n, version |-> version]}]
               \in Message
    BY <1>3, <1>5 DEF Message, Row, TypeOK
  <2> QED BY <1>5, <2>1 DEF Rows
<1>6. flow' \in Seq(Message)
  <2>1. flow \in Seq(Message) /\ Sizes[q.kind] \subseteq Nat
    BY <1>3, QueryAssumption DEF TypeOK
  <2>2. PICK s \in Seq(Message) : flow' = flow \o s
    BY <1>4, <1>5, <2>1 DEF Answer, q
  <2> QED BY <2>1, <2>2
<1> QED BY <1>2, <1>6 DEF Answer, CounterTyped, TypeOK

LEMMA StepTyped ==
    ASSUME TypeOK, [Next]_vars
    PROVE  TypeOK'
<1> USE TypeParts, TypePartsNext, KeepCommand, KeepPending, KeepSnapshots, KeepReply,
        KeepCounter, KeepHistory DEF counterVars, historyVars
<1>1. ASSUME NEW k \in Kinds, NEW forced \in BOOLEAN, Query(k, forced) PROVE TypeOK'
  <2>1. k \in AllKinds
    BY QueryAssumption
  <2>2. CommandTyped' /\ PendingTyped' /\ ReplyTyped'
    BY <1>1, <2>1 DEF Query, CommandTyped, PendingTyped, ReplyTyped, PCs, NoReply, CounterTyped
  <2> QED BY <1>1, <2>2 DEF Query
<1>2. CASE CacheGet \/ CacheGetAgain
  <2>1. UNCHANGED <<td_ready, pending>> /\ cmd.pc \in {"cache", "locked"}
        /\ cache[cmd.kind].rows \in SUBSET Row
    BY <1>2 DEF CacheGet, CacheGetAgain, CommandTyped, SnapshotsTyped
  <2>2. \/ Return(cache[cmd.kind].rows)
        \/ UNCHANGED reply /\ \E pc \in {"ready", "register"} : cmd' = [cmd EXCEPT !.pc = pc]
    BY <1>2 DEF CacheGet, CacheGetAgain
  <2>3. CommandTyped' /\ ReplyTyped' /\ cmd'.pc \in {"idle", "ready", "register"}
    BY <2>1, <2>2, ReturnTyped, AdvanceTyped DEF PCs
  <2>4. PendingTyped'
    BY <2>1, <2>3 DEF PendingTyped
  <2> QED BY <1>2, <2>3, <2>4 DEF CacheGet, CacheGetAgain
<1>3. CASE CheckReady
  <2>1. UNCHANGED <<td_ready, pending>> /\ cmd.pc = "ready"
    BY <1>3 DEF CheckReady
  <2>2. Raise \/ (UNCHANGED reply /\ cmd' = [cmd EXCEPT !.pc = "locked"])
    BY <1>3 DEF CheckReady
  <2>3. CommandTyped' /\ ReplyTyped' /\ cmd'.pc \in {"idle", "locked"}
    BY <2>1, <2>2, RaiseTyped, AdvanceTyped DEF PCs
  <2>4. PendingTyped'
    BY <2>1, <2>3 DEF PendingTyped
  <2> QED BY <1>3, <2>3, <2>4 DEF CheckReady
<1>4. CASE Register
  <2>1. CommandTyped' /\ PendingTyped'
    BY <1>4 DEF Register, CommandTyped, PendingTyped, PCs, Waiting, Absent
  <2> QED BY <1>4, <2>1 DEF Register
<1>5. CASE Send
  <2>1. cmd.kind \in AllKinds /\ sent \in Nat /\ asked \in Seq([kind : AllKinds, id : Nat])
        /\ cmd.pc = "send" /\ UNCHANGED td_ready
    BY <1>5 DEF Send, CommandTyped, CounterTyped
  <2>2. CASE /\ sent' = sent + 1 /\ UNCHANGED <<pending, reply>>
             /\ asked' = Append(asked, [kind |-> cmd.kind, id |-> sent + 1])
             /\ cmd' = [cmd EXCEPT !.pc = "wait", !.id = sent + 1]
    <3>1. CommandTyped' /\ cmd'.pc = "wait"
      <4>1. "wait" \in PCs /\ sent + 1 \in Nat
        BY <2>1 DEF PCs
      <4>2. cmd' = [pc |-> "wait", kind |-> cmd.kind, forced |-> cmd.forced,
                    since |-> cmd.since, id |-> sent + 1]
        BY <2>2 DEF CommandTyped
      <4> QED BY <2>1, <4>1, <4>2 DEF CommandTyped
    <3>2. PendingTyped'
      BY <2>1, <2>2, <3>1 DEF PendingTyped
    <3>3. asked' \in Seq([kind : AllKinds, id : Nat]) /\ sent' \in Nat
      BY <2>1, <2>2
    <3> QED BY <1>5, <2>2, <3>1, <3>2, <3>3 DEF Send, CounterTyped
  <2>3. CASE pending' = Absent /\ Raise /\ UNCHANGED <<sent, asked>>
    <3>1. CommandTyped' /\ ReplyTyped' /\ cmd'.pc = "idle"
      BY <2>1, <2>3, RaiseTyped
    <3>2. PendingTyped'
      BY <2>3, <3>1 DEF PendingTyped, Absent
    <3> QED BY <1>5, <2>3, <3>1, <3>2 DEF Send
  <2> QED BY <1>5, <2>2, <2>3 DEF Send
<1>6. CASE Answered \/ TimeOut
  <2>1. /\ UNCHANGED <<td_ready, cache, buffer, counterVars, cut, reused>> /\ pending' = Absent
        /\ Return(pending.rows) \/ Raise
        /\ pending.rows \in SUBSET Row
        /\ overdue' \in {overdue, overdue \cup {cmd.id}} /\ cmd.id \in Nat
    BY <1>6 DEF Answered, TimeOut, CommandTyped, PendingTyped
  <2>2. CommandTyped' /\ ReplyTyped' /\ cmd'.pc = "idle"
    BY <2>1, ReturnTyped, RaiseTyped
  <2>3. PendingTyped'
    BY <2>1, <2>2 DEF PendingTyped, Absent
  <2>4. HistoryTyped'
    BY <2>1 DEF HistoryTyped
  <2> QED BY <2>1, <2>2, <2>3, <2>4
<1>7. CASE OnRspSettlementInfoConfirm
  <2>1. CommandTyped'
    BY <1>7 DEF OnRspSettlementInfoConfirm, CommandTyped
  <2> QED BY <1>7, <2>1 DEF OnRspSettlementInfoConfirm
<1>8. CASE OnFrontDisconnected
  <2>1. CommandTyped'
    BY <1>8 DEF OnFrontDisconnected, CommandTyped
  <2>3. CounterTyped'
    BY <1>8 DEF OnFrontDisconnected, CounterTyped
  <2>2. HistoryTyped'
    BY <1>8 DEF OnFrontDisconnected, HistoryTyped, SnapshotsTyped, Row, AllKinds
  <2> QED BY <1>8, <2>1, <2>2, <2>3 DEF OnFrontDisconnected
<1>9. CASE Answer
  <2>1. CounterTyped'
    BY <1>9, AnswerTyped
  <2> QED BY <1>9, <2>1 DEF Answer, queryVars
<1>10. CASE AccountChanges
  <2>1. CounterTyped'
    BY <1>10 DEF AccountChanges, CounterTyped
  <2> QED BY <1>10, <2>1 DEF AccountChanges, queryVars
<1>11. CASE TraderStep
  BY <1>11, SpiRowsTyped, SpiAccountTyped
     DEF TraderStep, OnRspQryInvestorPosition, OnRspQryOrder
<1>12. CASE UNCHANGED vars
  BY <1>12 DEF vars, queryVars
<1> QED
  BY <1>1, <1>2, <1>3, <1>4, <1>5, <1>6, <1>7, <1>8, <1>9, <1>10, <1>11, <1>12
     DEF Next, Command, CommandStep

\* Every variable has its type; a query is registered exactly while it is sent and
\* awaited.
THEOREM QueryTypeCorrect == Spec => []TypeOK
<1>1. TypeOK /\ [Next]_vars => TypeOK'
  BY StepTyped
<1> QED
  BY InitTyped, <1>1, PTL DEF Spec
-----------------------------------------------------------------------------
\* The query that is awaited.
Mine(q) == cmd.pc = "wait" /\ q = cmd.id

\* Queries whose rows another query may return: they had returned, were cut off, or
\* their account was given again by an answer without one.
Old == overdue \cup cut \cup reused

\* A row that may be returned: of the awaited query, or of an old one.
GoodRow(r) == \/ r.query \in Old
              \/ Mine(r.query) /\ r.version >= cmd.since

\* What the command thread knows of itself.
Sane ==
    /\ cmd.pc = "cache" => ~cmd.forced
    /\ cmd.since <= version
    /\ cmd.pc = "wait" => cmd.id \in 1..sent
    /\ cmd.pc # "wait" => cmd.id = 0

\* The id of the next request is new everywhere.
Numbered ==
    /\ \A i \in DOMAIN asked : asked[i].id <= sent
    /\ \A i \in DOMAIN flow : flow[i].query <= sent
    /\ \A k \in AllKinds : \A r \in buffer[k] : r.query <= sent
    /\ pending.by <= sent

\* Every request and every row under way is for the awaited query or an old one.
GoodAsked == \A i \in DOMAIN asked : asked[i].id \in Old \/ Mine(asked[i].id)
GoodFlow ==
    \A i \in DOMAIN flow :
        /\ \A r \in flow[i].rows : r.query = flow[i].query /\ GoodRow(r)
        /\ flow[i].error => flow[i].last
GoodBuffer ==
    /\ \A k \in AllKinds : \A r \in buffer[k] : GoodRow(r)
    /\ buffer["account"] = {}
GoodPending == \A r \in pending.rows : GoodRow(r)

\* Where the awaited query is: asked, or in the flow, of its kind and ended once.
OwnKind ==
    /\ \A i \in DOMAIN asked : Mine(asked[i].id) => asked[i].kind = cmd.kind
    /\ \A i \in DOMAIN flow : Mine(flow[i].query) => flow[i].kind = cmd.kind
    /\ \A k \in AllKinds : \A r \in buffer[k] : Mine(r.query) => k = cmd.kind
AskedOnce ==
    \A i, j \in DOMAIN asked : Mine(asked[i].id) /\ Mine(asked[j].id) => i = j
AskedOrSent ==
    \A i \in DOMAIN asked, j \in DOMAIN flow : ~(Mine(asked[i].id) /\ Mine(flow[j].query))
EndsOnce ==
    \A i, j \in DOMAIN flow :
        i < j /\ Mine(flow[i].query) /\ Mine(flow[j].query) => ~flow[i].last
\* Nothing of a query that was answered is left.
Finished ==
    Mine(pending.by) => /\ \A i \in DOMAIN asked : asked[i].id # cmd.id
                        /\ \A i \in DOMAIN flow : flow[i].query # cmd.id
                        /\ \A k \in AllKinds : \A r \in buffer[k] : r.query # cmd.id

GoodReply == AnswerIsOwnOrLate /\ ForcedIsFresh

UnderWay == GoodAsked /\ GoodFlow /\ GoodBuffer /\ GoodPending
Own == OwnKind /\ AskedOnce /\ AskedOrSent /\ EndsOnce /\ Finished

QInv == TypeOK /\ Sane /\ Numbered /\ UnderWay /\ Own /\ GoodReply

-----------------------------------------------------------------------------
LEMMA TailElements ==
    ASSUME NEW S, NEW s \in Seq(S), s # <<>>
    PROVE  /\ Head(s) = s[1] /\ 1 \in DOMAIN s
           /\ \A i \in DOMAIN Tail(s) : i + 1 \in DOMAIN s /\ Tail(s)[i] = s[i + 1]
           /\ DOMAIN s \subseteq Nat /\ DOMAIN Tail(s) \subseteq Nat \ {0}
OBVIOUS

LEMMA ConcatElements ==
    ASSUME NEW S, NEW s \in Seq(S), NEW t \in Seq(S)
    PROVE  \A i \in DOMAIN (s \o t) :
              \/ i \in DOMAIN s /\ (s \o t)[i] = s[i]
              \/ i - Len(s) \in DOMAIN t /\ (s \o t)[i] = t[i - Len(s)]
                 /\ (\A j \in DOMAIN s : j < i)
OBVIOUS

LEMMA AppendElements ==
    ASSUME NEW S, NEW s \in Seq(S), NEW e \in S
    PROVE  \A i \in DOMAIN Append(s, e) :
              \/ i \in DOMAIN s /\ Append(s, e)[i] = s[i]
              \/ i = Len(s) + 1 /\ Append(s, e)[i] = e
OBVIOUS

LEMMA Numbers ==
    ASSUME TypeOK
    PROVE  /\ sent \in Nat /\ pending.by \in Nat
           /\ \A i \in DOMAIN asked : asked[i].id \in Nat
           /\ \A i \in DOMAIN flow : flow[i].query \in Nat
           /\ \A k \in AllKinds : \A r \in buffer[k] : r.query \in Nat
<1>1. sent \in Nat /\ pending.by \in Nat
  BY DEF TypeOK
<1>2. ASSUME NEW i \in DOMAIN asked PROVE asked[i].id \in Nat
  <2> DEFINE Q == [kind : AllKinds, id : Nat]
  <2>1. asked \in Seq(Q)
    BY DEF TypeOK
  <2> HIDE DEF Q
  <2>2. asked[i] \in Q
    BY <1>2, <2>1
  <2> QED BY <2>2 DEF Q
<1>3. ASSUME NEW i \in DOMAIN flow PROVE flow[i].query \in Nat
  <2>1. flow[i] \in Message
    <3> HIDE DEF Message
    <3> QED BY <1>3 DEF TypeOK
  <2> QED BY <2>1 DEF Message
<1>4. \A k \in AllKinds : \A r \in buffer[k] : r.query \in Nat
  <2>1. \A r \in Row : r.query \in Nat
    BY DEF Row
  <2> QED BY <2>1 DEF TypeOK
<1> QED BY <1>1, <1>2, <1>3, <1>4

LEMMA InitQuery == Init => QInv
<1> SUFFICES ASSUME Init PROVE QInv
  OBVIOUS
<1>1. Sane /\ Numbered /\ GoodReply
  BY DEF Init, Sane, Numbered, GoodReply, AnswerIsOwnOrLate, ForcedIsFresh, Idle, NoReply, Absent
<1>2. GoodAsked /\ GoodFlow /\ GoodBuffer /\ GoodPending
  BY DEF Init, GoodAsked, GoodFlow, GoodBuffer, GoodPending, Absent, AllKinds, Old
<1>3. Own
  BY DEF Init, Own, OwnKind, AskedOnce, AskedOrSent, EndsOnce, Finished, Mine, Idle
<1> QED BY <1>1, <1>2, <1>3, InitTyped DEF QInv, UnderWay

\* A step that moves the command thread while it does not wait.
LEMMA NotWaiting ==
    ASSUME QInv, TypeOK', cmd.pc # "wait", cmd'.pc # "wait", Sane', GoodReply',
           pending' \in {pending, Absent, Waiting},
           UNCHANGED <<asked, flow, buffer, version, sent, overdue, cut, reused>>
    PROVE  QInv'
<1>1. \A q : ~Mine(q) /\ ~Mine(q)'
  BY DEF Mine
<1>2. \A r : GoodRow(r)' <=> GoodRow(r)
  BY <1>1 DEF GoodRow, Old
<1>3. Numbered'
  BY DEF QInv, Numbered, Absent, Waiting, TypeOK
<1>4. GoodAsked' /\ GoodFlow' /\ GoodBuffer'
  BY <1>1, <1>2 DEF QInv, UnderWay, GoodAsked, GoodFlow, GoodBuffer, Old
<1>5. GoodPending'
  BY <1>2 DEF QInv, UnderWay, GoodPending, Absent, Waiting
<1>6. Own'
  BY <1>1 DEF Own, OwnKind, AskedOnce, AskedOrSent, EndsOnce, Finished
<1> QED BY <1>3, <1>4, <1>5, <1>6 DEF QInv, UnderWay

\* What keeps the reply, or empties it, keeps what is said of it.
LEMMA ReplyKept ==
    ASSUME QInv, reply' \in {reply, NoReply}, overdue \subseteq overdue', cut \subseteq cut',
           reused \subseteq reused'
    PROVE  GoodReply'
BY DEF QInv, GoodReply, AnswerIsOwnOrLate, ForcedIsFresh, NoReply

LEMMA CachedReply ==
    ASSUME cmd.id = 0, ~cmd.forced, NEW rows, Return(rows)
    PROVE  GoodReply'
BY DEF Return, GoodReply, AnswerIsOwnOrLate, ForcedIsFresh

LEMMA QuietCommand ==
    ASSUME QInv, TypeOK',
           \/ \E k \in Kinds, forced \in BOOLEAN : Query(k, forced)
           \/ CacheGet \/ CheckReady \/ CacheGetAgain \/ Register
    PROVE  QInv'
<1> USE DEF counterVars, historyVars
<1>1. ASSUME NEW k \in Kinds, NEW forced \in BOOLEAN, Query(k, forced) PROVE QInv'
  <2>1. Sane' /\ cmd.pc # "wait" /\ cmd'.pc # "wait"
    BY <1>1 DEF Query, Sane, QInv, TypeOK
  <2>2. GoodReply'
    BY <1>1, ReplyKept DEF Query
  <2> QED BY <1>1, <2>1, <2>2, NotWaiting DEF Query
<1>2. CASE CacheGet \/ CacheGetAgain
  <2>1. cmd.pc \in {"cache", "locked"} /\ cmd.id = 0
        /\ UNCHANGED <<pending, asked, flow, buffer, version, sent, overdue, cut, reused>>
    BY <1>2 DEF CacheGet, CacheGetAgain, QInv, Sane
  <2>2. CASE ~cmd.forced /\ \E rows : Return(rows)
    <3>1. Sane' /\ cmd'.pc # "wait"
      BY <2>1, <2>2 DEF Sane, QInv, TypeOK, Return, Idle
    <3>2. GoodReply'
      BY <2>1, <2>2, CachedReply
    <3> QED BY <2>1, <3>1, <3>2, NotWaiting
  <2>3. CASE UNCHANGED reply /\ \E pc \in {"ready", "register"} : cmd' = [cmd EXCEPT !.pc = pc]
    <3>1. Sane' /\ cmd'.pc # "wait"
      BY <2>1, <2>3 DEF Sane, QInv, TypeOK
    <3>2. GoodReply'
      BY <2>1, <2>3, ReplyKept
    <3> QED BY <2>1, <3>1, <3>2, NotWaiting
  <2> QED BY <1>2, <2>2, <2>3 DEF CacheGet, CacheGetAgain, QInv, Sane
<1>3. CASE CheckReady
  <2>1. Sane' /\ cmd.pc # "wait" /\ cmd'.pc # "wait"
    BY <1>3 DEF CheckReady, Raise, Idle, Sane, QInv, TypeOK
  <2>2. GoodReply'
    BY <1>3, ReplyKept DEF CheckReady, Raise
  <2> QED BY <1>3, <2>1, <2>2, NotWaiting DEF CheckReady
<1>4. CASE Register
  <2>1. Sane' /\ cmd.pc # "wait" /\ cmd'.pc # "wait"
    BY <1>4 DEF Register, Sane, QInv, TypeOK
  <2>2. GoodReply'
    BY <1>4, ReplyKept DEF Register
  <2> QED BY <1>4, <2>1, <2>2, NotWaiting DEF Register
<1> QED BY <1>1, <1>2, <1>3, <1>4

\* A request gets an id that nothing under way has.
LEMMA SendQuery ==
    ASSUME QInv, TypeOK', Send
    PROVE  QInv'
<1> USE DEF historyVars
<1>1. CASE pending' = Absent /\ Raise /\ UNCHANGED <<sent, asked>>
  <2>1. Sane' /\ cmd.pc # "wait" /\ cmd'.pc # "wait"
    BY <1>1 DEF Send, Raise, Idle, Sane, QInv, TypeOK
  <2>2. GoodReply'
    BY <1>1, ReplyKept DEF Send, Raise
  <2> QED BY <1>1, <2>1, <2>2, NotWaiting DEF Send
<1>2. CASE /\ sent' = sent + 1 /\ UNCHANGED <<pending, reply>>
           /\ asked' = Append(asked, [kind |-> cmd.kind, id |-> sent + 1])
           /\ cmd' = [cmd EXCEPT !.pc = "wait", !.id = sent + 1]
  <2> DEFINE Q == [kind : AllKinds, id : Nat]
             e == [kind |-> cmd.kind, id |-> sent + 1]
  <2>1. cmd.pc = "send" /\ sent \in Nat /\ asked \in Seq(Q) /\ e \in Q
        /\ cmd'.pc = "wait" /\ cmd'.id = sent + 1 /\ cmd'.kind = cmd.kind
        /\ cmd'.since = cmd.since
        /\ UNCHANGED <<flow, buffer, version, overdue, cut, reused, pending, reply>>
    BY <1>2 DEF Send, QInv, TypeOK
  <2> HIDE DEF Q
  <2>2. \A i \in DOMAIN asked' : \/ i \in DOMAIN asked /\ asked'[i] = asked[i]
                                 \/ i = Len(asked) + 1 /\ asked'[i] = e
    BY <1>2, <2>1, AppendElements
  <2>3. \A q : (~Mine(q)) /\ (Mine(q)' <=> q = sent + 1)
    BY <2>1 DEF Mine
  <2>4. Sane'
    BY <1>2, <2>1 DEF Sane, QInv, TypeOK
  <2>5. Numbered'
    <3>1. \A n \in Nat : n <= sent => n <= sent + 1 /\ n # sent + 1
      BY <2>1
    <3>2. e.id = sent + 1 /\ sent + 1 <= sent + 1
      BY <2>1
    <3>3. TypeOK /\ Numbered
      BY DEF QInv
    <3> HIDE DEF e
    <3> QED BY <1>2, <2>1, <2>2, <3>1, <3>2, <3>3, Numbers DEF Numbered
  <2>6. \A r : GoodRow(r) => GoodRow(r)'
    BY <2>1, <2>3 DEF GoodRow, Old
  <2>7. GoodAsked'
    BY <2>1, <2>2, <2>3 DEF GoodAsked, QInv, UnderWay, Old
  <2>8. GoodFlow' /\ GoodBuffer' /\ GoodPending'
    BY <2>1, <2>6 DEF GoodFlow, GoodBuffer, GoodPending, QInv, UnderWay
  <2>9. /\ \A i \in DOMAIN asked : asked[i].id # sent + 1
        /\ \A i \in DOMAIN flow : flow[i].query # sent + 1
        /\ \A k \in AllKinds : \A r \in buffer[k] : r.query # sent + 1
        /\ pending.by # sent + 1
    <3>1. \A n \in Nat : n <= sent => n # sent + 1
      BY <2>1
    <3>2. TypeOK /\ Numbered
      BY DEF QInv
    <3> QED BY <3>1, <3>2, Numbers DEF Numbered
  <2>10. Own'
    <3>1. OwnKind'
      BY <2>1, <2>2, <2>3, <2>9 DEF OwnKind
    <3>2. AskedOnce' /\ AskedOrSent' /\ EndsOnce' /\ Finished'
      BY <2>1, <2>2, <2>3, <2>9 DEF AskedOnce, AskedOrSent, EndsOnce, Finished
    <3> QED BY <3>1, <3>2 DEF Own
  <2>11. GoodReply'
    BY <2>1, ReplyKept
  <2> QED BY <2>4, <2>5, <2>7, <2>8, <2>10, <2>11 DEF QInv, UnderWay
<1> QED BY <1>1, <1>2 DEF Send

\* A query ends: what is left of it counts as overdue, or nothing is left.
LEMMA EndQuery ==
    ASSUME QInv, TypeOK', Answered \/ TimeOut
    PROVE  QInv'
<1> USE DEF counterVars
<1>1. /\ cmd.pc = "wait" /\ cmd' = Idle /\ pending' = Absent
      /\ UNCHANGED <<asked, flow, buffer, version, sent, cut, reused>>
      /\ \/ overdue' = overdue \cup {cmd.id}
         \/ overdue' = overdue /\ pending.by = cmd.id
    BY DEF Answered, TimeOut, Return, Raise
<1>2. /\ \A i \in DOMAIN asked : asked[i].id # cmd.id \/ overdue' = overdue \cup {cmd.id}
      /\ \A i \in DOMAIN flow : flow[i].query # cmd.id \/ overdue' = overdue \cup {cmd.id}
      /\ \A k \in AllKinds : \A r \in buffer[k] :
            r.query # cmd.id \/ overdue' = overdue \cup {cmd.id}
  BY <1>1 DEF QInv, Own, Finished, Mine
<1>3. \A q : ~Mine(q)' /\ (Mine(q) <=> q = cmd.id)
  BY <1>1 DEF Mine, Idle
<1>4. \A r : GoodRow(r) /\ (r.query # cmd.id \/ overdue' = overdue \cup {cmd.id}) => GoodRow(r)'
  BY <1>1, <1>3 DEF GoodRow, Old
<1>5. Sane' /\ Numbered'
  BY <1>1 DEF QInv, Sane, Numbered, Idle, Absent, TypeOK
<1>6. GoodAsked'
  BY <1>1, <1>2, <1>3 DEF QInv, UnderWay, GoodAsked, Old
<1>7. GoodFlow'
  BY <1>1, <1>2, <1>4 DEF QInv, UnderWay, GoodFlow
<1>8. GoodBuffer' /\ GoodPending'
  BY <1>1, <1>2, <1>4 DEF QInv, UnderWay, GoodBuffer, GoodPending, Absent
<1>9. Own'
  BY <1>3 DEF Own, OwnKind, AskedOnce, AskedOrSent, EndsOnce, Finished
<1>10. GoodReply'
  <2>1. CASE reply' = NoReply
    BY <1>1, <2>1, ReplyKept
  <2>2. CASE Return(pending.rows)
    <3>1. \A r \in pending.rows :
             \/ r.query \in Old'
             \/ r.query = cmd.id /\ r.version >= cmd.since
      BY <1>1, <1>3 DEF QInv, UnderWay, GoodPending, GoodRow, Old
    <3>2. reply' = [forced |-> cmd.forced, since |-> cmd.since, id |-> cmd.id,
                    rows |-> pending.rows]
      BY <2>2 DEF Return
    <3> QED BY <3>1, <3>2 DEF GoodReply, AnswerIsOwnOrLate, ForcedIsFresh, Old
  <2> QED BY <2>1, <2>2 DEF Answered, TimeOut, Raise
<1> QED BY <1>5, <1>6, <1>7, <1>8, <1>9, <1>10 DEF QInv, UnderWay

\* A step that changes neither the command thread nor what is under way.
LEMMA Elsewhere ==
    ASSUME QInv, TypeOK', version' >= version,
           UNCHANGED <<cmd, pending, buffer, reply, asked, flow, sent, overdue, cut, reused>>
    PROVE  QInv'
<1>1. \A q : Mine(q)' <=> Mine(q)
  BY DEF Mine
<1>2. \A r : GoodRow(r)' <=> GoodRow(r)
  BY <1>1 DEF GoodRow, Old
<1>3. Sane' /\ Numbered'
  BY DEF QInv, Sane, Numbered, TypeOK
<1>4. UnderWay'
  BY <1>1, <1>2 DEF QInv, UnderWay, GoodAsked, GoodFlow, GoodBuffer, GoodPending, Old
<1>5. Own'
  BY <1>1 DEF QInv, Own, OwnKind, AskedOnce, AskedOrSent, EndsOnce, Finished
<1>6. GoodReply'
  BY ReplyKept
<1> QED BY <1>3, <1>4, <1>5, <1>6 DEF QInv

\* A lost connection: what it leaves in the buffers is cut off, the rest is gone.
LEMMA Disconnected ==
    ASSUME QInv, TypeOK', OnFrontDisconnected
    PROVE  QInv'
<1>1. /\ UNCHANGED <<cmd, pending, buffer, reply, version, sent, overdue, reused>>
      /\ asked' = <<>> /\ flow' = <<>> /\ cut \subseteq cut'
    BY DEF OnFrontDisconnected
<1>2. \A q : Mine(q)' <=> Mine(q)
  BY <1>1 DEF Mine
<1>3. \A r : GoodRow(r) => GoodRow(r)'
  BY <1>1, <1>2 DEF GoodRow, Old
<1>4. Sane' /\ Numbered'
  BY <1>1 DEF QInv, Sane, Numbered
<1>5. UnderWay'
  BY <1>1, <1>3 DEF QInv, UnderWay, GoodAsked, GoodFlow, GoodBuffer, GoodPending, Old
<1>6. Own'
  BY <1>1, <1>2 DEF QInv, Own, OwnKind, AskedOnce, AskedOrSent, EndsOnce, Finished
<1>7. GoodReply'
  BY <1>1, ReplyKept
<1> QED BY <1>4, <1>5, <1>6, <1>7 DEF QInv

\* An answer to q: its rows show the present account, its last message ends it.
Answers(s, q) ==
    /\ \A i \in DOMAIN s :
          /\ s[i].query = q.id /\ s[i].kind = q.kind
          /\ \A r \in s[i].rows : r.query = q.id /\ r.version = version
          /\ s[i].error => s[i].last
    /\ \A i, j \in DOMAIN s : i < j => ~s[i].last

LEMMA AnswerShape ==
    ASSUME TypeOK, Answer
    PROVE  /\ Head(asked).kind \in AllKinds /\ Head(asked).id \in Nat
           /\ \E s \in Seq(Message) : flow' = flow \o s /\ Answers(s, Head(asked))
<1> DEFINE Q == [kind : AllKinds, id : Nat]
           q == Head(asked)
<1>1. asked \in Seq(Q) /\ asked # <<>>
  BY DEF TypeOK, Answer
<1>2. q \in Q
  <2> HIDE DEF Q
  <2> QED BY <1>1
<1>3. q.kind \in AllKinds /\ q.id \in Nat
  BY <1>2
<1>4. \/ flow' = flow \o Single(q, TRUE)
      \/ \E n \in Sizes[q.kind] :
            flow' = flow \o IF n = 0 THEN Single(q, FALSE) ELSE Rows(q, n)
  BY DEF Answer
<1> HIDE DEF q
<1>5. Single(q, TRUE) \in Seq(Message) /\ Answers(Single(q, TRUE), q)
  BY <1>3 DEF Single, Message, Answers
<1>6. Single(q, FALSE) \in Seq(Message) /\ Answers(Single(q, FALSE), q)
  BY <1>3 DEF Single, Message, Answers
<1>7. ASSUME NEW n \in Nat \ {0} PROVE Rows(q, n) \in Seq(Message) /\ Answers(Rows(q, n), q)
  <2>1. ASSUME NEW i \in 1..n
        PROVE  [kind |-> q.kind, query |-> q.id, error |-> FALSE, last |-> i = n,
                rows |-> {[query |-> q.id, part |-> i, of |-> n, version |-> version]}]
               \in Message
    BY <1>3, <1>7 DEF Message, Row, TypeOK
  <2>2. Rows(q, n) \in Seq(Message)
    BY <1>7, <2>1 DEF Rows
  <2>3. Answers(Rows(q, n), q)
    <3>1. DOMAIN Rows(q, n) = 1..n
      BY DEF Rows
    <3>2. ASSUME NEW i \in 1..n
          PROVE  /\ Rows(q, n)[i].query = q.id /\ Rows(q, n)[i].kind = q.kind
                 /\ \A r \in Rows(q, n)[i].rows : r.query = q.id /\ r.version = version
                 /\ ~Rows(q, n)[i].error
                 /\ Rows(q, n)[i].last => i = n
      <4> DEFINE ends == i = n
      <4>1. Rows(q, n)[i] =
               [kind |-> q.kind, query |-> q.id, error |-> FALSE, last |-> ends,
                rows |-> {[query |-> q.id, part |-> i, of |-> n, version |-> version]}]
        BY DEF Rows
      <4> HIDE DEF ends
      <4>2. /\ Rows(q, n)[i].query = q.id /\ Rows(q, n)[i].kind = q.kind
            /\ Rows(q, n)[i].error = FALSE /\ Rows(q, n)[i].last = ends
            /\ Rows(q, n)[i].rows = {[query |-> q.id, part |-> i, of |-> n, version |-> version]}
        BY <4>1
      <4>3. Rows(q, n)[i].last => ends
        BY <4>2
      <4>4. ends => i = n
        BY DEF ends
      <4> QED BY <4>2, <4>3, <4>4
    <3>3. \A i, j \in 1..n : i < j => i # n
      BY <1>7
    <3> QED BY <3>1, <3>2, <3>3 DEF Answers
  <2> QED BY <2>2, <2>3
<1>8. Sizes[q.kind] \subseteq Nat
  BY <1>3, QueryAssumption
<1>9. \E s \in Seq(Message) : flow' = flow \o s /\ Answers(s, q)
  BY <1>4, <1>5, <1>6, <1>7, <1>8
<1> QED BY <1>3, <1>9 DEF q

LEMMA CounterAnswers ==
    ASSUME QInv, TypeOK', Answer
    PROVE  QInv'
<1>1. PICK s \in Seq(Message) : flow' = flow \o s /\ Answers(s, Head(asked))
  BY AnswerShape DEF QInv
<1> DEFINE Q == [kind : AllKinds, id : Nat]
           q == Head(asked)
<1>2. flow \in Seq(Message) /\ asked \in Seq(Q) /\ asked # <<>> /\ asked' = Tail(asked)
      /\ UNCHANGED <<cmd, pending, buffer, reply, version, sent, overdue, cut, reused>>
  BY DEF QInv, TypeOK, Answer, queryVars, historyVars
<1> HIDE DEF Q
<1>3. \A i \in DOMAIN flow' :
         \/ i \in DOMAIN flow /\ flow'[i] = flow[i]
         \/ i - Len(flow) \in DOMAIN s /\ flow'[i] = s[i - Len(flow)]
            /\ (\A j \in DOMAIN flow : j < i)
  <2> HIDE DEF Message
  <2> QED BY <1>1, <1>2, ConcatElements
<1>4. /\ q = asked[1] /\ 1 \in DOMAIN asked
      /\ \A i \in DOMAIN asked' : i + 1 \in DOMAIN asked /\ asked'[i] = asked[i + 1] /\ i + 1 # 1
  BY <1>2, TailElements
<1> HIDE DEF q
<1>5. \A p : Mine(p)' <=> Mine(p)
  BY <1>2 DEF Mine
<1>6. \A r : GoodRow(r)' <=> GoodRow(r)
  BY <1>2, <1>5 DEF GoodRow, Old
<1>7. q.id <= sent /\ (q.id \in Old \/ Mine(q.id))
      /\ (Mine(q.id) => q.kind = cmd.kind)
  BY <1>4 DEF QInv, UnderWay, Own, Numbered, GoodAsked, OwnKind, Old
<1>8. Sane' /\ Numbered'
  BY <1>1, <1>2, <1>3, <1>4, <1>7 DEF QInv, Sane, Numbered, Answers, q
<1>9. GoodAsked' /\ GoodBuffer' /\ GoodPending'
  BY <1>2, <1>4, <1>5, <1>6 DEF QInv, UnderWay, GoodAsked, GoodBuffer, GoodPending, Old
<1>10. GoodFlow'
  <2>1. \A r : r.query = q.id /\ r.version = version => GoodRow(r)
    BY <1>7 DEF GoodRow, QInv, Sane, TypeOK, Old
  <2>2. ASSUME NEW i \in DOMAIN s
        PROVE  /\ \A r \in s[i].rows : r.query = s[i].query /\ GoodRow(r)
               /\ s[i].error => s[i].last
    BY <1>1, <2>1 DEF Answers, q
  <2> QED BY <1>3, <1>6, <2>2 DEF QInv, UnderWay, GoodFlow
<1>11. \A i \in DOMAIN s : s[i].query = q.id /\ s[i].kind = q.kind
  BY <1>1 DEF Answers, q
<1>12. OwnKind'
  BY <1>2, <1>3, <1>4, <1>5, <1>7, <1>11 DEF QInv, Own, OwnKind
<1>13. AskedOnce'
  <2>1. \A i, j \in DOMAIN asked' : i + 1 = j + 1 => i = j
    BY <1>2
  <2> QED BY <1>4, <1>5, <2>1 DEF QInv, Own, AskedOnce
<1>14. AskedOrSent'
  BY <1>3, <1>4, <1>5, <1>11 DEF QInv, Own, AskedOrSent, AskedOnce
<1>15. EndsOnce'
  <2>1. ASSUME NEW i \in DOMAIN flow', NEW j \in DOMAIN flow', i < j,
               Mine(flow'[i].query), Mine(flow'[j].query)
        PROVE  ~flow'[i].last
    <3>1. i \in Int /\ j \in Int /\ Len(flow) \in Int
      BY <1>1, <1>2, <2>1
    <3>2. CASE i \in DOMAIN flow /\ flow'[i] = flow[i]
      <4>1. j \in DOMAIN flow /\ flow'[j] = flow[j]
        BY <1>3, <1>4, <1>11, <2>1, <3>2 DEF QInv, Own, AskedOrSent
      <4> QED BY <2>1, <3>2, <4>1 DEF QInv, Own, EndsOnce
    <3>3. CASE i - Len(flow) \in DOMAIN s /\ flow'[i] = s[i - Len(flow)]
               /\ (\A k \in DOMAIN flow : k < i)
      <4>1. j \notin DOMAIN flow
        BY <2>1, <3>1, <3>3
      <4>2. j - Len(flow) \in DOMAIN s /\ i - Len(flow) < j - Len(flow)
        BY <1>3, <2>1, <3>1, <4>1
      <4> QED BY <1>1, <3>3, <4>2 DEF Answers
    <3> QED BY <1>3, <3>2, <3>3
  <2> QED BY <1>5, <2>1 DEF EndsOnce
<1>16. Finished'
  BY <1>2, <1>3, <1>4, <1>5, <1>11 DEF QInv, Own, Finished
<1>17. GoodReply'
  BY <1>2, ReplyKept
<1> QED BY <1>8, <1>9, <1>10, <1>12, <1>13, <1>14, <1>15, <1>16, <1>17
       DEF QInv, UnderWay, Own

\* The trader thread takes the first message: its rows go to the buffer, or it ends
\* the answer, empties the buffer and completes the query that is registered.
LEMMA TakeMessage ==
    ASSUME QInv, TypeOK', flow # <<>>, flow' = Tail(flow),
           UNCHANGED <<cmd, reply, asked, version, sent, overdue, cut>>,
           reused \subseteq reused',
           NEW kind \in AllKinds, NEW m, m = Head(flow), m.kind = kind,
           \A k \in AllKinds \ {kind} : buffer'[k] = buffer[k],
           buffer'[kind] \subseteq buffer[kind] \cup m.rows,
           kind = "account" => buffer'[kind] = {},
           \/ pending' = pending
           \/ /\ pending'.by = m.query /\ m.last /\ buffer'[kind] = {}
              /\ \A r \in pending'.rows : r \in buffer[kind] \cup m.rows \/ r.query \in Old'
    PROVE  QInv'
<1>1. /\ m = flow[1] /\ 1 \in DOMAIN flow
      /\ \A i \in DOMAIN flow' : i + 1 \in DOMAIN flow /\ flow'[i] = flow[i + 1] /\ 1 < i + 1
  <2>1. flow \in Seq(Message)
    BY DEF QInv, TypeOK
  <2> HIDE DEF Message
  <2> QED BY <2>1, TailElements
<1>2. \A q : Mine(q)' <=> Mine(q)
  BY DEF Mine
<1>3. \A r : GoodRow(r) => GoodRow(r)'
  BY <1>2 DEF GoodRow, Old
<1>4. /\ m.query <= sent /\ (Mine(m.query) => kind = cmd.kind)
      /\ \A r \in m.rows : r.query = m.query /\ GoodRow(r)
  BY <1>1 DEF QInv, UnderWay, Own, Numbered, GoodFlow, OwnKind
<1>5. \A k \in AllKinds : \A r \in buffer'[k] : r \in buffer[k] \/ (k = kind /\ r \in m.rows)
  OBVIOUS
<1>6. Sane' /\ Numbered'
  <2>1. \A k \in AllKinds : \A r \in buffer'[k] : r.query <= sent
    BY <1>4, <1>5 DEF QInv, Numbered
  <2>2. pending'.by <= sent
    BY <1>4 DEF QInv, Numbered
  <2>3. \A i \in DOMAIN flow' : flow'[i].query <= sent
    BY <1>1 DEF QInv, Numbered
  <2> QED BY <2>1, <2>2, <2>3 DEF QInv, Sane, Numbered
<1>7. GoodAsked' /\ GoodPending'
  <2>1. \A r \in pending'.rows : r \in pending.rows \/ r \in buffer[kind] \/ r \in m.rows
                             \/ r.query \in Old'
    OBVIOUS
  <2>2. \A r : r.query \in Old' => GoodRow(r)'
    BY DEF GoodRow, Old
  <2> QED BY <1>2, <1>3, <1>4, <2>1, <2>2 DEF QInv, UnderWay, GoodAsked, GoodPending,
             GoodBuffer, Old
<1>8. GoodFlow'
  BY <1>1, <1>3 DEF QInv, UnderWay, GoodFlow
<1>9. GoodBuffer'
  BY <1>3, <1>4, <1>5 DEF QInv, UnderWay, GoodBuffer, AllKinds
<1>10. OwnKind'
  BY <1>1, <1>2, <1>4, <1>5 DEF QInv, Own, OwnKind
<1>11. AskedOnce' /\ AskedOrSent'
  BY <1>1, <1>2 DEF QInv, Own, AskedOnce, AskedOrSent
<1>12. EndsOnce'
  <2>1. \A i, j \in DOMAIN flow' : i < j => i + 1 < j + 1
    OBVIOUS
  <2> QED BY <1>1, <1>2, <2>1 DEF QInv, Own, EndsOnce
<1>13. Finished'
  <2>1. CASE pending' = pending
    BY <1>1, <1>2, <1>4, <1>5, <2>1 DEF QInv, Own, Finished
  <2>2. CASE pending'.by = m.query /\ m.last /\ buffer'[kind] = {}
    <3>1. SUFFICES ASSUME Mine(m.query) PROVE Finished'
      BY <1>2, <2>2 DEF Finished
    <3>2. cmd.kind = kind /\ m.query = cmd.id /\ \A q : Mine(q) <=> q = cmd.id
      BY <1>4, <3>1 DEF Mine
    <3>3. \A i \in DOMAIN asked : asked[i].id # cmd.id
      BY <1>1, <3>1, <3>2 DEF QInv, Own, AskedOrSent
    <3>4. \A i \in DOMAIN flow' : flow'[i].query # cmd.id
      BY <1>1, <2>2, <3>1, <3>2 DEF QInv, Own, EndsOnce
    <3>5. \A k \in AllKinds : \A r \in buffer'[k] : r.query # cmd.id
      BY <2>2, <3>2 DEF QInv, Own, OwnKind
    <3> QED BY <3>3, <3>4, <3>5 DEF Finished
  <2> QED BY <2>1, <2>2
<1>14. GoodReply'
  BY ReplyKept
<1> QED BY <1>6, <1>7, <1>8, <1>9, <1>10, <1>11, <1>12, <1>13, <1>14 DEF QInv, UnderWay, Own

LEMMA SpiAccount ==
    ASSUME QInv, TypeOK', OnRspQryTradingAccount
    PROVE  QInv'
<1> DEFINE m == Head(flow)
           old == cache["account"].rows
<1>1. /\ flow # <<>> /\ flow' = Tail(flow) /\ m.kind = "account" /\ "account" \in AllKinds
      /\ UNCHANGED <<cmd, buffer, reply, asked, version, sent, overdue, cut>>
      /\ reused' = reused \cup Reused(m)
  BY DEF OnRspQryTradingAccount, NextIs, AllKinds
<1>2. buffer["account"] = {} /\ reused \subseteq reused'
  BY <1>1 DEF QInv, UnderWay, GoodBuffer
<1>3. m.error => m.last
  <2>1. flow \in Seq(Message)
    BY DEF QInv, TypeOK
  <2>2. Head(flow) = flow[1] /\ 1 \in DOMAIN flow
    <3> HIDE DEF Message
    <3> QED BY <1>1, <2>1, TailElements
  <2> QED BY <2>2 DEF QInv, UnderWay, GoodFlow
<1>4. \/ pending' = pending
      \/ /\ pending'.by = m.query /\ m.last
         /\ \A r \in pending'.rows : r \in m.rows \/ r.query \in Old'
  <2>1. CASE m.error
    BY <1>3, <2>1 DEF OnRspQryTradingAccount, Complete
  <2>2. CASE ~m.error /\ ~m.last
    BY <2>2 DEF OnRspQryTradingAccount
  <2>3. CASE ~m.error /\ m.last
    <3>1. Complete("account", "ok", m.query, cache'["account"].rows)
      BY <2>3 DEF OnRspQryTradingAccount
    <3>2. \A r \in cache'["account"].rows : r \in m.rows \/ r.query \in Old'
      <4>1. CASE m.rows = {}
        <5>1. cache' = cache
          BY <2>3, <4>1 DEF OnRspQryTradingAccount
        <5>2. Reused(m) = {r.query : r \in old}
          BY <2>3, <4>1 DEF Reused
        <5>3. \A r \in old : r.query \in reused'
          BY <1>1, <5>2
        <5> QED BY <5>1, <5>3 DEF Old
      <4>2. CASE m.rows # {}
        <5>1. cache' = [cache EXCEPT !["account"] = Item(m.rows)]
              /\ cache \in [AllKinds -> [state : {"none", "put"}, rows : SUBSET Row]]
          BY <2>3, <4>2 DEF OnRspQryTradingAccount, QInv, TypeOK
        <5> HIDE DEF m
        <5> QED BY <1>1, <5>1 DEF Item
      <4> QED BY <4>1, <4>2
    <3> HIDE DEF m
    <3> QED BY <2>3, <3>1, <3>2 DEF Complete
  <2> QED BY <2>1, <2>2, <2>3
<1> HIDE DEF m, old
<1>5. m = Head(flow)
  BY DEF m
<1> QED BY <1>1, <1>2, <1>4, <1>5, TakeMessage

LEMMA SpiRows ==
    ASSUME QInv, TypeOK', NEW kind \in {"positions", "orders"}, OnRspRows(kind)
    PROVE  QInv'
<1> DEFINE m == Head(flow)
           rows == buffer[kind] \cup m.rows
<1>1. /\ flow # <<>> /\ flow' = Tail(flow) /\ m.kind = kind
      /\ kind \in AllKinds /\ kind # "account"
      /\ UNCHANGED <<cmd, reply, asked, version, sent, overdue, cut, reused>>
  BY DEF OnRspRows, NextIs, historyVars, AllKinds
<1>2. buffer \in [AllKinds -> SUBSET Row]
  BY DEF QInv, TypeOK
<1>3. m.error => m.last
  <2>1. flow \in Seq(Message)
    BY DEF QInv, TypeOK
  <2>2. Head(flow) = flow[1] /\ 1 \in DOMAIN flow
    <3> HIDE DEF Message
    <3> QED BY <1>1, <2>1, TailElements
  <2> QED BY <2>2 DEF QInv, UnderWay, GoodFlow
<1>4. \/ /\ buffer' = [buffer EXCEPT ![kind] = {}] /\ m.last
         /\ \/ Complete(kind, "error", m.query, {})
            \/ Complete(kind, "ok", m.query, rows)
      \/ buffer' = [buffer EXCEPT ![kind] = rows] /\ UNCHANGED pending
  BY <1>3 DEF OnRspRows
<1> HIDE DEF m, rows
<1>5. /\ \A k \in AllKinds \ {kind} : buffer'[k] = buffer[k]
      /\ buffer'[kind] \subseteq rows
      /\ \/ pending' = pending
         \/ /\ pending'.by = m.query /\ m.last /\ buffer'[kind] = {}
            /\ \A r \in pending'.rows : r \in rows
  BY <1>1, <1>2, <1>4 DEF Complete
<1>6. m = Head(flow) /\ rows = buffer[kind] \cup m.rows
  BY DEF m, rows
<1>7. reused \subseteq reused'
  BY <1>1
<1> QED BY <1>1, <1>5, <1>6, <1>7, TakeMessage

LEMMA StepQuery == TypeOK' /\ QInv /\ [Next]_vars => QInv'
<1> SUFFICES ASSUME TypeOK', QInv, [Next]_vars PROVE QInv'
  OBVIOUS
<1>1. CASE OnRspSettlementInfoConfirm \/ AccountChanges \/ UNCHANGED vars
  <2>1. UNCHANGED <<cmd, pending, buffer, reply, asked, flow, sent, overdue, cut, reused>>
    BY <1>1 DEF OnRspSettlementInfoConfirm, AccountChanges, vars, queryVars, counterVars,
                historyVars
  <2>2. version' >= version
    BY <1>1 DEF OnRspSettlementInfoConfirm, AccountChanges, vars, counterVars, QInv, TypeOK
  <2> QED BY <2>1, <2>2, Elsewhere
<1>2. CASE Command \/ CommandStep
  BY <1>2, QuietCommand, SendQuery, EndQuery DEF Command, CommandStep
<1>3. CASE TraderStep
  BY <1>3, SpiAccount, SpiRows DEF TraderStep, OnRspQryInvestorPosition, OnRspQryOrder
<1> QED BY <1>1, <1>2, <1>3, CounterAnswers, Disconnected DEF Next

LEMMA QueriesHold == Spec => []QInv
<1>1. QInv /\ [Next]_vars => QInv'
  BY StepQuery, StepTyped DEF QInv
<1> QED BY InitQuery, <1>1, PTL DEF Spec

\* Whatever is lost, late or repeated, a query that was sent returns its own answer,
\* or rows of a query that had returned without them, was cut off, or whose account an
\* answer without one gave again.
THEOREM AnswersAreOwnOrLate == Spec => []AnswerIsOwnOrLate
<1>1. QInv => AnswerIsOwnOrLate
  BY DEF QInv, GoodReply
<1> QED BY QueriesHold, <1>1, PTL

\* With the same exceptions a forced query returns nothing older than itself.
THEOREM ForcedAnswersAreFresh == Spec => []ForcedIsFresh
<1>1. QInv => ForcedIsFresh
  BY DEF QInv, GoodReply
<1> QED BY QueriesHold, <1>1, PTL
-----------------------------------------------------------------------------
(***************************************************************************)
(* The snapshots are never torn: what the cache holds of an answer is the  *)
(* whole answer, for answers of any size, unless a lost connection left a  *)
(* part of it in the buffers.                                              *)
(***************************************************************************)

\* CTP has at most one account for the investor, and answers with one row or none.
OneAccountRow == Sizes["account"] \subseteq {0, 1}

\* A message carries one numbered row, or none; the last row ends the answer.
Shaped(m) ==
    \/ m.rows = {} /\ m.last
    \/ \E r \in Row : /\ m.rows = {r} /\ r.query = m.query /\ ~m.error
                      /\ r.part \in 1..r.of /\ (m.last <=> r.part = r.of)
                      /\ m.kind = "account" => r.of = 1

Starts(m) == \A r \in m.rows : r.part = 1

\* n is the message after m in the same answer.
Continues(m, n) ==
    n.kind = m.kind /\ \A r \in m.rows : n.rows = {[r EXCEPT !.part = r.part + 1]}

\* Answers follow each other row by row, and each is there to its end.
ChainOf(s) ==
    \A i \in DOMAIN s :
        /\ Shaped(s[i])
        /\ ~s[i].last => i + 1 \in DOMAIN s /\ Continues(s[i], s[i + 1])
        /\ s[i].last /\ i + 1 \in DOMAIN s => Starts(s[i + 1])

\* The rows of a buffer that no lost connection left there, and the first n rows of
\* the answer of row r.
Fresh(k) == {r \in buffer[k] : r.query \notin cut}
Parts(r, n) == {[r EXCEPT !.part = i] : i \in 1..n}

\* The fresh rows are those of the answer under way that came before its next one.
Gathered ==
    \A k \in AllKinds :
        /\ ~NextIs(k) => Fresh(k) = {}
        /\ NextIs(k) => /\ Head(flow).rows = {} => Fresh(k) = {}
                        /\ \A r \in Head(flow).rows : Fresh(k) = Parts(r, r.part - 1)

\* No connection was lost during an answer that is asked for or under way.
Uncut ==
    /\ \A q \in cut : q <= sent
    /\ \A i \in DOMAIN asked : asked[i].id \notin cut
    /\ \A i \in DOMAIN flow : flow[i].query \notin cut

SInv == ChainOf(flow) /\ Gathered /\ Uncut /\ SnapshotIsWhole
-----------------------------------------------------------------------------
LEMMA InitSnapshot == Init => SInv
<1> SUFFICES ASSUME Init PROVE SInv
  OBVIOUS
<1>1. ChainOf(flow) /\ Gathered /\ Uncut
  BY DEF Init, ChainOf, Gathered, Uncut, NextIs, Fresh, AllKinds
<1>2. SnapshotIsWhole
  BY DEF Init, SnapshotIsWhole, Whole, Empty, AllKinds
<1> QED BY <1>1, <1>2 DEF SInv

LEMMA FlowTyped ==
    ASSUME TypeOK
    PROVE  /\ flow \in Seq(Message)
           /\ flow # <<>> => Head(flow) = flow[1] /\ 1 \in DOMAIN flow
<1>1. flow \in Seq(Message)
  BY DEF TypeOK
<1> HIDE DEF Message
<1> QED BY <1>1, TailElements

LEMMA PartOfRow == \A r \in Row, i \in Nat : [r EXCEPT !.part = i].query = r.query
BY DEF Row

\* What is whole has the rows of one query.
LEMMA OneQuery ==
    ASSUME NEW rows \in SUBSET Row, Whole(rows)
    PROVE  \A r, s \in rows : r.query = s.query
<1> SUFFICES ASSUME NEW r \in rows, NEW s \in rows PROVE r.query = s.query
  OBVIOUS
<1>1. rows = {[r EXCEPT !.part = i] : i \in 1..r.of}
  BY DEF Whole
<1>2. PICK i \in 1..r.of : s = [r EXCEPT !.part = i]
  BY <1>1
<1> QED BY <1>2 DEF Row

\* A step of the command thread or of the account.
LEMMA Aside ==
    ASSUME QInv, SInv, UNCHANGED <<flow, buffer, cache, cut>>, sent' \in Nat, sent' >= sent,
           \A i \in DOMAIN asked' :
              asked'[i].id = sent + 1 \/ (i \in DOMAIN asked /\ asked'[i] = asked[i])
    PROVE  SInv'
<1>1. ChainOf(flow)' /\ SnapshotIsWhole'
  BY DEF SInv, ChainOf, SnapshotIsWhole, Whole
<1>2. Gathered'
  BY DEF SInv, Gathered, NextIs, Fresh
<1>3. Uncut'
  <2>1. sent \in Nat /\ cut \in SUBSET Nat
    BY DEF QInv, TypeOK
  <2>2. sent + 1 \notin cut
    BY <2>1 DEF SInv, Uncut
  <2>3. \A q \in cut : q <= sent'
    BY <2>1 DEF SInv, Uncut
  <2> QED BY <2>2, <2>3 DEF SInv, Uncut
<1> QED BY <1>1, <1>2, <1>3 DEF SInv

\* A lost connection takes everything fresh with it.
LEMMA CutOff ==
    ASSUME QInv, SInv, OnFrontDisconnected
    PROVE  SInv'
<1>1. /\ UNCHANGED <<buffer, cache, sent>> /\ asked' = <<>> /\ flow' = <<>>
      /\ cut' = cut \cup {r.query : r \in buffer["positions"] \cup buffer["orders"]}
  BY DEF OnFrontDisconnected
<1>2. ChainOf(flow)'
  BY <1>1 DEF ChainOf
<1>3. Gathered'
  <2>1. \A k \in AllKinds : \A r \in buffer[k] : r.query \in cut'
    BY <1>1 DEF QInv, UnderWay, GoodBuffer, AllKinds
  <2> QED BY <1>1, <2>1 DEF Gathered, NextIs, Fresh
<1>4. Uncut'
  BY <1>1 DEF SInv, Uncut, QInv, Numbered, AllKinds
<1>5. SnapshotIsWhole'
  <2> SUFFICES ASSUME NEW k \in AllKinds PROVE Whole({r \in cache[k].rows : r.query \notin cut'})
    BY <1>1 DEF SnapshotIsWhole
  <2> DEFINE old == {r \in cache[k].rows : r.query \notin cut}
             new == {r \in cache[k].rows : r.query \notin cut'}
  <2>1. old \in SUBSET Row /\ Whole(old)
    BY DEF SInv, SnapshotIsWhole, QInv, TypeOK
  <2>2. new = {r \in old : r.query \notin cut'}
    BY <1>1
  <2>3. \A r, s \in old : r.query = s.query
    <3> HIDE DEF old
    <3> QED BY <2>1, OneQuery
  <2> HIDE DEF old, new
  <2>4. new = {} \/ new = old
    BY <2>2, <2>3
  <2>5. Whole(new)
    BY <2>1, <2>4 DEF Whole
  <2> QED BY <2>5 DEF new
<1> QED BY <1>2, <1>3, <1>4, <1>5 DEF SInv
-----------------------------------------------------------------------------
LEMMA RowsShape ==
    ASSUME TypeOK, NEW q \in [kind : AllKinds, id : Nat], NEW n \in Nat \ {0},
           q.kind = "account" => n = 1
    PROVE  /\ Rows(q, n) \in Seq(Message) /\ Rows(q, n) # <<>>
           /\ ChainOf(Rows(q, n)) /\ Starts(Rows(q, n)[1])
           /\ \A i \in DOMAIN Rows(q, n) : Rows(q, n)[i].query = q.id
<1> DEFINE row(i)  == [query |-> q.id, part |-> i, of |-> n, version |-> version]
           ends(i) == i = n
           s == Rows(q, n)
<1>1. \A i \in 1..n : row(i) \in Row
  BY DEF Row, TypeOK
<1>2. \A i \in 1..n : s[i] = [kind |-> q.kind, query |-> q.id, error |-> FALSE,
                              last |-> ends(i), rows |-> {row(i)}]
  BY DEF Rows
<1>3. DOMAIN s = 1..n
  BY DEF Rows
<1>4. s \in Seq(Message) /\ s # <<>>
  <2>1. \A i \in 1..n : ends(i) \in BOOLEAN
    OBVIOUS
  <2>2. \A i \in 1..n : [kind |-> q.kind, query |-> q.id, error |-> FALSE,
                        last |-> ends(i), rows |-> {row(i)}] \in Message
    <3> HIDE DEF row, ends
    <3> QED BY <1>1, <2>1 DEF Message
  <2> QED BY <2>2 DEF Rows
<1>5. \A i \in 1..n : row(i).query = q.id /\ row(i).part = i /\ row(i).of = n
                     /\ [row(i) EXCEPT !.part = row(i).part + 1] = row(i + 1)
  OBVIOUS
<1>6. ASSUME NEW i \in 1..n
      PROVE  /\ s[i].kind = q.kind /\ s[i].query = q.id /\ ~s[i].error
             /\ (s[i].last <=> i = n) /\ s[i].rows = {row(i)}
  <2> DEFINE end == i = n
  <2>1. s[i] = [kind |-> q.kind, query |-> q.id, error |-> FALSE,
                last |-> end, rows |-> {row(i)}]
    BY <1>2
  <2> HIDE DEF end, row, s
  <2>2. /\ s[i].kind = q.kind /\ s[i].query = q.id /\ s[i].error = FALSE
        /\ s[i].last = end /\ s[i].rows = {row(i)}
    BY <2>1
  <2>3. s[i].last <=> end
    BY <2>2
  <2> QED BY <2>2, <2>3 DEF end
<1> HIDE DEF row, s
<1>7. ASSUME NEW i \in 1..n PROVE Shaped(s[i])
  <2>1. s[i].last <=> row(i).part = row(i).of
    <3>1. row(i).part = i /\ row(i).of = n
      BY <1>5
    <3>2. s[i].last <=> i = n
      BY <1>6
    <3> QED BY <3>1, <3>2
  <2>2. row(i).part \in 1..row(i).of /\ (s[i].kind = "account" => row(i).of = 1)
    BY <1>5, <1>6
  <2>3. row(i) \in Row /\ row(i).query = s[i].query
    BY <1>1, <1>5, <1>6
  <2> QED BY <1>6, <2>1, <2>2, <2>3 DEF Shaped
<1>8. ASSUME NEW i \in 1..n, ~s[i].last PROVE i + 1 \in 1..n /\ Continues(s[i], s[i + 1])
  <2>1. i + 1 \in 1..n
    BY <1>6, <1>8
  <2>2. s[i].rows = {row(i)} /\ s[i + 1].rows = {row(i + 1)} /\ s[i + 1].kind = s[i].kind
    BY <1>6, <2>1
  <2> QED BY <1>5, <2>1, <2>2 DEF Continues
<1>9. \A i \in 1..n : s[i].last => i + 1 \notin 1..n
  BY <1>6
<1>10. ChainOf(s)
  BY <1>3, <1>7, <1>8, <1>9 DEF ChainOf
<1>11. Starts(s[1])
  <2>1. 1 \in 1..n
    OBVIOUS
  <2>2. s[1].rows = {row(1)} /\ row(1).part = 1
    BY <1>5, <1>6, <2>1
  <2> QED BY <2>2 DEF Starts
<1>12. \A i \in 1..n : s[i].query = q.id
  BY <1>6
<1> QED BY <1>3, <1>4, <1>10, <1>11, <1>12 DEF s

LEMMA SingleShape ==
    ASSUME NEW q \in [kind : AllKinds, id : Nat], NEW error \in BOOLEAN
    PROVE  /\ Single(q, error) \in Seq(Message) /\ Single(q, error) # <<>>
           /\ ChainOf(Single(q, error)) /\ Starts(Single(q, error)[1])
           /\ \A i \in DOMAIN Single(q, error) : Single(q, error)[i].query = q.id
BY DEF Single, Message, ChainOf, Shaped, Starts

LEMMA AnswerIsChain ==
    ASSUME OneAccountRow, TypeOK, Answer
    PROVE  \E s \in Seq(Message) : /\ flow' = flow \o s /\ s # <<>>
                                  /\ ChainOf(s) /\ Starts(s[1])
                                  /\ \A i \in DOMAIN s : s[i].query = Head(asked).id
<1> DEFINE Q == [kind : AllKinds, id : Nat]
           q == Head(asked)
<1>1. asked \in Seq(Q) /\ asked # <<>>
  BY DEF TypeOK, Answer
<1>2. q \in Q
  <2> HIDE DEF Q
  <2> QED BY <1>1
<1>3. \/ flow' = flow \o Single(q, TRUE)
      \/ \E n \in Sizes[q.kind] :
            flow' = flow \o IF n = 0 THEN Single(q, FALSE) ELSE Rows(q, n)
  BY DEF Answer
<1> HIDE DEF q
<1>4. CASE flow' = flow \o Single(q, TRUE)
  BY <1>2, <1>4, SingleShape DEF q
<1>5. ASSUME NEW n \in Sizes[q.kind],
             flow' = flow \o IF n = 0 THEN Single(q, FALSE) ELSE Rows(q, n)
      PROVE  \E s \in Seq(Message) : /\ flow' = flow \o s /\ s # <<>>
                                    /\ ChainOf(s) /\ Starts(s[1])
                                    /\ \A i \in DOMAIN s : s[i].query = q.id
  <2>1. n \in Nat /\ (q.kind = "account" => n \in {0, 1})
    BY <1>2, <1>5, QueryAssumption DEF OneAccountRow
  <2>2. CASE n = 0
    BY <1>2, <1>5, <2>2, SingleShape
  <2>3. CASE n # 0
    BY <1>2, <1>5, <2>1, <2>3, RowsShape
  <2> QED BY <2>2, <2>3
<1> QED BY <1>3, <1>4, <1>5 DEF q

LEMMA Concat ==
    ASSUME NEW S, NEW s \in Seq(S), NEW t \in Seq(S), t # <<>>
    PROVE  /\ \A i \in DOMAIN s : i \in DOMAIN (s \o t) /\ (s \o t)[i] = s[i]
           /\ \A i \in DOMAIN t : /\ Len(s) + i \in DOMAIN (s \o t)
                                  /\ (s \o t)[Len(s) + i] = t[i]
           /\ \A i \in DOMAIN (s \o t) :
                 i \in DOMAIN s \/ \E j \in DOMAIN t : i = Len(s) + j
           /\ s # <<>> => Head(s \o t) = Head(s)
           /\ s = <<>> => Head(s \o t) = t[1]
           /\ s \o t # <<>> /\ 1 \in DOMAIN t
           /\ Len(s) \in Nat /\ DOMAIN s = 1..Len(s) /\ DOMAIN t = 1..Len(t) /\ Len(t) \in Nat
<1>1. /\ Len(s) \in Nat /\ DOMAIN s = 1..Len(s) /\ DOMAIN t = 1..Len(t) /\ Len(t) \in Nat
      /\ 1 \in DOMAIN t
  OBVIOUS
<1>2. \A i \in DOMAIN s : i \in DOMAIN (s \o t) /\ (s \o t)[i] = s[i]
  OBVIOUS
<1>3. ASSUME NEW i \in DOMAIN t
      PROVE Len(s) + i \in DOMAIN (s \o t) /\ (s \o t)[Len(s) + i] = t[i]
  <2>1. i \in 1..Len(t) /\ Len(s \o t) = Len(s) + Len(t) /\ DOMAIN (s \o t) = 1..Len(s \o t)
    BY <1>1
  <2>2. Len(s) + i \in 1..(Len(s) + Len(t)) /\ Len(s) + i > Len(s) /\ (Len(s) + i) - Len(s) = i
    BY <1>1, <2>1
  <2>3. (s \o t)[Len(s) + i] = t[(Len(s) + i) - Len(s)]
    BY <2>1, <2>2
  <2> QED BY <2>1, <2>2, <2>3
<1>4. ASSUME NEW i \in DOMAIN (s \o t), i \notin DOMAIN s
      PROVE \E j \in DOMAIN t : i = Len(s) + j
  <2>1. i - Len(s) \in 1..Len(t) /\ i = Len(s) + (i - Len(s))
    BY <1>1, <1>4
  <2> QED BY <1>1, <2>1
<1>5. s \o t # <<>> /\ Head(s \o t) = (s \o t)[1]
  BY <1>1, <1>3
<1>6. s # <<>> => Head(s) = s[1] /\ 1 \in DOMAIN s
  OBVIOUS
<1>7. s = <<>> => Len(s) = 0
  OBVIOUS
<1>8. s = <<>> => Len(s) + 1 = 1
  BY <1>7
<1> QED BY <1>1, <1>2, <1>3, <1>4, <1>5, <1>6, <1>8

\* A new answer starts where the one before it ends.
LEMMA Appended ==
    ASSUME OneAccountRow, QInv, SInv, Answer
    PROVE  SInv'
<1>1. PICK s \in Seq(Message) : /\ flow' = flow \o s /\ s # <<>>
                                /\ ChainOf(s) /\ Starts(s[1])
                                /\ \A i \in DOMAIN s : s[i].query = Head(asked).id
  BY AnswerIsChain DEF QInv
<1> DEFINE Q == [kind : AllKinds, id : Nat]
<1>2. flow \in Seq(Message) /\ asked \in Seq(Q) /\ asked # <<>> /\ asked' = Tail(asked)
      /\ UNCHANGED <<buffer, cache, sent, cut>>
  BY DEF QInv, TypeOK, Answer, queryVars, historyVars
<1> HIDE DEF Q
<1>3. /\ \A i \in DOMAIN flow : i \in DOMAIN flow' /\ flow'[i] = flow[i]
      /\ \A i \in DOMAIN s : Len(flow) + i \in DOMAIN flow' /\ flow'[Len(flow) + i] = s[i]
      /\ \A i \in DOMAIN flow' : i \in DOMAIN flow \/ \E j \in DOMAIN s : i = Len(flow) + j
      /\ flow # <<>> => Head(flow') = Head(flow)
      /\ flow = <<>> => Head(flow') = s[1]
      /\ flow' # <<>> /\ 1 \in DOMAIN s
      /\ Len(flow) \in Nat /\ DOMAIN flow = 1..Len(flow) /\ DOMAIN s = 1..Len(s) /\ Len(s) \in Nat
  <2>1. s # <<>> /\ s \in Seq(Message)
    BY <1>1
  <2> HIDE DEF Message
  <2>2. /\ \A i \in DOMAIN flow : i \in DOMAIN (flow \o s) /\ (flow \o s)[i] = flow[i]
        /\ \A i \in DOMAIN s : Len(flow) + i \in DOMAIN (flow \o s) /\ (flow \o s)[Len(flow) + i] = s[i]
        /\ \A i \in DOMAIN (flow \o s) : i \in DOMAIN flow \/ \E j \in DOMAIN s : i = Len(flow) + j
        /\ flow # <<>> => Head(flow \o s) = Head(flow)
        /\ flow = <<>> => Head(flow \o s) = s[1]
        /\ flow \o s # <<>> /\ 1 \in DOMAIN s
        /\ Len(flow) \in Nat /\ DOMAIN flow = 1..Len(flow) /\ DOMAIN s = 1..Len(s) /\ Len(s) \in Nat
    BY <1>2, <2>1, Concat
  <2> QED BY <1>1, <2>2
<1>4. Head(asked) = asked[1] /\ 1 \in DOMAIN asked
      /\ \A i \in DOMAIN asked' : i + 1 \in DOMAIN asked /\ asked'[i] = asked[i + 1]
  BY <1>2, TailElements
<1>5. ChainOf(flow')
  <2>1. ASSUME NEW i \in DOMAIN flow
        PROVE  /\ Shaped(flow'[i])
               /\ ~flow'[i].last => i + 1 \in DOMAIN flow' /\ Continues(flow'[i], flow'[i + 1])
               /\ flow'[i].last /\ i + 1 \in DOMAIN flow' => Starts(flow'[i + 1])
    BY <1>1, <1>3 DEF SInv, ChainOf
  <2>2. ASSUME NEW j \in DOMAIN s
        PROVE  LET i == Len(flow) + j
               IN  /\ Shaped(flow'[i])
                   /\ ~flow'[i].last => i + 1 \in DOMAIN flow'
                                         /\ Continues(flow'[i], flow'[i + 1])
                   /\ flow'[i].last /\ i + 1 \in DOMAIN flow' => Starts(flow'[i + 1])
    <3>1. (Len(flow) + j) + 1 = Len(flow) + (j + 1) /\ Len(flow) + (j + 1) \notin DOMAIN flow
      BY <1>3
    <3>2. Len(flow) + (j + 1) \in DOMAIN flow' => j + 1 \in DOMAIN s
      BY <1>3, <3>1
    <3>3. /\ Shaped(s[j])
          /\ ~s[j].last => j + 1 \in DOMAIN s /\ Continues(s[j], s[j + 1])
          /\ s[j].last /\ j + 1 \in DOMAIN s => Starts(s[j + 1])
      BY <1>1 DEF ChainOf
    <3> QED BY <1>3, <3>1, <3>2, <3>3
  <2> QED BY <1>3, <2>1, <2>2 DEF ChainOf
<1>6. Gathered'
  <2>1. CASE flow # <<>>
    BY <1>2, <1>3, <2>1 DEF SInv, Gathered, NextIs, Fresh
  <2>2. CASE flow = <<>>
    <3>1. \A k \in AllKinds : Fresh(k)' = {}
      BY <1>2, <2>2 DEF SInv, Gathered, NextIs, Fresh
    <3>2. \A r \in s[1].rows : Parts(r, r.part - 1) = {}
      BY <1>1 DEF Starts, Parts
    <3> QED BY <1>3, <2>2, <3>1, <3>2 DEF Gathered, Parts
  <2> QED BY <2>1, <2>2
<1>7. Uncut'
  <2>1. Head(asked).id \notin cut /\ \A i \in DOMAIN asked' : asked'[i].id \notin cut
    BY <1>4 DEF SInv, Uncut
  <2>2. \A j \in DOMAIN s : flow'[Len(flow) + j].query \notin cut
    BY <1>1, <1>3, <2>1
  <2>3. \A i \in DOMAIN flow : flow'[i].query \notin cut
    BY <1>3 DEF SInv, Uncut
  <2>4. \A i \in DOMAIN flow' : flow'[i].query \notin cut
    BY <1>3, <2>2, <2>3
  <2> QED BY <1>2, <2>1, <2>4 DEF SInv, Uncut
<1>8. SnapshotIsWhole'
  BY <1>2 DEF SInv, SnapshotIsWhole, Whole
<1> QED BY <1>5, <1>6, <1>7, <1>8 DEF SInv
-----------------------------------------------------------------------------
\* The first message leaves the flow: what follows it is its answer's next part or
\* the start of another answer.
LEMMA Advance ==
    ASSUME TypeOK, ChainOf(flow), flow # <<>>, flow' = Tail(flow)
    PROVE  /\ ChainOf(flow') /\ Shaped(Head(flow))
           /\ ~Head(flow).last => flow' # <<>> /\ Continues(Head(flow), Head(flow'))
           /\ Head(flow).last /\ flow' # <<>> => Starts(Head(flow'))
<1>1. flow \in Seq(Message) /\ flow' \in Seq(Message)
  <2>1. flow \in Seq(Message)
    BY DEF TypeOK
  <2> HIDE DEF Message
  <2> QED BY <2>1
<1>2. /\ Head(flow) = flow[1] /\ 1 \in DOMAIN flow
      /\ \A i \in Nat \ {0} : i \in DOMAIN flow' <=> i + 1 \in DOMAIN flow
      /\ \A i \in DOMAIN flow' : flow'[i] = flow[i + 1] /\ i \in Nat \ {0}
      /\ flow' # <<>> => Head(flow') = flow'[1]
      /\ flow' # <<>> <=> 1 \in DOMAIN flow'
  <2> HIDE DEF Message
  <2>1. Head(flow) = flow[1] /\ 1 \in DOMAIN flow
    BY <1>1, TailElements
  <2>2. /\ \A i \in Nat \ {0} : i \in DOMAIN flow' <=> i + 1 \in DOMAIN flow
        /\ \A i \in DOMAIN flow' : flow'[i] = flow[i + 1] /\ i \in Nat \ {0}
    BY <1>1
  <2>3. flow' # <<>> => Head(flow') = flow'[1] /\ 1 \in DOMAIN flow'
    BY <1>1, TailElements
  <2>4. flow' = <<>> => 1 \notin DOMAIN flow'
    <3>1. 1 \notin DOMAIN <<>>
      OBVIOUS
    <3> QED BY <3>1
  <2> QED BY <2>1, <2>2, <2>3, <2>4
<1>3. ChainOf(flow')
  <2> SUFFICES ASSUME NEW i \in DOMAIN flow'
               PROVE  /\ Shaped(flow'[i])
                      /\ ~flow'[i].last => /\ i + 1 \in DOMAIN flow'
                                           /\ Continues(flow'[i], flow'[i + 1])
                      /\ flow'[i].last /\ i + 1 \in DOMAIN flow' => Starts(flow'[i + 1])
    BY DEF ChainOf
  <2>1. i + 1 \in DOMAIN flow /\ flow'[i] = flow[i + 1]
    BY <1>2
  <2>2. i + 1 \in DOMAIN flow' => /\ (i + 1) + 1 \in DOMAIN flow
                                  /\ flow'[i + 1] = flow[(i + 1) + 1]
    BY <1>2
  <2> QED BY <1>2, <2>1, <2>2 DEF ChainOf
<1> QED BY <1>2, <1>3 DEF ChainOf

\* A message that ends an answer leaves nothing fresh in the buffers.
LEMMA Ended ==
    ASSUME ChainOf(flow), TypeOK, flow # <<>>, flow' = Tail(flow), Head(flow).last,
           \A k \in AllKinds : Fresh(k)' = {}
    PROVE  Gathered'
<1>1. flow' # <<>> => Starts(Head(flow'))
  BY Advance
<1>2. \A r \in Row : r.part = 1 => Parts(r, r.part - 1) = {}
  BY DEF Parts
<1>3. \A k \in AllKinds : NextIs(k)' => \A r \in Head(flow').rows : Parts(r, r.part - 1) = {}
  BY <1>1 DEF NextIs, Starts, Parts
<1> QED BY <1>3 DEF Gathered

LEMMA UncutTail ==
    ASSUME TypeOK, Uncut, flow # <<>>, flow' = Tail(flow), UNCHANGED <<asked, sent, cut>>
    PROVE  Uncut' /\ Head(flow).query \notin cut
<1>1. flow \in Seq(Message)
  BY DEF TypeOK
<1>2. /\ Head(flow) = flow[1] /\ 1 \in DOMAIN flow
      /\ \A i \in DOMAIN flow' : i + 1 \in DOMAIN flow /\ flow'[i] = flow[i + 1]
  <2> HIDE DEF Message
  <2> QED BY <1>1, TailElements
<1> QED BY <1>2 DEF Uncut

\* The one row of the account is a whole answer.
LEMMA TakeAccount ==
    ASSUME QInv, SInv, OnRspQryTradingAccount
    PROVE  SInv'
<1> DEFINE m == Head(flow)
<1>1. /\ flow # <<>> /\ flow' = Tail(flow) /\ m.kind = "account"
      /\ UNCHANGED <<buffer, asked, sent, cut>> /\ TypeOK /\ "account" \in AllKinds
      /\ NextIs("account") /\ \A k \in AllKinds : NextIs(k) => k = "account"
  BY DEF OnRspQryTradingAccount, NextIs, historyVars, QInv, AllKinds
<1>2. ChainOf(flow') /\ Shaped(m)
  BY <1>1, Advance DEF SInv
<1>3. Uncut' /\ m.query \notin cut
  BY <1>1, UncutTail DEF SInv
<1>4. CASE m.rows = {} /\ m.last
  <2>1. \A k \in AllKinds : Fresh(k)' = {}
    BY <1>1, <1>4 DEF SInv, Gathered, Fresh
  <2>2. Gathered'
    BY <1>1, <1>4, <2>1, Ended DEF SInv
  <2>3. cache' = cache
    BY <1>4 DEF OnRspQryTradingAccount
  <2>4. SnapshotIsWhole'
    BY <1>1, <2>3 DEF SInv, SnapshotIsWhole, Whole
  <2> QED BY <1>2, <1>3, <2>2, <2>4 DEF SInv
<1>5. ASSUME NEW r \in Row, m.rows = {r}, r.query = m.query, ~m.error,
             r.part = 1, r.of = 1, m.last
      PROVE  SInv'
  <2>1. \A k \in AllKinds : Fresh(k)' = {}
    <3>1. Parts(r, r.part - 1) = {}
      BY <1>5 DEF Parts
    <3> QED BY <1>1, <1>5, <3>1 DEF SInv, Gathered, Fresh
  <2>2. Gathered'
    BY <1>1, <1>5, <2>1, Ended DEF SInv
  <2>3. cache' = [cache EXCEPT !["account"] = Item({r})]
        /\ cache \in [AllKinds -> [state : {"none", "put"}, rows : SUBSET Row]]
    BY <1>1, <1>5 DEF OnRspQryTradingAccount, TypeOK
  <2> HIDE DEF m
  <2>4. cache'["account"].rows = {r} /\ \A k \in AllKinds \ {"account"} : cache'[k] = cache[k]
    BY <1>1, <2>3 DEF Item
  <2>5. Whole({r}) /\ {s \in {r} : s.query \notin cut} = {r}
    <3>1. {r} = {[r EXCEPT !.part = i] : i \in 1..r.of}
      BY <1>5 DEF Row
    <3> QED BY <1>3, <1>5, <3>1 DEF Whole
  <2>6. SnapshotIsWhole'
    BY <1>1, <2>4, <2>5 DEF SInv, SnapshotIsWhole, Whole
  <2> QED BY <1>2, <1>3, <2>2, <2>6 DEF SInv
<1> QED BY <1>1, <1>2, <1>4, <1>5 DEF Shaped

\* A row of positions or orders joins those before it, and the last one makes the
\* answer whole.
LEMMA TakeRows ==
    ASSUME QInv, SInv, NEW kind \in {"positions", "orders"}, OnRspRows(kind)
    PROVE  SInv'
<1> DEFINE m == Head(flow)
           rows == buffer[kind] \cup m.rows
<1>1. /\ flow # <<>> /\ flow' = Tail(flow) /\ m.kind = kind
      /\ UNCHANGED <<asked, sent, cut>> /\ TypeOK /\ kind \in AllKinds
      /\ NextIs(kind) /\ \A k \in AllKinds : NextIs(k) => k = kind
      /\ buffer \in [AllKinds -> SUBSET Row]
      /\ cache \in [AllKinds -> [state : {"none", "put"}, rows : SUBSET Row]]
  BY DEF OnRspRows, NextIs, historyVars, QInv, AllKinds, TypeOK
<1>2. /\ ChainOf(flow') /\ Shaped(m)
      /\ ~m.last => flow' # <<>> /\ Continues(m, Head(flow'))
  BY <1>1, Advance DEF SInv
<1>3. Uncut' /\ m.query \notin cut
  BY <1>1, UncutTail DEF SInv
<1>4. \A k \in AllKinds \ {kind} : Fresh(k) = {}
  BY <1>1 DEF SInv, Gathered
<1>5. CASE m.last
  <2>1. buffer' = [buffer EXCEPT ![kind] = {}]
        /\ cache' \in {cache, [cache EXCEPT ![kind] = Item(rows)]}
    BY <1>5 DEF OnRspRows
  <2>2. \A k \in AllKinds : Fresh(k)' = {}
    BY <1>1, <1>4, <2>1 DEF Fresh
  <2>3. Gathered'
    BY <1>1, <1>5, <2>2, Ended DEF SInv
  <2>4. Whole({s \in rows : s.query \notin cut})
    <3>1. {s \in rows : s.query \notin cut} = Fresh(kind) \cup {s \in m.rows : s.query \notin cut}
      BY DEF Fresh
    <3>2. CASE m.rows = {}
      <4>1. Fresh(kind) = {}
        BY <1>1, <3>2 DEF SInv, Gathered
      <4> QED BY <3>1, <3>2, <4>1 DEF Whole
    <3>3. ASSUME NEW r \in Row, m.rows = {r}, r.query = m.query, r.part \in 1..r.of,
                 m.last <=> r.part = r.of
          PROVE  Whole({s \in rows : s.query \notin cut})
      <4>1. Fresh(kind) = Parts(r, r.of - 1) /\ r.of \in Nat
        BY <1>1, <1>5, <3>3 DEF SInv, Gathered, Row
      <4>2. {s \in m.rows : s.query \notin cut} = {r} /\ r = [r EXCEPT !.part = r.of]
        BY <1>3, <1>5, <3>3 DEF Row
      <4>3. Parts(r, r.of - 1) \cup {[r EXCEPT !.part = r.of]} = Parts(r, r.of)
        BY <1>5, <3>3, <4>1 DEF Parts
      <4>4. {s \in rows : s.query \notin cut} = Parts(r, r.of)
        BY <3>1, <4>1, <4>2, <4>3
      <4>5. \A s \in Parts(r, r.of) : s.of = r.of /\ \A i \in Nat :
               [s EXCEPT !.part = i] = [r EXCEPT !.part = i]
        BY <4>1 DEF Parts, Row
      <4>6. Whole(Parts(r, r.of))
        BY <4>1, <4>5 DEF Whole, Parts
      <4> QED BY <4>4, <4>6
    <3> QED BY <1>2, <3>2, <3>3 DEF Shaped
  <2> HIDE DEF rows, m
  <2>5. \A k \in AllKinds : \/ cache'[k] = cache[k]
                            \/ k = kind /\ cache'[k].rows = rows
    <3> SUFFICES ASSUME NEW k \in AllKinds
                 PROVE  cache'[k] = cache[k] \/ (k = kind /\ cache'[k].rows = rows)
      OBVIOUS
    <3>1. ASSUME cache' = [cache EXCEPT ![kind] = Item(rows)], k # kind
          PROVE  cache'[k] = cache[k]
      BY <1>1, <3>1
    <3>2. ASSUME cache' = [cache EXCEPT ![kind] = Item(rows)]
          PROVE  cache'[kind].rows = rows
      BY <1>1, <3>2 DEF Item
    <3>3. cache' = cache => cache'[k] = cache[k]
      OBVIOUS
    <3> QED BY <2>1, <3>1, <3>2, <3>3
  <2>6. SnapshotIsWhole'
    BY <1>1, <2>4, <2>5 DEF SInv, SnapshotIsWhole
  <2> QED BY <1>2, <1>3, <2>3, <2>6 DEF SInv
<1>6. ASSUME ~m.last, NEW r \in Row, m.rows = {r}, r.query = m.query, ~m.error
      PROVE  SInv'
  <2>1. buffer' = [buffer EXCEPT ![kind] = rows] /\ cache' = cache
    BY <1>6 DEF OnRspRows
  <2>2. r.part \in Nat \ {0} /\ [r EXCEPT !.part = r.part] = r
    BY <1>2, <1>6 DEF Shaped, Row
  <2>3. Fresh(kind) = Parts(r, r.part - 1)
    BY <1>1, <1>6 DEF SInv, Gathered
  <2>4. Fresh(kind)' = Parts(r, r.part)
    <3>1. Fresh(kind)' = Fresh(kind) \cup {r}
      BY <1>1, <1>3, <1>6, <2>1 DEF Fresh
    <3>2. Parts(r, r.part - 1) \cup {[r EXCEPT !.part = r.part]} = Parts(r, r.part)
      BY <2>2 DEF Parts
    <3> QED BY <2>2, <2>3, <3>1, <3>2
  <2>5. \A k \in AllKinds \ {kind} : Fresh(k)' = {}
    BY <1>1, <1>4, <2>1 DEF Fresh
  <2>6. flow' # <<>> /\ Head(flow').kind = kind
        /\ Head(flow').rows = {[r EXCEPT !.part = r.part + 1]}
    BY <1>1, <1>2, <1>6 DEF Continues
  <2> DEFINE n == [r EXCEPT !.part = r.part + 1]
  <2>7. n.part - 1 = r.part /\ Parts(n, r.part) = Parts(r, r.part)
    <3>1. n.part = r.part + 1 /\ (r.part + 1) - 1 = r.part
      BY <2>2 DEF Row
    <3>2. \A i \in 1..r.part : [n EXCEPT !.part = i] = [r EXCEPT !.part = i]
      BY <2>2 DEF Row
    <3> QED BY <3>1, <3>2 DEF Parts
  <2> HIDE DEF n
  <2>8. Gathered'
    <3>1. \A k \in AllKinds : NextIs(k)' <=> k = kind
      BY <2>6 DEF NextIs
    <3>2. Fresh(kind)' = Parts(n, n.part - 1) /\ Head(flow').rows = {n}
      BY <2>4, <2>6, <2>7 DEF n
    <3> QED BY <2>5, <3>1, <3>2 DEF Gathered, Parts
  <2>9. SnapshotIsWhole'
    BY <1>1, <2>1 DEF SInv, SnapshotIsWhole, Whole
  <2> QED BY <1>2, <1>3, <2>8, <2>9 DEF SInv
<1> QED BY <1>2, <1>5, <1>6 DEF Shaped
-----------------------------------------------------------------------------
LEMMA StepSnapshot ==
    ASSUME OneAccountRow, QInv, SInv, [Next]_vars
    PROVE  SInv'
<1>1. CASE Send
  <2> DEFINE Q == [kind : AllKinds, id : Nat]
             e == [kind |-> cmd.kind, id |-> sent + 1]
  <2>1. /\ sent \in Nat /\ asked \in Seq(Q) /\ e \in Q
        /\ UNCHANGED <<flow, buffer, cache, cut>>
    BY <1>1 DEF Send, historyVars, QInv, TypeOK
  <2>2. CASE sent' = sent + 1 /\ asked' = Append(asked, e)
    <3> HIDE DEF Q
    <3>1. \A i \in DOMAIN asked' : \/ i \in DOMAIN asked /\ asked'[i] = asked[i]
                                   \/ asked'[i] = e
      BY <2>1, <2>2, AppendElements
    <3> QED BY <2>1, <2>2, <3>1, Aside
  <2>3. CASE UNCHANGED <<sent, asked>>
    BY <2>1, <2>3, Aside
  <2> QED BY <1>1, <2>2, <2>3 DEF Send
<1>2. CASE \/ Command \/ CacheGet \/ CheckReady \/ CacheGetAgain \/ Register
           \/ Answered \/ TimeOut \/ OnRspSettlementInfoConfirm \/ AccountChanges
           \/ UNCHANGED vars
  <2>1. UNCHANGED <<flow, buffer, cache, cut, sent, asked>>
    BY <1>2 DEF Command, Query, CacheGet, CheckReady, CacheGetAgain, Register, Answered, TimeOut,
                OnRspSettlementInfoConfirm, AccountChanges, vars, queryVars, counterVars,
                historyVars
  <2>2. sent \in Nat
    BY DEF QInv, TypeOK
  <2> QED BY <2>1, <2>2, Aside
<1>3. CASE TraderStep
  BY <1>3, TakeAccount, TakeRows DEF TraderStep, OnRspQryInvestorPosition, OnRspQryOrder
<1> QED
  BY <1>1, <1>2, <1>3, Appended, CutOff DEF Next, CommandStep

\* A snapshot in the cache is one whole answer of the counter, but for what lost
\* connections left in the buffers, for answers of any size and any number of queries.
THEOREM SnapshotsAreWhole ==
    ASSUME OneAccountRow
    PROVE  Spec => []SnapshotIsWhole
<1>1. SInv /\ QInv /\ [Next]_vars => SInv'
  BY StepSnapshot
<1>2. SInv => SnapshotIsWhole
  BY DEF SInv
<1> QED
  BY InitSnapshot, QueriesHold, <1>1, <1>2, PTL DEF Spec
=============================================================================
