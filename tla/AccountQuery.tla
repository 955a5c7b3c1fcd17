---------------------------- MODULE AccountQuery ----------------------------
(***************************************************************************)
(* Queries for the account, its positions and its orders: the command      *)
(* thread in CtpSession._query, the OnRspQry callbacks of the trader       *)
(* thread, SnapshotCache and the table of pending queries they share, and, *)
(* as an external environment, the CTP counter that answers.               *)
(*                                                                         *)
(* Data kept: a row is known by the query it answers, its place in that    *)
(* answer and the version of the account it shows.  Ages are not kept: a   *)
(* cached item may at any time be young enough or too old.  A callback is  *)
(* one step: the command thread sees its cache.put and its complete_query  *)
(* only through reads that commute with what lies between them.            *)
(***************************************************************************)
EXTENDS Integers, Sequences

CONSTANTS
    Kinds,      \* the queries clients use, among AllKinds
    Sizes,      \* Sizes[k]: how many rows the counter may answer to kind k
    MaxQueries, \* bound: requests sent
    MaxVersion, \* bound: changes of the account
    MaxDrops    \* bound: connections lost

AllKinds == {"account", "positions", "orders"}

ASSUME QueryAssumption ==
    /\ Kinds \subseteq AllKinds
    /\ Sizes \in [AllKinds -> SUBSET Nat]
    /\ MaxQueries \in Nat /\ MaxVersion \in Nat /\ MaxDrops \in Nat

VARIABLES
    td_ready, \* CtpSession.td_ready, with the connection it stands for
    cmd,      \* the command thread in _query, with its arguments
    pending,  \* _pending_queries[cmd.kind]: event and holder of the command
    cache,    \* SnapshotCache: the rows of each kind
    buffer,   \* position_buffer and order_query_buffer
    reply,    \* what the last query returned
    asked,    \* requests the counter has not answered
    flow,     \* rows on their way to the trader thread
    version,  \* the state of the account at the counter
    sent,     \* requests sent
    overdue,  \* history: requests whose query returned before their answer
    cut,      \* history: requests of whose answer a lost connection kept a part
    reused,   \* history: requests whose cached rows an answer without rows gave again
    drops

queryVars   == <<td_ready, cmd, pending, cache, buffer, reply>>
counterVars == <<asked, flow, version, sent, drops>>
historyVars == <<overdue, cut, reused>>
vars == <<queryVars, counterVars, historyVars>>

Row == [query : Nat, part : Nat, of : Nat, version : Nat]

Absent  == [state |-> "none", by |-> 0, rows |-> {}]
Waiting == [state |-> "waiting", by |-> 0, rows |-> {}]
Idle    == [pc |-> "idle", kind |-> "account", forced |-> FALSE, since |-> 0, id |-> 0]
NoReply == [forced |-> FALSE, since |-> 0, id |-> 0, rows |-> {}]

Empty == [state |-> "none", rows |-> {}]
Item(rows) == [state |-> "put", rows |-> rows]

Init ==
    /\ td_ready = FALSE
    /\ cmd = Idle /\ pending = Absent /\ reply = NoReply
    /\ cache = [k \in AllKinds |-> Empty]
    /\ buffer = [k \in AllKinds |-> {}]
    /\ asked = <<>> /\ flow = <<>>
    /\ version = 0 /\ sent = 0 /\ drops = 0
    /\ overdue = {} /\ cut = {} /\ reused = {}
-----------------------------------------------------------------------------
\* The command thread: _query of a kind, forced when max_age_seconds is None.

Return(rows) ==
    /\ reply' = [forced |-> cmd.forced, since |-> cmd.since, id |-> cmd.id, rows |-> rows]
    /\ cmd' = Idle

Raise == reply' = NoReply /\ cmd' = Idle

Query(k, forced) ==
    /\ cmd.pc = "idle"
    /\ cmd' = [pc |-> IF forced THEN "ready" ELSE "cache",
               kind |-> k, forced |-> forced, since |-> version, id |-> 0]
    /\ reply' = NoReply
    /\ UNCHANGED <<td_ready, pending, cache, buffer, counterVars, historyVars>>

\* SnapshotCache.get before the session is looked at: data of a session that
\* is down is returned while it is young enough.
CacheGet ==
    /\ cmd.pc = "cache"
    /\ \/ cache[cmd.kind] # Empty /\ Return(cache[cmd.kind].rows)
       \/ cmd' = [cmd EXCEPT !.pc = "ready"] /\ UNCHANGED reply
    /\ UNCHANGED <<td_ready, pending, cache, buffer, counterVars, historyVars>>

CheckReady ==
    /\ cmd.pc = "ready"
    /\ IF td_ready THEN cmd' = [cmd EXCEPT !.pc = "locked"] /\ UNCHANGED reply ELSE Raise
    /\ UNCHANGED <<td_ready, pending, cache, buffer, counterVars, historyVars>>

\* A second look at the cache that a forced query takes too.
CacheGetAgain_Always ==
    /\ cmd.pc = "locked"
    /\ \/ cache[cmd.kind] # Empty /\ Return(cache[cmd.kind].rows)
       \/ cmd' = [cmd EXCEPT !.pc = "register"] /\ UNCHANGED reply
    /\ UNCHANGED <<td_ready, pending, cache, buffer, counterVars, historyVars>>

\* Under _query_lock: the second look at the cache, and the wait for a slot.
CacheGetAgain ==
    /\ cmd.pc = "locked"
    /\ \/ ~cmd.forced /\ cache[cmd.kind] # Empty /\ Return(cache[cmd.kind].rows)
       \/ cmd' = [cmd EXCEPT !.pc = "register"] /\ UNCHANGED reply
    /\ UNCHANGED <<td_ready, pending, cache, buffer, counterVars, historyVars>>

\* The query is registered before it is sent, so that no answer is missed.
Register ==
    /\ cmd.pc = "register"
    /\ pending' = Waiting
    /\ cmd' = [cmd EXCEPT !.pc = "send"]
    /\ UNCHANGED <<td_ready, cache, buffer, reply, counterVars, historyVars>>

\* ReqQry...: 0 needs a connection; flow control may refuse at any time.
Send ==
    /\ cmd.pc = "send"
    /\ \/ /\ td_ready /\ sent < MaxQueries
          /\ sent' = sent + 1
          /\ asked' = Append(asked, [kind |-> cmd.kind, id |-> sent + 1])
          /\ cmd' = [cmd EXCEPT !.pc = "wait", !.id = sent + 1]
          /\ UNCHANGED <<pending, reply>>
       \/ /\ pending' = Absent /\ Raise
          /\ UNCHANGED <<sent, asked>>
    /\ UNCHANGED <<td_ready, cache, buffer, flow, version, drops, historyVars>>

\* event.wait returns: the query ends with what its holder holds.
Answered ==
    /\ cmd.pc = "wait" /\ pending.state \in {"ok", "error"}
    /\ pending' = Absent
    /\ IF pending.state = "ok" THEN Return(pending.rows) ELSE Raise
    /\ overdue' = IF pending.by = cmd.id THEN overdue ELSE overdue \cup {cmd.id}
    /\ UNCHANGED <<td_ready, cache, buffer, counterVars, cut, reused>>

\* A timeout that leaves the query registered.
TimeOut_KeepPending ==
    /\ cmd.pc = "wait" /\ pending = Waiting
    /\ Raise
    /\ overdue' = overdue \cup {cmd.id}
    /\ UNCHANGED <<td_ready, pending, cache, buffer, counterVars, cut, reused>>

\* A wait that starts again when its time is over.
TimeOut_WaitAgain == cmd.pc = "wait" /\ pending = Waiting /\ UNCHANGED vars

TimeOut ==
    /\ cmd.pc = "wait" /\ pending = Waiting
    /\ pending' = Absent /\ Raise
    /\ overdue' = overdue \cup {cmd.id}
    /\ UNCHANGED <<td_ready, cache, buffer, counterVars, cut, reused>>
-----------------------------------------------------------------------------
\* The trader callback thread.

\* complete_query: whatever query of this kind is registered gets the result.
Complete(kind, state, by, rows) ==
    pending' = IF pending # Absent /\ cmd.kind = kind
               THEN [state |-> state, by |-> by, rows |-> rows] ELSE pending

\* Which cached rows an account answer gives again: all, when it ends without any.
Reused(m) == IF ~m.error /\ m.last /\ m.rows = {}
             THEN {r.query : r \in cache["account"].rows} ELSE {}

NextIs(kind) == flow # <<>> /\ Head(flow).kind = kind

\* A callback that takes its result from the cache before it puts the row.
OnRspQryTradingAccount_PeekFirst ==
    /\ NextIs("account")
    /\ LET m == Head(flow)
       IN  IF m.error
           THEN Complete("account", "error", m.query, {}) /\ UNCHANGED cache
           ELSE /\ cache' = IF m.rows = {} THEN cache
                            ELSE [cache EXCEPT !["account"] = Item(m.rows)]
                /\ IF m.last THEN Complete("account", "ok", m.query, cache["account"].rows)
                             ELSE UNCHANGED pending
    /\ flow' = Tail(flow) /\ reused' = reused \cup Reused(Head(flow))
    /\ UNCHANGED <<td_ready, cmd, buffer, reply, asked, version, sent, drops, overdue, cut>>

\* Each account row is cached; the query gets what the cache holds at the end, which
\* is an earlier account, or none, when the answer has no row.
OnRspQryTradingAccount ==
    /\ NextIs("account")
    /\ LET m == Head(flow)
       IN  IF m.error
           THEN Complete("account", "error", m.query, {}) /\ UNCHANGED cache
           ELSE /\ cache' = IF m.rows = {} THEN cache
                            ELSE [cache EXCEPT !["account"] = Item(m.rows)]
                /\ IF m.last THEN Complete("account", "ok", m.query, cache'["account"].rows)
                             ELSE UNCHANGED pending
    /\ flow' = Tail(flow) /\ reused' = reused \cup Reused(Head(flow))
    /\ UNCHANGED <<td_ready, cmd, buffer, reply, asked, version, sent, drops, overdue, cut>>

\* A callback that copies the buffer and does not clear it.
OnRspRows_KeepBuffer(kind) ==
    /\ NextIs(kind)
    /\ LET m    == Head(flow)
           rows == buffer[kind] \cup m.rows
       IN  IF m.error
           THEN /\ buffer' = [buffer EXCEPT ![kind] = {}]
                /\ Complete(kind, "error", m.query, {}) /\ UNCHANGED cache
           ELSE IF m.last
           THEN /\ buffer' = [buffer EXCEPT ![kind] = rows]
                /\ cache' = [cache EXCEPT ![kind] = Item(rows)]
                /\ Complete(kind, "ok", m.query, rows)
           ELSE buffer' = [buffer EXCEPT ![kind] = rows] /\ UNCHANGED <<cache, pending>>
    /\ flow' = Tail(flow)
    /\ UNCHANGED <<td_ready, cmd, reply, asked, version, sent, drops, historyVars>>

\* Rows gather in a buffer; the last one turns it into a snapshot.
OnRspRows(kind) ==
    /\ NextIs(kind)
    /\ LET m    == Head(flow)
           rows == buffer[kind] \cup m.rows
       IN  IF m.error
           THEN /\ buffer' = [buffer EXCEPT ![kind] = {}]
                /\ Complete(kind, "error", m.query, {}) /\ UNCHANGED cache
           ELSE IF m.last
           THEN /\ buffer' = [buffer EXCEPT ![kind] = {}]
                /\ cache' = [cache EXCEPT ![kind] = Item(rows)]
                /\ Complete(kind, "ok", m.query, rows)
           ELSE buffer' = [buffer EXCEPT ![kind] = rows] /\ UNCHANGED <<cache, pending>>
    /\ flow' = Tail(flow)
    /\ UNCHANGED <<td_ready, cmd, reply, asked, version, sent, drops, historyVars>>

OnRspQryInvestorPosition == OnRspRows("positions")
OnRspQryOrder            == OnRspRows("orders")

\* The last step of the login that OrderFlow models.
OnRspSettlementInfoConfirm ==
    /\ ~td_ready
    /\ td_ready' = TRUE
    /\ UNCHANGED <<cmd, pending, cache, buffer, reply, counterVars, historyVars>>

\* The connection is gone with every request and row under way; the buffers stay.
OnFrontDisconnected ==
    /\ td_ready /\ drops < MaxDrops
    /\ td_ready' = FALSE
    /\ asked' = <<>> /\ flow' = <<>> /\ drops' = drops + 1
    /\ cut' = cut \cup {r.query : r \in buffer["positions"] \cup buffer["orders"]}
    /\ UNCHANGED <<cmd, pending, cache, buffer, reply, version, sent, overdue, reused>>
-----------------------------------------------------------------------------
\* The CTP counter: it answers in the order of the requests, each answer from
\* one state of the account, and ends every answer with a last row.

Rows(q, n) ==
    [i \in 1..n |-> [kind |-> q.kind, query |-> q.id, error |-> FALSE, last |-> i = n,
                     rows |-> {[query |-> q.id, part |-> i, of |-> n, version |-> version]}]]
Single(q, error) ==
    <<[kind |-> q.kind, query |-> q.id, error |-> error, last |-> TRUE, rows |-> {}]>>

Answer ==
    /\ asked # <<>>
    /\ asked' = Tail(asked)
    /\ \/ flow' = flow \o Single(Head(asked), TRUE)
       \/ \E n \in Sizes[Head(asked).kind] :
             flow' = flow \o IF n = 0 THEN Single(Head(asked), FALSE) ELSE Rows(Head(asked), n)
    /\ UNCHANGED <<queryVars, version, sent, drops, historyVars>>

AccountChanges ==
    /\ version < MaxVersion
    /\ version' = version + 1
    /\ UNCHANGED <<queryVars, asked, flow, sent, drops, historyVars>>
-----------------------------------------------------------------------------
Command == \E k \in Kinds, forced \in BOOLEAN : Query(k, forced)
CommandStep == \/ CacheGet \/ CheckReady \/ CacheGetAgain \/ Register \/ Send
               \/ Answered \/ TimeOut
TraderStep == OnRspQryTradingAccount \/ OnRspQryInvestorPosition \/ OnRspQryOrder

Next == \/ Command \/ CommandStep \/ TraderStep
        \/ OnRspSettlementInfoConfirm \/ OnFrontDisconnected
        \/ Answer \/ AccountChanges

Spec == Init /\ [][Next]_vars

\* The command thread runs, and with it the clock of event.wait.
FairSpec == Spec /\ WF_vars(CommandStep)
-----------------------------------------------------------------------------
Message == [kind : AllKinds, query : Nat, error : BOOLEAN, last : BOOLEAN, rows : SUBSET Row]

\* Every variable has its type; a query is registered exactly while it is sent
\* and awaited.
TypeOK ==
    /\ td_ready \in BOOLEAN
    /\ cmd \in [pc : {"idle", "cache", "ready", "locked", "register", "send", "wait"},
               kind : AllKinds, forced : BOOLEAN, since : Nat, id : Nat]
    /\ pending \in [state : {"none", "waiting", "ok", "error"}, by : Nat, rows : SUBSET Row]
    /\ pending # Absent <=> cmd.pc \in {"send", "wait"}
    /\ cache \in [AllKinds -> [state : {"none", "put"}, rows : SUBSET Row]]
    /\ buffer \in [AllKinds -> SUBSET Row]
    /\ reply \in [forced : BOOLEAN, since : Nat, id : Nat, rows : SUBSET Row]
    /\ asked \in Seq([kind : AllKinds, id : Nat])
    /\ flow \in Seq(Message)
    /\ version \in Nat /\ sent \in Nat /\ drops \in Nat
    /\ overdue \in SUBSET Nat /\ cut \in SUBSET Nat /\ reused \in SUBSET Nat

Whole(rows) == \A r \in rows : rows = {[r EXCEPT !.part = i] : i \in 1..r.of}

\* A snapshot in the cache is one whole answer of the counter, never two mixed
\* or half of one, but for the rows a lost connection left in the buffer.
SnapshotIsWhole ==
    \A k \in AllKinds : Whole({r \in cache[k].rows : r.query \notin cut})

\* A query that was sent returns its own answer, or that of an earlier query
\* which had returned without it (or rows left behind by a lost connection, or the
\* cached account when the counter answers with no account row at all).
AnswerIsOwnOrLate ==
    reply.id # 0 =>
        \A r \in reply.rows : r.query \in {reply.id} \cup overdue \cup cut \cup reused

\* force_refresh: what a forced query returns was true after it was asked, with
\* the same three exceptions.
ForcedIsFresh ==
    reply.forced =>
        \A r \in reply.rows : \/ r.version >= reply.since
                              \/ r.query \in overdue \cup cut \cup reused

\* A query ends, whatever the connection and the counter do: the one command
\* thread is not blocked for ever.
QueryEnds == (cmd.pc # "idle") ~> (cmd.pc = "idle")

\* What src/README.md:172 says of force_refresh: the query goes to CTP, so its
\* result is not older than the request.
RefreshIsCurrent ==
    reply.forced => \A r \in reply.rows : r.version >= reply.since

\* What src/README.md:18 says: the positions CTP returned, as they are cached
\* and published, are those of the whole account.
PositionsAreTheAccount == Whole(cache["positions"].rows)
=============================================================================
