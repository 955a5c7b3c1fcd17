----------------------------- MODULE MarketData -----------------------------
(***************************************************************************)
(* Market-data subscriptions: the command thread (subscribe_market_data    *)
(* and unsubscribe_market_data of CtpProxy.handle_command), the MD         *)
(* callback thread (CtpMdSpi), the SubscriptionRegistry they share, and,   *)
(* as an external environment, the CTP market-data front.                  *)
(*                                                                         *)
(* A command and the login callback are cut into one step per access to    *)
(* md_ready, to the registry and to the CTP API.                           *)
(***************************************************************************)
EXTENDS Integers

CONSTANTS
    Symbols,  \* the instruments
    Owners,   \* the (client_id, strategy_id) pairs
    Startup,  \* the owner "proxy", "startup" of CTP_SYMBOLS
    Initial,  \* CTP_SYMBOLS
    MaxDrops, \* bound: connections lost
    Refusals  \* whether the API may refuse a call while it is connected

ASSUME MarketAssumption ==
    /\ Startup \in Owners /\ Initial \subseteq Symbols
    /\ MaxDrops \in Nat /\ Refusals \in BOOLEAN

VARIABLES
    subscriptions, \* SubscriptionRegistry._subscriptions
    md_ready,      \* CtpSession.md_ready
    cmd,           \* the command thread: its operation and its symbols
    md,            \* the MD callback thread in OnRspUserLogin: its symbols
    link,          \* "none": no md_api; "down"; "front": login asked; "login"
    feed,          \* the instruments CTP sends to this connection
    drops,
    denied         \* the instruments a refused SubscribeMarketData named

vars == <<subscriptions, md_ready, cmd, md, link, feed, drops, denied>>

Idle   == [pc |-> "idle", op |-> "none", symbols |-> {}]
MdIdle == [pc |-> "idle", symbols |-> {}]

Active == {s \in Symbols : subscriptions[s] # {}}  \* active_symbols

Init ==
    /\ subscriptions = [s \in Symbols |-> IF s \in Initial THEN {Startup} ELSE {}]
    /\ md_ready = FALSE
    /\ cmd = Idle /\ md = MdIdle
    /\ link = "none" /\ feed = {} /\ drops = 0 /\ denied = {}
-----------------------------------------------------------------------------
\* The command thread.

\* A subscribe that looks for symbols without an owner after adding the owner.
Subscribe_AlreadyKnown(o, S) ==
    /\ cmd.pc = "idle"
    /\ subscriptions' = [s \in Symbols |->
                            IF s \in S THEN subscriptions[s] \cup {o} ELSE subscriptions[s]]
    /\ cmd' = [pc |-> "check", op |-> "subscribe",
               symbols |-> {s \in S : subscriptions'[s] = {}}]
    /\ UNCHANGED <<md_ready, md, link, feed, drops, denied>>

\* SubscriptionRegistry.subscribe: the symbols that had no owner are asked for.
Subscribe(o, S) ==
    /\ cmd.pc = "idle"
    /\ subscriptions' = [s \in Symbols |->
                            IF s \in S THEN subscriptions[s] \cup {o} ELSE subscriptions[s]]
    /\ cmd' = [pc |-> "check", op |-> "subscribe", symbols |-> S \ Active]
    /\ UNCHANGED <<md_ready, md, link, feed, drops, denied>>

\* An unsubscribe that does not look for other owners.
Unsubscribe_NoRefCount(o, S) ==
    /\ cmd.pc = "idle"
    /\ subscriptions' = [s \in Symbols |->
                            IF s \in S THEN subscriptions[s] \ {o} ELSE subscriptions[s]]
    /\ cmd' = [pc |-> "check", op |-> "unsubscribe",
               symbols |-> {s \in S : o \in subscriptions[s]}]
    /\ UNCHANGED <<md_ready, md, link, feed, drops, denied>>

\* SubscriptionRegistry.unsubscribe: the symbols whose last owner left are
\* returned to CTP.
Unsubscribe(o, S) ==
    /\ cmd.pc = "idle"
    /\ subscriptions' = [s \in Symbols |->
                            IF s \in S THEN subscriptions[s] \ {o} ELSE subscriptions[s]]
    /\ cmd' = [pc |-> "check", op |-> "unsubscribe",
               symbols |-> {s \in S : subscriptions[s] = {o}}]
    /\ UNCHANGED <<md_ready, md, link, feed, drops, denied>>

\* A check that forgets the empty list.
CheckReady_ReadyOnly ==
    /\ cmd.pc = "check"
    /\ cmd' = IF ~md_ready THEN Idle ELSE [cmd EXCEPT !.pc = "call"]
    /\ UNCHANGED <<subscriptions, md_ready, md, link, feed, drops, denied>>

\* The early return of subscribe_market_data and unsubscribe_market_data.
CheckReady ==
    /\ cmd.pc = "check"
    /\ cmd' = IF cmd.symbols = {} \/ ~md_ready THEN Idle ELSE [cmd EXCEPT !.pc = "call"]
    /\ UNCHANGED <<subscriptions, md_ready, md, link, feed, drops, denied>>

\* 0 needs a connection; a result other than 0 becomes an error response.
CallApi ==
    /\ cmd.pc = "call"
    /\ \/ /\ link = "login"
          /\ feed' = IF cmd.op = "subscribe" THEN feed \cup cmd.symbols
                                             ELSE feed \ cmd.symbols
          /\ UNCHANGED denied
       \/ /\ link # "login" \/ Refusals
          /\ denied' = IF cmd.op = "subscribe" THEN denied \cup cmd.symbols ELSE denied
          /\ UNCHANGED feed
    /\ cmd' = Idle
    /\ UNCHANGED <<subscriptions, md_ready, md, link, drops>>
-----------------------------------------------------------------------------
\* The MD callback thread.

Connect ==
    /\ link = "none"
    /\ link' = "down"
    /\ UNCHANGED <<subscriptions, md_ready, cmd, md, feed, drops, denied>>

OnFrontConnected ==
    /\ link = "down" /\ ~md_ready /\ md.pc = "idle"
    /\ link' = "front"
    /\ UNCHANGED <<subscriptions, md_ready, cmd, md, feed, drops, denied>>

\* OnRspUserLogin first makes the session ready, then reads what is active ...
OnRspUserLogin ==
    /\ link = "login" /\ ~md_ready /\ md.pc = "idle"
    /\ md_ready' = TRUE
    /\ md' = [pc |-> "read", symbols |-> {}]
    /\ UNCHANGED <<subscriptions, cmd, link, feed, drops, denied>>

\* A login callback that leaves the subscriptions to the commands.
ReadActive_Nothing ==
    /\ md.pc = "read"
    /\ md' = MdIdle
    /\ UNCHANGED <<subscriptions, md_ready, cmd, link, feed, drops, denied>>

ReadActive ==
    /\ md.pc = "read"
    /\ md' = IF Active = {} THEN MdIdle ELSE [pc |-> "call", symbols |-> Active]
    /\ UNCHANGED <<subscriptions, md_ready, cmd, link, feed, drops, denied>>

\* ... and subscribes to that list.
Resubscribe ==
    /\ md.pc = "call"
    /\ \/ /\ link = "login"
          /\ feed' = feed \cup md.symbols
          /\ UNCHANGED denied
       \/ /\ link # "login" \/ Refusals
          /\ denied' = denied \cup md.symbols
          /\ UNCHANGED feed
    /\ md' = MdIdle
    /\ UNCHANGED <<subscriptions, md_ready, cmd, link, drops>>

OnFrontDisconnected ==
    /\ link = "down" /\ md_ready /\ md.pc = "idle"
    /\ md_ready' = FALSE
    /\ UNCHANGED <<subscriptions, cmd, md, link, feed, drops, denied>>
-----------------------------------------------------------------------------
\* The market-data front: it accepts the login and may lose the connection,
\* with its subscriptions, before any callback says so.
FrontLogin ==
    /\ link = "front"
    /\ link' = "login" /\ denied' = {}
    /\ UNCHANGED <<subscriptions, md_ready, cmd, md, feed, drops>>

FrontDrops ==
    /\ link \in {"front", "login"} /\ drops < MaxDrops
    /\ link' = "down" /\ feed' = {} /\ drops' = drops + 1
    /\ UNCHANGED <<subscriptions, md_ready, cmd, md, denied>>
-----------------------------------------------------------------------------
Command == \E o \in Owners \ {Startup}, S \in SUBSET Symbols :
              S # {} /\ (Subscribe(o, S) \/ Unsubscribe(o, S))
CommandStep == CheckReady \/ CallApi
MdStep == OnRspUserLogin \/ ReadActive \/ Resubscribe \/ OnFrontDisconnected
Login  == Connect \/ OnFrontConnected \/ FrontLogin

Next == Command \/ CommandStep \/ MdStep \/ Login \/ FrontDrops

Spec == Init /\ [][Next]_vars

\* The threads of the proxy run and the front lets it log in again.
FairSpec == Spec /\ WF_vars(CommandStep) /\ WF_vars(MdStep) /\ WF_vars(Login)
-----------------------------------------------------------------------------
\* Every variable has its type; the API is never called with an empty list.
TypeOK ==
    /\ subscriptions \in [Symbols -> SUBSET Owners]
    /\ md_ready \in BOOLEAN
    /\ cmd \in [pc : {"idle", "check", "call"}, op : {"none", "subscribe", "unsubscribe"},
               symbols : SUBSET Symbols]
    /\ md \in [pc : {"idle", "read", "call"}, symbols : SUBSET Symbols]
    /\ cmd.pc = "call" => cmd.symbols # {}
    /\ md.pc = "call" => md.symbols # {}
    /\ link \in {"none", "down", "front", "login"}
    /\ feed \subseteq Symbols /\ denied \subseteq Symbols /\ drops \in Nat

\* The proxy has nothing left to do about the market data.
Settled == cmd.pc = "idle" /\ md.pc = "idle" /\ md_ready /\ link = "login"

\* No subscription is lost between a command and a login that run at the same
\* time: once both are done, CTP sends every instrument that has an owner, but
\* for those it refused.
NoLostSubscription == Settled => Active \subseteq feed \cup denied

\* The proxy gives an instrument back to CTP only when no strategy wants it.
OnlyUnwantedReturned ==
    [][\A s \in feed \ feed' : link' = "login" => s \notin Active']_vars

\* An instrument that an owner asked for is sent in the end, unless CTP refuses
\* it or its last owner leaves.
ActiveIsServed ==
    \A s \in Symbols : (s \in Active) ~> (s \in feed \cup denied \/ s \notin Active)
=============================================================================
