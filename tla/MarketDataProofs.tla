-------------------------- MODULE MarketDataProofs --------------------------
(***************************************************************************)
(* Proofs about MarketData for every set of instruments and owners and     *)
(* every number of lost connections, with and without refusals.            *)
(*                                                                         *)
(* NoLostSubscription speaks of settled states only.  Feeds is its         *)
(* inductive form: whatever the two threads are doing, an instrument with  *)
(* an owner is sent, was refused, or is on the list of a thread that is    *)
(* about to ask for it, unless a login that will ask is still to come.     *)
(***************************************************************************)
EXTENDS MarketData, TLAPS

LEMMA InitType == Init => TypeOK
<1> SUFFICES ASSUME Init PROVE TypeOK
  OBVIOUS
<1>1. subscriptions \in [Symbols -> SUBSET Owners]
  BY MarketAssumption DEF Init
<1> QED BY <1>1 DEF Init, TypeOK, Idle, MdIdle

LEMMA CommandType ==
    ASSUME TypeOK, Command \/ CommandStep PROVE TypeOK'
<1> USE DEF TypeOK
<1>1. ASSUME NEW o \in Owners, NEW S \in SUBSET Symbols, Subscribe(o, S) PROVE TypeOK'
  <2>1. subscriptions' \in [Symbols -> SUBSET Owners]
    BY <1>1 DEF Subscribe
  <2> QED BY <1>1, <2>1 DEF Subscribe
<1>2. ASSUME NEW o \in Owners, NEW S \in SUBSET Symbols, Unsubscribe(o, S) PROVE TypeOK'
  <2>1. subscriptions' \in [Symbols -> SUBSET Owners]
    BY <1>2 DEF Unsubscribe
  <2> QED BY <1>2, <2>1 DEF Unsubscribe
<1>3. CASE CheckReady
  BY <1>3 DEF CheckReady, Idle
<1>4. CASE CallApi
  BY <1>4 DEF CallApi, Idle
<1> QED BY <1>1, <1>2, <1>3, <1>4 DEF Command, CommandStep

LEMMA CallbackType ==
    ASSUME TypeOK, MdStep \/ Login \/ FrontDrops PROVE TypeOK'
<1> USE DEF TypeOK
<1>1. CASE OnRspUserLogin
  BY <1>1 DEF OnRspUserLogin
<1>2. CASE ReadActive
  BY <1>2 DEF ReadActive, Active, MdIdle
<1>3. CASE Resubscribe
  BY <1>3 DEF Resubscribe, MdIdle
<1>4. CASE OnFrontDisconnected
  BY <1>4 DEF OnFrontDisconnected
<1>5. CASE Login
  BY <1>5 DEF Login, Connect, OnFrontConnected, FrontLogin
<1>6. CASE FrontDrops
  BY <1>6 DEF FrontDrops
<1> QED BY <1>1, <1>2, <1>3, <1>4, <1>5, <1>6 DEF MdStep

\* Every variable keeps its type, and the CTP API is never called with an
\* empty list of instruments.
THEOREM MarketTypeCorrect == Spec => []TypeOK
<1>1. TypeOK /\ [Next]_vars => TypeOK'
  <2>1. TypeOK /\ UNCHANGED vars => TypeOK'
    BY DEF TypeOK, vars
  <2> QED BY <2>1, CommandType, CallbackType DEF Next
<1> QED BY InitType, <1>1, PTL DEF Spec
-----------------------------------------------------------------------------
\* The command thread is about to ask for s.
CommandAsks(s) == cmd.op = "subscribe" /\ cmd.pc # "idle" /\ s \in cmd.symbols

\* The login callback has yet to read the active symbols, or read s.
LoginAsks(s) == md.pc = "read" \/ (md.pc = "call" /\ s \in md.symbols)

Feeds == \A s \in Active : \/ s \in feed \/ s \in denied
                           \/ CommandAsks(s) \/ LoginAsks(s)
                           \/ link # "login" \/ ~md_ready

\* What the command thread is about to return, nobody wants.
ReturnsUnwanted == cmd.op # "subscribe" => cmd.symbols \cap Active = {}

\* A login that is asked for was announced by OnFrontDisconnected.
NotReadyBeforeLogin == link \in {"none", "front"} => ~md_ready

FeedInv == Feeds /\ ReturnsUnwanted /\ NotReadyBeforeLogin

LEMMA FeedInit == Init => FeedInv
BY DEF Init, FeedInv, Feeds, ReturnsUnwanted, NotReadyBeforeLogin, Idle, MdIdle

LEMMA FeedCommand ==
    ASSUME TypeOK, FeedInv, Command \/ CommandStep PROVE FeedInv'
<1> USE DEF FeedInv
<1>1. ASSUME NEW o \in Owners, NEW S \in SUBSET Symbols, Subscribe(o, S) PROVE FeedInv'
  <2>1. Active' \subseteq Active \cup S
    BY <1>1 DEF Subscribe, Active, TypeOK
  <2>2. \A s \in Active' : s \in Active \/ s \in cmd'.symbols
    BY <1>1, <2>1 DEF Subscribe
  <2>3. \A s \in Active : ~CommandAsks(s)
    BY <1>1 DEF Subscribe, CommandAsks
  <2>4. Feeds'
    BY <1>1, <2>2, <2>3 DEF Subscribe, Feeds, CommandAsks, LoginAsks
  <2> QED BY <1>1, <2>4 DEF Subscribe, ReturnsUnwanted, NotReadyBeforeLogin
<1>2. ASSUME NEW o \in Owners, NEW S \in SUBSET Symbols, Unsubscribe(o, S) PROVE FeedInv'
  <2>1. Active' \subseteq Active /\ Active' \cap cmd'.symbols = {}
    BY <1>2 DEF Unsubscribe, Active, TypeOK
  <2>2. \A s \in Active : ~CommandAsks(s)
    BY <1>2 DEF Unsubscribe, CommandAsks
  <2>3. Feeds'
    BY <1>2, <2>1, <2>2 DEF Unsubscribe, Feeds, LoginAsks
  <2> QED BY <1>2, <2>1, <2>3 DEF Unsubscribe, ReturnsUnwanted, NotReadyBeforeLogin
<1>3. CASE CheckReady
  <2>1. Active' = Active
    BY <1>3 DEF CheckReady, Active
  <2>2. Feeds'
    BY <1>3, <2>1 DEF CheckReady, Feeds, CommandAsks, LoginAsks, Idle, TypeOK
  <2> QED BY <1>3, <2>1, <2>2 DEF CheckReady, ReturnsUnwanted, NotReadyBeforeLogin, Idle, TypeOK
<1>4. CASE CallApi
  <2>1. Active' = Active
    BY <1>4 DEF CallApi, Active
  <2>2. Feeds'
    <3> SUFFICES ASSUME NEW s \in Active
                 PROVE  \/ s \in feed' \/ s \in denied' \/ LoginAsks(s)'
                        \/ link' # "login" \/ ~md_ready'
      BY <2>1 DEF Feeds
    <3>1. CASE CommandAsks(s)
      BY <1>4, <3>1 DEF CallApi, CommandAsks
    <3>2. CASE cmd.op = "subscribe" /\ ~CommandAsks(s)
      BY <1>4, <3>2 DEF CallApi, Feeds, LoginAsks
    <3>3. CASE cmd.op # "subscribe"
      <4>1. s \notin cmd.symbols
        BY <1>4, <3>3 DEF CallApi, ReturnsUnwanted, TypeOK
      <4> QED BY <1>4, <3>3, <4>1 DEF CallApi, Feeds, LoginAsks, CommandAsks
    <3> QED BY <3>1, <3>2, <3>3
  <2> QED BY <1>4, <2>1, <2>2 DEF CallApi, ReturnsUnwanted, NotReadyBeforeLogin, Idle
<1> QED BY <1>1, <1>2, <1>3, <1>4 DEF Command, CommandStep

LEMMA FeedCallback ==
    ASSUME TypeOK, FeedInv, MdStep \/ Login \/ FrontDrops PROVE FeedInv'
<1> USE DEF FeedInv
<1>1. Active' = Active
  BY DEF MdStep, Login, OnRspUserLogin, ReadActive, Resubscribe, OnFrontDisconnected,
         Connect, OnFrontConnected, FrontLogin, FrontDrops, Active
<1>2. ReturnsUnwanted'
  BY <1>1 DEF MdStep, Login, OnRspUserLogin, ReadActive, Resubscribe, OnFrontDisconnected,
              Connect, OnFrontConnected, FrontLogin, FrontDrops, ReturnsUnwanted
<1>3. CASE OnRspUserLogin
  BY <1>1, <1>2, <1>3 DEF OnRspUserLogin, Feeds, LoginAsks, NotReadyBeforeLogin
<1>4. CASE ReadActive
  BY <1>1, <1>2, <1>4 DEF ReadActive, Feeds, CommandAsks, LoginAsks, NotReadyBeforeLogin
<1>5. CASE Resubscribe
  BY <1>1, <1>2, <1>5 DEF Resubscribe, Feeds, CommandAsks, LoginAsks, NotReadyBeforeLogin, TypeOK
<1>6. CASE OnFrontDisconnected
  <2>1. ~md_ready'
    BY <1>6, Zenon DEF OnFrontDisconnected
  <2> QED BY <1>2, <2>1 DEF Feeds, NotReadyBeforeLogin
<1>7. CASE Login
  <2>1. ~md_ready' \/ link' # "login"
    BY <1>7 DEF Login, Connect, OnFrontConnected, FrontLogin, NotReadyBeforeLogin
  <2>2. NotReadyBeforeLogin'
    BY <1>7 DEF Login, Connect, OnFrontConnected, FrontLogin, NotReadyBeforeLogin
  <2> QED BY <1>2, <2>1, <2>2 DEF Feeds
<1>8. CASE FrontDrops
  BY <1>2, <1>8 DEF FrontDrops, Feeds, NotReadyBeforeLogin
<1> QED BY <1>3, <1>4, <1>5, <1>6, <1>7, <1>8 DEF MdStep

LEMMA FeedNext == TypeOK /\ FeedInv /\ [Next]_vars => FeedInv'
<1>1. FeedInv /\ UNCHANGED vars => FeedInv'
  BY DEF FeedInv, Feeds, ReturnsUnwanted, NotReadyBeforeLogin, CommandAsks, LoginAsks,
         Active, vars
<1> QED BY <1>1, FeedCommand, FeedCallback DEF Next

LEMMA FeedInvariant == Spec => []FeedInv
BY FeedInit, FeedNext, MarketTypeCorrect, PTL DEF Spec

\* No interleaving of a command with a login loses a subscription: when both
\* threads are done, every instrument with an owner is sent, or was refused.
THEOREM SubscriptionsSurvive == Spec => []NoLostSubscription
<1>1. FeedInv => NoLostSubscription
  BY DEF FeedInv, Feeds, NoLostSubscription, Settled, CommandAsks, LoginAsks
<1> QED BY <1>1, FeedInvariant, PTL

\* The proxy never gives back to CTP an instrument that a strategy still wants.
THEOREM WantedIsKept == Spec => OnlyUnwantedReturned
<1>1. TypeOK /\ FeedInv /\ [Next]_vars =>
         \A s \in feed \ feed' : link' = "login" => s \notin Active'
  <2> SUFFICES ASSUME TypeOK, FeedInv, [Next]_vars, NEW s \in feed \ feed', link' = "login"
               PROVE  s \notin Active'
    OBVIOUS
  <2>1. CallApi
    BY DEF Next, Command, CommandStep, MdStep, Login, Subscribe, Unsubscribe, CheckReady,
           OnRspUserLogin, ReadActive, Resubscribe, OnFrontDisconnected, Connect,
           OnFrontConnected, FrontLogin, FrontDrops, vars
  <2>2. cmd.op # "subscribe" /\ s \in cmd.symbols
    BY <2>1 DEF CallApi
  <2>3. Active' = Active
    BY <2>1 DEF CallApi, Active
  <2> QED BY <2>2, <2>3 DEF FeedInv, ReturnsUnwanted
<1> QED BY <1>1, FeedInvariant, MarketTypeCorrect, PTL DEF Spec, OnlyUnwantedReturned
=============================================================================
