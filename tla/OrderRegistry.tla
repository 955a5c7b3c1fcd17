---------------------------- MODULE OrderRegistry ----------------------------
(***************************************************************************)
(* The ctp_orders table of registry.py: which client order each CTP order  *)
(* belongs to.  The table is a partial function from order keys, the       *)
(* UNIQUE (client_id, strategy_id, client_order_id), to rows.              *)
(*                                                                         *)
(* Data kept: FrontID and SessionID always travel together and are one     *)
(* session number (0: both zero in Python; Null: both NULL in SQL).        *)
(* ExchangeID and OrderSysID are one system number (Null: empty).  Symbol  *)
(* and payload are never read back by the program and are left out.        *)
(***************************************************************************)
EXTENDS Integers

CONSTANTS
    Keys,       \* the order keys clients use
    SysIds,     \* the numbers an exchange gives to orders
    MaxSession, \* bound: CTP sessions are numbered 1..MaxSession
    MaxRef,     \* bound: an OrderRef is at most MaxRef
    Null        \* SQL NULL, the empty string, Python's None

ASSUME RegistryAssumption ==
    /\ MaxSession \in Nat \ {0}
    /\ MaxRef \in Nat \ {0}
    /\ Null \notin Keys \cup SysIds \cup Nat

VARIABLES
    orders,     \* the rows of ctp_orders
    updated_at  \* updated_at[k]: the keys whose row was written before row k

registryVars == <<orders, updated_at>>

Active   == {"SUBMITTED", "PARTTRADED"}             \* CANCELLABLE_ORDER_STATUSES
Terminal == {"CANCELLED", "TRADED", "REJECTED"}     \* TERMINAL_ORDER_STATUSES
Status   == {"PENDING_SUBMIT", "UNKNOWN"} \cup Active \cup Terminal

Row == [status : Status,
        sess   : 1..MaxSession \cup {Null},
        ref    : 0..MaxRef,
        sys    : SysIds \cup {Null}]

RegistryTypeOK ==
    /\ DOMAIN orders \subseteq Keys
    /\ orders \in [DOMAIN orders -> Row]
    /\ updated_at \in [Keys -> SUBSET Keys]

-----------------------------------------------------------------------------
\* ORDER BY updated_at DESC LIMIT 1
Latest(S) == {k \in S : S \ {k} \subseteq updated_at[k]}

BySession(ref, sess) ==
    {k \in DOMAIN orders : orders[k].sess = sess /\ orders[k].ref = ref}

BySysId(sys) == {k \in DOMAIN orders : sys # Null /\ orders[k].sys = sys}

\* A find_by_ctp that falls back on order_ref alone, whatever the session.
ByLegacyRef_AnySession(ref) == {k \in DOMAIN orders : orders[k].ref = ref}

\* A find_by_ctp that looks for a zero session instead of a missing one.
ByLegacyRef_Zero(ref) ==
    {k \in DOMAIN orders : orders[k].sess = 0 /\ orders[k].ref = ref}

\* Rows written before session identifiers were persisted.
ByLegacyRef(ref) ==
    {k \in DOMAIN orders : orders[k].sess = Null /\ orders[k].ref = ref}

\* The keys find_by_ctp may answer: at most the row its first successful
\* query returns, {Null} when every query is empty.
FindByCtp(ref, sess, sys) ==
    LET bySession == IF sess = 0 THEN {} ELSE BySession(ref, sess)
        found     == IF bySession # {} THEN bySession
                     ELSE IF BySysId(sys) # {} THEN BySysId(sys)
                     ELSE ByLegacyRef(ref)
    IN  IF found = {} THEN {Null} ELSE Latest(found)

-----------------------------------------------------------------------------
\* Write row k with updated_at = NOW().
Put(k, row) ==
    /\ orders' = [j \in DOMAIN orders \cup {k} |->
                     IF j = k THEN row ELSE orders[j]]
    /\ updated_at' = [j \in Keys |->
                         IF j = k THEN DOMAIN orders \ {k}
                                  ELSE updated_at[j] \ {k}]

\* INSERT ... ON CONFLICT DO NOTHING RETURNING id, when a row comes back.
Create(k, ref, sess) ==
    /\ k \notin DOMAIN orders
    /\ Put(k, [status |-> "PENDING_SUBMIT", sess |-> sess,
               ref |-> ref, sys |-> Null])

\* An UPDATE that selects the row by order_ref alone.
UpdateTarget_ByRef(ref, sess) == Latest({k \in DOMAIN orders : orders[k].ref = ref})

\* The row update_ctp selects: a row of the session before a legacy row.
UpdateTarget(ref, sess) ==
    IF BySession(ref, sess) # {} THEN Latest(BySession(ref, sess))
                                 ELSE Latest(ByLegacyRef(ref))

UpdateCtp(ref, sess, sys, status) ==
    LET target == UpdateTarget(ref, sess)
    IN  \/ \E k \in target :
              Put(k, [status |-> status, sess |-> sess,
                      ref |-> orders[k].ref, sys |-> sys])
        \/ target = {} /\ UNCHANGED registryVars
=============================================================================
