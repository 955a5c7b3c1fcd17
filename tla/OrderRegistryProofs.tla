------------------------ MODULE OrderRegistryProofs ------------------------
(***************************************************************************)
(* What the operations of the ctp_orders table do to its type: lemmas for  *)
(* the proofs about the modules that use the table.                        *)
(***************************************************************************)
EXTENDS OrderRegistry, TLAPS

\* A row that is written keeps the table a table.
LEMMA PutType ==
    ASSUME RegistryTypeOK, NEW k \in Keys, NEW row \in Row, Put(k, row)
    PROVE  /\ RegistryTypeOK'
           /\ DOMAIN orders' = DOMAIN orders \cup {k}
BY DEF RegistryTypeOK, Put

\* update_ctp selects rows that exist.
LEMMA TargetInDomain ==
    ASSUME NEW ref, NEW sess
    PROVE  UpdateTarget(ref, sess) \subseteq DOMAIN orders
BY DEF UpdateTarget, Latest, BySession, ByLegacyRef

\* find_by_ctp answers a key or nothing.
LEMMA OwnerType ==
    ASSUME RegistryTypeOK, NEW ref, NEW sess, NEW sys
    PROVE  FindByCtp(ref, sess, sys) \subseteq Keys \cup {Null}
BY DEF FindByCtp, Latest, BySession, BySysId, ByLegacyRef, RegistryTypeOK

\* update_ctp adds and removes no row.
LEMMA UpdateType ==
    ASSUME RegistryTypeOK, NEW ref, NEW sess \in 1..MaxSession,
           NEW sys \in SysIds \cup {Null}, NEW status \in Status,
           UpdateCtp(ref, sess, sys, status)
    PROVE  RegistryTypeOK' /\ DOMAIN orders' = DOMAIN orders
<1>1. CASE UNCHANGED registryVars
  BY <1>1 DEF registryVars, RegistryTypeOK
<1>2. CASE \E k \in UpdateTarget(ref, sess) :
              Put(k, [status |-> status, sess |-> sess, ref |-> orders[k].ref, sys |-> sys])
  <2>1. PICK k \in UpdateTarget(ref, sess) :
              Put(k, [status |-> status, sess |-> sess, ref |-> orders[k].ref, sys |-> sys])
    BY <1>2
  <2>2. k \in DOMAIN orders /\ k \in Keys
    BY <2>1, TargetInDomain DEF RegistryTypeOK
  <2>3. [status |-> status, sess |-> sess, ref |-> orders[k].ref, sys |-> sys] \in Row
    BY <2>2 DEF RegistryTypeOK, Row
  <2> QED BY <2>1, <2>2, <2>3, PutType
<1> QED BY <1>1, <1>2 DEF UpdateCtp

\* create adds the row of its key.
LEMMA CreateType ==
    ASSUME RegistryTypeOK, NEW k \in Keys, NEW ref \in 0..MaxRef, NEW sess \in 1..MaxSession,
           Create(k, ref, sess)
    PROVE  RegistryTypeOK' /\ DOMAIN orders' = DOMAIN orders \cup {k}
<1>1. [status |-> "PENDING_SUBMIT", sess |-> sess, ref |-> ref, sys |-> Null] \in Row
  BY DEF Row, Status
<1> QED BY <1>1, PutType DEF Create
=============================================================================
