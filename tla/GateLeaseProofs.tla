--------------------------- MODULE GateLeaseProofs ---------------------------
(***************************************************************************)
(* GateLease for any set of connections and any TTL: the three lease       *)
(* properties follow from the inductive invariant LeaseInv.                *)
(***************************************************************************)
EXTENDS GateLease, TLAPS

\* What LeaseInv says of one connection, named so that a step can be shown
\* for one connection at a time.
PerConn(c) ==
  /\ (bindCall[c] = "none" \/ bindCall[c] = "sent") =>
       c # current /\ c \notin replaced /\ hold[c] # "held"
  /\ c \in replaced => c # current
  /\ Pending(c) /\ left[c] > 0 /\ c \notin replaced =>
       current = c /\ pttl >= left[c]
  /\ Pending(c) /\ renew[c] = "ok" /\ renewLeft[c] > 0 /\ c \notin replaced =>
       current = c /\ pttl >= renewLeft[c]
  /\ c \in replaced /\ Pending(c) => left[c] <= grace[c]
  /\ c \in replaced /\ Pending(c) /\ renew[c] = "ok" => renewLeft[c] <= grace[c]
  /\ renew[c] # "idle" => bindCall[c] = "ok"

Key == (pttl = 0) <=> (current = None)

\* LeaseInv is the type invariant, the key's consistency and the facts about
\* each connection.
LEMMA Split == LeaseInv <=> TypeOK /\ Key /\ \A c \in Conns : PerConn(c)
BY DEF LeaseInv, Key, PerConn

\* The initial state satisfies LeaseInv: no binding, no call.
LEMMA LeaseInitInv == LeaseInit => LeaseInv
BY GateLeaseAssumption DEF LeaseInit, LeaseInv, TypeOK, Pending

\* Time: all countdowns fall together, so their order is kept.
LEMMA TickInv == LeaseInv /\ Tick => LeaseInv'
<1> SUFFICES ASSUME LeaseInv, Tick PROVE LeaseInv'
  OBVIOUS
<1>0. TypeOK /\ Key /\ \A c \in Conns : PerConn(c)
  BY Split
<1>1. TypeOK'
  BY <1>0, GateLeaseAssumption DEF TypeOK, Tick, Dec
<1>2. Key'
  BY <1>0, GateLeaseAssumption DEF Key, TypeOK, Tick, Dec
<1>3. ASSUME NEW c \in Conns PROVE PerConn(c)'
  BY <1>0, <1>3, GateLeaseAssumption DEF PerConn, Pending, TypeOK, Tick, Dec
<1> QED
  BY <1>1, <1>2, <1>3 DEF LeaseInv, Key, PerConn

\* Each step of a Gateway or of a Redis script keeps LeaseInv.
LEMMA StepInv == LeaseInv /\ [LeaseNext]_leaseVars => LeaseInv'
<1> SUFFICES ASSUME LeaseInv, [LeaseNext]_leaseVars PROVE LeaseInv'
  OBVIOUS
<1>0. TypeOK /\ Key /\ \A c \in Conns : PerConn(c)
  BY Split
<1> USE GateLeaseAssumption
<1>1. CASE Tick
  BY <1>1, TickInv
<1>2. CASE \E S \in SUBSET Conns : detach(S)
  <2>1. PICK S \in SUBSET Conns : detach(S)
    BY <1>2
  <2>2. TypeOK' /\ Key'
    BY <1>0, <2>1 DEF TypeOK, Key, detach, storeVars
  <2>3. ASSUME NEW c \in Conns PROVE PerConn(c)'
    BY <1>0, <2>1, <2>3 DEF PerConn, Pending, TypeOK, detach, storeVars
  <2> QED
    BY <2>2, <2>3 DEF LeaseInv, Key, PerConn
<1>3. ASSUME NEW d \in Conns, sendBind(d) PROVE LeaseInv'
  <2>2. TypeOK' /\ Key'
    BY <1>0, <1>3 DEF TypeOK, Key, sendBind, storeVars
  <2>3. ASSUME NEW c \in Conns PROVE PerConn(c)'
    BY <1>0, <1>3, <2>3 DEF PerConn, Pending, TypeOK, sendBind, storeVars
  <2> QED
    BY <2>2, <2>3 DEF LeaseInv, Key, PerConn
<1>4. ASSUME NEW d \in Conns, BindGate(d) PROVE LeaseInv'
  <2>2. TypeOK' /\ Key'
    BY <1>0, <1>4 DEF TypeOK, Key, BindGate
  <2>3. ASSUME NEW c \in Conns PROVE PerConn(c)'
    BY <1>0, <1>4, <2>3 DEF PerConn, Pending, TypeOK, BindGate
  <2> QED
    BY <2>2, <2>3 DEF LeaseInv, Key, PerConn
<1>5. ASSUME NEW d \in Conns, finishAuthentication(d) PROVE LeaseInv'
  <2>2. TypeOK' /\ Key'
    BY <1>0, <1>5 DEF TypeOK, Key, finishAuthentication, storeVars
  <2>3. ASSUME NEW c \in Conns PROVE PerConn(c)'
    BY <1>0, <1>5, <2>3 DEF PerConn, Pending, TypeOK, finishAuthentication, storeVars
  <2> QED
    BY <2>2, <2>3 DEF LeaseInv, Key, PerConn
<1>6. ASSUME NEW d \in Conns, sendRenew(d) PROVE LeaseInv'
  <2>2. TypeOK' /\ Key'
    BY <1>0, <1>6 DEF TypeOK, Key, sendRenew, storeVars
  <2>3. ASSUME NEW c \in Conns PROVE PerConn(c)'
    BY <1>0, <1>6, <2>3 DEF PerConn, Pending, TypeOK, sendRenew, Valid, storeVars
  <2> QED
    BY <2>2, <2>3 DEF LeaseInv, Key, PerConn
<1>7. ASSUME NEW d \in Conns, RenewGateLease(d) PROVE LeaseInv'
  <2>2. TypeOK' /\ Key'
    BY <1>0, <1>7 DEF TypeOK, Key, RenewGateLease
  <2>3. ASSUME NEW c \in Conns PROVE PerConn(c)'
    BY <1>0, <1>7, <2>3 DEF PerConn, Pending, TypeOK, RenewGateLease
  <2> QED
    BY <2>2, <2>3 DEF LeaseInv, Key, PerConn
<1>8. ASSUME NEW d \in Conns, finishHeartbeat(d) PROVE LeaseInv'
  <2>2. TypeOK' /\ Key'
    BY <1>0, <1>8 DEF TypeOK, Key, finishHeartbeat, storeVars
  <2>3. ASSUME NEW c \in Conns PROVE PerConn(c)'
    BY <1>0, <1>8, <2>3 DEF PerConn, Pending, TypeOK, finishHeartbeat, storeVars
  <2> QED
    BY <2>2, <2>3 DEF LeaseInv, Key, PerConn
<1>9. ASSUME NEW d \in Conns, abandonRenew(d) \/ lateRenew(d) \/ UnbindGate(d)
      PROVE LeaseInv'
  <2>2. TypeOK' /\ Key'
    BY <1>0, <1>9 DEF TypeOK, Key, abandonRenew, lateRenew, UnbindGate, storeVars
  <2>3. ASSUME NEW c \in Conns PROVE PerConn(c)'
    <3>1. CASE abandonRenew(d)
      BY <1>0, <3>1, <2>3 DEF PerConn, Pending, TypeOK, abandonRenew, storeVars
    <3>2. CASE lateRenew(d)
      BY <1>0, <3>2, <2>3 DEF PerConn, Pending, TypeOK, lateRenew
    <3>3. CASE UnbindGate(d)
      BY <1>0, <3>3, <2>3 DEF PerConn, Pending, TypeOK, UnbindGate
    <3> QED
      BY <1>9, <3>1, <3>2, <3>3
  <2> QED
    BY <2>2, <2>3 DEF LeaseInv, Key, PerConn
<1>10. CASE UNCHANGED leaseVars
  BY <1>10 DEF leaseVars, LeaseInv, TypeOK, Pending
<1> QED
  BY <1>1, <1>2, <1>3, <1>4, <1>5, <1>6, <1>7, <1>8, <1>9, <1>10 DEF LeaseNext

\* The strengthened invariant of the Gate key and the sessions' leases.
THEOREM LeaseInvariant == LeaseSpec => []LeaseInv
BY LeaseInitInv, StepInv, PTL DEF LeaseSpec

\* LeaseInv gives the three properties a reader of the code relies on.
LEMMA LeaseInvImplies ==
  LeaseInv => OwnerUnlessReplaced /\ OneCurrentSession /\ ReplacedIsBounded
<1> SUFFICES ASSUME LeaseInv
             PROVE  OwnerUnlessReplaced /\ OneCurrentSession /\ ReplacedIsBounded
  OBVIOUS
<1>1. ASSUME NEW c \in Conns, Valid(c) PROVE Pending(c)
  BY <1>1 DEF LeaseInv, TypeOK, Valid, Pending
<1>2. OwnerUnlessReplaced
  BY <1>1 DEF LeaseInv, OwnerUnlessReplaced, Valid
<1>3. OneCurrentSession
  BY <1>2 DEF OwnerUnlessReplaced, OneCurrentSession
<1>4. ReplacedIsBounded
  BY <1>1 DEF LeaseInv, TypeOK, ReplacedIsBounded
<1> QED
  BY <1>2, <1>3, <1>4

\* A locally valid session that no later BindGate overwrote owns the Redis
\* key for as long as its own deadline says.
THEOREM Ownership == LeaseSpec => []OwnerUnlessReplaced
BY LeaseInvariant, LeaseInvImplies, PTL

\* At most one locally valid session of a user has not been replaced.
THEOREM SingleCurrent == LeaseSpec => []OneCurrentSession
BY LeaseInvariant, LeaseInvImplies, PTL

\* A replaced session is locally invalid at most TTL later, kick or no kick.
THEOREM BoundedOverlap == LeaseSpec => []ReplacedIsBounded
BY LeaseInvariant, LeaseInvImplies, PTL
=============================================================================
