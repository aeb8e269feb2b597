--------------------------- MODULE EpochLeaseProofs ---------------------------
(***************************************************************************)
(* EpochLease for any number of processes and any timing constants: a      *)
(* valid local lease owns the epoch key, so at most one process of a       *)
(* NodeID is valid, and a lease reported expired stays so.                 *)
(***************************************************************************)
EXTENDS EpochLease, TLAPS

\* What EpochInv says of one generation.
PerGen(g) ==
  /\ claim[g] = "none" \/ claim[g] = "sent" \/ claim[g] = "lost" =>
       epoch # g /\ lease[g] = "none"
  /\ claim[g] = "refused" => lease[g] = "none"
  /\ claim[g] = "ok" /\ lease[g] # "cancelled" /\ left[g] > 0 =>
       epoch = g /\ pttl >= left[g]
  /\ (renew[g] = "ok" \/ renew[g] = "checked") /\ lease[g] = "live" /\ renewLeft[g] > 0 =>
       epoch = g /\ pttl >= renewLeft[g]
  /\ lease[g] = "none" => renew[g] = "idle"
  /\ release[g] # "none" => lease[g] = "cancelled"
  /\ g \in observed => lease[g] = "cancelled"

Key == (pttl = 0) <=> (epoch = None)

\* EpochInv is the type invariant, the key's consistency and PerGen.
LEMMA EpochSplit == EpochInv <=> TypeOK /\ Key /\ \A g \in Gens : PerGen(g)
BY DEF EpochInv, Key, PerGen

\* No key, no lease and no call at the start.
LEMMA EpochInitInv == Init => EpochInv
BY EpochLeaseAssumption DEF Init, EpochInv, TypeOK

\* Each step of a process, of Redis and of the clock keeps EpochInv.
LEMMA EpochStepInv == EpochInv /\ [Next]_vars => EpochInv'
<1> SUFFICES ASSUME EpochInv, [Next]_vars PROVE EpochInv'
  OBVIOUS
<1>0. TypeOK /\ Key /\ \A g \in Gens : PerGen(g)
  BY EpochSplit
<1> SUFFICES TypeOK' /\ Key' /\ \A g \in Gens : PerGen(g)'
  BY DEF EpochInv, Key, PerGen
<1> USE EpochLeaseAssumption
<1>1. CASE Tick
  <2>1. TypeOK' /\ Key'
    BY <1>0, <1>1 DEF TypeOK, Key, Tick, Dec
  <2>2. ASSUME NEW g \in Gens PROVE PerGen(g)'
    BY <1>0, <1>1, <2>2 DEF PerGen, TypeOK, Tick, Dec
  <2> QED
    BY <2>1, <2>2
<1>2. ASSUME NEW h \in Gens, claimEpoch(h) \/ claimFails(h)
      PROVE  TypeOK' /\ Key' /\ \A g \in Gens : PerGen(g)'
  BY <1>0, <1>2 DEF TypeOK, Key, PerGen, claimEpoch, claimFails
<1>3. ASSUME NEW h \in Gens, RegisterNodeEpoch(h)
      PROVE  TypeOK' /\ Key' /\ \A g \in Gens : PerGen(g)'
  <2>1. TypeOK' /\ Key'
    BY <1>0, <1>3 DEF TypeOK, Key, RegisterNodeEpoch
  <2>2. ASSUME NEW g \in Gens PROVE PerGen(g)'
    BY <1>0, <1>3, <2>2 DEF TypeOK, PerGen, RegisterNodeEpoch
  <2> QED
    BY <2>1, <2>2
<1>4. ASSUME NEW h \in Gens, newEpochLease(h)
      PROVE  TypeOK' /\ Key' /\ \A g \in Gens : PerGen(g)'
  BY <1>0, <1>4 DEF TypeOK, Key, PerGen, newEpochLease
<1>5. ASSUME NEW h \in Gens, valid(h) \/ loseOwnership(h) \/ monitor(h)
      PROVE  TypeOK' /\ Key' /\ \A g \in Gens : PerGen(g)'
  BY <1>0, <1>5 DEF TypeOK, Key, PerGen, valid, loseOwnership, monitor, cancel
<1>6. ASSUME NEW h \in Gens, renewOnce(h)
      PROVE  TypeOK' /\ Key' /\ \A g \in Gens : PerGen(g)'
  <2>1. TypeOK' /\ Key'
    BY <1>0, <1>6 DEF TypeOK, Key, renewOnce, Valid, Least
  <2>2. ASSUME NEW g \in Gens PROVE PerGen(g)'
    BY <1>0, <1>6, <2>2 DEF TypeOK, PerGen, renewOnce, Valid
  <2> QED
    BY <2>1, <2>2
<1>7. ASSUME NEW h \in Gens, RenewNodeEpoch(h)
      PROVE  TypeOK' /\ Key' /\ \A g \in Gens : PerGen(g)'
  <2>1. TypeOK' /\ Key'
    BY <1>0, <1>7 DEF TypeOK, Key, RenewNodeEpoch
  <2>2. ASSUME NEW g \in Gens PROVE PerGen(g)'
    BY <1>0, <1>7, <2>2 DEF TypeOK, PerGen, RenewNodeEpoch
  <2> QED
    BY <2>1, <2>2
<1>8. ASSUME NEW h \in Gens, renewInTime(h) \/ renewStore(h)
      PROVE  TypeOK' /\ Key' /\ \A g \in Gens : PerGen(g)'
  <2>1. TypeOK' /\ Key'
    BY <1>0, <1>8 DEF TypeOK, Key, renewInTime, renewStore, renewEnds, firstResult
  <2>2. ASSUME NEW g \in Gens PROVE PerGen(g)'
    BY <1>0, <1>8, <2>2 DEF TypeOK, PerGen, renewInTime, renewStore, renewEnds, Valid
  <2> QED
    BY <2>1, <2>2
<1>9. ASSUME NEW h \in Gens, renewRefused(h) \/ renewFails(h) \/ crash(h)
      PROVE  TypeOK' /\ Key' /\ \A g \in Gens : PerGen(g)'
  <2>1. TypeOK' /\ Key'
    BY <1>0, <1>9 DEF TypeOK, Key, renewRefused, renewFails, crash, renewEnds, cancel,
      firstResult
  <2>2. ASSUME NEW g \in Gens PROVE PerGen(g)'
    BY <1>0, <1>9, <2>2 DEF TypeOK, PerGen, renewRefused, renewFails, crash,
      renewEnds, cancel
  <2> QED
    BY <2>1, <2>2
<1>10. ASSUME NEW h \in Gens, lateRenew(h)
       PROVE  TypeOK' /\ Key' /\ \A g \in Gens : PerGen(g)'
  <2>1. TypeOK' /\ Key'
    BY <1>0, <1>10 DEF TypeOK, Key, lateRenew
  <2>2. ASSUME NEW g \in Gens PROVE PerGen(g)'
    BY <1>0, <1>10, <2>2 DEF TypeOK, PerGen, lateRenew
  <2> QED
    BY <2>1, <2>2
<1>11. ASSUME NEW h \in Gens, NEW r \in BOOLEAN, stopRenewal(h, r)
       PROVE  TypeOK' /\ Key' /\ \A g \in Gens : PerGen(g)'
  BY <1>0, <1>11 DEF TypeOK, Key, PerGen, stopRenewal, cancel
<1>12. ASSUME NEW h \in Gens, sendUnregister(h) \/ UnregisterNodeEpoch(h)
       PROVE  TypeOK' /\ Key' /\ \A g \in Gens : PerGen(g)'
  <2>1. TypeOK' /\ Key'
    BY <1>0, <1>12 DEF TypeOK, Key, sendUnregister, UnregisterNodeEpoch
  <2>2. ASSUME NEW g \in Gens PROVE PerGen(g)'
    BY <1>0, <1>12, <2>2 DEF TypeOK, PerGen, sendUnregister, UnregisterNodeEpoch
  <2> QED
    BY <2>1, <2>2
<1>13. CASE UNCHANGED vars
  BY <1>0, <1>13 DEF vars, TypeOK, Key, PerGen
<1> QED
  BY <1>1, <1>2, <1>3, <1>4, <1>5, <1>6, <1>7, <1>8, <1>9, <1>10, <1>11, <1>12,
     <1>13 DEF Next, local, redis

\* The inductive invariant of the epoch key and the local leases.
THEOREM EpochInvariant == Spec => []EpochInv
BY EpochInitInv, EpochStepInv, PTL DEF Spec

\* A valid lease has a confirmed claim behind it.
LEMMA EpochInvOwns == EpochInv => ValidOwnsEpoch
BY DEF EpochInv, TypeOK, ValidOwnsEpoch, Valid

\* A process that considers its lease valid owns the epoch key for at least
\* as long as it believes.
THEOREM EpochOwnership == Spec => []ValidOwnsEpoch
BY EpochInvariant, EpochInvOwns, PTL

\* At most one process of a NodeID is valid.
THEOREM GenerationExclusion == Spec => []OneValidGeneration
<1>1. ValidOwnsEpoch => OneValidGeneration
  BY DEF ValidOwnsEpoch, OneValidGeneration
<1> QED
  BY <1>1, EpochOwnership, PTL

\* A lease that a valid() call has found expired is never valid again.
THEOREM ExpiryIsFinal == Spec => ObservedIsFinal
<1>1. EpochInv /\ EpochInv' /\ [Next]_vars => [\A g \in observed : ~Valid(g)']_vars
  <2> SUFFICES ASSUME EpochInv, EpochInv', [Next]_vars, NEW g \in observed
               PROVE  ~Valid(g)'
    OBVIOUS
  <2>1. observed \subseteq observed'
    BY DEF Next, vars, local, redis, Tick, claimEpoch, claimFails, RegisterNodeEpoch,
      newEpochLease, valid, loseOwnership, renewOnce, RenewNodeEpoch, renewInTime,
      renewStore, renewRefused, renewFails, monitor, lateRenew, stopRenewal, sendUnregister,
      UnregisterNodeEpoch, crash
  <2>2. g \in Gens /\ lease'[g] = "cancelled"
    BY <2>1 DEF EpochInv, TypeOK
  <2> QED
    BY <2>2 DEF Valid
<1> QED
  BY <1>1, EpochInvariant, PTL DEF Spec, ObservedIsFinal
=============================================================================
