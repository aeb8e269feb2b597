------------------------------- MODULE EpochLease -------------------------------
(***************************************************************************)
(* The epoch of one (service, NodeID): successive or concurrent processes  *)
(* ("generations") started under the same NodeID compete for the Redis     *)
(* epoch key (locate/redis/node.go) and keep a local lease of it           *)
(* (node/epoch.go).  Each generation draws a fresh epoch, so the epoch is  *)
(* identified with the generation.                                         *)
(*                                                                         *)
(* Redis commands run atomically at any moment after the call, also after  *)
(* the caller has given up or died.  Countdowns model the clocks: a local  *)
(* deadline is counted from before the call, the key's TTL from the        *)
(* command.  renewOnce checks the lease and then stores the new deadline   *)
(* in two steps, since nothing makes them one.                             *)
(***************************************************************************)
EXTENDS Integers

CONSTANTS Gens,         \* processes started under the NodeID
          TTL,          \* DefaultNodeEpochTTL, in ticks
          RPCTimeout,   \* _nodeEpochRPCTimeout, in ticks
          None          \* no epoch

ASSUME EpochLeaseAssumption ==
  TTL \in Nat \ {0} /\ RPCTimeout \in Nat \ {0} /\ None \notin Gens

VARIABLES
  epoch,      \* the value of the epoch key, or None
  pttl,       \* remaining life of the key
  claim,      \* RegisterNodeEpoch of g: "none", "sent", "ok", "refused", "lost"
  lease,      \* epochLease.ctx: "none" (no lease object), "live", "cancelled"
  left,       \* deadline - now
  renew,      \* renewOnce: "idle", "sent", "ok", "refused", "checked"
  renewLeft,  \* TTL counted from started
  rpcLeft,    \* renewalDeadline - now
  stray,      \* generations with an abandoned renewal that may still run
  release,    \* release of g: "none", "waiting", "sent", "ended"
  observed,   \* generations some valid() call has found expired
  first       \* result of the first renewal: "pending", "ok", "failed"

vars == <<epoch, pttl, claim, lease, left, renew, renewLeft, rpcLeft, stray,
          release, observed, first>>

Valid(g) == lease[g] = "live" /\ left[g] > 0

TypeOK ==
  /\ epoch \in Gens \cup {None}
  /\ pttl \in 0..TTL
  /\ claim \in [Gens -> {"none", "sent", "ok", "refused", "lost"}]
  /\ lease \in [Gens -> {"none", "live", "cancelled"}]
  /\ left \in [Gens -> 0..TTL]
  /\ renew \in [Gens -> {"idle", "sent", "ok", "refused", "checked"}]
  /\ renewLeft \in [Gens -> 0..TTL]
  /\ rpcLeft \in [Gens -> 0..TTL]
  /\ stray \subseteq Gens
  /\ release \in [Gens -> {"none", "waiting", "sent", "ended"}]
  /\ observed \subseteq Gens
  /\ first \in [Gens -> {"pending", "ok", "failed"}]

Init ==
  /\ epoch = None /\ pttl = 0
  /\ claim = [g \in Gens |-> "none"]
  /\ lease = [g \in Gens |-> "none"]
  /\ left = [g \in Gens |-> 0]
  /\ renew = [g \in Gens |-> "idle"]
  /\ renewLeft = [g \in Gens |-> 0]
  /\ rpcLeft = [g \in Gens |-> 0]
  /\ stray = {}
  /\ release = [g \in Gens |-> "none"]
  /\ observed = {}
  /\ first = [g \in Gens |-> "pending"]

-----------------------------------------------------------------------------
Dec(n) == IF n > 0 THEN n - 1 ELSE 0
Least(a, b) == IF a <= b THEN a ELSE b
cancel(g) == lease' = [lease EXCEPT ![g] = "cancelled"]
renewEnds(g) ==
  /\ renew' = [renew EXCEPT ![g] = "idle"]
  /\ renewLeft' = [renewLeft EXCEPT ![g] = 0]
  /\ rpcLeft' = [rpcLeft EXCEPT ![g] = 0]

firstResult(g, r) == first' = [first EXCEPT ![g] = IF @ = "pending" THEN r ELSE @]

\* One unit of time passes; Redis drops the key when its TTL runs out.
Tick ==
  /\ pttl' = Dec(pttl)
  /\ epoch' = IF pttl <= 1 THEN None ELSE epoch
  /\ left' = [g \in Gens |-> Dec(left[g])]
  /\ renewLeft' = [g \in Gens |-> Dec(renewLeft[g])]
  /\ rpcLeft' = [g \in Gens |-> Dec(rpcLeft[g])]
  /\ UNCHANGED <<claim, lease, renew, stray, release, observed, first>>

\* claimEpoch: started is read and the key is set if absent.
claimEpoch(g) ==
  /\ claim[g] = "none"
  /\ claim' = [claim EXCEPT ![g] = "sent"]
  /\ left' = [left EXCEPT ![g] = TTL]
  /\ UNCHANGED <<epoch, pttl, lease, renew, renewLeft, rpcLeft, stray, release, observed, first>>

\* A mutant: SET without NX.
RegisterNodeEpochAlways(g) ==
  /\ claim[g] \in {"sent", "lost"}
  /\ claim' = [claim EXCEPT ![g] = IF @ = "lost" THEN "refused" ELSE "ok"]
  /\ epoch' = g
  /\ pttl' = TTL
  /\ UNCHANGED <<lease, left, renew, renewLeft, rpcLeft, stray, release, observed, first>>

\* SET NX PX: it takes the key only if there is none, whether or not the
\* caller still waits.
RegisterNodeEpoch(g) ==
  /\ claim[g] \in {"sent", "lost"}
  /\ claim' = [claim EXCEPT ![g] = IF epoch # None \/ @ = "lost" THEN "refused" ELSE "ok"]
  /\ epoch' = IF epoch = None THEN g ELSE epoch
  /\ pttl' = IF epoch = None THEN TTL ELSE pttl
  /\ UNCHANGED <<lease, left, renew, renewLeft, rpcLeft, stray, release, observed, first>>

\* The caller gives up, or its process dies, before the answer.
claimFails(g) ==
  /\ claim[g] = "sent"
  /\ claim' = [claim EXCEPT ![g] = "lost"]
  /\ left' = [left EXCEPT ![g] = 0]
  /\ UNCHANGED <<epoch, pttl, lease, renew, renewLeft, rpcLeft, stray, release, observed, first>>

\* A confirmed claim yields a lease with the deadline started + TTL, even
\* when the caller's context has ended meanwhile.
newEpochLease(g) ==
  /\ claim[g] = "ok" /\ lease[g] = "none"
  /\ lease' = [lease EXCEPT ![g] = "live"]
  /\ UNCHANGED <<epoch, pttl, claim, left, renew, renewLeft, rpcLeft, stray,
                 release, observed, first>>

\* A mutant: valid() reports the expiry but does not cancel the lease.
validReports(g) ==
  /\ lease[g] = "live" /\ left[g] = 0
  /\ observed' = observed \cup {g}
  /\ UNCHANGED <<epoch, pttl, claim, lease, left, renew, renewLeft, rpcLeft, stray, release, first>>

\* valid() of a request, a renewal or the monitor's timer finds the deadline
\* passed and cancels the lease for good.
valid(g) ==
  /\ lease[g] = "live" /\ left[g] = 0
  /\ cancel(g)
  /\ observed' = observed \cup {g}
  /\ UNCHANGED <<epoch, pttl, claim, left, renew, renewLeft, rpcLeft, stray, release, first>>

\* loseOwnership: a binding write was told that the epoch is another's.
loseOwnership(g) ==
  /\ lease[g] = "live" /\ epoch # g
  /\ cancel(g)
  /\ UNCHANGED <<epoch, pttl, claim, left, renew, renewLeft, rpcLeft, stray,
                 release, observed, first>>

-----------------------------------------------------------------------------
\* A mutant: the loop renews without asking whether the lease is valid.
renewOnceUnchecked(g) ==
  /\ lease[g] # "none" /\ renew[g] = "idle"
  /\ renew' = [renew EXCEPT ![g] = "sent"]
  /\ renewLeft' = [renewLeft EXCEPT ![g] = TTL]
  /\ rpcLeft' = [rpcLeft EXCEPT ![g] = Least(left[g], RPCTimeout)]
  /\ UNCHANGED <<epoch, pttl, claim, lease, left, stray, release, observed, first>>

\* renewOnce up to the call: a valid lease, the call bounded by what is left
\* of it and by the RPC timeout.
renewOnce(g) ==
  /\ Valid(g) /\ renew[g] = "idle"
  /\ renew' = [renew EXCEPT ![g] = "sent"]
  /\ renewLeft' = [renewLeft EXCEPT ![g] = TTL]
  /\ rpcLeft' = [rpcLeft EXCEPT ![g] = Least(left[g], RPCTimeout)]
  /\ UNCHANGED <<epoch, pttl, claim, lease, left, stray, release, observed, first>>

\* The renew script: compare, then extend.
RenewNodeEpoch(g) ==
  /\ renew[g] = "sent"
  /\ renew' = [renew EXCEPT ![g] = IF epoch = g THEN "ok" ELSE "refused"]
  /\ pttl' = IF epoch = g THEN TTL ELSE pttl
  /\ UNCHANGED <<epoch, claim, lease, left, renewLeft, rpcLeft, stray, release, observed, first>>

\* The answer is in time and the lease is valid ...
renewInTime(g) ==
  /\ renew[g] = "ok" /\ rpcLeft[g] > 0 /\ Valid(g)
  /\ renew' = [renew EXCEPT ![g] = "checked"]
  /\ UNCHANGED <<epoch, pttl, claim, lease, left, renewLeft, rpcLeft, stray,
                 release, observed, first>>

\* A mutant: the new deadline is counted from the answer.
renewStoreFromNow(g) ==
  /\ renew[g] = "checked"
  /\ left' = [left EXCEPT ![g] = TTL]
  /\ renewEnds(g) /\ firstResult(g, "ok")
  /\ UNCHANGED <<epoch, pttl, claim, lease, stray, release, observed>>

\* ... and the deadline is replaced, whatever has happened since.
renewStore(g) ==
  /\ renew[g] = "checked"
  /\ left' = [left EXCEPT ![g] = renewLeft[g]]
  /\ renewEnds(g) /\ firstResult(g, "ok")
  /\ UNCHANGED <<epoch, pttl, claim, lease, stray, release, observed>>

\* The epoch is missing or another's: this generation is over.
renewRefused(g) ==
  /\ renew[g] = "refused"
  /\ cancel(g)
  /\ renewEnds(g)
  /\ UNCHANGED <<epoch, pttl, claim, left, stray, release, observed, first>>

\* Too late, cancelled or failed: the deadline stays and the loop goes on; a
\* call that was sent may still run.
renewFails(g) ==
  /\ renew[g] \in {"sent", "ok", "refused"}
  /\ stray' = IF renew[g] = "sent" THEN stray \cup {g} ELSE stray
  /\ renewEnds(g) /\ firstResult(g, "failed")
  /\ UNCHANGED <<epoch, pttl, claim, lease, left, release, observed>>

\* monitor: a first renewal that failed ends the lease, however much is left.
monitor(g) ==
  /\ lease[g] = "live" /\ first[g] = "failed"
  /\ cancel(g)
  /\ UNCHANGED <<epoch, pttl, claim, left, renew, renewLeft, rpcLeft, stray,
                 release, observed, first>>

lateRenew(g) ==
  /\ g \in stray
  /\ stray' = stray \ {g}
  /\ pttl' = IF epoch = g THEN TTL ELSE pttl
  /\ UNCHANGED <<epoch, claim, lease, left, renew, renewLeft, rpcLeft, release, observed, first>>

-----------------------------------------------------------------------------
\* stopRenewal: the lease is cancelled before anything else; without
\* releasing (drain failed) the key is left to its TTL.
stopRenewal(g, releasing) ==
  /\ lease[g] # "none" /\ release[g] = "none"
  /\ cancel(g)
  /\ release' = [release EXCEPT ![g] = IF releasing THEN "waiting" ELSE "ended"]
  /\ UNCHANGED <<epoch, pttl, claim, left, renew, renewLeft, rpcLeft, stray, observed, first>>

\* release: the renewal goroutines have ended, UnregisterNodeEpoch is called.
sendUnregister(g) ==
  /\ release[g] = "waiting" /\ renew[g] = "idle"
  /\ release' = [release EXCEPT ![g] = "sent"]
  /\ UNCHANGED <<epoch, pttl, claim, lease, left, renew, renewLeft, rpcLeft,
                 stray, observed, first>>

\* A mutant: the key is deleted without comparing it.
UnregisterNodeEpochAny(g) ==
  /\ release[g] = "sent"
  /\ release' = [release EXCEPT ![g] = "ended"]
  /\ epoch' = None
  /\ pttl' = 0
  /\ UNCHANGED <<claim, lease, left, renew, renewLeft, rpcLeft, stray, observed, first>>

\* Compare and delete.
UnregisterNodeEpoch(g) ==
  /\ release[g] = "sent"
  /\ release' = [release EXCEPT ![g] = "ended"]
  /\ epoch' = IF epoch = g THEN None ELSE epoch
  /\ pttl' = IF epoch = g THEN 0 ELSE pttl
  /\ UNCHANGED <<claim, lease, left, renew, renewLeft, rpcLeft, stray, observed, first>>

\* The process dies with whatever it had: the key stays until its TTL, and
\* calls it has made may still run.
crash(g) ==
  /\ lease[g] # "none" /\ release[g] # "ended"
  /\ cancel(g)
  /\ release' = [release EXCEPT ![g] = IF @ = "sent" THEN "sent" ELSE "ended"]
  /\ stray' = IF renew[g] = "sent" THEN stray \cup {g} ELSE stray
  /\ renewEnds(g)
  /\ UNCHANGED <<epoch, pttl, claim, left, observed, first>>
-----------------------------------------------------------------------------
local(g) ==
  \/ newEpochLease(g) \/ valid(g) \/ renewInTime(g) \/ renewStore(g)
  \/ renewRefused(g) \/ monitor(g) \/ sendUnregister(g)

redis(g) == RegisterNodeEpoch(g) \/ RenewNodeEpoch(g) \/ lateRenew(g) \/ UnregisterNodeEpoch(g)

Next ==
  \/ Tick
  \/ \E g \in Gens :
       \/ local(g) \/ redis(g)
       \/ claimEpoch(g) \/ claimFails(g) \/ loseOwnership(g)
       \/ renewOnce(g) \/ renewFails(g)
       \/ \E releasing \in BOOLEAN : stopRenewal(g, releasing)
       \/ crash(g)

Spec == Init /\ [][Next]_vars

\* Time passes and goroutines run; a renewal that was sent is answered or
\* times out.
Fairness ==
  /\ WF_vars(Tick)
  /\ \A g \in Gens : WF_vars(local(g)) /\ WF_vars(renewFails(g) \/ RenewNodeEpoch(g))

FairSpec == Spec /\ Fairness

-----------------------------------------------------------------------------
\* A generation that considers its lease valid owns the epoch key for at
\* least as long as it believes: no other process of the same NodeID can
\* claim it, whatever calls were lost, late or repeated (epoch.go counts
\* from before the call; the scripts compare; release cancels first).
ValidOwnsEpoch ==
  \A g \in Gens : Valid(g) => epoch = g /\ pttl >= left[g]

\* At most one process of a NodeID accepts work at any time.
OneValidGeneration ==
  \A g, h \in Gens : Valid(g) /\ Valid(h) => g = h

\* Once a valid() call has reported the expiry to anyone, no renewal that is
\* still under way makes the lease valid again.
ObservedIsFinal == [][\A g \in observed : ~Valid(g)']_vars

\* An expired lease is not made valid again, reported or not.
NoRevival ==
  [][\A g \in Gens : lease[g] = "live" /\ left[g] = 0 => ~Valid(g)']_vars

\* The key of a generation whose lease has ended, or whose claim took effect
\* after claimEpoch had given up, disappears, so that the NodeID can be
\* claimed again.
EndedEpochExpires ==
  \A g \in Gens : epoch = g /\ (lease[g] = "cancelled" \/ claim[g] = "refused") ~> epoch # g

\* The inductive strengthening: what holds for a deadline in force holds for
\* one that a claim or a renewal is about to set.
EpochInv ==
  /\ TypeOK
  /\ (pttl = 0) <=> (epoch = None)
  /\ \A g \in Gens :
       /\ claim[g] = "none" \/ claim[g] = "sent" \/ claim[g] = "lost" =>
            epoch # g /\ lease[g] = "none"
       /\ claim[g] = "refused" => lease[g] = "none"
       /\ claim[g] = "ok" /\ lease[g] # "cancelled" /\ left[g] > 0 =>
            epoch = g /\ pttl >= left[g]
       /\ (renew[g] = "ok" \/ renew[g] = "checked") /\ lease[g] = "live" /\ renewLeft[g] > 0 =>
            epoch = g /\ pttl >= renewLeft[g]
       /\ lease[g] = "none" => renew[g] = "idle"
       /\ release[g] # "none" => lease[g] = "cancelled"
       /\ g \in observed => lease[g] = "cancelled"
=============================================================================
