------------------------------- MODULE GateLease -------------------------------
(***************************************************************************)
(* The Gate binding of one (service, UID): the Redis key that says which   *)
(* connection currently represents the user (locate/redis/gate.go), and    *)
(* the lease every Gateway session keeps of its own binding                *)
(* (gateway/session.go).                                                   *)
(*                                                                         *)
(* A connection authenticates at most once and draws a fresh BindingToken  *)
(* for it, so a binding is identified with its connection.  Scripts run    *)
(* atomically in Redis, but at any moment after the call: even after the   *)
(* caller has given up ("cancellation cannot undo started I/O").           *)
(*                                                                         *)
(* Time is a set of countdowns that Tick lowers together.  A local         *)
(* deadline is counted from the instant BEFORE the call (boundAt, now),    *)
(* the key's TTL from the instant the script runs.                         *)
(***************************************************************************)
EXTENDS Integers, FiniteSets

CONSTANTS Conns,    \* connections of this user, over all Gateways
          TTL,      \* LeaseTTL, in ticks
          None      \* "no binding"

ASSUME GateLeaseAssumption == TTL \in Nat \ {0} /\ None \notin Conns

VARIABLES
  current,    \* the binding stored under the Gate key, or None
  pttl,       \* remaining life of the key
  bindCall,   \* BindGate of c: "none", "sent", "ok" (the script ran)
  previous,   \* the old binding BindGate returned to c
  hold,       \* session.binding of c: "none", "held", "gone" (cleared for good)
  left,       \* leaseDeadline - now, counted from boundAt / renewedAt
  renew,      \* RenewGateLease of c: "idle", "sent", "ok", "refused"
  renewLeft,  \* TTL counted from the `now' read before the renewal
  stray,      \* connections with an abandoned renewal that may still run
  replaced,   \* connections whose binding another BindGate overwrote
  grace       \* TTL counted from the instant c was replaced

storeVars == <<current, pttl, previous, replaced, grace>>
leaseVars == <<current, pttl, bindCall, previous, hold, left, renew, renewLeft,
               stray, replaced, grace>>

Valid(c) == hold[c] = "held" /\ left[c] > 0

TypeOK ==
  /\ current \in Conns \cup {None}
  /\ pttl \in 0..TTL
  /\ bindCall \in [Conns -> {"none", "sent", "ok"}]
  /\ previous \in [Conns -> Conns \cup {None}]
  /\ hold \in [Conns -> {"none", "held", "gone"}]
  /\ left \in [Conns -> 0..TTL]
  /\ renew \in [Conns -> {"idle", "sent", "ok", "refused"}]
  /\ renewLeft \in [Conns -> 0..TTL]
  /\ stray \subseteq Conns
  /\ replaced \subseteq Conns
  /\ grace \in [Conns -> 0..TTL]

LeaseInit ==
  /\ current = None
  /\ pttl = 0
  /\ bindCall = [c \in Conns |-> "none"]
  /\ previous = [c \in Conns |-> None]
  /\ hold = [c \in Conns |-> "none"]
  /\ left = [c \in Conns |-> 0]
  /\ renew = [c \in Conns |-> "idle"]
  /\ renewLeft = [c \in Conns |-> 0]
  /\ stray = {}
  /\ replaced = {}
  /\ grace = [c \in Conns |-> 0]

-----------------------------------------------------------------------------
Dec(n) == IF n > 0 THEN n - 1 ELSE 0

\* One unit of time passes; Redis drops the key when its TTL runs out.
Tick ==
  /\ pttl' = Dec(pttl)
  /\ current' = IF pttl <= 1 THEN None ELSE current
  /\ left' = [c \in Conns |-> Dec(left[c])]
  /\ renewLeft' = [c \in Conns |-> Dec(renewLeft[c])]
  /\ grace' = [c \in Conns |-> Dec(grace[c])]
  /\ UNCHANGED <<bindCall, previous, hold, renew, stray, replaced>>

\* boundAt is read and BindGate is called.
sendBind(c) ==
  /\ bindCall[c] = "none" /\ hold[c] = "none"
  /\ bindCall' = [bindCall EXCEPT ![c] = "sent"]
  /\ left' = [left EXCEPT ![c] = TTL]
  /\ UNCHANGED <<storeVars, hold, renew, renewLeft, stray>>

\* The bind script: overwrite whatever is stored and return it.  (The
\* script's `if current then' has no `end' of its own before PSETEX; this is
\* the reading that gate_test.go asserts, with the write outside the `if'.)
BindGate(c) ==
  /\ bindCall[c] = "sent"
  /\ bindCall' = [bindCall EXCEPT ![c] = "ok"]
  /\ previous' = [previous EXCEPT ![c] = current]
  /\ current' = c
  /\ pttl' = TTL
  /\ replaced' = replaced \cup ({current} \ {None, c})
  /\ grace' = [d \in Conns |-> IF d = current THEN TTL ELSE grace[d]]
  /\ UNCHANGED <<hold, left, renew, renewLeft, stray>>

\* finishAuthentication with a lease that has not run out meanwhile.
finishAuthentication(c) ==
  /\ bindCall[c] = "ok" /\ hold[c] = "none"
  /\ left[c] > 0
  /\ hold' = [hold EXCEPT ![c] = "held"]
  /\ UNCHANGED <<storeVars, bindCall, left, renew, renewLeft, stray>>

\* The sessions in S drop their binding for good: detachForClose,
\* detachForKick, a failed authentication, or the end of their process.
detach(S) ==
  /\ hold' = [c \in Conns |-> IF c \in S THEN "gone" ELSE hold[c]]
  /\ left' = [c \in Conns |-> IF c \in S THEN 0 ELSE left[c]]
  /\ UNCHANGED <<storeVars, bindCall, renew, renewLeft, stray>>

\* heartbeat: a valid session whose lease is due calls RenewGateLease.
sendRenew(c) ==
  /\ Valid(c)
  /\ 2 * left[c] <= TTL
  /\ renew[c] = "idle"
  /\ renew' = [renew EXCEPT ![c] = "sent"]
  /\ renewLeft' = [renewLeft EXCEPT ![c] = TTL]
  /\ UNCHANGED <<storeVars, bindCall, hold, left, stray>>

\* The renew script: only the stored binding itself is extended.
RenewGateLease(c) ==
  /\ renew[c] = "sent"
  /\ renew' = [renew EXCEPT ![c] = IF current = c THEN "ok" ELSE "refused"]
  /\ pttl' = IF current = c THEN TTL ELSE pttl
  /\ UNCHANGED <<current, bindCall, previous, hold, left, renewLeft, stray, replaced, grace>>

\* A mutant: the new deadline is counted from the reply, not from the call.
finishHeartbeatFromReply(c) ==
  /\ renew[c] = "ok"
  /\ renew' = [renew EXCEPT ![c] = "idle"]
  /\ left' = IF hold[c] = "held" THEN [left EXCEPT ![c] = TTL] ELSE left
  /\ renewLeft' = [renewLeft EXCEPT ![c] = 0]
  /\ UNCHANGED <<storeVars, bindCall, hold, stray>>

\* A mutant: the renewal is added to what is left.
finishHeartbeatAdds(c) ==
  /\ renew[c] = "ok"
  /\ renew' = [renew EXCEPT ![c] = "idle"]
  /\ left' = IF hold[c] = "held" THEN [left EXCEPT ![c] = @ + renewLeft[c]] ELSE left
  /\ renewLeft' = [renewLeft EXCEPT ![c] = 0]
  /\ UNCHANGED <<storeVars, bindCall, hold, stray>>

\* finishHeartbeat: the deadline moves only if the binding is still the one
\* that was renewed.
finishHeartbeat(c) ==
  /\ renew[c] = "ok"
  /\ renew' = [renew EXCEPT ![c] = "idle"]
  /\ left' = IF hold[c] = "held" THEN [left EXCEPT ![c] = renewLeft[c]] ELSE left
  /\ renewLeft' = [renewLeft EXCEPT ![c] = 0]
  /\ UNCHANGED <<storeVars, bindCall, hold, stray>>

\* A refused renewal, or one whose answer is no longer awaited.
abandonRenew(c) ==
  /\ renew[c] # "idle"
  /\ renew' = [renew EXCEPT ![c] = "idle"]
  /\ stray' = IF renew[c] = "sent" THEN stray \cup {c} ELSE stray
  /\ renewLeft' = [renewLeft EXCEPT ![c] = 0]
  /\ UNCHANGED <<storeVars, bindCall, hold, left>>

\* The renew script of an abandoned call runs after all.
lateRenew(c) ==
  /\ c \in stray
  /\ stray' = stray \ {c}
  /\ pttl' = IF current = c THEN TTL ELSE pttl
  /\ UNCHANGED <<current, bindCall, previous, hold, left, renew, renewLeft, replaced, grace>>

\* A mutant: the unbind script deletes the key without comparing it.
UnbindGateAny(c) ==
  /\ hold[c] = "gone" /\ bindCall[c] # "none"
  /\ current' = None
  /\ pttl' = 0
  /\ UNCHANGED <<bindCall, previous, hold, left, renew, renewLeft, stray, replaced, grace>>

\* The unbind script: compare and delete.  Only a cleanup that has taken
\* the binding out of the session calls it.
UnbindGate(c) ==
  /\ hold[c] = "gone" /\ bindCall[c] # "none"
  /\ current' = IF current = c THEN None ELSE current
  /\ pttl' = IF current = c THEN 0 ELSE pttl
  /\ UNCHANGED <<bindCall, previous, hold, left, renew, renewLeft, stray, replaced, grace>>

LeaseNext ==
  \/ Tick
  \/ \E S \in SUBSET Conns : detach(S)
  \/ \E c \in Conns :
       \/ sendBind(c) \/ BindGate(c) \/ finishAuthentication(c)
       \/ sendRenew(c) \/ RenewGateLease(c) \/ finishHeartbeat(c)
       \/ abandonRenew(c) \/ lateRenew(c) \/ UnbindGate(c)

LeaseSpec == LeaseInit /\ [][LeaseNext]_leaseVars

-----------------------------------------------------------------------------
\* A session whose local lease is valid owns the stored key, for at least as
\* long as it believes, unless a later authentication has overwritten it:
\* neither expiry, nor a late renewal, nor the cleanup of any other
\* connection can take the key away from it (finishAuthentication and
\* finishHeartbeat count from before the call; unbind compares).
OwnerUnlessReplaced ==
  \A c \in Conns \ replaced :
    Valid(c) => current = c /\ pttl >= left[c]

\* Of all sessions of a user that are locally valid at one moment, at most
\* one has not been replaced.
OneCurrentSession ==
  \A c, d \in Conns \ replaced : Valid(c) /\ Valid(d) => c = d

\* A replaced session stays locally valid for at most TTL after the bind that
\* replaced it, even when the kick never reaches it and a renewal that
\* was already on its way succeeds (heartbeat, finishHeartbeat).
ReplacedIsBounded ==
  \A c \in replaced : Valid(c) => left[c] <= grace[c]

\* The inductive strengthening: what holds for a deadline that is in force
\* holds for one that is about to be, between the script and the commit.
Pending(c) == bindCall[c] = "ok" /\ hold[c] # "gone"

LeaseInv ==
  /\ TypeOK
  /\ (pttl = 0) <=> (current = None)
  /\ \A c \in Conns :
       /\ (bindCall[c] = "none" \/ bindCall[c] = "sent") =>
            c # current /\ c \notin replaced /\ hold[c] # "held"
       /\ c \in replaced => c # current
       /\ Pending(c) /\ left[c] > 0 /\ c \notin replaced =>
            current = c /\ pttl >= left[c]
       /\ Pending(c) /\ renew[c] = "ok" /\ renewLeft[c] > 0 /\ c \notin replaced =>
            current = c /\ pttl >= renewLeft[c]
       /\ c \in replaced /\ Pending(c) => left[c] <= grace[c]
       /\ c \in replaced /\ Pending(c) /\ renew[c] = "ok" => renewLeft[c] <= grace[c]
       /\ renew[c] # "idle" => bindCall[c] = "ok"
=============================================================================
