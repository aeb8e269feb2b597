------------------------------ MODULE GateSessions ------------------------------
(***************************************************************************)
(* The sessions of one user on several Gateways: opening a connection,     *)
(* authenticating it, taking over from the previous connection, heartbeat, *)
(* disconnect, kick and the Gateway's shutdown (gateway/session.go,        *)
(* inbound.go, delivery.go, lifecycle.go), on top of the Gate lease.       *)
(*                                                                         *)
(* A step is what one goroutine does between two calls to Redis, to        *)
(* another Gateway or to a lock it may wait for.  handlerMu is held while  *)
(* auth[c] is in progress, authenticating or forwarding, heartbeatMu while *)
(* renew[c] is not idle, and detachForClose waits for both; bindingMu and  *)
(* the registry lock are held within a single step.  The network transport *)
(* calls Close only after the handlers of the connection have returned;    *)
(* the session's own locking does not rely on it and neither does this     *)
(* module.                                                                 *)
(*                                                                         *)
(* faults counts calls that fail or are given up: they may still take      *)
(* effect later.  A shutdown has one budget, which every one of its waits  *)
(* and every drained session shares; that it runs out is no fault but may  *)
(* happen to any shutdown, at any moment.  tainted marks connections whose *)
(* cleanup a fault, the budget or the end of the process may have cut      *)
(* short.                                                                  *)
(***************************************************************************)
EXTENDS GateLease

CONSTANTS Gates,      \* Gateways
          GateOf,     \* the Gateway of each connection
          Beating,    \* the connections whose client sends heartbeats
          Calling,    \* the connections whose client sends requests
          Mortal,     \* the Gateways that may shut down or crash
          MaxFaults   \* bound on failed calls and crashes

ASSUME GateSessionsAssumption ==
  /\ GateOf \in [Conns -> Gates]
  /\ Beating \subseteq Conns /\ Calling \subseteq Conns /\ Mortal \subseteq Gates /\ MaxFaults \in Nat

VARIABLES
  gate,      \* "open", "closing", "draining", "stopping", "stopped", "crashed"
  overdue,   \* Gateways whose shutdown has used up its budget
  reg,       \* sessionRegistry.byConnID, over all Gateways
  sock,      \* the physical connection: "new", "open", "closed"
  expired,   \* connections past their authDeadline
  auth,      \* the holder of handlerMu: AuthStages
  kick,      \* kick of c: "none", "sent", "found", "detached", "unbind", "done"
  clean,     \* Close or drainSession of c: CleanStages
  unbind,    \* the cleanup's UnbindGate: "none", "due", "late", "done"
  notified,  \* notifyDisconnect calls made for c
  kicked,    \* connections whose binding a kick took
  served,    \* history: connections whose authentication was committed
  tainted, faults

gateVars == <<gate, overdue>>
ctlVars == <<gateVars, reg, sock, expired, auth, kick, clean, unbind, notified,
             kicked, served, tainted, faults>>
vars == <<leaseVars, ctlVars>>

\* authenticate up to admission, BindGate, the compensating unbind and the
\* kick of the previous connection; then, any number of times, forward.
AuthStages == {"idle", "started", "binding", "fenced", "takeover", "done", "forward"}

\* Waiting for the session's locks, and what follows for a binding, in Close
\* and in drainSession.
CleanStages == {"none", "close", "closeUnbind", "drain", "drainUnbind", "done"}
Removed == {"close", "drain"}
Draining == {"drain", "drainUnbind"}
Unbinding == {"closeUnbind", "drainUnbind"}

SessionTypeOK ==
  /\ TypeOK
  /\ gate \in [Gates -> {"open", "closing", "draining", "stopping", "stopped", "crashed"}]
  /\ overdue \subseteq Gates
  /\ reg \subseteq Conns
  /\ sock \in [Conns -> {"new", "open", "closed"}]
  /\ expired \subseteq Conns
  /\ auth \in [Conns -> AuthStages]
  /\ kick \in [Conns -> {"none", "sent", "found", "detached", "unbind", "done"}]
  /\ clean \in [Conns -> CleanStages]
  /\ unbind \in [Conns -> {"none", "due", "late", "done"}]
  /\ notified \in [Conns -> 0..2]
  /\ kicked \subseteq Conns
  /\ served \subseteq Conns
  /\ tainted \subseteq Conns
  /\ faults \in 0..MaxFaults

Init ==
  /\ LeaseInit
  /\ gate = [g \in Gates |-> "open"]
  /\ overdue = {} /\ reg = {} /\ expired = {}
  /\ kicked = {} /\ served = {} /\ tainted = {}
  /\ sock = [c \in Conns |-> "new"]
  /\ auth = [c \in Conns |-> "idle"]
  /\ kick = [c \in Conns |-> "none"]
  /\ clean = [c \in Conns |-> "none"]
  /\ unbind = [c \in Conns |-> "none"]
  /\ notified = [c \in Conns |-> 0]
  /\ faults = 0

-----------------------------------------------------------------------------
On(g) == {c \in Conns : GateOf[c] = g}
Alive(c) == gate[GateOf[c]] # "crashed"
isAccepting(c) == gate[GateOf[c]] = "open"
handlerFree(c) == auth[c] \in {"idle", "done"}
Unbound(c) == unbind[c] \in {"done", "late"}
Fault == faults < MaxFaults /\ faults' = faults + 1
closeSocks(S) == sock' = [c \in Conns |-> IF c \in S THEN "closed" ELSE sock[c]]

\* Open: register the connection and start its authentication timer.
Open(c) ==
  /\ sock[c] = "new" /\ isAccepting(c)
  /\ sock' = [sock EXCEPT ![c] = "open"]
  /\ reg' = reg \cup {c}
  /\ UNCHANGED <<leaseVars, gateVars, expired, auth, kick, clean, unbind,
                 notified, kicked, served, tainted, faults>>

\* The client or the network ends the connection.
disconnect(c) ==
  /\ sock[c] = "open"
  /\ closeSocks({c})
  /\ UNCHANGED <<leaseVars, gateVars, reg, expired, auth, kick, clean, unbind,
                 notified, kicked, served, tainted, faults>>

\* authDeadline passes; the timer closes a connection that has no valid
\* lease.  A committed authentication has stopped the timer.
authTimeout(c) ==
  /\ Alive(c) /\ sock[c] = "open" /\ c \notin expired /\ hold[c] # "held"
  /\ expired' = expired \cup {c}
  /\ closeSocks({c})
  /\ UNCHANGED <<leaseVars, gateVars, reg, auth, kick, clean, unbind, notified,
                 kicked, served, tainted, faults>>

-----------------------------------------------------------------------------
\* Handle(OpAuth): take handlerMu, the only attempt of this connection.
authBegin(c) ==
  /\ Alive(c) /\ c \in reg /\ auth[c] = "idle"
  /\ auth' = [auth EXCEPT ![c] = IF isAccepting(c) THEN "started" ELSE "done"]
  /\ UNCHANGED <<leaseVars, gateVars, reg, sock, expired, kick, clean, unbind,
                 notified, kicked, served, tainted, faults>>

\* The authenticator or admitAuthentication refuses.
authReject(c) ==
  /\ Alive(c) /\ auth[c] = "started"
  /\ auth' = [auth EXCEPT ![c] = "done"]
  /\ UNCHANGED <<leaseVars, gateVars, reg, sock, expired, kick, clean, unbind,
                 notified, kicked, served, tainted, faults>>

\* admitAuthentication, then boundAt and the BindGate call.
admitAuthentication(c) ==
  /\ Alive(c) /\ auth[c] = "started"
  /\ isAccepting(c) /\ c \in reg /\ c \notin expired
  /\ auth' = [auth EXCEPT ![c] = "binding"]
  /\ sendBind(c)
  /\ UNCHANGED <<gateVars, reg, sock, expired, kick, clean, unbind, notified,
                 kicked, served, tainted, faults>>

\* BindGate returns an error although the script ran, or may still run.
bindFails(c) ==
  /\ Alive(c) /\ auth[c] = "binding" /\ Fault
  /\ auth' = [auth EXCEPT ![c] = "done"]
  /\ tainted' = tainted \cup {c}
  /\ detach({c})
  /\ UNCHANGED <<gateVars, reg, sock, expired, kick, clean, unbind, notified,
                 kicked, served>>

\* commitAuthentication succeeds; kickPrevious then runs with the old binding.
commitAuthentication(c) ==
  /\ Alive(c) /\ auth[c] = "binding" /\ c \in reg /\ c \notin expired
  /\ finishAuthentication(c)
  /\ auth' = [auth EXCEPT ![c] = IF previous[c] = None THEN "done" ELSE "takeover"]
  /\ kick' = [d \in Conns |-> IF d = previous[c] THEN "sent" ELSE kick[d]]
  /\ served' = served \cup {c}
  /\ UNCHANGED <<gateVars, reg, sock, expired, clean, unbind, notified, kicked,
                 tainted, faults>>

\* A mutant: a refused commit returns without unbinding.
fenceForgets(c) ==
  /\ Alive(c) /\ auth[c] = "binding" /\ bindCall[c] = "ok"
  /\ c \notin reg \/ c \in expired \/ left[c] = 0 \/ sock[c] = "closed"
  /\ detach({c})
  /\ auth' = [auth EXCEPT ![c] = "done"]
  /\ UNCHANGED <<gateVars, reg, sock, expired, kick, clean, unbind, notified,
                 kicked, served, tainted, faults>>

\* commitAuthentication refuses (removed, too late, or the connection's
\* context has ended): the new binding is unbound again.
fenceAuthentication(c) ==
  /\ Alive(c) /\ auth[c] = "binding" /\ bindCall[c] = "ok"
  /\ c \notin reg \/ c \in expired \/ left[c] = 0 \/ sock[c] = "closed"
  /\ detach({c})
  /\ auth' = [auth EXCEPT ![c] = "fenced"]
  /\ unbind' = [unbind EXCEPT ![c] = "due"]
  /\ UNCHANGED <<gateVars, reg, sock, expired, kick, clean, notified, kicked,
                 served, tainted, faults>>

\* The fence's unbind or the takeover's kick has returned.
authReturns(c) ==
  /\ Alive(c)
  /\ \/ auth[c] = "fenced" /\ Unbound(c)
     \/ auth[c] = "takeover" /\ kick[previous[c]] = "done"
  /\ auth' = [auth EXCEPT ![c] = "done"]
  /\ UNCHANGED <<leaseVars, gateVars, reg, sock, expired, kick, clean, unbind,
                 notified, kicked, served, tainted, faults>>

\* A remote kick is no longer waited for; it may still arrive and run.
kickTimeout(c) ==
  /\ Alive(c) /\ auth[c] = "takeover" /\ GateOf[previous[c]] # GateOf[c]
  /\ kick[previous[c]] # "done" /\ Fault
  /\ auth' = [auth EXCEPT ![c] = "done"]
  /\ UNCHANGED <<leaseVars, gateVars, reg, sock, expired, kick, clean, unbind,
                 notified, kicked, served, tainted>>

-----------------------------------------------------------------------------
\* Handle(OpRequest): forward holds handlerMu while the Node answers, at
\* most rpcTimeout.  A session removed between the lookup and the lock is
\* the same as one removed right after it: forward changes nothing else.
forward(c) ==
  /\ c \in Calling /\ Alive(c) /\ c \in reg
  /\ auth[c] = "done" /\ Valid(c)
  /\ auth' = [auth EXCEPT ![c] = "forward"]
  /\ UNCHANGED <<leaseVars, gateVars, reg, sock, expired, kick, clean, unbind,
                 notified, kicked, served, tainted, faults>>

forwardInvalid(c) ==
  /\ c \in Calling /\ Alive(c) /\ c \in reg /\ sock[c] = "open"
  /\ handlerFree(c) /\ ~Valid(c)
  /\ closeSocks({c})
  /\ UNCHANGED <<leaseVars, gateVars, reg, expired, auth, kick, clean, unbind,
                 notified, kicked, served, tainted, faults>>

forwardReturns(c) ==
  /\ Alive(c) /\ auth[c] = "forward"
  /\ auth' = [auth EXCEPT ![c] = "done"]
  /\ UNCHANGED <<leaseVars, gateVars, reg, sock, expired, kick, clean, unbind,
                 notified, kicked, served, tainted, faults>>

\* heartbeat: close a session without a valid lease ...
heartbeatInvalid(c) ==
  /\ c \in Beating /\ Alive(c) /\ sock[c] = "open" /\ c \in reg
  /\ renew[c] = "idle" /\ ~Valid(c)
  /\ closeSocks({c})
  /\ UNCHANGED <<leaseVars, gateVars, reg, expired, auth, kick, clean, unbind,
                 notified, kicked, served, tainted, faults>>

\* ... or renew a due one.  The session may have been removed since it was
\* looked up, as long as its binding is still there.
heartbeatRenew(c) ==
  /\ c \in Beating /\ Alive(c)
  /\ c \in reg \/ clean[c] \in Removed
  /\ sendRenew(c)
  /\ UNCHANGED ctlVars

\* A mutant: the renewal is added to what is left of the lease.
heartbeatOkAdds(c) == Alive(c) /\ finishHeartbeatAdds(c) /\ UNCHANGED ctlVars

heartbeatOk(c) == Alive(c) /\ finishHeartbeat(c) /\ UNCHANGED ctlVars

\* ErrGateNotFound or ErrGateConflict: the binding is gone, close.
heartbeatRefused(c) ==
  /\ Alive(c) /\ renew[c] = "refused"
  /\ abandonRenew(c)
  /\ closeSocks({c})
  /\ UNCHANGED <<gateVars, reg, expired, auth, kick, clean, unbind, notified,
                 kicked, served, tainted, faults>>

\* Timeout or Redis unavailable: keep the connection, retry later.
heartbeatFails(c) ==
  /\ Alive(c) /\ abandonRenew(c) /\ Fault
  /\ UNCHANGED <<gateVars, reg, sock, expired, auth, kick, clean, unbind,
                 notified, kicked, served, tainted>>

-----------------------------------------------------------------------------
\* A mutant: a kick whose session is already gone is not answered.
kickFindWaits(c) ==
  /\ kick[c] = "sent" /\ c \in reg
  /\ kick' = [kick EXCEPT ![c] = "found"]
  /\ UNCHANGED <<leaseVars, gateVars, reg, sock, expired, auth, clean, unbind,
                 notified, kicked, served, tainted, faults>>

\* kick: look the session up; a gone Gateway or session ends it.
kickFind(c) ==
  /\ kick[c] = "sent"
  /\ kick' = [kick EXCEPT ![c] =
       IF gate[GateOf[c]] \notin {"stopped", "crashed"} /\ c \in reg THEN "found" ELSE "done"]
  /\ UNCHANGED <<leaseVars, gateVars, reg, sock, expired, auth, clean, unbind,
                 notified, kicked, served, tainted, faults>>

\* The RPC to the other Gateway fails before it is delivered.
kickLost(c) ==
  /\ kick[c] = "sent"
  /\ \E d \in Conns : auth[d] = "takeover" /\ previous[d] = c /\ GateOf[d] # GateOf[c]
  /\ Fault
  /\ kick' = [kick EXCEPT ![c] = "done"]
  /\ UNCHANGED <<leaseVars, gateVars, reg, sock, expired, auth, clean, unbind,
                 notified, kicked, served, tainted>>

\* A mutant: the kick closes the connection but leaves the binding in it.
kickWithoutDetach(c) ==
  /\ Alive(c) /\ kick[c] = "found" /\ Valid(c)
  /\ kick' = [kick EXCEPT ![c] = "detached"]
  /\ kicked' = kicked \cup {c}
  /\ UNCHANGED <<leaseVars, gateVars, reg, sock, expired, auth, clean, unbind,
                 notified, served, tainted, faults>>

\* detachForKick: bindingMu only, so neither a running request nor a
\* renewal delays it.
detachForKick(c) ==
  /\ Alive(c) /\ kick[c] = "found" /\ Valid(c)
  /\ detach({c})
  /\ kick' = [kick EXCEPT ![c] = "detached"]
  /\ kicked' = kicked \cup {c}
  /\ UNCHANGED <<gateVars, reg, sock, expired, auth, clean, unbind, notified, served,
                 tainted, faults>>

kickMissed(c) ==
  /\ Alive(c) /\ kick[c] = "found" /\ ~Valid(c)
  /\ kick' = [kick EXCEPT ![c] = "done"]
  /\ UNCHANGED <<leaseVars, gateVars, reg, sock, expired, auth, clean, unbind,
                 notified, kicked, served, tainted, faults>>

\* The kicked session leaves the registry, its connection is closed, and
\* its binding is unbound.
kickClose(c) ==
  /\ Alive(c) /\ kick[c] = "detached"
  /\ reg' = reg \ {c}
  /\ closeSocks({c})
  /\ unbind' = [unbind EXCEPT ![c] = "due"]
  /\ kick' = [kick EXCEPT ![c] = "unbind"]
  /\ UNCHANGED <<leaseVars, gateVars, expired, auth, clean, notified, kicked,
                 served, tainted, faults>>

kickReturns(c) ==
  /\ Alive(c) /\ kick[c] = "unbind" /\ Unbound(c)
  /\ kick' = [kick EXCEPT ![c] = "done"]
  /\ UNCHANGED <<leaseVars, gateVars, reg, sock, expired, auth, clean, unbind,
                 notified, kicked, served, tainted, faults>>

-----------------------------------------------------------------------------
\* The unbind script runs for the cleanup that is waiting, or for one that
\* no longer waits.
unbindRuns(c) ==
  /\ unbind[c] \in {"due", "late"}
  /\ UnbindGate(c)
  /\ unbind' = [unbind EXCEPT ![c] = "done"]
  /\ UNCHANGED <<gateVars, reg, sock, expired, auth, kick, clean, notified,
                 kicked, served, tainted, faults>>

unbindFails(c) ==
  /\ Alive(c) /\ unbind[c] = "due" /\ Fault
  /\ unbind' = [unbind EXCEPT ![c] = "late"]
  /\ tainted' = tainted \cup {c}
  /\ UNCHANGED <<leaseVars, gateVars, reg, sock, expired, auth, kick, clean,
                 notified, kicked, served>>

\* Close, first part: whoever removes the session from the registry owns
\* its cleanup.
Close(c) ==
  /\ Alive(c) /\ sock[c] = "closed" /\ c \in reg
  /\ reg' = reg \ {c}
  /\ clean' = [clean EXCEPT ![c] = "close"]
  /\ UNCHANGED <<leaseVars, gateVars, sock, expired, auth, kick, unbind,
                 notified, kicked, served, tainted, faults>>

\* detachForClose: wait for handlerMu and heartbeatMu, take the binding.
\* Close then unbinds it within a budget of its own ...
detachForClose(c) ==
  /\ Alive(c) /\ clean[c] = "close"
  /\ handlerFree(c) /\ renew[c] = "idle"
  /\ clean' = [clean EXCEPT ![c] = IF hold[c] = "held" THEN "closeUnbind" ELSE "done"]
  /\ unbind' = [unbind EXCEPT ![c] = IF hold[c] = "held" THEN "due" ELSE @]
  /\ IF hold[c] = "held" THEN detach({c}) ELSE UNCHANGED leaseVars
  /\ UNCHANGED <<gateVars, reg, sock, expired, auth, kick, notified, kicked,
                 served, tainted, faults>>

\* A mutant: drainSession unbinds and ends.
drainDetachSilent(c, inTime) ==
  /\ Alive(c) /\ clean[c] = "drain"
  /\ handlerFree(c) /\ renew[c] = "idle"
  /\ closeSocks({c})
  /\ LET owed == hold[c] = "held" /\ inTime IN
       /\ clean' = [clean EXCEPT ![c] = "done"]
       /\ unbind' = [unbind EXCEPT ![c] = IF owed THEN "due" ELSE @]
       /\ tainted' = IF hold[c] = "held" /\ ~owed THEN tainted \cup {c} ELSE tainted
  /\ IF hold[c] = "held" THEN detach({c}) ELSE UNCHANGED leaseVars
  /\ UNCHANGED <<gateVars, reg, expired, auth, kick, notified, kicked, served>>

\* ... while drainSession also closes the connection, and unbinds only if
\* its context has not ended while it waited for the locks.
drainDetach(c, inTime) ==
  /\ Alive(c) /\ clean[c] = "drain"
  /\ handlerFree(c) /\ renew[c] = "idle"
  /\ closeSocks({c})
  /\ LET owed == hold[c] = "held" /\ inTime IN
       /\ clean' = [clean EXCEPT ![c] = IF owed THEN "drainUnbind" ELSE "done"]
       /\ unbind' = [unbind EXCEPT ![c] = IF owed THEN "due" ELSE @]
       /\ tainted' = IF hold[c] = "held" /\ ~owed THEN tainted \cup {c} ELSE tainted
  /\ IF hold[c] = "held" THEN detach({c}) ELSE UNCHANGED leaseVars
  /\ UNCHANGED <<gateVars, reg, expired, auth, kick, notified, kicked, served>>

drainSession(c) ==
  /\ GateOf[c] \notin overdue
  /\ drainDetach(c, TRUE)
  /\ UNCHANGED faults

\* The unbind has returned.  Close reports the end whatever it returned,
\* drainSession only within its budget.
notifyDisconnect(c) ==
  /\ Alive(c) /\ clean[c] \in Unbinding /\ Unbound(c)
  /\ clean[c] = "drainUnbind" => GateOf[c] \notin overdue
  /\ clean' = [clean EXCEPT ![c] = "done"]
  /\ notified' = [notified EXCEPT ![c] = @ + 1]
  /\ UNCHANGED <<leaseVars, gateVars, reg, sock, expired, auth, kick, unbind,
                 kicked, served, tainted, faults>>

\* drainSession finds its context ended and makes no further call; an
\* unbind it has started may still run.
drainGivesUp(c) ==
  /\ Alive(c) /\ clean[c] = "drainUnbind"
  /\ clean' = [clean EXCEPT ![c] = "done"]
  /\ unbind' = [unbind EXCEPT ![c] = IF @ = "due" THEN "late" ELSE @]
  /\ tainted' = tainted \cup {c}
  /\ UNCHANGED <<leaseVars, gateVars, reg, sock, expired, auth, kick, notified,
                 kicked, served>>

\* A mutant: drainSession waits for the unbind it has sent, budget or not.
drainOverdueWaits(c) ==
  /\ GateOf[c] \in overdue
  /\ drainDetach(c, FALSE)
  /\ UNCHANGED faults

\* The context ends with the shutdown's budget, ...
drainOverdue(c) ==
  /\ GateOf[c] \in overdue
  /\ drainDetach(c, FALSE) \/ drainGivesUp(c)
  /\ UNCHANGED faults

\* ... or with the cleanupTimeout that drainSession gives each session.
drainTimeout(c) ==
  /\ drainDetach(c, FALSE) \/ drainGivesUp(c)
  /\ Fault

-----------------------------------------------------------------------------
\* beginShutdown: closeAdmission; no authentication is admitted any more.
beginShutdown(g) ==
  /\ gate[g] = "open"
  /\ gate' = [gate EXCEPT ![g] = "closing"]
  /\ UNCHANGED <<leaseVars, overdue, reg, sock, expired, auth, kick, clean,
                 unbind, notified, kicked, served, tainted, faults>>

\* The one context of the shutdown ends, whichever of its calls is waiting.
shutdownTimeout(g) ==
  /\ gate[g] \in {"closing", "draining", "stopping"} /\ g \notin overdue
  /\ overdue' = overdue \cup {g}
  /\ UNCHANGED <<leaseVars, gate, reg, sock, expired, auth, kick, clean, unbind,
                 notified, kicked, served, tainted, faults>>

Admitted(g) == {c \in On(g) : auth[c] \in {"binding", "fenced", "takeover"}}

\* A mutant: the registry is emptied but its sessions are not drained.
takeAllForgets(g) ==
  /\ gate[g] = "closing"
  /\ Admitted(g) = {} \/ g \in overdue
  /\ gate' = [gate EXCEPT ![g] = "draining"]
  /\ reg' = reg \ On(g)
  /\ UNCHANGED <<leaseVars, overdue, sock, expired, auth, kick, clean, unbind,
                 notified, kicked, served, tainted, faults>>

\* quiesce, then takeAll: every registered session is handed to the drain.
takeAll(g) ==
  /\ gate[g] = "closing"
  /\ Admitted(g) = {} \/ g \in overdue
  /\ gate' = [gate EXCEPT ![g] = "draining"]
  /\ reg' = reg \ On(g)
  /\ clean' = [c \in Conns |-> IF c \in reg \cap On(g) THEN "drain" ELSE clean[c]]
  /\ UNCHANGED <<leaseVars, overdue, sock, expired, auth, kick, unbind, notified,
                 kicked, served, tainted, faults>>

\* Drained, or out of time: stop the transports, which closes whatever
\* connection is left, even under a session that waits for its locks.
stopTransports(g) ==
  /\ gate[g] = "draining"
  /\ (\A c \in On(g) : clean[c] \notin Draining) \/ g \in overdue
  /\ gate' = [gate EXCEPT ![g] = "stopping"]
  /\ closeSocks(On(g))
  /\ UNCHANGED <<leaseVars, overdue, reg, expired, auth, kick, clean, unbind,
                 notified, kicked, served, tainted, faults>>

\* A mutant: the drain and the Close callbacks are not joined once the
\* budget is used up.
stoppedUnjoined(g) ==
  /\ gate[g] = "stopping"
  /\ \/ g \in overdue
     \/ Admitted(g) = {} /\ \A c \in On(g) : clean[c] \in {"none", "done"}
  /\ gate' = [gate EXCEPT ![g] = "stopped"]
  /\ UNCHANGED <<leaseVars, overdue, reg, sock, expired, auth, kick, clean,
                 unbind, notified, kicked, served, tainted, faults>>

\* The gRPC server waits for its handlers unless it runs out of time.  The
\* final joins have no budget: authentications.Wait, the drain and the
\* transports, which wait for their Close callbacks.
stopped(g) ==
  /\ gate[g] = "stopping"
  /\ (\A c \in On(g) : kick[c] \notin {"found", "detached", "unbind"}) \/ g \in overdue
  /\ Admitted(g) = {}
  /\ \A c \in On(g) : clean[c] \in {"none", "done"}
  /\ gate' = [gate EXCEPT ![g] = "stopped"]
  /\ UNCHANGED <<leaseVars, overdue, reg, sock, expired, auth, kick, clean,
                 unbind, notified, kicked, served, tainted, faults>>

\* The Gateway's process ends: its sessions are gone, the key stays until
\* its TTL; calls already made may still run.
crash(g) ==
  /\ gate[g] \notin {"stopped", "crashed"} /\ Fault
  /\ gate' = [gate EXCEPT ![g] = "crashed"]
  /\ detach(On(g))
  /\ reg' = reg \ On(g)
  /\ closeSocks(On(g))
  /\ auth' = [c \in Conns |-> IF c \in On(g) THEN "done" ELSE auth[c]]
  /\ kick' = [c \in Conns |-> IF c \in On(g) /\ kick[c] # "none" THEN "done" ELSE kick[c]]
  /\ clean' = [c \in Conns |-> IF c \in On(g) THEN "done" ELSE clean[c]]
  /\ unbind' = [c \in Conns |-> IF c \in On(g) /\ unbind[c] = "due" THEN "late" ELSE unbind[c]]
  /\ tainted' = tainted \cup On(g)
  /\ UNCHANGED <<overdue, expired, notified, kicked, served>>

-----------------------------------------------------------------------------
authenticate(c) ==
  \/ authReject(c) \/ admitAuthentication(c)
  \/ commitAuthentication(c) \/ fenceAuthentication(c) \/ authReturns(c)
  \/ forwardReturns(c)

client(c) ==
  \/ Open(c) \/ disconnect(c) \/ authBegin(c) \/ forward(c) \/ forwardInvalid(c)
  \/ heartbeatInvalid(c) \/ heartbeatRenew(c)

heartbeat(c) == heartbeatOk(c) \/ heartbeatRefused(c)

kickSteps(c) ==
  \/ kickFind(c) \/ detachForKick(c) \/ kickMissed(c) \/ kickClose(c) \/ kickReturns(c)

cleanup(c) ==
  \/ Close(c) \/ detachForClose(c) \/ drainSession(c)
  \/ notifyDisconnect(c) \/ drainOverdue(c)

script(c) ==
  \/ BindGate(c) /\ UNCHANGED ctlVars
  \/ RenewGateLease(c) /\ UNCHANGED ctlVars
  \/ lateRenew(c) /\ UNCHANGED ctlVars
  \/ unbindRuns(c)

failure(c) ==
  \/ bindFails(c) \/ kickTimeout(c) \/ kickLost(c) \/ heartbeatFails(c)
  \/ unbindFails(c) \/ drainTimeout(c)

gateway(g) == takeAll(g) \/ stopTransports(g) \/ stopped(g)

Next ==
  \/ Tick /\ UNCHANGED ctlVars
  \/ \E c \in Conns :
       \/ client(c) \/ authTimeout(c) \/ authenticate(c)
       \/ heartbeat(c) \/ kickSteps(c) \/ cleanup(c)
       \/ script(c) \/ failure(c)
  \/ \E g \in Mortal : \/ beginShutdown(g) \/ shutdownTimeout(g)
                        \/ gateway(g) \/ crash(g)

Spec == Init /\ [][Next]_vars

\* Goroutines run and calls return.  What a client does, failures, timers
\* and the decision to shut down are not owed.  A cleanup waiting for the
\* session's locks gets them although requests and heartbeats compete for them:
\* sync.Mutex hands the lock to a waiter that has starved.
Fairness ==
  /\ \A c \in Conns :
       /\ WF_vars(authenticate(c))
       /\ WF_vars(kickSteps(c))
       /\ WF_vars(script(c) \/ heartbeat(c))
       /\ SF_vars(cleanup(c))
  /\ \A g \in Gates : WF_vars(gateway(g))

FairSpec == Spec /\ Fairness

-----------------------------------------------------------------------------
\* A session that holds a binding can be found by the cleanup that will
\* release it: it is registered, or Close or the drain has taken it out of
\* the registry and has yet to detach it.  A commit that races the removal
\* of its session must therefore be refused (commitAuthentication).
BindingReachable ==
  \A c \in Conns : hold[c] = "held" => c \in reg \/ clean[c] \in Removed

\* Unless one of its calls failed, no ended session leaves its binding
\* behind: the stored binding belongs to a live session, to an
\* authentication in progress, or to a cleanup that is about to unbind it.
NoOrphanBinding ==
  \A c \in Conns \ tainted :
    current = c => \/ hold[c] = "held"
                   \/ auth[c] = "binding"
                   \/ unbind[c] = "due"

\* Disconnect is reported at most once per connection, only after the session
\* was authenticated, and never for a session that was replaced by a kick,
\* however Close, the drain and the kick interleave.
DisconnectAtMostOnce ==
  \A c \in Conns :
    /\ notified[c] <= 1
    /\ notified[c] = 1 => hold[c] = "gone" /\ bindCall[c] = "ok"
    /\ c \in kicked => notified[c] = 0 /\ clean[c] \notin Unbinding

\* The inductive strengthening of BindingReachable and DisconnectAtMostOnce:
\* which stages of a cleanup go with which state of the binding.
CleanupInv ==
  \A c \in Conns :
    /\ hold[c] \in {"none", "held", "gone"} /\ notified[c] \in {0, 1}
    /\ hold[c] = "held" => c \in reg \/ clean[c] \in Removed
    /\ hold[c] = "held" => bindCall[c] = "ok"
    /\ c \in reg \/ sock[c] = "new" => clean[c] = "none"
    /\ c \in reg => sock[c] # "new"
    /\ kick[c] = "detached" => c \in kicked
    /\ clean[c] \in Unbinding => hold[c] = "gone" /\ bindCall[c] = "ok" /\ c \notin kicked
    /\ notified[c] = 1 => clean[c] = "done" /\ hold[c] = "gone" /\ bindCall[c] = "ok"
    /\ c \in kicked => hold[c] = "gone" /\ notified[c] = 0

\* The inductive strengthening of NoOrphanBinding, StoppedIsClean and
\* StoppedIsReported: who owes the stored binding an answer, who owes Node
\* the report, and what each stage of a shutdown has ended.  A binding is
\* overwritten at most once, so one takeover kicks it.
BindingInv ==
  \A c \in Conns :
    /\ bindCall[c] = "sent" => c \in tainted \/ auth[c] = "binding"
    /\ current = c => \/ c \in tainted \/ hold[c] = "held"
                      \/ auth[c] = "binding" \/ unbind[c] = "due"
    /\ unbind[c] = "due" =>
         auth[c] = "fenced" \/ kick[c] = "unbind" \/ clean[c] \in Unbinding
    /\ kick[c] # "none" => c \in replaced
    /\ bindCall[c] # "ok" => previous[c] = None
    /\ previous[c] # None =>
         /\ previous[c] \in replaced
         /\ auth[c] = "binding" => kick[previous[c]] = "none"
         /\ \A d \in Conns : previous[d] = previous[c] => d = c
    /\ c \in served => auth[c] \notin {"idle", "started", "binding"}
    /\ c \in served \ (kicked \cup tainted) =>
         hold[c] = "held" \/ clean[c] \in Unbinding \/ notified[c] = 1
    /\ gate[GateOf[c]] \notin {"open", "closing"} => c \notin reg
    /\ gate[GateOf[c]] \in {"stopping", "stopped"} => sock[c] = "closed"
    /\ gate[GateOf[c]] = "stopped" =>
         /\ auth[c] \notin {"binding", "fenced", "takeover"}
         /\ clean[c] \in {"none", "done"}

\* When shutdown has finished, wherever its budget ran out, no session of the
\* Gateway holds a binding, no connection is left and none of them is the
\* stored one unless a call failed or the budget cut its cleanup short
\* (shutdown joins what it no longer waits for within the budget).
StoppedIsClean ==
  \A c \in Conns : gate[GateOf[c]] = "stopped" =>
    /\ c \notin reg /\ hold[c] # "held" /\ sock[c] = "closed"
    /\ current = c => c \in tainted

\* When shutdown has finished, every session that was ever authenticated has
\* been reported to its Node, unless a kick took its binding or a fault or
\* the budget cut its cleanup short: Close, the drain and a commit that races
\* takeAll leave no session to nobody.
StoppedIsReported ==
  \A c \in served \ (kicked \cup tainted) :
    gate[GateOf[c]] = "stopped" => notified[c] = 1

\* A Gateway that has begun to shut down finishes, within its budget or not:
\* the drain waits for handlerMu and heartbeatMu of its sessions, a request
\* holds handlerMu while the Node answers, an authentication while it waits
\* for a kick, and a kick waits for neither.
ShutdownCompletes ==
  \A g \in Gates : gate[g] = "closing" ~> gate[g] \in {"stopped", "crashed"}

\* A session whose connection has ended is reported to its Node, unless a
\* kick took its binding or its cleanup was cut short.
EndIsReported ==
  \A c \in Conns : sock[c] = "closed" /\ hold[c] = "held" ~>
                     notified[c] = 1 \/ c \in kicked \/ c \in tainted
=============================================================================
