-------------------------- MODULE GateSessionsProofs --------------------------
(***************************************************************************)
(* GateSessions for any connections, Gateways, TTL and number of faults,   *)
(* wherever a shutdown's budget runs out: its cleanup never loses a        *)
(* binding nor reports a disconnect twice, no binding is orphaned, and a   *)
(* Gateway that has stopped leaves no session and no unreported end.       *)
(* CleanupInv is inductive by itself; BindingInv is inductive with it and  *)
(* with the lease protocol's LeaseInv.                                     *)
(***************************************************************************)
EXTENDS GateSessions, GateLeaseProofs

\* The time each prover may take for a leaf.
USE ZenonT(30), SMTT(30)
-----------------------------------------------------------------------------
\* Every step of the sessions is a step of the lease protocol, or no step of it.
LEMMA SessionStep == [Next]_vars => [LeaseNext]_leaseVars
<1> SUFFICES ASSUME [Next]_vars PROVE [LeaseNext]_leaseVars
  OBVIOUS
<1>1. CASE Tick /\ UNCHANGED ctlVars
  BY <1>1 DEF LeaseNext
<1>2. ASSUME NEW c \in Conns, client(c) \/ authTimeout(c) PROVE [LeaseNext]_leaseVars
  BY <1>2 DEF client, authTimeout, Open, disconnect, authBegin, forward,
    forwardInvalid, heartbeatInvalid, heartbeatRenew, LeaseNext
<1>3. ASSUME NEW c \in Conns, authenticate(c) PROVE [LeaseNext]_leaseVars
  <2>1. {c} \in SUBSET Conns
    OBVIOUS
  <2> QED
    BY <1>3, <2>1 DEF authenticate, authReject, admitAuthentication,
      commitAuthentication, fenceAuthentication, authReturns, forwardReturns, LeaseNext
<1>4. ASSUME NEW c \in Conns, heartbeat(c) \/ script(c) PROVE [LeaseNext]_leaseVars
  BY <1>4 DEF heartbeat, script, heartbeatOk, heartbeatRefused, unbindRuns, LeaseNext
<1>5. ASSUME NEW c \in Conns, kickSteps(c) \/ cleanup(c) PROVE [LeaseNext]_leaseVars
  <2>1. {c} \in SUBSET Conns
    OBVIOUS
  <2> QED
    BY <1>5, <2>1 DEF kickSteps, cleanup, kickFind, detachForKick, kickMissed,
      kickClose, kickReturns, Close, detachForClose, drainSession, drainDetach,
      notifyDisconnect, drainOverdue, drainGivesUp, LeaseNext
<1>6. ASSUME NEW c \in Conns, failure(c) PROVE [LeaseNext]_leaseVars
  <2>1. {c} \in SUBSET Conns
    OBVIOUS
  <2> QED
    BY <1>6, <2>1 DEF failure, bindFails, kickTimeout, kickLost, heartbeatFails,
      unbindFails, drainTimeout, drainDetach, drainGivesUp, LeaseNext
<1>7. ASSUME NEW g \in Mortal,
             beginShutdown(g) \/ shutdownTimeout(g) \/ gateway(g) \/ crash(g)
      PROVE [LeaseNext]_leaseVars
  <2>1. On(g) \in SUBSET Conns
    BY DEF On
  <2> QED
    BY <1>7, <2>1 DEF beginShutdown, shutdownTimeout, gateway, takeAll,
      stopTransports, stopped, crash, LeaseNext
<1>8. CASE UNCHANGED vars
  BY <1>8 DEF vars
<1> QED
  BY <1>1, <1>2, <1>3, <1>4, <1>5, <1>6, <1>7, <1>8 DEF Next

\* The sessions never disagree with Redis about who is current: a valid
\* session owns the key unless a later authentication replaced it.
THEOREM SessionOwnership == Spec => []OwnerUnlessReplaced
<1>1. Init => LeaseInit
  BY DEF Init
<1> QED
  BY <1>1, SessionStep, Ownership, PTL DEF Spec, LeaseSpec

\* No binding, no cleanup, no notification at the start.
LEMMA CleanupInit == Init => CleanupInv
BY SMTT(30) DEF Init, LeaseInit, CleanupInv, Removed, Unbinding

\* The functions the argument updates, with the types it needs.
SessionFuns ==
  /\ bindCall \in [Conns -> {"none", "sent", "ok"}]
  /\ hold \in [Conns -> {"none", "held", "gone"}]
  /\ clean \in [Conns -> CleanStages]
  /\ notified \in [Conns -> Nat]
  /\ sock \in [Conns -> {"new", "open", "closed"}]
  /\ kick \in [Conns -> {"none", "sent", "found", "detached", "unbind", "done"}]

CInv == SessionFuns /\ CleanupInv

\* The initial state satisfies the typed invariant.
LEMMA CInvInit == Init => CInv
BY CleanupInit, SMTT(30) DEF Init, LeaseInit, CInv, SessionFuns, CleanStages

\* A drain whose context has ended keeps the stages and the binding in agreement.
LEMMA DrainEnds ==
  ASSUME CInv, NEW c \in Conns, drainDetach(c, FALSE) \/ drainGivesUp(c) PROVE CInv'
<1> USE DEF CInv, SessionFuns, CleanupInv, CleanStages, Removed, Unbinding
<1>1. CASE drainDetach(c, FALSE)
  BY <1>1, SMTT(30) DEF drainDetach, closeSocks, detach, leaseVars
<1>2. CASE drainGivesUp(c)
  BY <1>2, SMTT(30) DEF drainGivesUp, leaseVars
<1> QED
  BY <1>1, <1>2

\* Every step keeps the stages of the cleanup and the binding in agreement:
\* each changes one connection, or those of one Gateway, and no others.
LEMMA CInvStep == CInv /\ [Next]_vars => CInv'
<1> SUFFICES ASSUME CInv, [Next]_vars PROVE CInv'
  OBVIOUS
<1> USE DEF CInv, SessionFuns, CleanupInv, CleanStages, Removed, Unbinding, closeSocks
<1>1. CASE Tick /\ UNCHANGED ctlVars
  BY <1>1 DEF Tick, ctlVars
<1>2. ASSUME NEW c \in Conns, client(c) \/ authTimeout(c) PROVE CInv'
  <2>1. CASE Open(c)
    BY <2>1 DEF Open, leaseVars
  <2>2. CASE disconnect(c) \/ heartbeatInvalid(c) \/ authTimeout(c) \/ forwardInvalid(c)
    BY <2>2, SMTT(30) DEF disconnect, heartbeatInvalid, authTimeout, forwardInvalid, leaseVars
  <2>3. CASE heartbeatRenew(c)
    BY <2>3 DEF heartbeatRenew, sendRenew, ctlVars
  <2>4. CASE authBegin(c) \/ forward(c)
    BY <2>4, SMTT(30) DEF authBegin, forward, leaseVars
  <2> QED
    BY <1>2, <2>1, <2>2, <2>3, <2>4 DEF client
<1>3. ASSUME NEW c \in Conns, authenticate(c) PROVE CInv'
  <2>1. CASE authReject(c) \/ authReturns(c) \/ forwardReturns(c)
    BY <2>1, SMTT(30) DEF authReject, authReturns, forwardReturns, leaseVars
  <2>2. CASE admitAuthentication(c)
    BY <2>2 DEF admitAuthentication, sendBind
  <2>3. CASE commitAuthentication(c)
    BY <2>3 DEF commitAuthentication, finishAuthentication
  <2>4. CASE fenceAuthentication(c)
    BY <2>4 DEF fenceAuthentication, detach
  <2> QED
    BY <1>3, <2>1, <2>2, <2>3, <2>4 DEF authenticate
<1>4. ASSUME NEW c \in Conns, heartbeat(c) \/ script(c) PROVE CInv'
  <2>1. CASE heartbeat(c)
    BY <2>1, SMTT(30) DEF heartbeat, heartbeatOk, heartbeatRefused, finishHeartbeat,
      abandonRenew, ctlVars
  <2>2. CASE script(c)
    BY <2>2, SMTT(30) DEF script, BindGate, RenewGateLease, lateRenew, unbindRuns,
      UnbindGate, ctlVars
  <2> QED
    BY <1>4, <2>1, <2>2
<1>5. ASSUME NEW c \in Conns, kickSteps(c) PROVE CInv'
  <2>1. CASE detachForKick(c)
    BY <2>1 DEF detachForKick, detach, Valid
  <2>2. CASE kickFind(c) \/ kickMissed(c) \/ kickReturns(c)
    <3>1. CASE kickFind(c)
      BY <3>1 DEF kickFind, leaseVars
    <3>2. CASE kickMissed(c)
      BY <3>2 DEF kickMissed, leaseVars
    <3>3. CASE kickReturns(c)
      BY <3>3 DEF kickReturns, leaseVars
    <3> QED
      BY <2>2, <3>1, <3>2, <3>3
  <2>3. CASE kickClose(c)
    BY <2>3 DEF kickClose, leaseVars
  <2> QED
    BY <1>5, <2>1, <2>2, <2>3 DEF kickSteps
<1>6. ASSUME NEW c \in Conns, cleanup(c) PROVE CInv'
  <2>1. CASE Close(c)
    BY <2>1 DEF Close, leaseVars
  <2>2. CASE detachForClose(c)
    BY <2>2, SMTT(30) DEF detachForClose, detach, leaseVars
  <2>3. CASE notifyDisconnect(c)
    BY <2>3, SMTT(30) DEF notifyDisconnect, leaseVars
  <2>4. CASE drainSession(c)
    BY <2>4, SMTT(30) DEF drainSession, drainDetach, detach, leaseVars
  <2>5. CASE drainOverdue(c)
    BY <2>5, DrainEnds DEF drainOverdue
  <2> QED
    BY <1>6, <2>1, <2>2, <2>3, <2>4, <2>5 DEF cleanup
<1>7. ASSUME NEW c \in Conns, failure(c) PROVE CInv'
  <2>1. CASE bindFails(c)
    BY <2>1 DEF bindFails, detach
  <2>2. CASE kickTimeout(c) \/ kickLost(c) \/ unbindFails(c)
    <3>1. CASE kickTimeout(c)
      BY <3>1 DEF kickTimeout, leaseVars
    <3>2. CASE kickLost(c)
      BY <3>2 DEF kickLost, leaseVars
    <3>3. CASE unbindFails(c)
      BY <3>3 DEF unbindFails, leaseVars
    <3> QED
      BY <2>2, <3>1, <3>2, <3>3
  <2>3. CASE heartbeatFails(c)
    BY <2>3 DEF heartbeatFails, abandonRenew
  <2>4. CASE drainTimeout(c)
    BY <2>4, DrainEnds DEF drainTimeout
  <2> QED
    BY <1>7, <2>1, <2>2, <2>3, <2>4 DEF failure
<1>8. ASSUME NEW g \in Mortal,
             beginShutdown(g) \/ shutdownTimeout(g) \/ gateway(g) \/ crash(g)
      PROVE CInv'
  <2>1. CASE beginShutdown(g) \/ shutdownTimeout(g) \/ stopTransports(g) \/ stopped(g)
    BY <2>1, SMTT(30) DEF beginShutdown, shutdownTimeout, stopTransports, stopped, leaseVars
  <2>2. CASE takeAll(g)
    BY <2>2 DEF takeAll, On, leaseVars
  <2>3. CASE crash(g)
    BY <2>3 DEF crash, On, detach
  <2> QED
    BY <1>8, <2>1, <2>2, <2>3 DEF gateway
<1>9. CASE UNCHANGED vars
  BY <1>9 DEF vars, leaseVars, ctlVars
<1> QED
  BY <1>1, <1>2, <1>3, <1>4, <1>5, <1>6, <1>7, <1>8, <1>9 DEF Next

\* The cleanup invariant of the sessions.
THEOREM CleanupInvariant == Spec => []CleanupInv
<1>1. CInv => CleanupInv
  BY DEF CInv
<1> QED
  BY <1>1, CInvInit, CInvStep, PTL DEF Spec

\* No session keeps a binding that no cleanup will find: a commit that
\* races Close, a kick or takeAll is refused.
THEOREM Reachability == Spec => []BindingReachable
<1>1. CleanupInv => BindingReachable
  BY DEF CleanupInv, BindingReachable
<1> QED
  BY <1>1, CleanupInvariant, PTL

\* Disconnect is reported at most once, and never for a session whose binding
\* a kick took.
THEOREM SingleDisconnect == Spec => []DisconnectAtMostOnce
<1>1. CleanupInv => DisconnectAtMostOnce
  BY SMTT(30) DEF CleanupInv, DisconnectAtMostOnce
<1> QED
  BY <1>1, CleanupInvariant, PTL
-----------------------------------------------------------------------------
\* The remaining functions and sets of SessionTypeOK.
CtlFuns ==
  /\ gate \in [Gates -> {"open", "closing", "draining", "stopping", "stopped", "crashed"}]
  /\ overdue \subseteq Gates
  /\ reg \subseteq Conns /\ expired \subseteq Conns
  /\ auth \in [Conns -> AuthStages]
  /\ unbind \in [Conns -> {"none", "due", "late", "done"}]
  /\ kicked \subseteq Conns /\ served \subseteq Conns /\ tainted \subseteq Conns
  /\ faults \in 0..MaxFaults

\* What the argument takes from the lease protocol: a binding whose script has
\* not run is neither stored nor replaced, and a replaced one is not stored.
LeaseFacts ==
  /\ current \in Conns \cup {None} /\ replaced \subseteq Conns
  /\ previous \in [Conns -> Conns \cup {None}]
  /\ \A c \in Conns : /\ bindCall[c] # "ok" => c # current /\ c \notin replaced
                      /\ c \in replaced => c # current

\* LeaseInv gives these facts.
LEMMA LeaseGives == LeaseInv => LeaseFacts
BY DEF LeaseInv, TypeOK, LeaseFacts

\* What BindingInv says of one connection: who owes the stored binding an
\* answer and Node a report, who takes over from whom, and what a shutdown
\* has ended.
Owed(c) ==
  /\ bindCall[c] = "sent" => c \in tainted \/ auth[c] = "binding"
  /\ current = c => \/ c \in tainted \/ hold[c] = "held"
                    \/ auth[c] = "binding" \/ unbind[c] = "due"
  /\ unbind[c] = "due" =>
       auth[c] = "fenced" \/ kick[c] = "unbind" \/ clean[c] \in Unbinding
Reported(c) ==
  /\ c \in served => auth[c] \notin {"idle", "started", "binding"}
  /\ c \in served \ (kicked \cup tainted) =>
       hold[c] = "held" \/ clean[c] \in Unbinding \/ notified[c] = 1
Taken(c) ==
  /\ kick[c] # "none" => c \in replaced
  /\ bindCall[c] # "ok" => previous[c] = None
  /\ previous[c] # None =>
       /\ previous[c] \in replaced
       /\ auth[c] = "binding" => kick[previous[c]] = "none"
       /\ \A d \in Conns : previous[d] = previous[c] => d = c
Stops(c) ==
  /\ gate[GateOf[c]] \notin {"open", "closing"} => c \notin reg
  /\ gate[GateOf[c]] \in {"stopping", "stopped"} => sock[c] = "closed"
  /\ gate[GateOf[c]] = "stopped" =>
       /\ auth[c] \notin {"binding", "fenced", "takeover"}
       /\ clean[c] \in {"none", "done"}
BindConn(c) == Owed(c) /\ Reported(c) /\ Taken(c) /\ Stops(c)

\* BindingInv says it of every connection.
LEMMA BindSplit == BindingInv <=> \A c \in Conns : BindConn(c)
BY DEF BindingInv, BindConn, Owed, Reported, Taken, Stops

\* The whole inductive invariant of the sessions.
IInv == LeaseInv /\ CInv /\ CtlFuns /\ BindingInv

\* It holds when no connection has been opened.
LEMMA IInvInit == Init => IInv
BY LeaseInitInv, CInvInit, GateLeaseAssumption, GateSessionsAssumption, SMTT(30)
   DEF IInv, Init, LeaseInit, CtlFuns, BindingInv, AuthStages

\* Every step keeps the control variables in their types.
LEMMA CtlStep == CtlFuns /\ [Next]_vars => CtlFuns'
<1> SUFFICES ASSUME CtlFuns, [Next]_vars PROVE CtlFuns'
  OBVIOUS
<1> USE GateSessionsAssumption DEF CtlFuns, AuthStages, Fault, gateVars
<1>1. CASE Tick /\ UNCHANGED ctlVars
  BY <1>1 DEF ctlVars
<1>2. ASSUME NEW c \in Conns, client(c) \/ authTimeout(c) PROVE CtlFuns'
  <2>1. CASE Open(c) \/ disconnect(c) \/ authTimeout(c) \/ heartbeatInvalid(c)
    BY <2>1 DEF authTimeout, Open, disconnect, heartbeatInvalid
  <2>2. CASE authBegin(c) \/ forward(c) \/ forwardInvalid(c) \/ heartbeatRenew(c)
    BY <2>2 DEF authBegin, forward, forwardInvalid, heartbeatRenew, ctlVars
  <2> QED
    BY <1>2, <2>1, <2>2 DEF client
<1>3. ASSUME NEW c \in Conns, authenticate(c) PROVE CtlFuns'
  BY <1>3 DEF authenticate, authReject, admitAuthentication, commitAuthentication,
    fenceAuthentication, authReturns, forwardReturns
<1>4. ASSUME NEW c \in Conns, heartbeat(c) \/ script(c) PROVE CtlFuns'
  BY <1>4 DEF heartbeat, script, heartbeatOk, heartbeatRefused, unbindRuns, ctlVars
<1>5. ASSUME NEW c \in Conns, kickSteps(c) PROVE CtlFuns'
  BY <1>5 DEF kickSteps, kickFind, detachForKick, kickMissed, kickClose, kickReturns
<1>6. ASSUME NEW c \in Conns, cleanup(c) PROVE CtlFuns'
  <2>1. CASE Close(c) \/ detachForClose(c) \/ notifyDisconnect(c)
    BY <2>1 DEF Close, detachForClose, notifyDisconnect
  <2>2. CASE drainSession(c)
    BY <2>2 DEF drainSession, drainDetach
  <2>3. CASE drainOverdue(c)
    BY <2>3 DEF drainOverdue, drainDetach, drainGivesUp
  <2> QED
    BY <1>6, <2>1, <2>2, <2>3 DEF cleanup
<1>7. ASSUME NEW c \in Conns, failure(c) PROVE CtlFuns'
  <2>1. CASE bindFails(c) \/ kickTimeout(c) \/ kickLost(c) \/ heartbeatFails(c)
    BY <2>1, SMTT(30) DEF bindFails, kickTimeout, kickLost, heartbeatFails
  <2>2. CASE unbindFails(c)
    BY <2>2, SMTT(30) DEF unbindFails
  <2>3. CASE drainTimeout(c)
    BY <2>3, SMTT(30) DEF drainTimeout, drainDetach, drainGivesUp
  <2> QED
    BY <1>7, <2>1, <2>2, <2>3 DEF failure
<1>8. ASSUME NEW g \in Mortal,
             beginShutdown(g) \/ shutdownTimeout(g) \/ gateway(g) \/ crash(g)
      PROVE CtlFuns'
  <2>1. CASE beginShutdown(g) \/ shutdownTimeout(g) \/ gateway(g)
    BY <2>1, SMTT(30) DEF beginShutdown, shutdownTimeout, gateway, takeAll,
      stopTransports, stopped, On
  <2>2. CASE crash(g)
    BY <2>2, SMTT(30) DEF crash, On
  <2> QED
    BY <1>8, <2>1, <2>2
<1>9. CASE UNCHANGED vars
  BY <1>9 DEF vars, ctlVars
<1> QED
  BY <1>1, <1>2, <1>3, <1>4, <1>5, <1>6, <1>7, <1>8, <1>9 DEF Next

\* Every step keeps what a Gateway's shutdown has ended: a connection opens, begins to
\* authenticate or is kicked only before that.
LEMMA StopsStep ==
  ASSUME SessionFuns, CtlFuns, [Next]_vars, NEW x \in Conns, Stops(x) PROVE Stops(x)'
<1> DEFINE G == gate[GateOf[x]]
           Keeps ==
             /\ gate' = gate
             /\ x \in reg' => x \in reg \/ G = "open"
             /\ sock[x] = "closed" => sock'[x] = "closed"
             /\ auth'[x] \in {"binding", "fenced", "takeover"} =>
                  auth[x] \in {"binding", "fenced", "takeover"} \/ G = "open"
             /\ clean'[x] \in {"none", "done"} \/ clean[x] \notin {"none", "done"} \/ x \in reg
<1>0. Keeps => Stops(x)'
  BY DEF Stops
<1>1. CASE UNCHANGED ctlVars
  BY <1>1 DEF ctlVars, gateVars, Stops
<1>2. ASSUME NEW c \in Conns, client(c) \/ authTimeout(c), ~UNCHANGED ctlVars PROVE Keeps
  <2>1. CASE Open(c)
    BY <2>1, SMTT(30) DEF Open, isAccepting, gateVars, SessionFuns, CtlFuns
  <2>2. CASE disconnect(c) \/ authTimeout(c) \/ heartbeatInvalid(c) \/ forwardInvalid(c)
    BY <2>2, SMTT(30) DEF disconnect, authTimeout, heartbeatInvalid, forwardInvalid,
      closeSocks, gateVars
  <2>3. CASE authBegin(c) \/ forward(c)
    BY <2>3, SMTT(30) DEF authBegin, forward, gateVars, CtlFuns
  <2> QED
    BY <1>2, <2>1, <2>2, <2>3 DEF client, heartbeatRenew
<1>3. ASSUME NEW c \in Conns, authenticate(c) PROVE Keeps
  <2>1. CASE authReject(c) \/ authReturns(c) \/ forwardReturns(c)
    BY <2>1 DEF authReject, authReturns, forwardReturns, gateVars, CtlFuns
  <2>2. CASE admitAuthentication(c)
    BY <2>2 DEF admitAuthentication, isAccepting, gateVars, CtlFuns
  <2>3. CASE commitAuthentication(c)
    BY <2>3 DEF commitAuthentication, gateVars, CtlFuns
  <2>4. CASE fenceAuthentication(c)
    BY <2>4 DEF fenceAuthentication, gateVars, CtlFuns
  <2> QED
    BY <1>3, <2>1, <2>2, <2>3, <2>4 DEF authenticate
<1>4. ASSUME NEW c \in Conns, kickSteps(c) PROVE Keeps
  BY <1>4, SMTT(30) DEF kickSteps, kickFind, detachForKick, kickMissed, kickClose, kickReturns, closeSocks,
    gateVars, SessionFuns
<1>5. ASSUME NEW c \in Conns, cleanup(c) PROVE Keeps
  <2>1. CASE Close(c) \/ detachForClose(c) \/ notifyDisconnect(c)
    BY <2>1, SMTT(30) DEF Close, detachForClose, notifyDisconnect, gateVars, Unbinding, SessionFuns
  <2>2. CASE drainSession(c) \/ drainOverdue(c)
    BY <2>2, SMTT(30) DEF drainSession, drainOverdue, drainDetach, drainGivesUp,
      closeSocks, gateVars, SessionFuns
  <2> QED
    BY <1>5, <2>1, <2>2 DEF cleanup
<1>6. ASSUME NEW c \in Conns, heartbeatRefused(c) \/ unbindRuns(c) PROVE Keeps
  BY <1>6 DEF heartbeatRefused, unbindRuns, closeSocks, gateVars
<1>7. ASSUME NEW c \in Conns, failure(c) PROVE Keeps
  <2>1. CASE drainTimeout(c)
    BY <2>1, SMTT(30) DEF drainTimeout, drainDetach, drainGivesUp, closeSocks, gateVars, SessionFuns
  <2>2. CASE bindFails(c) \/ kickTimeout(c) \/ kickLost(c) \/ heartbeatFails(c) \/ unbindFails(c)
    BY <2>2, SMTT(30) DEF bindFails, kickTimeout, kickLost, heartbeatFails, unbindFails,
      gateVars, SessionFuns, CtlFuns
  <2> QED
    BY <1>7, <2>1, <2>2 DEF failure
<1>8. ASSUME NEW g \in Mortal,
             beginShutdown(g) \/ shutdownTimeout(g) \/ gateway(g) \/ crash(g)
      PROVE Stops(x)'
  <2> GateOf[x] \in Gates /\ gate \in [Gates -> {"open", "closing", "draining", "stopping", "stopped", "crashed"}]
    BY GateSessionsAssumption DEF CtlFuns
  <2>1. CASE beginShutdown(g) \/ shutdownTimeout(g)
    BY <2>1 DEF beginShutdown, shutdownTimeout, Stops
  <2>2. CASE takeAll(g)
    BY <2>2 DEF takeAll, On, Stops
  <2>3. CASE stopTransports(g)
    BY <2>3 DEF stopTransports, closeSocks, On, Stops
  <2>4. CASE stopped(g)
    BY <2>4 DEF stopped, Admitted, On, Stops
  <2>5. CASE crash(g)
    BY <2>5 DEF crash, closeSocks, On, Stops
  <2> QED
    BY <1>8, <2>1, <2>2, <2>3, <2>4, <2>5 DEF gateway
<1> HIDE DEF Keeps
<1> QED
  BY <1>0, <1>1, <1>2, <1>3, <1>4, <1>5, <1>6, <1>7, <1>8 DEF Next, vars, heartbeat, script,
    heartbeatOk

\* Every step keeps the takeovers: a binding is overwritten at most once, and kicked only
\* by the connection that overwrote it.
LEMMA TakenStep ==
  ASSUME SessionFuns, CtlFuns, LeaseFacts, [Next]_vars, \A c \in Conns : Taken(c)
  PROVE  \A c \in Conns : Taken(c)'
<1> DEFINE Keeps ==
             /\ UNCHANGED <<previous, replaced>>
             /\ \A c \in Conns :
                  /\ bindCall[c] = "ok" => bindCall'[c] = "ok"
                  /\ kick'[c] # "none" => kick[c] # "none"
                  /\ auth'[c] = "binding" => auth[c] = "binding" \/ bindCall[c] # "ok"
           Same == UNCHANGED <<previous, replaced, bindCall, kick, auth>>
<1>0. Keeps => \A c \in Conns : Taken(c)'
  BY SMTT(30) DEF Taken, LeaseFacts
<1>1. Same => Keeps
  OBVIOUS
<1>2. ASSUME NEW c \in Conns, authBegin(c) PROVE Keeps
  BY <1>2 DEF authBegin, leaseVars, CtlFuns
<1>3. ASSUME NEW c \in Conns, \/ authReject(c) \/ admitAuthentication(c) \/ fenceAuthentication(c)
                              \/ authReturns(c) \/ forwardReturns(c) \/ forward(c)
      PROVE  Keeps
  <2>1. CASE authReject(c) \/ authReturns(c) \/ forwardReturns(c) \/ forward(c)
    BY <2>1 DEF authReject, authReturns, forwardReturns, forward, storeVars, leaseVars, CtlFuns
  <2>2. CASE admitAuthentication(c)
    BY <2>2 DEF admitAuthentication, sendBind, storeVars, SessionFuns, CtlFuns
  <2>3. CASE fenceAuthentication(c)
    BY <2>3 DEF fenceAuthentication, detach, storeVars, CtlFuns
  <2> QED
    BY <1>3, <2>1, <2>2, <2>3
<1>4. ASSUME NEW c \in Conns, commitAuthentication(c), NEW x \in Conns PROVE Taken(x)'
  <2>1. /\ auth[c] = "binding" /\ auth' = [auth EXCEPT ![c] = auth'[c]] /\ auth'[c] # "binding"
        /\ kick' = [d \in Conns |-> IF d = previous[c] THEN "sent" ELSE kick[d]]
        /\ UNCHANGED <<previous, replaced, bindCall>>
    BY <1>4 DEF commitAuthentication, finishAuthentication, storeVars, CtlFuns
  <2> QED
    BY <2>1, GateLeaseAssumption, SMTT(30) DEF Taken, LeaseFacts, CtlFuns
<1>5. ASSUME NEW c \in Conns, kickSteps(c) PROVE Keeps
  BY <1>5 DEF kickSteps, kickFind, detachForKick, kickMissed, kickClose, kickReturns, detach,
    storeVars, leaseVars, SessionFuns
<1>6. ASSUME NEW c \in Conns, BindGate(c), UNCHANGED ctlVars, NEW x \in Conns PROVE Taken(x)'
  <2>1. /\ bindCall[c] = "sent" /\ bindCall' = [bindCall EXCEPT ![c] = "ok"]
        /\ previous' = [previous EXCEPT ![c] = current]
        /\ replaced' = replaced \cup ({current} \ {None, c})
        /\ UNCHANGED <<kick, auth>>
    BY <1>6 DEF BindGate, ctlVars
  <2>2. c # current /\ previous[c] = None
    BY <2>1 DEF LeaseFacts, Taken
  <2>3. ASSUME current # None
        PROVE  /\ current \notin replaced /\ kick[current] = "none"
               /\ \A d \in Conns : previous[d] # current
    BY <2>3, GateLeaseAssumption DEF LeaseFacts, Taken
  <2> QED
    BY <2>1, <2>2, <2>3, SMTT(30) DEF Taken, LeaseFacts, SessionFuns
<1>7. ASSUME NEW c \in Conns, failure(c) PROVE Keeps
  <2>1. CASE bindFails(c)
    BY <2>1 DEF bindFails, detach, storeVars, CtlFuns
  <2>3. CASE kickTimeout(c)
    BY <2>3 DEF kickTimeout, storeVars, leaseVars, CtlFuns
  <2>4. CASE kickLost(c)
    BY <2>4 DEF kickLost, storeVars, leaseVars, SessionFuns
  <2>2. CASE heartbeatFails(c) \/ unbindFails(c) \/ drainTimeout(c)
    BY <2>2 DEF heartbeatFails, unbindFails, drainTimeout, drainDetach, drainGivesUp,
      abandonRenew, detach, storeVars, leaseVars, SessionFuns, CtlFuns
  <2> QED
    BY <1>7, <2>1, <2>2, <2>3, <2>4 DEF failure
<1>8. ASSUME NEW g \in Mortal, crash(g) PROVE Keeps
  BY <1>8 DEF crash, detach, storeVars
<1>9. ASSUME NEW c \in Conns, \/ Open(c) \/ disconnect(c) \/ heartbeatInvalid(c) \/ heartbeatRenew(c)
                              \/ forwardInvalid(c)
                              \/ authTimeout(c) \/ heartbeat(c)
      PROVE  Same
  <2>1. CASE Open(c) \/ disconnect(c) \/ heartbeatInvalid(c) \/ forwardInvalid(c)
    BY <2>1 DEF Open, disconnect, heartbeatInvalid, forwardInvalid, leaseVars
  <2>2. CASE heartbeatRenew(c) \/ authTimeout(c)
    BY <2>2 DEF heartbeatRenew, authTimeout, sendRenew, storeVars, leaseVars, ctlVars
  <2>3. CASE heartbeatOk(c) \/ heartbeatRefused(c)
    BY <2>3 DEF heartbeatOk, heartbeatRefused, finishHeartbeat, abandonRenew, storeVars, ctlVars
  <2> QED
    BY <1>9, <2>1, <2>2, <2>3 DEF heartbeat
<1>10. ASSUME NEW c \in Conns, \/ cleanup(c) \/ unbindRuns(c)
                               \/ (RenewGateLease(c) \/ lateRenew(c)) /\ UNCHANGED ctlVars
      PROVE  Same
  <2>1. CASE Close(c) \/ detachForClose(c) \/ notifyDisconnect(c)
    BY <2>1 DEF Close, detachForClose, notifyDisconnect, detach, storeVars, leaseVars
  <2>2. CASE unbindRuns(c)
    BY <2>2 DEF unbindRuns, UnbindGate
  <2>3. CASE (RenewGateLease(c) \/ lateRenew(c)) /\ UNCHANGED ctlVars
    BY <2>3 DEF RenewGateLease, lateRenew, ctlVars
  <2>4. CASE drainSession(c) \/ drainOverdue(c)
    BY <2>4 DEF drainSession, drainOverdue, drainDetach, drainGivesUp, detach, storeVars, leaseVars
  <2> QED
    BY <1>10, <2>1, <2>2, <2>3, <2>4 DEF cleanup
<1>11. ASSUME NEW g \in Mortal, beginShutdown(g) \/ shutdownTimeout(g) \/ gateway(g)
      PROVE  Same
  BY <1>11 DEF beginShutdown, shutdownTimeout, gateway, takeAll, stopTransports, stopped,
    leaseVars
<1>12. ASSUME (Tick /\ UNCHANGED ctlVars) \/ UNCHANGED vars
       PROVE  Same
  BY <1>12 DEF Tick, vars, leaseVars, ctlVars
<1> HIDE DEF Keeps, Same
<1> QED
  <2>1. ASSUME NEW c \in Conns, client(c) \/ authenticate(c) \/ script(c)
        PROVE  \A x \in Conns : Taken(x)'
    BY <2>1, <1>0, <1>1, <1>2, <1>3, <1>4, <1>6, <1>9, <1>10 DEF client, authenticate, script
  <2> QED
    BY <2>1, <1>0, <1>1, <1>5, <1>7, <1>8, <1>9, <1>10, <1>11, <1>12 DEF Next

\* Every step keeps what is owed to a binding: who gives one up unbinds it, or a fault
\* is to blame.
LEMMA OwedStep ==
  ASSUME SessionFuns, CtlFuns, LeaseFacts, CleanupInv, [Next]_vars,
         \A c \in Conns : Owed(c) /\ Taken(c), NEW x \in Conns
  PROVE  Owed(x)'
<1> Owed(x) /\ None \notin Conns
  BY GateLeaseAssumption
<1> DEFINE Keeps ==
             /\ bindCall'[x] = "sent" => bindCall[x] = "sent"
             /\ auth[x] \in {"binding", "fenced"} => auth'[x] = auth[x]
             /\ hold[x] = "held" => hold'[x] = "held"
             /\ unbind'[x] = unbind[x]
             /\ kick[x] = "unbind" => kick'[x] = "unbind"
             /\ clean[x] \in Unbinding => clean'[x] \in Unbinding
             /\ x \in tainted => x \in tainted'
             /\ current' = x => current = x
<1>0. Keeps => Owed(x)'
  BY DEF Owed
<1>1. ASSUME (Tick /\ UNCHANGED ctlVars) \/ UNCHANGED vars PROVE Keeps
  BY <1>1 DEF Tick, vars, leaseVars, ctlVars
<1>2. ASSUME NEW c \in Conns, client(c) \/ authTimeout(c) PROVE Keeps
  <2>1. CASE Open(c) \/ disconnect(c) \/ authTimeout(c)
    BY <2>1 DEF authTimeout, Open, disconnect, leaseVars, CtlFuns
  <2>2. CASE authBegin(c) \/ forward(c) \/ forwardInvalid(c)
    BY <2>2 DEF authBegin, forward, forwardInvalid, leaseVars, CtlFuns
  <2>3. CASE heartbeatInvalid(c) \/ heartbeatRenew(c)
    BY <2>3 DEF heartbeatInvalid, heartbeatRenew, sendRenew, storeVars, leaseVars, ctlVars,
      CtlFuns
  <2> QED
    BY <1>2, <2>1, <2>2, <2>3 DEF client
<1>3. ASSUME NEW c \in Conns, authReject(c) \/ forwardReturns(c) \/ heartbeat(c) PROVE Keeps
  <2>1. CASE authReject(c) \/ forwardReturns(c)
    BY <2>1 DEF authReject, forwardReturns, leaseVars, CtlFuns
  <2>2. CASE heartbeatOk(c) \/ heartbeatRefused(c)
    BY <2>2 DEF heartbeatOk, heartbeatRefused, finishHeartbeat, abandonRenew, storeVars, ctlVars,
      CtlFuns
  <2> QED
    BY <1>3, <2>1, <2>2 DEF heartbeat
<1>4. ASSUME NEW c \in Conns, kickFind(c) \/ kickMissed(c) \/ kickLost(c) \/ kickTimeout(c) \/ heartbeatFails(c)
      PROVE  Keeps
  <2>1. CASE kickFind(c) \/ kickMissed(c)
    BY <2>1 DEF kickFind, kickMissed, leaseVars, SessionFuns, CtlFuns
  <2>2. CASE kickLost(c) \/ kickTimeout(c)
    BY <2>2, SMTT(30) DEF kickLost, kickTimeout, leaseVars, SessionFuns, CtlFuns
  <2>3. CASE heartbeatFails(c)
    BY <2>3 DEF heartbeatFails, abandonRenew, storeVars, SessionFuns, CtlFuns
  <2> QED
    BY <1>4, <2>1, <2>2, <2>3
<1>5. ASSUME NEW c \in Conns, (RenewGateLease(c) \/ lateRenew(c)) /\ UNCHANGED ctlVars PROVE Keeps
  BY <1>5 DEF RenewGateLease, lateRenew, ctlVars
<1>6. ASSUME NEW g \in Mortal, beginShutdown(g) \/ shutdownTimeout(g) \/ gateway(g) PROVE Keeps
  BY <1>6 DEF beginShutdown, shutdownTimeout, gateway, takeAll, stopTransports, stopped,
    leaseVars, Unbinding, CleanupInv
<1>7. ASSUME NEW c \in Conns, Close(c) PROVE Keeps
  BY <1>7 DEF Close, leaseVars, Unbinding, CleanupInv, SessionFuns
<1>8. ASSUME NEW c \in Conns, admitAuthentication(c) \/ bindFails(c) \/ fenceAuthentication(c) PROVE Owed(x)'
  <2>1. CASE admitAuthentication(c)
    BY <2>1 DEF admitAuthentication, sendBind, storeVars, Owed, SessionFuns, CtlFuns
  <2>2. CASE bindFails(c)
    BY <2>2 DEF bindFails, detach, storeVars, Owed, SessionFuns, CtlFuns
  <2>3. CASE fenceAuthentication(c)
    BY <2>3 DEF fenceAuthentication, detach, storeVars, Owed, SessionFuns, CtlFuns
  <2> QED
    BY <1>8, <2>1, <2>2, <2>3
<1>9. ASSUME NEW c \in Conns, commitAuthentication(c) PROVE Owed(x)'
  <2>1. kick[x] = "unbind" => x # previous[c]
    BY <1>9 DEF commitAuthentication, Taken
  <2> QED
    BY <1>9, <2>1 DEF commitAuthentication, finishAuthentication, storeVars, Owed, SessionFuns, CtlFuns
<1>10. ASSUME NEW c \in Conns, authReturns(c) \/ kickReturns(c) \/ notifyDisconnect(c) PROVE Owed(x)'
  <2>1. CASE authReturns(c)
    BY <2>1, SMTT(30) DEF authReturns, Unbound, leaseVars, Owed, SessionFuns, CtlFuns
  <2>2. CASE kickReturns(c)
    BY <2>2 DEF kickReturns, Unbound, leaseVars, Owed, SessionFuns, CtlFuns
  <2>3. CASE notifyDisconnect(c)
    BY <2>3 DEF notifyDisconnect, Unbound, leaseVars, Owed, SessionFuns, CtlFuns
  <2> QED
    BY <1>10, <2>1, <2>2, <2>3
<1>11. ASSUME NEW c \in Conns, detachForKick(c) PROVE Owed(x)'
  <2>1. current # c
    BY <1>11 DEF detachForKick, Taken, LeaseFacts
  <2> QED
    BY <1>11, <2>1 DEF detachForKick, detach, storeVars, Owed, SessionFuns
<1>12. ASSUME NEW c \in Conns, kickClose(c) PROVE Owed(x)'
  BY <1>12 DEF kickClose, leaseVars, Owed, SessionFuns, CtlFuns
<1>13. ASSUME NEW c \in Conns, detachForClose(c) \/ drainSession(c) PROVE Owed(x)'
  <2>1. CASE detachForClose(c)
    BY <2>1, SMTT(30) DEF detachForClose, detach, handlerFree, storeVars, leaseVars, Owed,
      Unbinding, SessionFuns, CtlFuns
  <2>2. CASE drainSession(c)
    BY <2>2, SMTT(30) DEF drainSession, drainDetach, detach, handlerFree, storeVars, leaseVars,
      Owed, Unbinding, SessionFuns, CtlFuns
  <2> QED
    BY <1>13, <2>1, <2>2
<1>14. ASSUME NEW c \in Conns, BindGate(c), UNCHANGED ctlVars PROVE Owed(x)'
  BY <1>14 DEF BindGate, ctlVars, Owed, SessionFuns
<1>15. ASSUME NEW c \in Conns, unbindRuns(c) PROVE Owed(x)'
  BY <1>15 DEF unbindRuns, UnbindGate, Owed, CtlFuns
<1>16. ASSUME NEW c \in Conns, unbindFails(c) \/ drainTimeout(c) \/ drainOverdue(c) PROVE Owed(x)'
  <2>1. CASE unbindFails(c)
    BY <2>1, SMTT(30) DEF unbindFails, leaseVars, Owed, SessionFuns, CtlFuns
  <2>2. CASE drainDetach(c, FALSE)
    BY <2>2, SMTT(30) DEF drainDetach, detach, handlerFree, storeVars, leaseVars, Owed,
      Unbinding, SessionFuns, CtlFuns
  <2>3. CASE drainGivesUp(c)
    BY <2>3, SMTT(30) DEF drainGivesUp, leaseVars, Owed, Unbinding, SessionFuns, CtlFuns
  <2> QED
    BY <1>16, <2>1, <2>2, <2>3 DEF drainTimeout, drainOverdue
<1>17. ASSUME NEW g \in Mortal, crash(g) PROVE Owed(x)'
  BY <1>17 DEF crash, detach, On, storeVars, Owed
<1> HIDE DEF Keeps
<1> QED
  <2>1. ASSUME NEW c \in Conns, authenticate(c) \/ kickSteps(c) \/ cleanup(c) PROVE Owed(x)'
    BY <2>1, <1>0, <1>3, <1>4, <1>7, <1>8, <1>9, <1>10, <1>11, <1>12, <1>13, <1>16
       DEF authenticate, kickSteps, cleanup
  <2>2. ASSUME NEW c \in Conns, script(c) \/ failure(c) PROVE Owed(x)'
    BY <2>2, <1>0, <1>4, <1>5, <1>8, <1>14, <1>15, <1>16 DEF script, failure
  <2> QED
    BY <2>1, <2>2, <1>0, <1>1, <1>2, <1>3, <1>6, <1>17 DEF Next

\* Every step keeps what is owed to Node: who takes a served session's binding
\* reports it, or a kick, a fault or the budget is to blame.
LEMMA ReportedStep ==
  ASSUME SessionFuns, CtlFuns, CleanupInv, [Next]_vars, NEW x \in Conns, Reported(x)
  PROVE  Reported(x)'
<1> DEFINE Keeps ==
             /\ x \in served' => x \in served
             /\ auth[x] \notin {"idle", "started", "binding"} =>
                  auth'[x] \notin {"idle", "started", "binding"}
             /\ x \in kicked => x \in kicked'
             /\ x \in tainted => x \in tainted'
             /\ hold[x] = "held" => hold'[x] = "held"
             /\ clean[x] \in Unbinding => clean'[x] \in Unbinding
             /\ notified'[x] = notified[x]
<1>0. Keeps => Reported(x)'
  BY DEF Reported
<1>1. ASSUME (Tick /\ UNCHANGED ctlVars) \/ UNCHANGED vars PROVE Keeps
  BY <1>1 DEF Tick, vars, leaseVars, ctlVars
<1>2. ASSUME NEW c \in Conns, client(c) \/ authTimeout(c) PROVE Keeps
  <2>1. CASE Open(c) \/ disconnect(c) \/ authTimeout(c) \/ heartbeatInvalid(c)
    BY <2>1 DEF authTimeout, Open, disconnect, heartbeatInvalid, leaseVars
  <2>2. CASE authBegin(c) \/ forward(c) \/ forwardInvalid(c)
    BY <2>2 DEF authBegin, forward, forwardInvalid, leaseVars, CtlFuns
  <2>3. CASE heartbeatRenew(c)
    BY <2>3 DEF heartbeatRenew, sendRenew, storeVars, ctlVars
  <2> QED
    BY <1>2, <2>1, <2>2, <2>3 DEF client
<1>3. ASSUME NEW c \in Conns, authReject(c) \/ admitAuthentication(c) \/ authReturns(c) \/ forwardReturns(c)
      PROVE  Keeps
  <2>1. CASE authReject(c) \/ admitAuthentication(c)
    BY <2>1 DEF authReject, admitAuthentication, sendBind, storeVars, leaseVars, CtlFuns
  <2>2. CASE authReturns(c) \/ forwardReturns(c)
    BY <2>2 DEF authReturns, forwardReturns, leaseVars, CtlFuns
  <2> QED
    BY <1>3, <2>1, <2>2
<1>4. ASSUME NEW c \in Conns, commitAuthentication(c) PROVE Reported(x)'
  BY <1>4 DEF commitAuthentication, finishAuthentication, storeVars, Reported, SessionFuns, CtlFuns
<1>5. ASSUME NEW c \in Conns, fenceAuthentication(c) \/ bindFails(c) PROVE Reported(x)'
  <2>1. /\ auth[c] = "binding" /\ auth'[c] \notin {"idle", "started", "binding"}
        /\ \A d \in Conns \ {c} : auth'[d] = auth[d] /\ hold'[d] = hold[d]
        /\ UNCHANGED <<clean, notified, kicked, served>> /\ tainted \subseteq tainted'
    BY <1>5 DEF fenceAuthentication, bindFails, detach, CtlFuns
  <2>2. CASE x = c
    BY <2>1, <2>2 DEF Reported
  <2>3. CASE x # c
    BY <2>1, <2>3 DEF Reported
  <2> QED
    BY <2>2, <2>3
<1>6. ASSUME NEW c \in Conns, heartbeat(c) PROVE Keeps
  <2>1. CASE heartbeatOk(c)
    BY <2>1 DEF heartbeatOk, finishHeartbeat, ctlVars
  <2>2. CASE heartbeatRefused(c)
    BY <2>2 DEF heartbeatRefused, abandonRenew
  <2> QED
    BY <1>6, <2>1, <2>2 DEF heartbeat
<1>7. ASSUME NEW c \in Conns, script(c) PROVE Keeps
  BY <1>7, SMTT(30) DEF script, BindGate, RenewGateLease, lateRenew, unbindRuns, UnbindGate, ctlVars
<1>8. ASSUME NEW c \in Conns, kickFind(c) \/ kickMissed(c) \/ kickClose(c) \/ kickReturns(c) PROVE Keeps
  BY <1>8 DEF kickFind, kickMissed, kickClose, kickReturns, leaseVars
<1>9. ASSUME NEW c \in Conns, detachForKick(c) PROVE Reported(x)'
  BY <1>9 DEF detachForKick, detach, storeVars, Reported, SessionFuns
<1>10. ASSUME NEW c \in Conns, Close(c) PROVE Keeps
  BY <1>10 DEF Close, leaseVars, Unbinding, CleanupInv, SessionFuns
<1>11. ASSUME NEW c \in Conns, detachForClose(c) PROVE Reported(x)'
  <2>1. /\ clean[c] = "close"
        /\ hold[c] = "held" => clean'[c] = "closeUnbind"
        /\ \A d \in Conns \ {c} : clean'[d] = clean[d] /\ hold'[d] = hold[d]
        /\ UNCHANGED <<auth, notified, kicked, served, tainted>>
    BY <1>11 DEF detachForClose, detach, leaseVars, SessionFuns
  <2> QED
    BY <2>1 DEF Reported, Unbinding
<1>12. ASSUME NEW c \in Conns, NEW inTime \in BOOLEAN, drainDetach(c, inTime) PROVE Reported(x)'
  <2>1. /\ clean[c] = "drain"
        /\ hold[c] = "held" => clean'[c] = "drainUnbind" \/ c \in tainted'
        /\ \A d \in Conns \ {c} : clean'[d] = clean[d] /\ hold'[d] = hold[d]
        /\ UNCHANGED <<auth, notified, kicked, served>> /\ tainted \subseteq tainted'
    BY <1>12 DEF drainDetach, detach, leaseVars, SessionFuns
  <2> QED
    BY <2>1 DEF Reported, Unbinding
<1>13. ASSUME NEW c \in Conns, notifyDisconnect(c) PROVE Reported(x)'
  <2>1. /\ clean[c] \in Unbinding /\ notified'[c] = notified[c] + 1
        /\ \A d \in Conns \ {c} : clean'[d] = clean[d] /\ notified'[d] = notified[d]
        /\ UNCHANGED <<auth, hold, kicked, served, tainted>>
    BY <1>13 DEF notifyDisconnect, leaseVars, SessionFuns
  <2>2. notified[c] = 0
    BY <2>1 DEF CleanupInv, Unbinding
  <2> QED
    BY <2>1, <2>2 DEF Reported
<1>14. ASSUME NEW c \in Conns, drainGivesUp(c) PROVE Reported(x)'
  <2>1. /\ \A d \in Conns \ {c} : clean'[d] = clean[d]
        /\ UNCHANGED <<auth, hold, notified, kicked, served>> /\ tainted' = tainted \cup {c}
    BY <1>14 DEF drainGivesUp, leaseVars, SessionFuns
  <2> QED
    BY <2>1 DEF Reported
<1>15. ASSUME NEW c \in Conns, kickTimeout(c) \/ kickLost(c) \/ heartbeatFails(c) \/ unbindFails(c) PROVE Keeps
  <2>1. CASE kickTimeout(c) \/ kickLost(c)
    BY <2>1 DEF kickTimeout, kickLost, leaseVars, CtlFuns
  <2>2. CASE heartbeatFails(c) \/ unbindFails(c)
    BY <2>2 DEF heartbeatFails, unbindFails, abandonRenew, leaseVars
  <2> QED
    BY <1>15, <2>1, <2>2
<1>16. ASSUME NEW g \in Mortal, beginShutdown(g) \/ shutdownTimeout(g) \/ gateway(g) PROVE Keeps
  BY <1>16 DEF beginShutdown, shutdownTimeout, gateway, takeAll, stopTransports, stopped,
    leaseVars, Unbinding, CleanupInv
<1>17. ASSUME NEW g \in Mortal, crash(g) PROVE Reported(x)'
  BY <1>17 DEF crash, detach, On, storeVars, Reported
<1> HIDE DEF Keeps
<1> QED
  <2>1. ASSUME NEW c \in Conns, authenticate(c) \/ kickSteps(c) PROVE Reported(x)'
    BY <2>1, <1>0, <1>3, <1>4, <1>5, <1>8, <1>9 DEF authenticate, kickSteps
  <2>2. ASSUME NEW c \in Conns, cleanup(c) \/ failure(c) PROVE Reported(x)'
    BY <2>2, <1>0, <1>5, <1>10, <1>11, <1>12, <1>13, <1>14, <1>15
       DEF cleanup, failure, drainSession, drainTimeout, drainOverdue
  <2> QED
    BY <2>1, <2>2, <1>0, <1>1, <1>2, <1>6, <1>7, <1>16, <1>17 DEF Next

\* So every step keeps BindingInv.
LEMMA BindStep == IInv /\ [Next]_vars => BindingInv'
<1> SUFFICES ASSUME IInv, [Next]_vars PROVE BindingInv'
  OBVIOUS
<1>1. SessionFuns /\ CtlFuns /\ CleanupInv /\ LeaseFacts /\ \A c \in Conns : BindConn(c)
  BY LeaseGives, BindSplit DEF IInv, CInv
<1>2. \A c \in Conns : Taken(c)'
  BY <1>1, TakenStep DEF BindConn
<1>3. \A c \in Conns : Stops(c)' /\ Owed(c)' /\ Reported(c)'
  BY <1>1, StopsStep, OwedStep, ReportedStep DEF BindConn
<1> QED
  BY <1>2, <1>3 DEF BindingInv, Owed, Reported, Taken, Stops

\* The invariant is inductive.
LEMMA IInvStep == IInv /\ [Next]_vars => IInv'
<1>1. IInv /\ [Next]_vars => LeaseInv'
  BY SessionStep, StepInv DEF IInv
<1>2. IInv /\ [Next]_vars => CInv' /\ CtlFuns'
  BY CInvStep, CtlStep DEF IInv
<1> QED
  BY <1>1, <1>2, BindStep DEF IInv

\* The sessions' inductive invariant, with the lease protocol's.
LEMMA IInvariant == Spec => []IInv
BY IInvInit, IInvStep, PTL DEF Spec

\* The stages of an authentication, of a takeover and of a shutdown agree with
\* the stored binding, on any number of Gateways.
THEOREM BindingAgrees == Spec => []BindingInv
BY IInvariant, PTL DEF IInv

\* Every variable of the sessions keeps its type; in particular no disconnect
\* is counted beyond the bound, and faults stay within MaxFaults.
THEOREM SessionTypes == Spec => []SessionTypeOK
<1>1. IInv => SessionTypeOK
  <2>1. IInv => TypeOK
    BY DEF IInv, LeaseInv
  <2>2. CInv => notified \in [Conns -> 0..2]
    BY SMTT(30) DEF CInv, SessionFuns, CleanupInv
  <2> QED
    BY <2>1, <2>2 DEF IInv, CInv, SessionFuns, CtlFuns, SessionTypeOK
<1> QED
  BY <1>1, IInvariant, PTL

\* Unless one of its calls failed or its process ended, no connection leaves
\* its binding in Redis: refused commits, kicks, Close and the drain all
\* unbind it, however they interleave.
THEOREM NoBindingIsOrphaned == Spec => []NoOrphanBinding
<1>1. IInv => NoOrphanBinding
  BY DEF IInv, BindingInv, NoOrphanBinding
<1> QED
  BY <1>1, IInvariant, PTL

\* A Gateway that has stopped has no registered session, no held binding and
\* no open connection, and leaves no stored binding of its own behind unless
\* a call of that connection failed.
THEOREM StopLeavesNoSession == Spec => []StoppedIsClean
<1>1. IInv => StoppedIsClean
  <2> SUFFICES ASSUME IInv, NEW c \in Conns, gate[GateOf[c]] = "stopped"
               PROVE  /\ c \notin reg /\ hold[c] # "held" /\ sock[c] = "closed"
                      /\ current = c => c \in tainted
    BY DEF StoppedIsClean
  <2>1. BindConn(c)
    BY BindSplit DEF IInv
  <2>2. c \notin reg /\ sock[c] = "closed" /\ clean[c] \in {"none", "done"}
    BY <2>1 DEF BindConn, Stops
  <2>3. hold[c] # "held"
    BY <2>2 DEF IInv, CInv, CleanupInv, Removed
  <2>4. kick[c] = "unbind" => current # c
    BY <2>1, LeaseGives DEF BindConn, Taken, LeaseFacts, IInv
  <2>5. current = c => c \in tainted
    BY <2>1, <2>2, <2>3, <2>4 DEF BindConn, Owed, Stops, Unbinding
  <2> QED
    BY <2>2, <2>3, <2>5
<1> QED
  BY <1>1, IInvariant, PTL

\* A Gateway that has stopped has told Node about every session it served,
\* unless a kick took the binding, one of its calls failed or the shutdown's
\* budget was used up before its drain was done.
THEOREM StopReportsSessions == Spec => []StoppedIsReported
<1>1. IInv => StoppedIsReported
  <2> SUFFICES ASSUME IInv, NEW c \in served \ (kicked \cup tainted),
                      gate[GateOf[c]] = "stopped"
               PROVE  notified[c] = 1
    BY DEF StoppedIsReported
  <2>0. c \in Conns
    BY DEF IInv, CtlFuns
  <2>1. BindConn(c)
    BY <2>0, BindSplit DEF IInv
  <2>2. c \notin reg /\ clean[c] \in {"none", "done"}
    BY <2>1 DEF BindConn, Stops
  <2>3. hold[c] # "held"
    BY <2>0, <2>2 DEF IInv, CInv, CleanupInv, Removed
  <2> QED
    BY <2>1, <2>2, <2>3 DEF BindConn, Reported, Unbinding
<1> QED
  BY <1>1, IInvariant, PTL
=============================================================================
