----------------------------- MODULE NodeLifecycle -----------------------------
(***************************************************************************)
(* The life of one Stateful Node server (node/lifecycle.go): Start         *)
(* prepares the listener, the epoch lease, gRPC and the directory record   *)
(* and then opens admission; Stop, a failed Start, a lost lease, a lost    *)
(* registration or a dead gRPC server begin the one cleanup, which may     *)
(* overtake a Start that is still under way.                               *)
(*                                                                         *)
(* The two admissions are used through what AdmissionGate promises and the *)
(* epoch through what EpochLease does with it (renewed, cancelled,         *)
(* released).  The registrar and the application's Drain are external.  A  *)
(* step ends where the code waits or calls out.  Every wait of the cleanup *)
(* may run out of its budget, at any time.                                 *)
(***************************************************************************)
EXTENDS Integers

CONSTANT MaxWork    \* bound on concurrent requests, and on side effects

ASSUME NodeLifecycleAssumption == MaxWork \in Nat \ {0}

VARIABLES
  startup,     \* start(): the call it is in, "idle" before, "done" or "failed" after
  requests,    \* inbound admission: "pending", "open", "closed"
  deliveries,  \* side-effect admission: "pending", "open", "closed"
  reqs, dels,  \* admitted and not done
  lease,       \* "none", "live", "cancelled"
  renewing,    \* the lease's goroutines: "off", "on"
  fatal,       \* failLifecycle: "no", "due", "begun" (admission closed), "done"
  key,         \* this generation's epoch in Redis: "absent", "present", "released"
  record,      \* Server.registration: "nil", "stored"
  listed,      \* the directory: "no", "yes", "left" (deregistration failed)
  cleanup,     \* cleanup(): the wait or call it is in, "none" before, "done" after
  failed,      \* which of startupErr, requestErr, drainErr, deliveryErr are set
  drain,       \* the application's Drain: "none", "running", "returned"
  sawRecord    \* the record the cleanup read first

startVars == <<startup, lease, renewing, fatal, key, record, listed>>
workVars == <<requests, deliveries, reqs, dels>>
cleanVars == <<cleanup, failed, drain, sawRecord>>
vars == <<startVars, workVars, cleanVars>>

StartupStages == {"idle", "prepare", "claim", "renew", "ready", "grpc", "register",
                  "commit", "opening", "done", "failed"}
CleanupStages == {"none", "startup", "deregister", "requests", "drain", "draining",
                  "deliveries", "renewal", "network", "release", "releaseWait", "late",
                  "lateStop", "lateDrain", "done"}

TypeOK ==
  /\ startup \in StartupStages /\ cleanup \in CleanupStages
  /\ requests \in {"pending", "open", "closed"}
  /\ deliveries \in {"pending", "open", "closed"}
  /\ reqs \in 0..MaxWork /\ dels \in 0..MaxWork
  /\ lease \in {"none", "live", "cancelled"} /\ renewing \in {"off", "on"}
  /\ fatal \in {"no", "due", "begun", "done"}
  /\ key \in {"absent", "present", "released"}
  /\ record \in {"nil", "stored"} /\ sawRecord \in {"nil", "stored"}
  /\ listed \in {"no", "yes", "left"}
  /\ failed \subseteq {"startup", "requests", "drain", "deliveries"}
  /\ drain \in {"none", "running", "returned"}

Init ==
  /\ startup = "idle" /\ cleanup = "none"
  /\ requests = "pending" /\ deliveries = "pending" /\ reqs = 0 /\ dels = 0
  /\ lease = "none" /\ renewing = "off" /\ fatal = "no" /\ key = "absent"
  /\ record = "nil" /\ listed = "no"
  /\ failed = {} /\ drain = "none" /\ sawRecord = "nil"

-----------------------------------------------------------------------------
\* beginStopping closes inbound admission and cancels the startup context
\* under one lock: requests = "closed" stands for both.
Stopping == requests = "closed"
StartupOver == startup \in {"idle", "done", "failed"}

\* start() keeps lifecycleMu while it opens the admissions, so that
\* beginStopping waits for it.
Committing == startup = "opening"

\* startCleanup: beginStopping, then the cleanup goroutine, once.
startCleanup ==
  /\ requests' = "closed"
  /\ cleanup' = IF cleanup = "none" THEN "startup" ELSE cleanup

Start ==
  /\ startup = "idle" /\ ~Stopping
  /\ startup' = "prepare"
  /\ UNCHANGED <<lease, renewing, fatal, key, record, listed, workVars, cleanVars>>

\* A call of start() fails or finds its context ended; Start returns
\* through stopAfterFailure.  A failed Register leaves no record behind.
startFails ==
  /\ startup \in {"prepare", "claim", "renew", "ready", "grpc", "register"}
  /\ startup' = "failed"
  /\ startCleanup
  /\ UNCHANGED <<lease, renewing, fatal, key, record, listed, deliveries, reqs,
                 dels, failed, drain, sawRecord>>

\* The listener is prepared and the locator answers Ping.
prepared ==
  /\ startup = "prepare"
  /\ startup' = "claim"
  /\ UNCHANGED <<lease, renewing, fatal, key, record, listed, workVars, cleanVars>>

\* claimEpoch succeeds, perhaps after the context has ended: the lease is
\* stored either way, so that the cleanup can take it over.
claimed ==
  /\ startup = "claim"
  /\ lease' = "live" /\ key' = "present"
  /\ startup' = "renew"
  /\ UNCHANGED <<renewing, fatal, record, listed, workVars, cleanVars>>

\* lease.start: only a lease that has not been cancelled is renewed.
leaseStart ==
  /\ startup = "renew" /\ lease = "live"
  /\ renewing' = "on" /\ startup' = "ready"
  /\ UNCHANGED <<lease, fatal, key, record, listed, workVars, cleanVars>>

\* A call ends well; startupError is checked before the next.
Proceed(from, to) ==
  /\ startup = from /\ ~Stopping
  /\ startup' = to
  /\ UNCHANGED <<lease, renewing, fatal, key, record, listed, workVars, cleanVars>>

\* A stateless node has no lease.
noLocator == Proceed("prepare", "grpc")

\* The first renewal, after which the lease must be valid.
ready == lease = "live" /\ Proceed("ready", "grpc")

\* gRPC's accept loop runs.  The lease is not looked at again before the end.
accepting == Proceed("grpc", "register")

\* Register succeeds, perhaps after the context has ended.
registered ==
  /\ startup = "register"
  /\ listed' = "yes" /\ startup' = "commit"
  /\ UNCHANGED <<lease, renewing, fatal, key, record, workVars, cleanVars>>

\* A mutant: a start that was overtaken keeps its record to itself.
commitFailsForgets ==
  /\ startup = "commit"
  /\ startup' = "failed"
  /\ startCleanup
  /\ UNCHANGED <<lease, renewing, fatal, key, record, listed, deliveries, reqs, dels,
                 failed, drain, sawRecord>>

\* The end of start(), under lifecycleMu: the record is handed over ...
commitFails ==
  /\ startup = "commit"
  /\ record' = "stored" /\ startup' = "failed"
  /\ startCleanup
  /\ UNCHANGED <<lease, renewing, fatal, key, listed, deliveries, reqs, dels, failed,
                 drain, sawRecord>>

\* A mutant: the requests are opened before the side effects.
commitRequestsFirst ==
  /\ startup = "commit" /\ ~Stopping /\ lease # "cancelled"
  /\ record' = "stored" /\ startup' = "opening"
  /\ requests' = "open"
  /\ UNCHANGED <<lease, renewing, fatal, key, listed, deliveries, reqs, dels, cleanVars>>

\* ... and admission opens only if nothing has stopped or expired meanwhile,
\* first for side effects ...
commit ==
  /\ startup = "commit" /\ ~Stopping /\ lease # "cancelled"
  /\ record' = "stored" /\ startup' = "opening"
  /\ deliveries' = IF deliveries = "pending" THEN "open" ELSE deliveries
  /\ UNCHANGED <<lease, renewing, fatal, key, listed, requests, reqs, dels, cleanVars>>

\* ... then for requests.
openRequests ==
  /\ startup = "opening"
  /\ startup' = "done"
  /\ requests' = IF requests = "pending" THEN "open" ELSE requests
  /\ UNCHANGED <<lease, renewing, fatal, key, record, listed, deliveries, reqs, dels,
                 cleanVars>>

-----------------------------------------------------------------------------
\* Stop, or a gRPC server that ends by itself (stopAfterFailure).
Stop ==
  /\ cleanup = "none" /\ ~Committing
  /\ startCleanup
  /\ UNCHANGED <<startVars, deliveries, reqs, dels, failed, drain, sawRecord>>

\* The lease expires or is found to be another's.  The monitor, once it
\* runs, and every request that notices it call failLifecycle.
leaseLost ==
  /\ lease = "live"
  /\ lease' = "cancelled"
  /\ fatal' = IF renewing = "on" /\ fatal = "no" THEN "due" ELSE fatal
  /\ UNCHANGED <<startup, renewing, key, record, listed, workVars, cleanVars>>

\* The registry's own lease ends; Start's loop sees it while serving.
registrationLost ==
  /\ startup = "done" /\ listed = "yes" /\ ~Stopping /\ fatal = "no"
  /\ listed' = "no" /\ fatal' = "due"
  /\ UNCHANGED <<startup, lease, renewing, key, record, workVars, cleanVars>>

\* A mutant: failLifecycle closes the side effects before the requests.
failBeginsSwapped ==
  /\ fatal = "due" /\ ~Committing
  /\ fatal' = "begun" /\ deliveries' = "closed"
  /\ UNCHANGED <<startup, lease, renewing, key, record, listed, requests, reqs,
                 dels, cleanVars>>

\* failLifecycle, first beginStopping ...
failBegins ==
  /\ fatal = "due" /\ ~Committing
  /\ fatal' = "begun" /\ requests' = "closed"
  /\ UNCHANGED <<startup, lease, renewing, key, record, listed, deliveries, reqs,
                 dels, cleanVars>>

\* A mutant: failLifecycle leaves the cleanup to somebody else.
failEndsForgets ==
  /\ fatal = "begun"
  /\ fatal' = "done" /\ deliveries' = "closed"
  /\ UNCHANGED <<startup, lease, renewing, key, record, listed, requests, reqs, dels,
                 cleanVars>>

\* ... then the side-effect admission and the cleanup.
failEnds ==
  /\ fatal = "begun"
  /\ fatal' = "done" /\ deliveries' = "closed"
  /\ startCleanup
  /\ UNCHANGED <<startup, lease, renewing, key, record, listed, reqs, dels, failed,
                 drain, sawRecord>>

\* Requests, and side effects of requests or of the application.
requestBegins ==
  /\ requests = "open" /\ reqs < MaxWork
  /\ reqs' = reqs + 1
  /\ UNCHANGED <<startVars, requests, deliveries, dels, cleanVars>>

requestEnds ==
  /\ reqs > 0
  /\ reqs' = reqs - 1
  /\ UNCHANGED <<startVars, requests, deliveries, dels, cleanVars>>

deliveryBegins ==
  /\ deliveries = "open" /\ dels < MaxWork
  /\ dels' = dels + 1
  /\ UNCHANGED <<startVars, requests, deliveries, reqs, cleanVars>>

deliveryEnds ==
  /\ dels > 0
  /\ dels' = dels - 1
  /\ UNCHANGED <<startVars, requests, deliveries, reqs, cleanVars>>

\* The renewal goroutines of a cancelled lease end.
renewalEnds ==
  /\ renewing = "on" /\ lease = "cancelled"
  /\ renewing' = "off"
  /\ UNCHANGED <<startup, lease, fatal, key, record, listed, workVars, cleanVars>>

drainReturns ==
  /\ drain = "running"
  /\ drain' = "returned"
  /\ UNCHANGED <<startVars, workVars, cleanup, failed, sawRecord>>

-----------------------------------------------------------------------------
\* cleanup(), step by step.  Its waits end well or run out of time.
Drained == "requests" \notin failed /\ "drain" \notin failed /\ "deliveries" \notin failed

To(stage) == cleanup' = stage
Failed(what) == failed' = failed \cup {what}

\* An overtaken start gets a quarter of the budget.
cleanupStartup ==
  /\ cleanup = "startup" /\ To("deregister")
  /\ IF StartupOver THEN UNCHANGED failed ELSE Failed("startup")
  /\ UNCHANGED <<startVars, workVars, drain, sawRecord>>

\* Deregister works, fails or times out; without a record there is none.
deregister ==
  \/ record = "nil" /\ UNCHANGED listed
  \/ record = "stored" /\ listed' \in {"no", IF listed = "yes" THEN "left" ELSE listed}

cleanupDeregister ==
  /\ cleanup = "deregister" /\ To("requests")
  /\ sawRecord' = record
  /\ deregister
  /\ UNCHANGED <<startup, lease, renewing, fatal, key, record, workVars, failed, drain>>

\* A mutant: Drain runs although requests are left.
cleanupRequestsIgnored ==
  /\ cleanup = "requests" /\ To("drain")
  /\ IF reqs = 0 THEN UNCHANGED failed ELSE Failed("requests")
  /\ UNCHANGED <<startVars, workVars, drain, sawRecord>>

\* A mutant: the wait for the requests has no budget.
cleanupRequestsPatient ==
  /\ cleanup = "requests" /\ reqs = 0 /\ To("drain")
  /\ UNCHANGED <<startVars, workVars, failed, drain, sawRecord>>

\* requests.stopAndWait; Drain runs only after it has succeeded, otherwise
\* the side-effect admission is closed at once.
cleanupRequests ==
  /\ cleanup = "requests"
  /\ IF reqs = 0
     THEN To("drain") /\ UNCHANGED <<failed, deliveries>>
     ELSE To("deliveries") /\ Failed("requests") /\ deliveries' = "closed"
  /\ UNCHANGED <<startVars, requests, reqs, dels, drain, sawRecord>>

cleanupDrain ==
  /\ cleanup = "drain" /\ To("draining")
  /\ drain' = "running"
  /\ UNCHANGED <<startVars, workVars, failed, sawRecord>>

noDrain ==
  /\ cleanup = "drain" /\ To("deliveries")
  /\ deliveries' = "closed"
  /\ UNCHANGED <<startVars, requests, reqs, dels, failed, drain, sawRecord>>

\* Drain has returned, with or without an error, or goes on past the budget.
cleanupDrained ==
  /\ cleanup = "draining" /\ To("deliveries")
  /\ deliveries' = "closed"
  /\ \/ Failed("drain")
     \/ drain = "returned" /\ UNCHANGED failed
  /\ UNCHANGED <<startVars, requests, reqs, dels, drain, sawRecord>>

\* A mutant: the side effects that did not end are not an error.
cleanupDeliveriesIgnored ==
  /\ cleanup = "deliveries" /\ To("renewal")
  /\ UNCHANGED <<startVars, workVars, failed, drain, sawRecord>>

cleanupDeliveries ==
  /\ cleanup = "deliveries" /\ To("renewal")
  /\ IF dels = 0 THEN UNCHANGED failed ELSE Failed("deliveries")
  /\ UNCHANGED <<startVars, workVars, drain, sawRecord>>

\* stopRenewal cancels the lease, if there is one; the wait for its
\* goroutines that follows matters to release only.
stopRenewal == lease' = IF lease = "none" THEN "none" ELSE "cancelled"

\* Work or a start may be left: the lease ends but keeps its key.
cleanupRenewal ==
  /\ cleanup = "renewal" /\ To("network")
  /\ IF Drained /\ "startup" \notin failed THEN UNCHANGED lease ELSE stopRenewal
  /\ UNCHANGED <<startup, renewing, fatal, key, record, listed, workVars, failed, drain, sawRecord>>

\* gRPC, the listener and the gateway connections are closed.
cleanupNetwork ==
  /\ cleanup = "network"
  /\ To(IF "startup" \in failed THEN "late" ELSE IF Drained THEN "release" ELSE "lateDrain")
  /\ UNCHANGED <<startVars, workVars, failed, drain, sawRecord>>

\* A mutant: the late record is taken for the one already deregistered.
cleanupLateForgets ==
  /\ cleanup = "late" /\ StartupOver
  /\ To(IF Drained THEN "release" ELSE "lateStop")
  /\ UNCHANGED <<startVars, workVars, failed, drain, sawRecord>>

\* The overtaken start has returned: what it handed over is taken back.
cleanupLate ==
  /\ cleanup = "late" /\ StartupOver
  /\ To(IF Drained THEN "release" ELSE "lateStop")
  /\ IF record # sawRecord THEN deregister ELSE UNCHANGED listed
  /\ UNCHANGED <<startup, lease, renewing, fatal, key, record, workVars, failed, drain, sawRecord>>

cleanupLateStop ==
  /\ cleanup = "lateStop" /\ To("lateDrain")
  /\ stopRenewal
  /\ UNCHANGED <<startup, renewing, fatal, key, record, listed, workVars, failed, drain, sawRecord>>

\* release: stop the renewal, and only once its goroutines are gone
\* delete the key; both may fail.
cleanupRelease ==
  /\ cleanup = "release" /\ To("releaseWait")
  /\ stopRenewal
  /\ UNCHANGED <<startup, renewing, fatal, key, record, listed, workVars, failed, drain, sawRecord>>

cleanupReleaseWait ==
  /\ cleanup = "releaseWait" /\ To("lateDrain")
  /\ \/ UNCHANGED key
     \/ renewing = "off" /\ key = "present" /\ key' = "released"
  /\ UNCHANGED <<startup, lease, renewing, fatal, record, listed, workVars, failed, drain, sawRecord>>

\* A Drain that outlived the budget is joined.
cleanupJoin ==
  /\ cleanup = "lateDrain" /\ drain # "running"
  /\ To("done")
  /\ UNCHANGED <<startVars, workVars, failed, drain, sawRecord>>

-----------------------------------------------------------------------------
startSteps ==
  \/ startFails \/ prepared \/ claimed \/ leaseStart \/ noLocator \/ ready
  \/ accepting \/ registered \/ commitFails \/ commit
  \/ openRequests
loss == leaseLost \/ registrationLost
failSteps == failBegins \/ failEnds
begins == Start \/ Stop \/ requestBegins \/ deliveryBegins
ends == requestEnds \/ deliveryEnds \/ renewalEnds
cleanupSteps ==
  \/ cleanupStartup \/ cleanupDeregister \/ cleanupRequests \/ cleanupDrain \/ noDrain
  \/ cleanupDrained \/ cleanupDeliveries \/ cleanupRenewal \/ cleanupNetwork
  \/ cleanupLate \/ cleanupLateStop \/ cleanupRelease \/ cleanupReleaseWait \/ cleanupJoin

Next == startSteps \/ loss \/ failSteps \/ begins \/ ends \/ drainReturns \/ cleanupSteps

Spec == Init /\ [][Next]_vars

\* Calls of a start end (each has a context that ends), failLifecycle and
\* the cleanup run to their end, and Drain returns, which its contract asks
\* for.  Nothing makes requests, side effects or a renewal end.
Fairness ==
  /\ WF_vars(startSteps) /\ WF_vars(failSteps)
  /\ WF_vars(cleanupSteps) /\ WF_vars(drainReturns)

FairSpec == Spec /\ Fairness

-----------------------------------------------------------------------------
\* The key of a generation is deleted by its owner only when nothing of
\* the generation runs or can begin: no admitted request or side effect, no
\* Drain, no start under way, both admissions closed (lifecycle.go cleanup,
\* "release" of epoch.go; otherwise the next generation could overlap).
ReleasedIsIdle ==
  key = "released" =>
    /\ reqs = 0 /\ dels = 0 /\ drain # "running"
    /\ requests = "closed" /\ deliveries = "closed"
    /\ StartupOver /\ renewing = "off"

\* Drain is called when no admitted request is left, and none is admitted
\* afterwards (cleanup runs it after requests.stopAndWait).
DrainIsAlone == drain # "none" => reqs = 0 /\ requests = "closed"

\* Whatever a start and the cleanup did to each other, a finished cleanup
\* leaves no start and no Drain running, no lease alive and no directory
\* record that nobody tried to remove (the late hand-over in cleanup).
CleanupLeavesNothing ==
  cleanup = "done" =>
    StartupOver /\ drain # "running" /\ lease # "live" /\ listed # "yes"

\* While requests are admitted the node is listed or has just lost its
\* record, and side effects are admitted too (start opens deliveries
\* first; failLifecycle closes requests first).
OpenMeansServing ==
  requests = "open" =>
    /\ startup = "done" /\ record = "stored" /\ deliveries = "open"
    /\ listed = "yes" \/ fatal = "due"
    /\ cleanup = "none" /\ key # "released"

\* Once a cleanup has begun it ends, even if it overtook a start or if
\* requests, side effects and renewals never end.
CleanupEnds == (cleanup = "startup") ~> (cleanup = "done")

\* A lease or registration that is lost ends the service: the monitor, or
\* Start's loop, reaches failLifecycle and the cleanup.
FatalEndsService ==
  (fatal = "due") ~> (requests = "closed" /\ deliveries = "closed" /\ cleanup = "done")

\* Stages of a cleanup that has passed a point.
PastStartup == CleanupStages \ {"none", "startup"}
PastRecord == PastStartup \ {"deregister"}
PastRequests == PastRecord \ {"requests"}
PastDrain == PastRequests \ {"drain", "draining"}
PastWork == PastDrain \ {"deliveries"}

\* The inductive invariant: what each stage of the cleanup has secured,
\* given the errors so far, while a start may still run beside it.
LifecycleInv ==
  /\ TypeOK
  /\ OpenMeansServing
  /\ startup # "done" => requests # "open"
  /\ startup \notin {"opening", "done"} => deliveries # "open"
  /\ Committing =>
       /\ requests = "pending" /\ deliveries = "open" /\ cleanup = "none"
       /\ record = "stored" /\ listed = "yes"
  /\ requests = "pending" => reqs = 0
  /\ deliveries = "pending" => dels = 0
  /\ cleanup # "none" => requests = "closed"
  /\ fatal \in {"begun", "done"} => requests = "closed"
  /\ listed = "yes" => startup = "commit" \/ record = "stored"
  /\ startup = "commit" => listed = "yes"
  /\ deliveries = "closed" => requests = "closed"
  /\ record = "stored" => startup \in {"opening", "done", "failed"}
  /\ sawRecord = "stored" => record = "stored"
  /\ renewing = "on" => lease # "none"
  /\ renewing = "off" /\ lease = "live" => startup \in {"renew", "failed"}
  /\ lease # "none" => key # "absent"
  /\ drain # "none" => cleanup \in PastRequests \ {"drain"} /\ "requests" \notin failed
  /\ cleanup = "draining" => drain # "none"
  /\ "requests" \in failed => cleanup \in PastDrain
  /\ cleanup \in PastStartup /\ "startup" \notin failed => StartupOver
  /\ cleanup \in PastRecord =>
       /\ sawRecord = "stored" => listed # "yes"
       /\ "startup" \notin failed => sawRecord = record
  /\ cleanup \in PastRequests /\ "requests" \notin failed => reqs = 0
  /\ cleanup \in PastDrain =>
       /\ deliveries = "closed"
       /\ "drain" \notin failed => drain # "running"
  /\ cleanup \in PastWork /\ "deliveries" \notin failed => dels = 0
  /\ cleanup = "network" /\ ~Drained /\ "startup" \notin failed => lease # "live"
  /\ cleanup = "late" => "startup" \in failed
  /\ cleanup \in {"release", "lateStop", "releaseWait", "lateDrain", "done"} =>
       StartupOver /\ listed # "yes"
  /\ cleanup \in {"release", "releaseWait"} => Drained
  /\ cleanup \in {"releaseWait", "lateDrain", "done"} => lease # "live"
  /\ cleanup = "done" => drain # "running"
  /\ key = "released" => cleanup \in {"lateDrain", "done"} /\ Drained /\ renewing = "off"

=============================================================================
