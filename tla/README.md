# Verification of the Gateway/Node framework

TLA+ models of the parts of this repository that are hard to test: leases kept
in Redis and believed locally, sessions that several goroutines and several
Gateways clean up at once, and a shutdown that may overtake a start. The modules
are checked on small instances with TLC. Their safety properties are proved for
every value of the constants with TLAPS. Paths below are relative to the
repository's root.

## The system and its parts

Clients hold a TCP or WebSocket connection to a **Gateway**. The Gateway
authenticates the connection, binds the user to it in Redis (the **Gate key**)
and forwards requests over gRPC to a **Node** of the requested service. A Node is
found through etcd; a *Stateful* Node also owns an **epoch** in Redis for its
NodeID, and users can be bound to it (the **Node key**). Nodes push messages back
through the Gateway that holds the user. Other processes push through `push.Sender`
and exchange events over NATS.

| Part | Code | Module | State |
|---|---|---|---|
| Node request admission | `node/admission.go`, `internal/contextwait` | `AdmissionGate`, `RequestAdmission` | modelled, proved |
| Gate key and local lease | `locate/redis/gate.go`, `gateway/session.go` | `GateLease` | modelled, proved |
| Gateway sessions: open, authenticate, take over, request, heartbeat, close, shutdown | `gateway/{session,inbound,forward,delivery,lifecycle}.go` | `GateSessions` | modelled, proved |
| Node epoch | `node/epoch.go`, `locate/redis/node.go` | `EpochLease` | modelled, proved |
| Node lifecycle | `node/{lifecycle,server}.go` | `NodeLifecycle` | modelled, proved |
| Node dispatch, sessions, push | `node/{dispatch,session,push,register}.go` | `NodeLifecycle` | as admitted work only |
| Node key and the sticky fence | `locate/redis/node.go`, `node/dispatch.go`, `node/session.go` | | planned |
| Gateway start | `gateway/lifecycle.go`, `internal/listener` | | planned |
| Gateway forward and push | `gateway/{forward,delivery}.go` | | planned |
| Gateway backends | `gateway/{backend,resolver,balancer}.go` | | planned |
| Broadcast | `gateway/broadcast.go` | | planned |
| Gateway client pool | `internal/gateclient` | | planned |
| Callback queue | `internal/queue` | | planned |
| Inbound dispatcher, heartbeat, request tracker | `network/internal/*` | | planned |
| TCP and WebSocket channels | `network/{tcp,websocket}` | | planned |
| Event bus | `event`, `event/nats` | | planned |
| etcd registrar | `registry/etcd` | | planned |
| Push sender | `push` | | planned |
| Codecs, options, endpoint and TLS helpers | `network/*/codec.go`, `*options.go`, `internal/{grpcendpoint,tlsconfig,clusterroute}`, `instance` | | left out: pure conversions and configuration |
| Generated code | `api` | | left out |
| Example games and load tools | `examples`, `test` | | left out: users of the framework |

`PROJECT.json` lists the same parts with their files, the lines each definition
stands for, and the hazards of the code with the property that covers each.

## Modules

**`AdmissionGate`** is the promise of a gate: it opens once and closes once,
work enters only while it is open, and "drained" is reported only when nothing
is inside. **`RequestAdmission`** is `admission.go`: `state` is the atomic phase,
`active` and `drained` the counter and the channel under the mutex. `close()`
stores the phase without the mutex, so `admit` is split at its load of the phase.
The mapping takes the requests between that load and `done()` to be inside.

**`GateLease`** is the protocol behind one user's Gate key. `current` and `pttl`
are the key and its remaining life. For each connection, `bindCall`, `renew` and
`stray` are its calls, `hold` its `session.binding`, and `left` the time until its
`leaseDeadline`. Scripts run atomically, at any moment after the call, and an
abandoned renewal may run later (`stray`). Time is a set of countdowns that `Tick`
lowers together; `left` is counted from the clock read *before* the call, as the
code does. `replaced` and `grace` are history: who was overwritten and how long ago.

**`GateSessions`** extends it with the Gateways' control flow. A step is what a
goroutine does between two calls to Redis, to another Gateway or to a lock it may
wait for. `auth` is the progress of the handler that holds `handlerMu`: `authenticate`, or a
`forward` that waits for its Node. `renew` is the heartbeat (`heartbeatMu`), `clean` the
owner of the cleanup (`Close` or `drainSession`) and how far it is, `kick` a takeover's
kick, `gate` the Gateway's shutdown. `notifyDisconnect` is `notified`.

A shutdown has one context (`lifecycle.go:248`) for quiesce, drain and the stop of the
transports. `overdue` says that it has ended, which may happen at any moment
(`shutdownTimeout`). From then on no stage waits for what it was waiting for:
`takeAll` runs with authentications still admitted, the transports are stopped under held
locks, and `drainSession` neither unbinds nor reports (`lifecycle.go:402-405`). What the end
of `shutdown` joins without a context is still joined (`stopped`). Calls may also fail
and still take effect later, each drained session has a timeout of its own
(`drainTimeout`), and a Gateway may crash; `faults` bounds how often. `tainted` marks the
connections whose cleanup a failure, a crash or the budget may have cut short, and `served`
those whose authentication was committed.

A request is forwarded for a registered session only: one that was looked up just
before its session was removed has the same effect as one that began before the removal.
An unbind that `drainSession` gives up on may run later or never (`unbind = "late"`).

**`EpochLease`** is the epoch of one NodeID: the processes ("generations") started
under it, their claim, renewal loop, monitor and release, and the scripts. `renewOnce`
checks the lease and then stores the deadline in two steps. `first` is the result of the
first renewal, which ends the lease when it failed; later failures do not. `observed` is history:
the generations whose expiry some `valid()` call has reported.

**`NodeLifecycle`** is `Start`, `Stop`, `failLifecycle` and `cleanup` of one Node.
`startup` and `cleanup` name the call each goroutine is in. `start` opens side effects and
then requests under `lifecycleMu`, for which `beginStopping` waits (`Committing`). The two admissions
are used through `AdmissionGate`'s promise, the epoch through what `EpochLease` shows
of it. `listed` is the directory, `record` what `start` has handed over, `sawRecord` what
the cleanup saw of it first, `failed` the errors that decide how the cleanup goes on.

Each `…Proofs` module holds the theorems of one component and each `MC…` module
instantiates one for TLC. Definitions commented "A mutant" are deliberately
wrong variants of the definition that follows them. They are used by no
specification: substituted for the right one, each makes the named property fail,
which shows that the property can tell the difference.

## What is checked

| Run | Instance | Result |
|---|---|---|
| `request_admission` | 3 requests, 2 stoppers | 460 states |
| `gate_lease` | 3 connections of a user, TTL 2 | 498 461 states |
| `local_takeover` | 2 connections on one Gateway, both with heartbeats, 1 fault | 1 081 775 states |
| `remote_takeover` | 2 connections on two Gateways, one mortal, one with heartbeats, one with requests, 1 fault | 1 224 492 states |
| `gate_shutdown` | 2 connections on one Gateway, one with requests, no faults, liveness | 132 066 states |
| `session_shutdown` | 1 connection with heartbeats and requests, 2 faults, liveness | 5 348 states |
| `epoch_lease` | 2 generations, TTL 2, RPC timeout 1, with liveness | 337 604 states |
| `epoch_revival` | as `epoch_lease` | violated, see *Finding* |
| `node_lifecycle` | at most 2 requests and 2 side effects at a time | 6 839 states |

*Admission.* When `stopAndWait` answers nil nothing is in flight
(`DrainedMeansIdle`), the channel is closed once (`ChannelClosedOnce`), the code
implements the gate (`ImplementsGate`) and the wait ends without its context
(`StopReturns`).

*Gate lease.* A session that believes in its lease owns the key for at
least as long, unless another bind has replaced it (`OwnerUnlessReplaced`); one
unreplaced session at most is valid (`OneCurrentSession`); a replaced one is valid
for at most TTL after that, even if no kick reaches it (`ReplacedIsBounded`).

*Sessions.* A held binding can be found by the cleanup that will release it
(`BindingReachable`). No ended session leaves its binding in Redis unless one of its
calls failed (`NoOrphanBinding`). The Node hears of a disconnect at most once, and not
once a kick has taken the binding (`DisconnectAtMostOnce`); a session that was replaced in
Redis but whose own `Close` runs before the kick is reported. A stopped Gateway has
nothing left (`StoppedIsClean`) and has reported every session it served
(`StoppedIsReported`), wherever the budget ran out; the exceptions are the tainted
connections and, for the report, the kicked ones. Shutdown ends although drain, takeover,
kick and requests wait for each other, with or without its budget (`ShutdownCompletes`), and
ended sessions are reported (`EndIsReported`).

*Epoch.* A valid generation owns the key (`ValidOwnsEpoch`), so at most one is valid
(`OneValidGeneration`); a reported expiry is final (`ObservedIsFinal`); the key of an
ended generation, or of a claim that took effect after its caller gave up, goes away
(`EndedEpochExpires`).

*Node lifecycle.* The owner deletes its key only when nothing of it runs or can begin
(`ReleasedIsIdle`); Drain overlaps no request (`DrainIsAlone`); a finished cleanup leaves
nothing of an overtaken start behind (`CleanupLeavesNothing`); requests are admitted only
by a node that serves and admits their side effects (`OpenMeansServing`); a cleanup ends although work hangs
(`CleanupEnds`); and a lost lease or registration ends the service (`FatalEndsService`).

The runs also check the inductive invariants of the proofs (`AdmissionInv`, `LeaseInv`,
`CleanupInv`, `BindingInv`, `EpochInv`, `LifecycleInv`).

### Bounds

- Two connections are a takeover; the third one in `gate_lease` is a replaced session
  that meets a second replacement. A TTL of 2 has "fresh", "about to expire" and "gone";
  with an RPC timeout of 1 a renewal may time out and be tried again before the lease
  ends. Each connection and each generation makes one claim; renewals repeat.
- `MaxFaults` bounds failed calls, timeouts of single sessions and crashes. It is 1 with
  two connections: any one of them at any point, together with a budget that runs
  out at any point, which is not counted. Two failures at once are checked on one
  connection (`session_shutdown`). The proofs have no bound on faults.
- Heartbeats and requests of both connections at once exceed a few minutes; `Beating` and
  `Calling` say which connection has which. The proofs have both everywhere.
- `MaxWork` = 2 has "one left" and "none left" after an end. Work is counted, not named.
- One stop and one start per Node: `startOnce` and `cleanupOnce` allow no second.

`CHECK_DEADLOCK FALSE` stands where the system may come to rest: used-up
connections and a stopped Node. Symmetry is used in safety runs only.

### Fairness

Goroutines that can go on do so, and calls return (weak fairness per goroutine).
Clients, failures and the decision to shut down are not owed. Strong fairness stands
for `sync.Mutex`, which hands the lock to a waiter that has starved: the locking steps
of `RequestAdmission` and the cleanup of `GateSessions`. `StopReturns` also assumes that admitted
requests end. `NodeLifecycle` assumes that the calls of `start` end, since their
context is cancelled, and that Drain returns, as its contract asks; it does
not assume that requests, side effects or renewals end.

## What is proved

TLAPS checks the proofs from the named assumptions on the constants only: finite
`Requests`, positive TTLs, `None` not a connection or generation, `GateOf` a function.

- **`RequestAdmissionProofs`.** `AdmissionInv` says that the mutex brackets `admit`, that
  `active` counts the working requests and that the channel exists only behind a closed
  phase no `admit` can slip past. From it: `DrainSafety`, `ChannelSafety`, and
  `Refinement`, step by step.
- **`GateLeaseProofs`.** `OwnerUnlessReplaced` is not inductive: a renewal that has run
  in Redis is not in `left` yet. `LeaseInv` says the same of the deadline about to
  be stored. All countdowns fall together, so `Tick` keeps their order. From it:
  `Ownership`, `SingleCurrent`, `BoundedOverlap`.
- **`GateSessionsProofs`.** Each step of the Gateways is a lease step or leaves the lease
  alone (`SessionStep`), so `Ownership` carries over (`SessionOwnership`). `CleanupInv` ties
  the stage of each cleanup to the binding and is inductive by itself; `Reachability` and
  `SingleDisconnect` follow. `BindingInv` (`BindingAgrees`) says who owes a stored binding its
  unbind and a served session its report, that a kick concerns a replaced session, and what
  each stage of a shutdown has ended. It is inductive together with `CleanupInv` and the
  `LeaseInv` of `GateLeaseProofs`, and gives `NoBindingIsOrphaned`, `StopLeavesNoSession` and
  `StopReportsSessions`, for any connections, Gateways and number of faults.
- **`EpochLeaseProofs`.** `EpochInv` has the shape of `LeaseInv`; also an observed or
  released lease is cancelled. From it: `EpochOwnership`, `GenerationExclusion`,
  `ExpiryIsFinal`.
- **`NodeLifecycleProofs`.** `LifecycleInv` says what each stage of the cleanup has secured,
  given the errors so far, beside a start that may still run. From it: `ReleaseSafety`,
  `DrainExclusion`, `CleanupCompleteness`, `AdmissionSafety`.

Only model-checked: every liveness property, since fairness is beyond the prover.

## Finding

`renewOnce` asks `e.valid()` (`node/epoch.go:235`) and then stores the renewed deadline
(`node/epoch.go:238-239`). If the old deadline passes in between, unobserved, the lease
is valid again. `node/epoch.go:38` ("迟到的响应不能恢复失效租约") and
`docs/project/architecture.md:156` say that a late success never restores an expired
identity; `epoch_revival` shows the step. Ownership is unaffected: the stored deadline is
covered by the key (`ValidOwnsEpoch`), and an expiry anyone has seen is final
(`ObservedIsFinal`).

## Remarks on the source

- `locate/redis/gate.go:34-38`: the bind script's `if current then` has no `end` before
  `PSETEX`, so the Lua text does not compile as it stands. `GateLease` models the
  behaviour that `gate_test.go` asserts (overwrite, return the previous binding).
- `node/lifecycle.go:203-205`: a local variable is declared and not used, which Go
  rejects. The model is not affected.
- Two guards of the Gateway are each redundant: `commitAuthentication`'s second
  look at the registry and `detachForClose`'s wait for `handlerMu`. Removing either alone breaks no
  property here, since the other still keeps a commit from following its cleanup. A commit
  after the removal would therefore need both to fail; `BindingReachable` is about that.

## Assumptions and limits

- The clocks of Redis and of the processes run at the same rate; the code has no
  margin for drift either.
- A Redis that loses its data or fails over is not modelled.
- Ids and epochs are unique: `GateSessions` and `EpochLease` identify them with their owner.
- A session's transport is reduced to open or closed; frames, payloads and error texts
  are left out.

## Plan

1. `StickyRouting`: Node key, `fenceStickyClaim`, `checkNodeBinding`, the routing of `forward`
   and `resolveNode`, composed with `EpochLease`. Question: can a handler run for a user
   whose binding belongs to another generation? Proof: a claim is fenced by the epoch.
2. `GatewayLifecycle` with `internal/listener`: start, roll-back and stop of several transports.
3. `Backends` (resolver, cache, picker) and `GateClient` (single flight, reference count).
4. `CallbackQueue`, `InboundDispatcher` and the transports' channels, each against an
   abstract bounded queue with one terminal element.
5. `ClientTracker` (sequence wrap-around, heartbeat), `Broadcaster`, `EventBus`, `Registrar`
   and `push.Sender`.
