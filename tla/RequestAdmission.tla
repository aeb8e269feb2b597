--------------------------- MODULE RequestAdmission ---------------------------
(***************************************************************************)
(* node/admission.go: the admission phase, the count of admitted requests  *)
(* and the drained channel. The phase is an atomic word that close()       *)
(* stores without the mutex; the count and the channel are guarded by mu.  *)
(* The one critical section that also reads the phase, admit(), is split   *)
(* at that read, so that a close() can fall inside it.                     *)
(***************************************************************************)
EXTENDS Integers, FiniteSets

CONSTANTS Requests,     \* goroutines that call admit() ... done()
          Stoppers,     \* goroutines that call stopAndWait()
          Nobody        \* the holder of a free mutex

ASSUME AdmissionAssumption ==
    /\ IsFiniteSet(Requests)
    /\ Nobody \notin Requests

VARIABLES state,        \* requestAdmission.state
          mu,           \* the request inside admit()'s critical section
          active,       \* requestAdmission.active
          drained,      \* requestAdmission.drained; "panic" after a second close
          req,          \* where each request goroutine is
          stop          \* where each stopAndWait call is

vars == <<state, mu, active, drained, req, stop>>

TypeOK ==
    /\ state \in {"pending", "open", "closed"}
    /\ mu \in Requests \cup {Nobody}
    /\ active \in Nat
    /\ drained \in {"nil", "made", "closed", "panic"}
    /\ req \in [Requests -> {"idle", "locked", "admitted", "working"}]
    /\ stop \in [Stoppers -> {"idle", "stored", "waiting", "drained", "timedOut"}]

Init ==
    /\ state = "pending" /\ mu = Nobody /\ active = 0 /\ drained = "nil"
    /\ req = [r \in Requests |-> "idle"]
    /\ stop = [s \in Stoppers |-> "idle"]
-----------------------------------------------------------------------------
\* The compare-and-swap: only a gate that was never closed can open.
open ==
    /\ state = "pending"
    /\ state' = "open"
    /\ UNCHANGED <<mu, active, drained, req, stop>>

close ==
    /\ state' = "closed"
    /\ UNCHANGED <<mu, active, drained, req, stop>>

admitLock(r) ==
    /\ req[r] = "idle" /\ mu = Nobody
    /\ mu' = r
    /\ req' = [req EXCEPT ![r] = "locked"]
    /\ UNCHANGED <<state, active, drained, stop>>

\* A mutant: the phase is not looked at.
admitLoadUnchecked(r) ==
    /\ req[r] = "locked"
    /\ req' = [req EXCEPT ![r] = "admitted"]
    /\ UNCHANGED <<state, mu, active, drained, stop>>

\* The load of the phase; a refused request unlocks and returns.
admitLoad(r) ==
    /\ req[r] = "locked"
    /\ \/ /\ state = "open"
          /\ req' = [req EXCEPT ![r] = "admitted"]
          /\ mu' = mu
       \/ /\ state # "open"
          /\ req' = [req EXCEPT ![r] = "idle"]
          /\ mu' = Nobody
    /\ UNCHANGED <<state, active, drained, stop>>

\* The increment and the unlock.
admitCount(r) ==
    /\ req[r] = "admitted"
    /\ active' = active + 1
    /\ req' = [req EXCEPT ![r] = "working"]
    /\ mu' = Nobody
    /\ UNCHANGED <<state, drained, stop>>

\* close(drained) where it exists; closing a closed channel is a Go panic.
closeChannel ==
    IF drained = "nil" THEN "nil" ELSE IF drained = "made" THEN "closed" ELSE "panic"

\* A mutant: the last request does not wake the waiters.
doneKeepsChannel(r) ==
    /\ req[r] = "working" /\ mu = Nobody
    /\ active' = active - 1
    /\ req' = [req EXCEPT ![r] = "idle"]
    /\ UNCHANGED <<state, mu, drained, stop>>

\* A mutant: every done() closes the channel.
doneClosesEarly(r) ==
    /\ req[r] = "working" /\ mu = Nobody
    /\ active' = active - 1
    /\ req' = [req EXCEPT ![r] = "idle"]
    /\ drained' = closeChannel
    /\ UNCHANGED <<state, mu, stop>>

\* The decrement; the last request closes the channel if someone waits.
done(r) ==
    /\ req[r] = "working" /\ mu = Nobody
    /\ active' = active - 1
    /\ req' = [req EXCEPT ![r] = "idle"]
    /\ drained' = IF active' = 0 THEN closeChannel ELSE drained
    /\ UNCHANGED <<state, mu, stop>>
-----------------------------------------------------------------------------
\* A mutant: stopAndWait waits without closing the gate.
stopStoreForgotten(s) ==
    /\ stop[s] = "idle"
    /\ stop' = [stop EXCEPT ![s] = "stored"]
    /\ UNCHANGED <<state, mu, active, drained, req>>

\* stopAndWait stores the closed phase before it takes the mutex.
stopStore(s) ==
    /\ stop[s] = "idle"
    /\ state' = "closed"
    /\ stop' = [stop EXCEPT ![s] = "stored"]
    /\ UNCHANGED <<mu, active, drained, req>>

stopLock(s) ==
    /\ stop[s] = "stored" /\ mu = Nobody
    /\ \/ /\ active = 0
          /\ stop' = [stop EXCEPT ![s] = "drained"]
          /\ drained' = drained
       \/ /\ active # 0
          /\ stop' = [stop EXCEPT ![s] = "waiting"]
          /\ drained' = IF drained = "nil" THEN "made" ELSE drained
    /\ UNCHANGED <<state, mu, active, req>>

\* contextwait.Done: the closed channel wins over an expired context.
stopDrained(s) ==
    /\ stop[s] = "waiting" /\ drained = "closed"
    /\ stop' = [stop EXCEPT ![s] = "drained"]
    /\ UNCHANGED <<state, mu, active, drained, req>>

stopTimeout(s) ==
    /\ stop[s] = "waiting" /\ drained # "closed"
    /\ stop' = [stop EXCEPT ![s] = "timedOut"]
    /\ UNCHANGED <<state, mu, active, drained, req>>
-----------------------------------------------------------------------------
request(r) == admitLock(r) \/ admitLoad(r) \/ admitCount(r) \/ done(r)

stopAndWait(s) == stopStore(s) \/ stopLock(s) \/ stopDrained(s) \/ stopTimeout(s)

Next ==
    \/ open \/ close
    \/ \E r \in Requests : request(r)
    \/ \E s \in Stoppers : stopAndWait(s)

Spec == Init /\ [][Next]_vars

(***************************************************************************)
(* Admitted work ends (handlers run under the gRPC timeout of              *)
(* node/server.go), goroutines keep running, and Go's mutex does not       *)
(* starve a waiter (strong fairness of the steps that take mu). No         *)
(* fairness on the context's expiry: the waits must end without it.        *)
(***************************************************************************)
Fairness ==
    /\ \A r \in Requests : WF_vars(admitLoad(r)) /\ WF_vars(admitCount(r)) /\ SF_vars(done(r))
    /\ \A s \in Stoppers : SF_vars(stopLock(s)) /\ WF_vars(stopDrained(s))

FairSpec == Spec /\ Fairness
-----------------------------------------------------------------------------
InFlight == {r \in Requests : req[r] \in {"admitted", "working"}}
Working == {r \in Requests : req[r] = "working"}

\* Once a stopAndWait call has returned nil no request is inside or about to
\* enter: node cleanup runs Drain and later releases the epoch on that
\* answer, whatever close() or admit() it raced with.
DrainedMeansIdle == (\E s \in Stoppers : stop[s] = "drained") => InFlight = {}

\* done() never closes the drained channel a second time (a panic in the
\* request goroutine), however many stoppers wait on it.
ChannelClosedOnce == drained # "panic"

\* The inductive invariant of the proofs: the mutex brackets the load and the
\* increment of admit(), the counter counts, and the channel only exists
\* behind a closed phase that no admit() can still slip past.
AdmissionInv ==
    /\ TypeOK
    /\ \A r \in Requests : req[r] \in {"locked", "admitted"} <=> mu = r
    /\ active = Cardinality(Working)
    /\ \A s \in Stoppers : stop[s] # "idle" => state = "closed"
    /\ \A s \in Stoppers : stop[s] = "waiting" => drained # "nil"
    /\ drained # "nil" => state = "closed" /\ \A r \in Requests : req[r] # "admitted"
    /\ drained = "made" => Working # {}
    /\ drained = "closed" => Working = {}
    /\ DrainedMeansIdle
    /\ drained # "panic"

Gate == INSTANCE AdmissionGate WITH
    phase <- state, inflight <- InFlight,
    told <- {s \in Stoppers : stop[s] = "drained"}

\* The mutex, counter and channel of admission.go implement the abstract gate:
\* no admission after close, no reopening, "drained" only when nothing is in
\* flight.
ImplementsGate == Gate!GateSpec

\* stopAndWait returns once the admitted work has ended, without the help of
\* its context: the last done() wakes every waiter.
StopReturns ==
    \A s \in Stoppers : stop[s] = "stored" ~> stop[s] \in {"drained", "timedOut"}
=============================================================================
