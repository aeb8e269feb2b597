---------------------------- MODULE AdmissionGate ----------------------------
(***************************************************************************)
(* What node/admission.go promises its users (node/dispatch.go,            *)
(* node/session.go, node/push.go and the cleanup of node/lifecycle.go),    *)
(* without its mutex, counter and channel: work is admitted only while the *)
(* gate is open, the gate never reopens, and a caller of stopAndWait is    *)
(* told "drained" only when the gate is closed and nothing is in flight.   *)
(***************************************************************************)
CONSTANTS Requests,     \* goroutines that admit, work and call done
          Stoppers      \* goroutines that call stopAndWait

VARIABLES phase,        \* "pending" | "open" | "closed"
          inflight,     \* the requests admitted and not done
          told          \* the stoppers stopAndWait returned nil to

gateVars == <<phase, inflight, told>>

GateInit == phase = "pending" /\ inflight = {} /\ told = {}

OpenGate == phase = "pending" /\ phase' = "open" /\ UNCHANGED <<inflight, told>>

CloseGate == phase' = "closed" /\ UNCHANGED <<inflight, told>>

Enter(r) ==
    /\ phase = "open" /\ r \notin inflight
    /\ inflight' = inflight \cup {r}
    /\ UNCHANGED <<phase, told>>

Leave(r) ==
    /\ r \in inflight
    /\ inflight' = inflight \ {r}
    /\ UNCHANGED <<phase, told>>

ReportDrained(s) ==
    /\ phase = "closed" /\ inflight = {}
    /\ told' = told \cup {s}
    /\ UNCHANGED <<phase, inflight>>

GateNext ==
    \/ OpenGate \/ CloseGate
    \/ \E r \in Requests : Enter(r) \/ Leave(r)
    \/ \E s \in Stoppers : ReportDrained(s)

GateSpec == GateInit /\ [][GateNext]_gateVars
=============================================================================
