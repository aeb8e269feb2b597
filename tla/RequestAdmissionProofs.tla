------------------------ MODULE RequestAdmissionProofs ------------------------
(***************************************************************************)
(* Proofs about node/admission.go for any finite set of request goroutines *)
(* and any set of stoppers.                                                *)
(***************************************************************************)
EXTENDS RequestAdmission, FiniteSetTheorems, TLAPS

\* Which requests count as working, and their number, only depend on req.
LEMMA WorkingFinite ==
    ASSUME TypeOK
    PROVE  /\ IsFiniteSet(Working)
           /\ Cardinality(Working) \in Nat
           /\ Cardinality(Working) = 0 <=> Working = {}
  <1>1. IsFiniteSet(Working)
    BY FS_Subset, AdmissionAssumption DEF Working
  <1>2. QED
    BY <1>1, FS_CardinalityType, FS_EmptySet

\* A fresh admission: pending, idle, no channel.
LEMMA InitInv == Init => AdmissionInv
  <1> SUFFICES ASSUME Init PROVE AdmissionInv
    OBVIOUS
  <1>1. Working = {} /\ InFlight = {}
    BY DEF Init, Working, InFlight
  <1>2. active = Cardinality(Working)
    BY <1>1, FS_EmptySet DEF Init
  <1>3. QED
    BY <1>1, <1>2, AdmissionAssumption DEF Init, AdmissionInv, TypeOK, DrainedMeansIdle

\* The increment of admit() counts the request that starts to work.
LEMMA CountUp ==
    ASSUME AdmissionInv, NEW r \in Requests, admitCount(r)
    PROVE  active' = Cardinality(Working') /\ Working' = Working \cup {r}
  <1>1. Working' = Working \cup {r} /\ r \notin Working
    BY DEF admitCount, Working, AdmissionInv, TypeOK
  <1>2. QED
    BY <1>1, WorkingFinite, FS_AddElement DEF AdmissionInv, admitCount

\* The decrement of done() uncounts the request that leaves.
LEMMA CountDown ==
    ASSUME AdmissionInv, NEW r \in Requests, done(r)
    PROVE  /\ active' = Cardinality(Working')
           /\ Working' = Working \ {r}
           /\ active' = 0 <=> Working' = {}
           /\ active' \in Nat
  <1>1. Working' = Working \ {r} /\ r \in Working
    BY DEF done, Working, AdmissionInv, TypeOK
  <1>2. IsFiniteSet(Working)
    BY WorkingFinite DEF AdmissionInv
  <1>3. Cardinality(Working') = Cardinality(Working) - 1 /\ IsFiniteSet(Working')
    BY <1>1, <1>2, FS_RemoveElement
  <1>4. (Cardinality(Working') = 0 <=> Working' = {}) /\ Cardinality(Working') \in Nat
    BY <1>3, FS_EmptySet, FS_CardinalityType
  <1>5. QED
    BY <1>1, <1>3, <1>4 DEF AdmissionInv, done

\* Every step of admission.go preserves the inductive invariant.
LEMMA NextInv == AdmissionInv /\ [Next]_vars => AdmissionInv'
  <1> SUFFICES ASSUME AdmissionInv, [Next]_vars PROVE AdmissionInv'
    OBVIOUS
  <1> USE AdmissionAssumption DEF AdmissionInv, TypeOK, DrainedMeansIdle, InFlight
  <1>1. CASE open
    <2>1. Working' = Working
      BY <1>1 DEF open, Working
    <2>2. QED
      BY <1>1, <2>1 DEF open
  <1>2. CASE close
    <2>1. Working' = Working
      BY <1>2 DEF close, Working
    <2>2. QED
      BY <1>2, <2>1 DEF close
  <1>3. ASSUME NEW r \in Requests, admitLock(r) PROVE AdmissionInv'
    <2>1. Working' = Working
      BY <1>3 DEF admitLock, Working
    <2>2. QED
      BY <1>3, <2>1 DEF admitLock
  <1>4. ASSUME NEW r \in Requests, admitLoad(r) PROVE AdmissionInv'
    <2>1. Working' = Working
      BY <1>4 DEF admitLoad, Working
    <2>2. QED
      BY <1>4, <2>1 DEF admitLoad
  <1>5. ASSUME NEW r \in Requests, admitCount(r) PROVE AdmissionInv'
    <2>1. active' = Cardinality(Working') /\ Working' = Working \cup {r}
      BY <1>5, CountUp
    <2>2. drained = "nil"
      BY <1>5 DEF admitCount
    <2>3. \A s \in Stoppers : stop[s] # "drained"
      BY <1>5 DEF admitCount
    <2>4. QED
      BY <1>5, <2>1, <2>2, <2>3 DEF admitCount
  <1>6. ASSUME NEW r \in Requests, done(r) PROVE AdmissionInv'
    <2>1. /\ active' = Cardinality(Working')
          /\ Working' = Working \ {r}
          /\ active' = 0 <=> Working' = {}
          /\ active' \in Nat
      BY <1>6, CountDown
    <2>2. drained # "closed"
      BY <1>6 DEF done, Working
    <2>3. \A s \in Stoppers : stop[s] # "drained"
      BY <1>6 DEF done
    <2>4. QED
      BY <1>6, <2>1, <2>2, <2>3 DEF done, closeChannel
  <1>7. ASSUME NEW s \in Stoppers, stopStore(s) PROVE AdmissionInv'
    <2>1. Working' = Working
      BY <1>7 DEF stopStore, Working
    <2>2. QED
      BY <1>7, <2>1 DEF stopStore
  <1>8. ASSUME NEW s \in Stoppers, stopLock(s) PROVE AdmissionInv'
    <2>1. Working' = Working
      BY <1>8 DEF stopLock, Working
    <2>2. active = 0 <=> Working = {}
      BY WorkingFinite
    <2>3. \A r \in Requests : req[r] # "admitted"
      BY <1>8 DEF stopLock
    <2>4. QED
      BY <1>8, <2>1, <2>2, <2>3 DEF stopLock, Working
  <1>9. ASSUME NEW s \in Stoppers, stopDrained(s) \/ stopTimeout(s) PROVE AdmissionInv'
    <2>1. Working' = Working
      BY <1>9 DEF stopDrained, stopTimeout, Working
    <2>2. QED
      BY <1>9, <2>1 DEF stopDrained, stopTimeout, Working
  <1>10. CASE UNCHANGED vars
    BY <1>10 DEF vars, Working
  <1>11. QED
    BY <1>1, <1>2, <1>3, <1>4, <1>5, <1>6, <1>7, <1>8, <1>9, <1>10
       DEF Next, request, stopAndWait

\* The inductive invariant holds in every reachable state.
THEOREM AdmissionInvariant == Spec => []AdmissionInv
  BY InitInv, NextInv, PTL DEF Spec

\* Whenever stopAndWait has answered nil, no admitted request is in flight and
\* none can enter: the answer cleanup() in node/lifecycle.go acts upon.
THEOREM DrainSafety == Spec => []DrainedMeansIdle
  <1>1. AdmissionInv => DrainedMeansIdle
    BY DEF AdmissionInv
  <1>2. QED
    BY <1>1, AdmissionInvariant, PTL

\* done() never panics on a channel that is already closed.
THEOREM ChannelSafety == Spec => []ChannelClosedOnce
  <1>1. AdmissionInv => ChannelClosedOnce
    BY DEF AdmissionInv, ChannelClosedOnce
  <1>2. QED
    BY <1>1, AdmissionInvariant, PTL
-----------------------------------------------------------------------------
\* Each step of admission.go is a step of the abstract gate or leaves it alone.
LEMMA StepRefines ==
    ASSUME AdmissionInv, [Next]_vars
    PROVE  [Gate!GateNext]_(Gate!gateVars)
  <1> USE DEF Gate!GateNext, Gate!gateVars
  <1> USE DEF AdmissionInv, TypeOK
  <1>1. CASE open
    BY <1>1 DEF open, InFlight, Gate!OpenGate
  <1>2. CASE close
    BY <1>2 DEF close, InFlight, Gate!CloseGate
  <1>3. ASSUME NEW r \in Requests, admitLock(r) PROVE UNCHANGED Gate!gateVars
    BY <1>3 DEF admitLock, InFlight
  <1>4. ASSUME NEW r \in Requests, admitLoad(r) PROVE Gate!Enter(r) \/ UNCHANGED Gate!gateVars
    <2>1. CASE state = "open"
      BY <1>4, <2>1 DEF admitLoad, InFlight, Gate!Enter
    <2>2. CASE state # "open"
      BY <1>4, <2>2 DEF admitLoad, InFlight
    <2>3. QED
      BY <2>1, <2>2
  <1>5. ASSUME NEW r \in Requests, admitCount(r) PROVE UNCHANGED Gate!gateVars
    BY <1>5 DEF admitCount, InFlight
  <1>6. ASSUME NEW r \in Requests, done(r) PROVE Gate!Leave(r)
    BY <1>6 DEF done, InFlight, Gate!Leave
  <1>7. ASSUME NEW s \in Stoppers, stopStore(s) PROVE Gate!CloseGate
    BY <1>7 DEF stopStore, InFlight, Gate!CloseGate
  <1>8. ASSUME NEW s \in Stoppers, stopLock(s) PROVE Gate!ReportDrained(s) \/ UNCHANGED Gate!gateVars
    <2>0. active = 0 => Working = {}
      BY WorkingFinite
    <2>1. active = 0 => InFlight = {}
      BY <1>8, <2>0, AdmissionAssumption DEF stopLock, InFlight, Working
    <2>2. QED
      BY <1>8, <2>1 DEF stopLock, InFlight, Gate!ReportDrained
  <1>9. ASSUME NEW s \in Stoppers, stopDrained(s) PROVE Gate!ReportDrained(s)
    <2>1. InFlight = {}
      BY <1>9 DEF stopDrained, InFlight, Working
    <2>2. QED
      BY <1>9, <2>1 DEF stopDrained, InFlight, Gate!ReportDrained
  <1>10. ASSUME NEW s \in Stoppers, stopTimeout(s) PROVE UNCHANGED Gate!gateVars
    BY <1>10 DEF stopTimeout, InFlight
  <1>11. CASE UNCHANGED vars
    BY <1>11 DEF vars, InFlight
  <1>12. QED
    BY <1>1, <1>2, <1>3, <1>4, <1>5, <1>6, <1>7, <1>8, <1>9, <1>10, <1>11
       DEF Next, request, stopAndWait

\* admission.go implements the abstract gate for every finite set of requests.
THEOREM Refinement == Spec => ImplementsGate
  <1>1. Init => Gate!GateInit
    BY DEF Init, InFlight, Gate!GateInit
  <1>2. AdmissionInv /\ [Next]_vars => [Gate!GateNext]_(Gate!gateVars)
    BY StepRefines
  <1>3. QED
    BY <1>1, <1>2, AdmissionInvariant, PTL DEF Spec, ImplementsGate, Gate!GateSpec
=============================================================================
