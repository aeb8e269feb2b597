-------------------------- MODULE NodeLifecycleProofs --------------------------
(***************************************************************************)
(* The safety of the node's start and cleanup for any amount of work: the  *)
(* stages secure what LifecycleInv says, one action at a time.             *)
(***************************************************************************)
EXTENDS NodeLifecycle, TLAPS

\* The state before Start satisfies the invariant.
LEMMA LifecycleInit == Init => LifecycleInv
BY NodeLifecycleAssumption
   DEF Init, LifecycleInv, TypeOK, OpenMeansServing, StartupOver, Committing, Drained,
       StartupStages, CleanupStages, PastStartup, PastRecord, PastRequests, PastDrain, PastWork

\* Recording an error (errors.Join of the cleanup) leaves the others alone.
LEMMA Recording ==
  ASSUME NEW S, NEW T, NEW All, NEW w \in All,
         S \subseteq All, T = S \cup {w}
  PROVE  T \subseteq All /\ w \in T /\ \A o \in All \ {w} : o \in T <=> o \in S
OBVIOUS

\* Every step of Start, Stop, failLifecycle, the work and the cleanup keeps
\* the invariant.
LEMMA LifecycleStep == LifecycleInv /\ [Next]_vars => LifecycleInv'
<1> USE NodeLifecycleAssumption
    DEF LifecycleInv, TypeOK, OpenMeansServing, StartupOver, Stopping, Committing, Drained,
        StartupStages, CleanupStages, PastStartup, PastRecord, PastRequests, PastDrain,
        PastWork, startVars, workVars, cleanVars
<1> SUFFICES ASSUME LifecycleInv, [Next]_vars
             PROVE  LifecycleInv'
    OBVIOUS
<1>1. CASE Start
    BY <1>1 DEF Start
<1>2. CASE startFails
    BY <1>2 DEF startFails, startCleanup
<1>3. CASE prepared
    BY <1>3 DEF prepared
<1>4. CASE claimed
    BY <1>4 DEF claimed
<1>5. CASE leaseStart
    BY <1>5 DEF leaseStart
<1>6. CASE noLocator
    BY <1>6 DEF noLocator, Proceed
<1>7. CASE ready
    BY <1>7 DEF ready, Proceed
<1>8. CASE accepting
    BY <1>8 DEF accepting, Proceed
<1>9. CASE registered
    BY <1>9 DEF registered
<1>10. CASE commitFails
    BY <1>10 DEF commitFails, startCleanup
<1>11. CASE commit \/ openRequests
    BY <1>11 DEF commit, openRequests
<1>12. CASE Stop
    BY <1>12 DEF Stop, startCleanup
<1>13. CASE leaseLost
    BY <1>13 DEF leaseLost
<1>14. CASE registrationLost
    BY <1>14 DEF registrationLost
<1>15. CASE failBegins
    BY <1>15 DEF failBegins
<1>16. CASE failEnds
    BY <1>16 DEF failEnds, startCleanup
<1>17. CASE requestBegins
    BY <1>17 DEF requestBegins
<1>18. CASE requestEnds
    BY <1>18 DEF requestEnds
<1>19. CASE deliveryBegins
    BY <1>19 DEF deliveryBegins
<1>20. CASE deliveryEnds
    BY <1>20 DEF deliveryEnds
<1>21. CASE renewalEnds
    BY <1>21 DEF renewalEnds
<1>22. CASE drainReturns
    BY <1>22 DEF drainReturns
<1>23. CASE cleanupStartup
  <2>1. /\ failed' \subseteq {"startup", "requests", "drain", "deliveries"}
        /\ "requests" \in failed' <=> "requests" \in failed
        /\ "drain" \in failed' <=> "drain" \in failed
        /\ "deliveries" \in failed' <=> "deliveries" \in failed
        /\ "startup" \notin failed' => StartupOver /\ "startup" \notin failed
    <3>1. CASE StartupOver
      BY <1>23, <3>1 DEF cleanupStartup
    <3>2. CASE ~(StartupOver)
      <4>1. failed' = failed \cup {"startup"}
        BY <1>23, <3>2 DEF cleanupStartup, Failed
      <4>2. QED
        BY <4>1, Recording
    <3>3. QED
      BY <3>1, <3>2
  <2>2. QED
    BY <1>23, <2>1 DEF cleanupStartup, To
<1>24. CASE cleanupDeregister
    BY <1>24 DEF cleanupDeregister, deregister, To
<1>25. CASE cleanupRequests
  <2>1. /\ failed' \subseteq {"startup", "requests", "drain", "deliveries"}
        /\ "startup" \in failed' <=> "startup" \in failed
        /\ "drain" \in failed' <=> "drain" \in failed
        /\ "deliveries" \in failed' <=> "deliveries" \in failed
        /\ "requests" \notin failed' => reqs = 0 /\ "requests" \notin failed
    <3>1. CASE reqs = 0
      BY <1>25, <3>1 DEF cleanupRequests
    <3>2. CASE ~(reqs = 0)
      <4>1. failed' = failed \cup {"requests"}
        BY <1>25, <3>2 DEF cleanupRequests, Failed
      <4>2. QED
        BY <4>1, Recording
    <3>3. QED
      BY <3>1, <3>2
  <2>2. QED
    BY <1>25, <2>1 DEF cleanupRequests, To
<1>26. CASE cleanupDrain
    BY <1>26 DEF cleanupDrain, To
<1>27. CASE noDrain
    BY <1>27 DEF noDrain, To
<1>28. CASE cleanupDrained
  <2>1. /\ failed' \subseteq {"startup", "requests", "drain", "deliveries"}
        /\ "startup" \in failed' <=> "startup" \in failed
        /\ "requests" \in failed' <=> "requests" \in failed
        /\ "deliveries" \in failed' <=> "deliveries" \in failed
        /\ "drain" \notin failed' => drain = "returned" /\ "drain" \notin failed
    BY <1>28 DEF cleanupDrained, Failed
  <2>2. QED
    BY <1>28, <2>1 DEF cleanupDrained, To
<1>29. CASE cleanupDeliveries
  <2>1. /\ failed' \subseteq {"startup", "requests", "drain", "deliveries"}
        /\ "startup" \in failed' <=> "startup" \in failed
        /\ "requests" \in failed' <=> "requests" \in failed
        /\ "drain" \in failed' <=> "drain" \in failed
        /\ "deliveries" \notin failed' => dels = 0 /\ "deliveries" \notin failed
    <3>1. CASE dels = 0
      BY <1>29, <3>1 DEF cleanupDeliveries
    <3>2. CASE ~(dels = 0)
      <4>1. failed' = failed \cup {"deliveries"}
        BY <1>29, <3>2 DEF cleanupDeliveries, Failed
      <4>2. QED
        BY <4>1, Recording
    <3>3. QED
      BY <3>1, <3>2
  <2>2. QED
    BY <1>29, <2>1 DEF cleanupDeliveries, To
<1>30. CASE cleanupRenewal
    BY <1>30 DEF cleanupRenewal, stopRenewal, To
<1>31. CASE cleanupNetwork
    BY <1>31 DEF cleanupNetwork, To
<1>32. CASE cleanupLate
    BY <1>32 DEF cleanupLate, deregister, To
<1>33. CASE cleanupLateStop
    BY <1>33 DEF cleanupLateStop, stopRenewal, To
<1>34. CASE cleanupRelease
    BY <1>34 DEF cleanupRelease, stopRenewal, To
<1>35. CASE cleanupReleaseWait
    BY <1>35 DEF cleanupReleaseWait, To
<1>36. CASE cleanupJoin
    BY <1>36 DEF cleanupJoin, To
<1>37. CASE UNCHANGED vars
    BY <1>37 DEF vars
<1>38. QED
    BY <1>1, <1>2, <1>3, <1>4, <1>5, <1>6, <1>7, <1>8, <1>9, <1>10, <1>11, <1>12, <1>13, <1>14, <1>15, <1>16, <1>17, <1>18, <1>19, <1>20, <1>21, <1>22, <1>23, <1>24, <1>25, <1>26, <1>27, <1>28, <1>29, <1>30, <1>31, <1>32, <1>33, <1>34, <1>35, <1>36, <1>37
       DEF Next, startSteps, loss, failSteps, begins, ends, cleanupSteps

\* The invariant holds in every run of the node.
THEOREM LifecycleInvariant == Spec => []LifecycleInv
<1>1. Init => LifecycleInv
    BY LifecycleInit
<1>2. LifecycleInv /\ [Next]_vars => LifecycleInv'
    BY LifecycleStep
<1>3. QED
    BY <1>1, <1>2, PTL DEF Spec

\* The epoch key is deleted only by an idle generation (cleanup, release).
THEOREM ReleaseSafety == Spec => []ReleasedIsIdle
<1>1. LifecycleInv => ReleasedIsIdle
    BY DEF LifecycleInv, TypeOK, ReleasedIsIdle, Drained, StartupOver, CleanupStages,
           PastStartup, PastRecord, PastRequests, PastDrain, PastWork
<1>2. QED
    BY <1>1, LifecycleInvariant, PTL

\* Drain never overlaps an admitted request (cleanup, stopAndWait).
THEOREM DrainExclusion == Spec => []DrainIsAlone
<1>1. LifecycleInv => DrainIsAlone
    BY DEF LifecycleInv, DrainIsAlone, CleanupStages, PastStartup, PastRecord,
           PastRequests
<1>2. QED
    BY <1>1, LifecycleInvariant, PTL

\* A finished cleanup has taken back what a late start handed over.
THEOREM CleanupCompleteness == Spec => []CleanupLeavesNothing
<1>1. LifecycleInv => CleanupLeavesNothing
    BY DEF LifecycleInv, CleanupLeavesNothing
<1>2. QED
    BY <1>1, LifecycleInvariant, PTL

\* Requests are admitted only by a started node that is not stopping.
THEOREM AdmissionSafety == Spec => []OpenMeansServing
<1>1. LifecycleInv => OpenMeansServing
    BY DEF LifecycleInv
<1>2. QED
    BY <1>1, LifecycleInvariant, PTL
=============================================================================
