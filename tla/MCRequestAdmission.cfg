CONSTANTS
    Requests = {r1, r2, r3}
    Stoppers = {s1, s2}
    Nobody = Nobody
SPECIFICATION FairSpec
INVARIANTS
    DrainedMeansIdle
    ChannelClosedOnce
    AdmissionInv
PROPERTIES
    ImplementsGate
    StopReturns
