----------------------------- MODULE MCGateSessions -----------------------------
\* Two connections of one user, on two Gateways (remote takeover) or on one
\* (local takeover), and one connection by itself.
EXTENDS GateSessions, TLC

CONSTANTS c1, c2, g1, g2

MCConns == {c1, c2}
MCGateOfRemote == c1 :> g1 @@ c2 :> g2
MCGateOfLocal == c1 :> g1 @@ c2 :> g1
MCGateOfAlone == c1 :> g1
MCSymmetry == Permutations({c1, c2})
=============================================================================
