------------------------------ MODULE MCEpochLease ------------------------------
(***************************************************************************)
(* Two processes under one NodeID.  With a TTL of 2 and an RPC timeout of  *)
(* 1 a renewal may time out, be tried again and still be in time.          *)
(***************************************************************************)
EXTENDS EpochLease
=============================================================================
