---------------------------- MODULE MCNodeLifecycle ----------------------------
(***************************************************************************)
(* One node server; up to MaxWork requests and side effects at a time.     *)
(***************************************************************************)
EXTENDS NodeLifecycle
=============================================================================
