-------------------------- MODULE MCRequestAdmission --------------------------
(* Two stoppers and a few requests: enough for a request inside admit() while *)
(* another works, a second stopper joining the first, and close() anywhere.   *)
EXTENDS RequestAdmission
=============================================================================
