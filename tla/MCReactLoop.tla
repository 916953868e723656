---------------------------- MODULE MCReactLoop ----------------------------
(* The constants of the code, four steps and two calls a step: conversations  *)
(* of up to fourteen messages, long enough to be summarised more than once.   *)
EXTENDS ReactLoop

AllPolicies == {"none", "ask"}
=============================================================================
