---------------------------- MODULE MCA2ADispatch ----------------------------
(* Two dispatches at once, with and without a pipeline_id, two attempts. *)
EXTENDS A2ADispatch
=============================================================================
