-------------------------------- MODULE MCDesk --------------------------------
(* Two messages about one pipeline. *)
EXTENDS Desk
=============================================================================
