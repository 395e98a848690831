---------------------------- MODULE MCEmailWatcher ----------------------------
(* Two messages, poll_loop and one poll by hand. *)
EXTENDS EmailWatcher
=============================================================================
