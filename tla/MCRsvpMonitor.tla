---------------------------- MODULE MCRsvpMonitor ----------------------------
(* One poll loop and one charity, which may be invited twice. *)
EXTENDS RsvpMonitor
=============================================================================
