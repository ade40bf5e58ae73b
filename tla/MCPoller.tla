------------------------------ MODULE MCPoller ------------------------------
(***************************************************************************)
(* Small instances of the poller for TLC.                                  *)
(***************************************************************************)
EXTENDS Poller
=============================================================================
