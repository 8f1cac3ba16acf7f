------------------------------ MODULE MC_Daemon ------------------------------
(***************************************************************************)
(* Two daemons that are given the same path, and are started, stopped and  *)
(* killed over and over.                                                   *)
(***************************************************************************)
EXTENDS Daemon
=============================================================================
