---------------------------- MODULE MCWorkflows ----------------------------
(***************************************************************************)
(* An instance of Workflows for TLC.                                       *)
(***************************************************************************)
EXTENDS Workflows

CONSTANTS e1, c1, analyst, validator
=============================================================================
