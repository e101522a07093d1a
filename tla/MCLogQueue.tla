----------------------------- MODULE MCLogQueue ----------------------------
(***************************************************************************)
(* LogQueue with named producers.                                          *)
(***************************************************************************)
EXTENDS LogQueue

CONSTANTS p1, p2
=============================================================================
