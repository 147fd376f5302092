------------------------------- MODULE MCResult -------------------------------
(***************************************************************************)
(* Result for TLC: three results with four elements between them, in any   *)
(* sharing and nesting.                                                    *)
(***************************************************************************)
EXTENDS Result
=============================================================================
