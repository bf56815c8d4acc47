-------------------------- MODULE MCLegalStructure --------------------------
(***************************************************************************)
(* Every text of at most MaxLines lines: the constants are numbers given   *)
(* in the .cfg.                                                            *)
(***************************************************************************)
EXTENDS LegalStructure
=============================================================================
