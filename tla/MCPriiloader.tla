---------------------------- MODULE MCPriiloader ----------------------------
(***************************************************************************)
(* Small instances of Priiloader.                                          *)
(***************************************************************************)
EXTENDS Priiloader

(* Priiloader, written over an earlier one, cannot be read back.           *)
UpdateNotReadBack == {<<"update", "verify">>}
(* The copy of the System Menu cannot be verified.                         *)
MenuNotVerified == {<<"menu", "verify">>}
(* There is no memory for it.                                              *)
MenuNoMemory == {<<"menu", "memory">>}
=============================================================================
