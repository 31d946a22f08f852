---------------------------- MODULE MCKVHandoff ----------------------------
(***************************************************************************)
(* Constants for KVHandoff: the caller may change Value and Meta, in place *)
(* or by assigning a shorter or longer slice, and Version.                 *)
(***************************************************************************)
EXTENDS KVHandoff

MCNewContents == {<<>>, <<2, 2>>}
=============================================================================
