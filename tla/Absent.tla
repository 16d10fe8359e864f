------------------------------- MODULE Absent -------------------------------
(***************************************************************************)
(* The null and the undefined of the code: a value that is none of the     *)
(* others.                                                                 *)
(***************************************************************************)
CONSTANT None
=============================================================================
