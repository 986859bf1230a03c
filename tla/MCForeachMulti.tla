--------------------------- MODULE MCForeachMulti ---------------------------
(***************************************************************************)
(* ForeachMulti with three threads and eight objects, two of them internal *)
(* ones, in slices of two.                                                 *)
(***************************************************************************)
EXTENDS ForeachMulti
=============================================================================
