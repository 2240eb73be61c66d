-------------------------------- MODULE Order --------------------------------
(***************************************************************************)
(* The elements of a finite set of numbers in ascending order: how the     *)
(* library walks a mask of buttons, and how a driver reports the slots and *)
(* the tools that have changed.                                            *)
(***************************************************************************)
EXTENDS Integers, FiniteSets

Below(S, b) == {c \in S : c < b}

(* The i-th element of S. *)
Nth(S, i) == CHOOSE b \in S : Cardinality(Below(S, b)) = i - 1
=============================================================================
