--------------------------- MODULE MCMotionFilter ---------------------------
(***************************************************************************)
(* A ring of up to four points on a line of four positions.                *)
(***************************************************************************)
EXTENDS MotionFilter

MCPositions == 0 .. 3
=============================================================================
