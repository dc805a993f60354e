----------------------------- MODULE MCJobQueue -----------------------------
(***************************************************************************)
(* JobQueue with two servers and a few jobs.                               *)
(***************************************************************************)
EXTENDS JobQueue

CONSTANTS s1, s2, plain, garbled, unknown

AtHomeOn1 == [j \in Jobs |-> s1]
=============================================================================
