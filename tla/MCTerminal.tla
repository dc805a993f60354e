----------------------------- MODULE MCTerminal -----------------------------
(* An instance of Terminal for TLC: a ticket shown twice, with every        *)
(* interleaving of one bridge and of the redeeming of both.                 *)
EXTENDS Terminal

MCKinds == {"input", "junk"}
=============================================================================
