---------------------------- MODULE MCPioSmClaim ----------------------------
(* Two cores, two PIOs of two state machines each (four on the chip):    *)
(* enough for a mask claim that meets the other core at its first or last *)
(* bit, and for index arithmetic that crosses from one PIO to the next.   *)
EXTENDS PioSmClaim, TLC

\* a mask of both state machines, as drivers claim them in pairs
MCSmMasks == {3}

\* the two cores run the same code
CoreSymmetry == Permutations(Cores)
=============================================================================
