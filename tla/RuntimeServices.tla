-------------------------- MODULE RuntimeServices ---------------------------
(***************************************************************************)
(* Two services the runtime gives application code on the same cores: the *)
(* hardware random source (Trng) and the heap break (Sbrk).  They share no *)
(* state, so the composition is their interleaving: the application calls *)
(* them in any order, and the timer and the TRNG keep running while the    *)
(* heap grows.                                                             *)
(***************************************************************************)
EXTENDS Trng, Sbrk

vars == <<trngvars, sbrkvars>>

Init == TrngInit /\ SbrkInit

Next ==
    \/ TrngNext /\ UNCHANGED sbrkvars
    \/ SbrkNext /\ UNCHANGED trngvars

Spec == Init /\ [][Next]_vars /\ TrngFairness

TypeOK == TrngTypeOK /\ SbrkTypeOK
=============================================================================
