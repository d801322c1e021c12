----------------------------- MODULE MCContexts -----------------------------
(* Contexts for TLC: two voices, which nothing tells apart. *)
EXTENDS Contexts, MCSession, TLC

CONSTANTS v1, v2

TwoVoices == {v1, v2}
Symmetric == Permutations(TwoVoices)
=============================================================================
