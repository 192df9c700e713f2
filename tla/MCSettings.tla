----------------------------- MODULE MCSettings -----------------------------
(***************************************************************************)
(* Settings for TLC: keys are alike, and so are the places of a request.   *)
(***************************************************************************)
EXTENDS Settings, TLC

Alike == Permutations(Key) \cup Permutations(Request)
=============================================================================
