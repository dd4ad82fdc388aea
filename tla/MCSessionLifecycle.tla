------------------------ MODULE MCSessionLifecycle ------------------------
(***************************************************************************)
(* Small instances of SessionLifecycle for TLC.                            *)
(***************************************************************************)
EXTENDS SessionLifecycle, TLC

(* Tokens, operators and requests are interchangeable.                     *)
Symmetry == Permutations(Sessions) \cup Permutations(Operators)

=============================================================================
