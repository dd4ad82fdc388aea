--------------------------- MODULE MCFixtureSync ---------------------------
(***************************************************************************)
(* Small instances of FixtureSync for TLC.                                 *)
(***************************************************************************)
EXTENDS FixtureSync, TLC

(* Messages, tokens and fixtures are interchangeable.                      *)
Symmetry ==
  Permutations(Runs) \cup Permutations(Leases) \cup Permutations(Fixtures)

=============================================================================
