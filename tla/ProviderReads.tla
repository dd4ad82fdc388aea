--------------------------- MODULE ProviderReads ---------------------------
(***************************************************************************)
(* The three reads of the provider side by side.  They share no variable,  *)
(* so a behaviour is of one of them.                                       *)
(***************************************************************************)
EXTENDS PredictionRead, ReliabilityRead, FixtureRead

VARIABLE machine  \* the task that runs

-----------------------------------------------------------------------------
vars == <<machine, windowVars, gradeVars, readVars>>

Init ==
  /\ machine \in {"predictions", "reliability", "fixtures"}
  /\ WindowInit /\ ReliabilityInit /\ ReadInit
  /\ machine # "predictions" => probabilities = [r \in PredictionRows |-> NoRow]
  /\ machine # "reliability" => reliability = [r \in ReliabilityRows |-> Ungraded]

Next ==
  \/ machine = "predictions" /\ WindowNext /\ UNCHANGED <<machine, gradeVars, readVars>>
  \/ machine = "reliability" /\ ReliabilityNext /\ UNCHANGED <<machine, windowVars, readVars>>
  \/ machine = "fixtures" /\ FixtureReadNext /\ UNCHANGED <<machine, windowVars, gradeVars>>

Spec == Init /\ [][Next]_vars

(* The three reads have their types.                                       *)
TypeOK == WindowTypeOK /\ GradeTypeOK /\ FixtureReadTypeOK

=============================================================================
