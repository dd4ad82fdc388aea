----------------------------- MODULE PanelRead -----------------------------
(***************************************************************************)
(* The rows of one fixture's predictions and of its league's grades, the   *)
(* synchronizations that replace or delete them, and the reads of them:    *)
(* get_fixture_predictions answers from three statements in no             *)
(* transaction, so a synchronization may commit between any two.  A row is *)
(* the ordinal of the synchronization that stored it, and stands for its   *)
(* selections, its stamp and its figures at once; a market is stored whole *)
(* (PredictionSync models the statements of the writers).                  *)
(***************************************************************************)
EXTENDS Naturals, Sequences

CONSTANTS
  Reads,       \* reads that may be under way at once
  Markets,
  MaxVersion   \* bound on the synchronizations of a table

ASSUME PanelAssumption == MaxVersion \in Nat \ {0}

Versions == 0 .. MaxVersion  \* 0: no row
NoRows == [m \in Markets |-> 0]

VARIABLES
  stored,      \* is the fixture stored?
  rows,        \* FixturePrediction of the fixture, by market
  grades,      \* LeagueMarketReliability of its league
  published,   \* history: the markets each synchronization published
  gradeRuns,   \* history: the number of reliability synchronizations
  reading      \* the reads: how far each is and what it holds

tableVars == <<stored, rows, grades, published, gradeRuns>>

Payload(kind, r, g) == [kind |-> kind, rows |-> r, grades |-> g]
NoResult == Payload("none", NoRows, NoRows)
Failure == Payload("failed", NoRows, NoRows)
Payloads == {Payload("loaded", r, g) : r \in [Markets -> Versions], g \in [Markets -> Versions]}

Stages == {"idle", "sent", "resolved", "selected", "answered", "missing"}
Idle == [stage |-> "idle", rows |-> NoRows, grades |-> NoRows]
Busy == {r \in Reads : reading[r].stage # "idle"}

(* The rows as synchronization v stored them.                              *)
Publication(v) == [m \in Markets |-> IF m \in published[v] THEN v ELSE 0]

-----------------------------------------------------------------------------
TableInit ==
  /\ stored = TRUE
  /\ \E P \in SUBSET Markets \ {{}} : published = <<P>>
  /\ rows = Publication(1)
  /\ grades = NoRows
  /\ gradeRuns = 0
  /\ reading = [r \in Reads |-> Idle]

(* A prediction synchronization commits: the markets it published are      *)
(* stored with its stamp, every other row of the fixture is deleted.       *)
SynchronizePredictions(P) ==
  /\ stored
  /\ Len(published) < MaxVersion
  /\ published' = Append(published, P)
  /\ rows' = [m \in Markets |-> IF m \in P THEN Len(published) + 1 ELSE 0]
  /\ UNCHANGED <<stored, grades, gradeRuns, reading>>

SynchronizeGrades(P) ==
  /\ gradeRuns < MaxVersion
  /\ gradeRuns' = gradeRuns + 1
  /\ grades' = [m \in Markets |-> IF m \in P THEN gradeRuns + 1 ELSE 0]
  /\ UNCHANGED <<stored, rows, published, reading>>

(* The fixture synchronization deletes the fixture, and its rows with it.  *)
DeleteFixture ==
  /\ stored
  /\ stored' = FALSE
  /\ rows' = NoRows
  /\ UNCHANGED <<grades, published, gradeRuns, reading>>

TableNext ==
  \/ \E P \in SUBSET Markets : SynchronizePredictions(P) \/ SynchronizeGrades(P)
  \/ DeleteFixture

-----------------------------------------------------------------------------
(* The statements of a read.                                               *)

ResolveLeague(r) ==
  /\ reading[r].stage = "sent"
  /\ reading' = [reading EXCEPT ![r].stage = IF stored THEN "resolved" ELSE "missing"]
  /\ UNCHANGED tableVars

(* Mutant: a market is read first, and the others by another statement.    *)
ReadMarketFirst(r) ==
  /\ reading[r].stage = "resolved"
  /\ \/ /\ reading[r].rows = NoRows
        /\ \E m \in Markets : reading' = [reading EXCEPT ![r].rows[m] = rows[m]]
     \/ reading' = [reading EXCEPT
                      ![r].stage = "selected",
                      ![r].rows = [m \in Markets |-> IF reading[r].rows[m] # 0
                                                    THEN reading[r].rows[m] ELSE rows[m]]]
  /\ UNCHANGED tableVars

ReadSelections(r) ==
  /\ reading[r].stage = "resolved"
  /\ reading' = [reading EXCEPT ![r].stage = "selected", ![r].rows = rows]
  /\ UNCHANGED tableVars

(* The grades of markets without a stored selection are left out.          *)
ReadGrades(r) ==
  /\ reading[r].stage = "selected"
  /\ reading' = [reading EXCEPT
                   ![r].stage = "answered",
                   ![r].grades = [m \in Markets |-> IF reading[r].rows[m] = 0 THEN 0
                                                    ELSE grades[m]]]
  /\ UNCHANGED tableVars

Serve(r) == ResolveLeague(r) \/ ReadSelections(r) \/ ReadGrades(r)

=============================================================================
