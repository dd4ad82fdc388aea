--------------------------- MODULE PredictionRead ---------------------------
(***************************************************************************)
(* One read of a prediction window, entry by entry, and what it leaves in  *)
(* the table: fetch_prediction_window and upsert_fixture_predictions as    *)
(* one program, with the write as a single step (PredictionSync models its *)
(* statements).  The provider may send anything: entries that name no      *)
(* fixture or carry no array, markets the platform does not publish or     *)
(* that come twice, selections it does not know, figures no column holds.  *)
(*                                                                         *)
(* A selection is named by its market and the key the provider uses for    *)
(* it: PROVIDER_SELECTIONS is one to one within a market.                  *)
(***************************************************************************)
EXTENDS ProviderValues

CONSTANTS
  FixtureEntries,    \* what the provider may send for a fixture
  StoredFixtures,    \* provider identifiers with a row in the fixture table
  ProviderMarkets,   \* the market of a prediction type
  ProviderKeys,      \* the selection keys of a market
  Nested,            \* the market whose selections are one level deeper
  Percent,           \* the ceiling of a probability
  MaxEntries,        \* bound on the entries of one read
  NotAList, NotAnObject, NoRow

Markets == {ProviderMarkets[t] : t \in DOMAIN ProviderMarkets}
PredictionRows ==
  {r \in StoredFixtures \X Markets \X UNION {ProviderKeys[m] : m \in Markets} :
     r[3] \in ProviderKeys[r[2]]}

ASSUME PredictionAssumption ==
  /\ Percent \in Nat /\ MaxEntries \in Nat
  /\ StoredFixtures \subseteq Int
  /\ NoRow \notin Int
  /\ \A entry \in FixtureEntries :
       entry.predictions # NotAList => entry.predictions \in Seq(Range(entry.predictions))

VARIABLES
  windowStep,        \* "reading", "stored", "failed" or "refused"
  windowSent,        \* history: the entries of the read
  window,            \* ProviderPredictionWindow.fixtures
  probabilities      \* FixturePrediction

windowVars == <<windowStep, windowSent, window, probabilities>>

-----------------------------------------------------------------------------
(* Normalization of one entry.                                             *)

Market(prediction) ==
  IF Identifier(prediction.type) \in DOMAIN ProviderMarkets
  THEN ProviderMarkets[Identifier(prediction.type)] ELSE Unusable

(* _selections_of: an object that is not in the shape of the market states *)
(* none of its selections.                                                 *)
SelectionsOf(prediction) ==
  IF prediction.shape = (IF Market(prediction) = Nested THEN "scores" ELSE "selections")
  THEN prediction.values ELSE Empty

(* Does the prediction state the selection k of market m, and usably so?   *)
States(prediction, m, k) ==
  /\ prediction # NotAnObject
  /\ Market(prediction) = m
  /\ k \in DOMAIN SelectionsOf(prediction) \cap ProviderKeys[m]
  /\ BoundedDecimal(SelectionsOf(prediction)[k], Percent) # Unusable

(* _probabilities_of.                                                      *)
ProbabilitiesOf(prediction) ==
  [c \in {d \in Markets \X UNION {ProviderKeys[n] : n \in Markets} :
            States(prediction, d[1], d[2])} |->
     BoundedDecimal(SelectionsOf(prediction)[c[2]], Percent)]

(* _fixture_probabilities_of: unusable, or the probabilities of each       *)
(* prediction, in order.                                                   *)
IsUsable(entry) == Identifier(entry.id) # NoId /\ entry.predictions # NotAList

FixtureProbabilitiesOf(entry) ==
  [fixture |-> Identifier(entry.id),
   probabilities |-> [i \in DOMAIN entry.predictions |-> ProbabilitiesOf(entry.predictions[i])]]

(* An identifier of the entry that is read and that int refuses.           *)
EntryRaises(entry) ==
  \/ Raises(entry.id)
  \/ /\ IsUsable(entry)
     /\ \E i \in DOMAIN entry.predictions :
          entry.predictions[i] # NotAnObject /\ Raises(entry.predictions[i].type)

-----------------------------------------------------------------------------
(* The rows of a read.                                                     *)

(* Mutant: every statement is offered, none is collapsed.                  *)
UncollapsedRows(entries) ==
  UNION {UNION {{<<<<e.fixture, c[1], c[2]>>, p[c]>> : c \in DOMAIN p} :
                 p \in {e.probabilities[i] : i \in DOMAIN e.probabilities}} :
         e \in {entries[i] : i \in {j \in DOMAIN entries : entries[j].fixture \in StoredFixtures}}}

(* What one prediction, and one entry, assigns in unique_predictions.      *)
Statement(f, p) ==
  [r \in {<<f, c[1], c[2]>> : c \in DOMAIN p} |-> p[<<r[2], r[3]>>]]

Collapse(entry) ==
  IF entry.fixture \notin StoredFixtures THEN Empty
  ELSE Collected([i \in DOMAIN entry.probabilities |->
                    Statement(entry.fixture, entry.probabilities[i])])

(* _prediction_rows: the key and the value of each row offered.            *)
RowsOffered(entries) ==
  LET unique == Collected([i \in DOMAIN entries |-> Collapse(entries[i])])
  IN {<<r, unique[r]>> : r \in DOMAIN unique}

(* Mutant: the fixtures without a probability are not in the scope.        *)
ScopeOfOffered(entries) == {o[1][1] : o \in RowsOffered(entries)}

ScopeOf(entries) == {entries[i].fixture : i \in DOMAIN entries} \cap StoredFixtures

(* What PostgreSQL refuses: a row touched twice by one statement, a figure *)
(* outside the check constraint.                                           *)
Refuses(offered) ==
  \/ \E o, p \in offered : o # p /\ o[1] = p[1]
  \/ \E o \in offered : o[2] \notin 0 .. Percent

-----------------------------------------------------------------------------
WindowInit ==
  /\ windowStep = "reading"
  /\ windowSent = <<>>
  /\ window = <<>>
  /\ \E known \in SUBSET StoredFixtures, v \in 0 .. Percent :
       probabilities = [r \in PredictionRows |-> IF r[1] \in known THEN v ELSE NoRow]

ReadFixtureEntry(entry) ==
  /\ windowStep = "reading"
  /\ Len(windowSent) < MaxEntries
  /\ ~EntryRaises(entry)
  /\ windowSent' = Append(windowSent, entry)
  /\ window' = IF IsUsable(entry) THEN Append(window, FixtureProbabilitiesOf(entry)) ELSE window
  /\ UNCHANGED <<windowStep, probabilities>>

(* SportmonksError, or the ValueError of an identifier.                    *)
WindowReadFails ==
  /\ windowStep = "reading"
  /\ windowStep' = "failed"
  /\ UNCHANGED <<windowSent, window, probabilities>>

(* The read is complete: the transaction commits, or none of it happens.   *)
StoreWindow ==
  LET offered == RowsOffered(window)
  IN /\ windowStep = "reading"
     /\ windowStep' = IF Refuses(offered) THEN "refused" ELSE "stored"
     /\ probabilities' =
          IF Refuses(offered) THEN probabilities
          ELSE [r \in PredictionRows |->
                  IF \E o \in offered : o[1] = r THEN (CHOOSE o \in offered : o[1] = r)[2]
                  ELSE IF r[1] \in ScopeOf(window) THEN NoRow ELSE probabilities[r]]
     /\ UNCHANGED <<windowSent, window>>

(* The next run, an interval later.                                        *)
NextWindow ==
  /\ windowStep # "reading"
  /\ windowStep' = "reading"
  /\ windowSent' = <<>>
  /\ window' = <<>>
  /\ UNCHANGED probabilities

WindowNext ==
  \/ \E entry \in FixtureEntries : ReadFixtureEntry(entry)
  \/ WindowReadFails
  \/ StoreWindow
  \/ NextWindow

WindowSpec == WindowInit /\ [][WindowNext]_windowVars

-----------------------------------------------------------------------------
(* Properties.                                                             *)

(* What a read carries of a prediction is a percentage of a selection the  *)
(* market names, and so is what the table holds.                           *)
WindowTypeOK ==
  /\ windowStep \in {"reading", "stored", "failed", "refused"}
  /\ windowSent \in Seq(FixtureEntries)
  /\ \A i \in DOMAIN window : \A j \in DOMAIN window[i].probabilities :
       LET p == window[i].probabilities[j]
       IN \A c \in DOMAIN p : c[2] \in ProviderKeys[c[1]] /\ p[c] \in 0 .. Percent
  /\ probabilities \in [PredictionRows -> (0 .. Percent) \cup {NoRow}]

(* "The rows of a run are written in one transaction, so a single value    *)
(* the column would reject must cost its own row rather than every other   *)
(* row of the run": whatever a complete read carried, however often it     *)
(* repeats a selection, the database refuses none of it.                   *)
WindowIsNeverRefused == windowStep # "refused"

UsableEntries == {i \in DOMAIN windowSent : IsUsable(windowSent[i])}

(* The usable statements of a selection of a fixture, by the place of the  *)
(* entry in the read and of the prediction in the entry.                   *)
Statements(f, m, k) ==
  {s \in UNION {{i} \X DOMAIN windowSent[i].predictions : i \in UsableEntries} :
     /\ Identifier(windowSent[s[1]].id) = f
     /\ States(windowSent[s[1]].predictions[s[2]], m, k)}

LastOf(S) ==
  CHOOSE s \in S : \A t \in S : t[1] < s[1] \/ (t[1] = s[1] /\ t[2] <= s[2])

(* What a read leaves of a fixture it was told about is, selection by      *)
(* selection, the last usable statement of the whole read, and no row      *)
(* where there is none; a fixture no usable entry named keeps its rows.    *)
StoresTheLastStatements ==
  [][StoreWindow => \A r \in PredictionRows :
       LET S == Statements(r[1], r[2], r[3])
           s == LastOf(S)
       IN IF \E i \in UsableEntries : Identifier(windowSent[i].id) = r[1]
          THEN probabilities'[r] =
                 IF S = {} THEN NoRow
                 ELSE Quantize(windowSent[s[1]].predictions[s[2]].values[r[3]])
          ELSE probabilities'[r] = probabilities[r]]_windowVars

=============================================================================
