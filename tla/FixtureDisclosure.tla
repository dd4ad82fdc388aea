------------------------- MODULE FixtureDisclosure -------------------------
(***************************************************************************)
(* The row of a fixture and the panel under it (fixture-disclosure.tsx,    *)
(* fixture-predictions-panel.tsx): a click expands or collapses the row,   *)
(* the first expansion reads the predictions through a Server Action, and  *)
(* a failed read can be repeated.  A click is handled between two          *)
(* renderings; the ref `requested` changes at once, the state (`asked`,    *)
(* `result`, `pending`) when React renders it.  What a click sets is       *)
(* rendered before the next click; what the answer of a read sets is       *)
(* rendered at some time after, and before the transition is over.         *)
(***************************************************************************)
EXTENDS PanelRead

CONSTANT MaxClicks  \* bound on the clicks of a visitor

ASSUME ClicksAssumption == MaxClicks \in Nat

VARIABLES
  open,        \* is the row expanded?
  asked,       \* was a read ever asked for?
  requested,   \* the ref: a read is under way or was worth keeping
  result,      \* the answer rendered
  update,      \* the answer set and not rendered yet
  pending,     \* isPending of the transition
  clicks       \* the clicks so far

rowVars == <<open, asked, requested, result, update, pending, clicks>>
vars == <<tableVars, reading, rowVars>>

Results == Payloads \cup {NoResult, Failure}

TypeOK ==
  /\ stored \in BOOLEAN
  /\ rows \in [Markets -> Versions] /\ grades \in [Markets -> Versions]
  /\ published \in Seq(SUBSET Markets) /\ Len(published) \in Versions
  /\ gradeRuns \in Versions
  /\ reading \in [Reads -> [stage : Stages, rows : [Markets -> Versions],
                            grades : [Markets -> Versions]]]
  /\ open \in BOOLEAN /\ asked \in BOOLEAN /\ requested \in BOOLEAN /\ pending \in BOOLEAN
  /\ result \in Results /\ update \in Results
  /\ clicks \in 0 .. MaxClicks

-----------------------------------------------------------------------------
Init ==
  /\ TableInit
  /\ open = FALSE /\ asked = FALSE /\ requested = FALSE /\ pending = FALSE
  /\ result = NoResult /\ update = NoResult
  /\ clicks = 0

(* What the panel renders.                                                 *)
Placeholder == asked /\ (pending \/ result = NoResult)
FailureNotice == ~pending /\ result = Failure

(* Mutant: the guard is the cached result.                                 *)
ReadUnlessLoaded ==
  IF result.kind = "loaded" THEN UNCHANGED <<asked, requested, pending, reading>>
  ELSE /\ \E r \in Reads \ Busy : reading' = [reading EXCEPT ![r].stage = "sent"]
       /\ requested' = TRUE /\ asked' = TRUE /\ pending' = TRUE

(* read: nothing when the guard is closed.                                 *)
Read ==
  IF requested THEN UNCHANGED <<asked, requested, pending, reading>>
  ELSE /\ \E r \in Reads \ Busy : reading' = [reading EXCEPT ![r].stage = "sent"]
       /\ requested' = TRUE /\ asked' = TRUE /\ pending' = TRUE

Expand ==
  /\ ~open /\ clicks < MaxClicks
  /\ open' = TRUE /\ clicks' = clicks + 1
  /\ Read
  /\ UNCHANGED <<result, update, tableVars>>

Collapse ==
  /\ open /\ clicks < MaxClicks
  /\ open' = FALSE /\ clicks' = clicks + 1
  /\ UNCHANGED <<asked, requested, pending, result, update, reading, tableVars>>

(* The button of the notice: inert while the row is collapsed.             *)
Retry ==
  /\ open /\ FailureNotice /\ clicks < MaxClicks
  /\ clicks' = clicks + 1
  /\ result' = NoResult
  /\ Read
  /\ UNCHANGED <<open, update, tableVars>>

-----------------------------------------------------------------------------
(* Mutant: the answer is kept as it was received.                          *)
LoadUnmapped(r) ==
  /\ reading[r].stage = "answered"
  /\ requested' = TRUE
  /\ update' = [reading[r] EXCEPT !.stage = "loaded"]
  /\ reading' = [reading EXCEPT ![r] = Idle]
  /\ UNCHANGED <<open, asked, result, pending, clicks, tableVars>>

(* The action resolves with an answer of the API.                          *)
Load(r) ==
  /\ reading[r].stage = "answered"
  /\ requested' = TRUE
  /\ update' = Payload("loaded", reading[r].rows, reading[r].grades)
  /\ reading' = [reading EXCEPT ![r] = Idle]
  /\ UNCHANGED <<open, asked, result, pending, clicks, tableVars>>

(* It resolves with a reason: the fixture is not found, the API is not     *)
(* configured, there is no token, the status is an error, the payload does *)
(* not match, or six seconds passed.                                       *)
Unavailable(r) ==
  /\ r \in Busy
  /\ requested' = FALSE
  /\ update' = Failure
  /\ reading' = [reading EXCEPT ![r] = Idle]
  /\ UNCHANGED <<open, asked, result, pending, clicks, tableVars>>

(* Mutant: the guard stays closed.                                         *)
RejectGuarded(r) ==
  /\ r \in Busy
  /\ update' = Failure
  /\ reading' = [reading EXCEPT ![r] = Idle]
  /\ UNCHANGED <<open, asked, requested, result, pending, clicks, tableVars>>

(* It rejects, and the catch answers in its place.                         *)
Reject(r) ==
  /\ r \in Busy
  /\ requested' = FALSE
  /\ update' = Failure
  /\ reading' = [reading EXCEPT ![r] = Idle]
  /\ UNCHANGED <<open, asked, result, pending, clicks, tableVars>>

Render ==
  /\ update # NoResult
  /\ result' = update
  /\ update' = NoResult
  /\ UNCHANGED <<open, asked, requested, pending, clicks, reading, tableVars>>

(* The transition is over when its last action is, not before what the     *)
(* action set is rendered.                                                 *)
EndTransition ==
  /\ pending /\ Busy = {} /\ update = NoResult
  /\ pending' = FALSE
  /\ UNCHANGED <<open, asked, requested, result, update, clicks, reading, tableVars>>

Progress(r) == Load(r) \/ Unavailable(r) \/ Reject(r)

Next ==
  \/ TableNext /\ UNCHANGED rowVars
  \/ Expand \/ Collapse \/ Retry
  \/ \E r \in Reads : Serve(r) /\ UNCHANGED rowVars
  \/ \E r \in Reads : Progress(r)
  \/ Render \/ EndTransition

(* Every read ends, in an answer, after its six seconds or in a rejection, *)
(* and React renders what it is given.                                     *)
Fairness ==
  /\ WF_vars(\E r \in Reads : Progress(r))
  /\ WF_vars(Render)
  /\ WF_vars(EndTransition)

Spec == Init /\ [][Next]_vars /\ Fairness

-----------------------------------------------------------------------------
(* Properties.                                                             *)

(* "While the first request is still in flight the result is still null    *)
(* and a second click would fire a second request; a ref is set in the     *)
(* same tick as the click": no two reads of a panel are ever under way, a  *)
(* read is under way only while the transition is pending, and the guard   *)
(* is closed exactly while a read is under way or once its answer is kept. *)
OneReadAtATime ==
  /\ \A r, s \in Busy : r = s
  /\ Busy # {} => pending
  /\ requested <=> \/ Busy # {}
                   \/ (IF update # NoResult THEN update ELSE result).kind = "loaded"

(* "Sharing the transaction is what stops a reader seeing a fixture whose  *)
(* old selections are gone and whose new ones are not in yet": a panel     *)
(* shows the markets of one synchronization, all of them, or none at all.  *)
ShowsOneSynchronization ==
  result.kind = "loaded" /\ result.rows # NoRows =>
    \E v \in DOMAIN published : result.rows = Publication(v)

(* The panel implements what a panel promises.  In particular an answer is *)
(* kept for good, only a failure or nothing is followed by a read, and     *)
(* "every settlement, including a failed one, puts a result here": no      *)
(* placeholder stays.                                                      *)
Panel == INSTANCE PredictionPanel WITH
  Answers <- Payloads,
  Nothing <- NoResult,
  phase <- IF ~asked THEN "unasked"
           ELSE IF Placeholder THEN "waiting"
           ELSE IF result = Failure THEN "failed" ELSE "loaded",
  shown <- IF asked /\ ~pending /\ result.kind = "loaded" THEN result ELSE NoResult

KeepsThePanelsPromise == Panel!PanelSpec

=============================================================================
