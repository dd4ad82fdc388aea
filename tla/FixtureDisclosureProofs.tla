---------------------- MODULE FixtureDisclosureProofs ----------------------
(***************************************************************************)
(* Proofs about the fixture row and its panel, for any markets, number of  *)
(* synchronizations, clicks and slots for reads.                           *)
(***************************************************************************)
EXTENDS FixtureDisclosure, TLAPS

USE PanelAssumption, ClicksAssumption

-----------------------------------------------------------------------------
(* What a result is can be told from its kind.                             *)
LEMMA Kinds ==
  /\ NoResult \in Results /\ NoResult.kind = "none" /\ NoResult.rows = NoRows
  /\ Failure \in Results /\ Failure.kind = "failed" /\ Failure.rows = NoRows
  /\ \A x \in Payloads : x \in Results /\ x.kind = "loaded" /\ x.rows \in [Markets -> Versions]
  /\ \A x \in Results : /\ x.kind = "none" <=> x = NoResult
                        /\ x.kind = "failed" <=> x = Failure
                        /\ x.kind = "loaded" <=> x \in Payloads
BY DEF Results, Payloads, Payload, NoResult, Failure, NoRows, Versions

LEMMA NoRowsType == NoRows \in [Markets -> Versions]
BY DEF NoRows, Versions

LEMMA IdleType ==
  Idle \in [stage : Stages, rows : [Markets -> Versions], grades : [Markets -> Versions]]
BY NoRowsType DEF Idle, Stages

-----------------------------------------------------------------------------
(* Types.                                                                  *)

LEMMA InitType == Init => TypeOK
<1> SUFFICES ASSUME Init PROVE TypeOK
  OBVIOUS
<1>1. reading \in [Reads -> [stage : Stages, rows : [Markets -> Versions],
                             grades : [Markets -> Versions]]]
  BY IdleType DEF Init, TableInit
<1>2. PICK P \in SUBSET Markets : published = <<P>>
  BY DEF Init, TableInit
<1>3. published \in Seq(SUBSET Markets) /\ Len(published) \in Versions
  BY <1>2 DEF Versions
<1>4. rows \in [Markets -> Versions] /\ grades \in [Markets -> Versions]
  BY NoRowsType DEF Init, TableInit, Publication, Versions
<1>5. stored \in BOOLEAN /\ open \in BOOLEAN /\ asked \in BOOLEAN
      /\ requested \in BOOLEAN /\ pending \in BOOLEAN
  BY DEF Init, TableInit
<1>6. gradeRuns \in Versions /\ clicks \in 0 .. MaxClicks
  BY DEF Init, TableInit, Versions
<1>7. result \in Results /\ update \in Results
  BY Kinds DEF Init
<1> QED
  BY <1>1, <1>3, <1>4, <1>5, <1>6, <1>7 DEF TypeOK

LEMMA TableNextType == TypeOK /\ TableNext /\ UNCHANGED rowVars => TypeOK'
<1> SUFFICES ASSUME TypeOK, TableNext, UNCHANGED rowVars PROVE TypeOK'
  OBVIOUS
<1>1. CASE \E P \in SUBSET Markets : SynchronizePredictions(P)
  <2> PICK P \in SUBSET Markets : SynchronizePredictions(P)
    BY <1>1
  <2>1. published' \in Seq(SUBSET Markets) /\ Len(published') = Len(published) + 1
    BY DEF SynchronizePredictions, TypeOK
  <2>2. rows' \in [Markets -> Versions] /\ Len(published') \in Versions
    BY <2>1 DEF SynchronizePredictions, TypeOK, Versions
  <2> QED
    BY <2>1, <2>2 DEF SynchronizePredictions, TypeOK, rowVars
<1>2. CASE \E P \in SUBSET Markets : SynchronizeGrades(P)
  <2> PICK P \in SUBSET Markets : SynchronizeGrades(P)
    BY <1>2
  <2>1. grades' \in [Markets -> Versions] /\ gradeRuns' \in Versions
    BY DEF SynchronizeGrades, TypeOK, Versions
  <2> QED
    BY <2>1 DEF SynchronizeGrades, TypeOK, rowVars
<1>3. CASE DeleteFixture
  BY <1>3, NoRowsType DEF DeleteFixture, TypeOK, rowVars
<1> QED
  BY <1>1, <1>2, <1>3 DEF TableNext

LEMMA ServeType ==
  ASSUME TypeOK, NEW r \in Reads, Serve(r), UNCHANGED rowVars PROVE TypeOK'
<1>1. CASE ResolveLeague(r)
  BY <1>1 DEF ResolveLeague, TypeOK, tableVars, rowVars, Stages
<1>2. CASE ReadSelections(r)
  BY <1>2 DEF ReadSelections, TypeOK, tableVars, rowVars, Stages
<1>3. CASE ReadGrades(r)
  <2>1. [m \in Markets |-> IF reading[r].rows[m] = 0 THEN 0 ELSE grades[m]]
          \in [Markets -> Versions]
    BY DEF TypeOK, Versions
  <2> QED
    BY <1>3, <2>1 DEF ReadGrades, TypeOK, tableVars, rowVars, Stages
<1> QED
  BY <1>1, <1>2, <1>3 DEF Serve

LEMMA ReadType ==
  ASSUME TypeOK, Read
  PROVE  /\ reading' \in [Reads -> [stage : Stages, rows : [Markets -> Versions],
                                    grades : [Markets -> Versions]]]
         /\ asked' \in BOOLEAN /\ requested' \in BOOLEAN /\ pending' \in BOOLEAN
<1>1. CASE requested
  BY <1>1 DEF TypeOK, Read
<1>2. CASE ~requested
  <2>1. PICK r \in Reads : reading' = [reading EXCEPT ![r].stage = "sent"]
    BY <1>2 DEF Read
  <2>2. reading' \in [Reads -> [stage : Stages, rows : [Markets -> Versions],
                               grades : [Markets -> Versions]]]
    BY <2>1 DEF TypeOK, Stages
  <2> QED
    BY <1>2, <2>2 DEF Read
<1> QED
  BY <1>1, <1>2

LEMMA TablesKept ==
  ASSUME TypeOK, UNCHANGED tableVars
  PROVE  /\ stored' \in BOOLEAN
         /\ rows' \in [Markets -> Versions] /\ grades' \in [Markets -> Versions]
         /\ published' \in Seq(SUBSET Markets) /\ Len(published') \in Versions
         /\ gradeRuns' \in Versions
BY DEF TypeOK, tableVars

LEMMA ClickType == TypeOK /\ (Expand \/ Collapse \/ Retry) => TypeOK'
<1> SUFFICES ASSUME TypeOK, Expand \/ Collapse \/ Retry PROVE TypeOK'
  OBVIOUS
<1>1. CASE Expand
  <2>1. Read /\ open' \in BOOLEAN /\ clicks' \in 0 .. MaxClicks
    BY <1>1 DEF Expand, TypeOK
  <2>2. result' \in Results /\ update' \in Results /\ UNCHANGED tableVars
    BY <1>1 DEF Expand, TypeOK
  <2> QED
    BY <2>1, <2>2, ReadType, TablesKept DEF TypeOK
<1>2. CASE Collapse
  <2>1. open' = FALSE /\ clicks' = clicks + 1 /\ clicks < MaxClicks
    BY <1>2 DEF Collapse
  <2>2. clicks' \in 0 .. MaxClicks
    BY <2>1 DEF TypeOK
  <2>3. open' \in BOOLEAN
    BY <2>1
  <2> QED
    BY <1>2, <2>2, <2>3, TablesKept DEF Collapse, TypeOK
<1>3. CASE Retry
  <2>1. Read /\ result' \in Results /\ clicks' \in 0 .. MaxClicks
    BY <1>3, Kinds DEF Retry, TypeOK
  <2> QED
    BY <1>3, <2>1, ReadType DEF Retry, TypeOK, tableVars
<1> QED
  BY <1>1, <1>2, <1>3

LEMMA ProgressType == ASSUME TypeOK, NEW r \in Reads, Progress(r) PROVE TypeOK'
<1>1. Payload("loaded", reading[r].rows, reading[r].grades) \in Payloads
  <2>1. reading[r].rows \in [Markets -> Versions] /\ reading[r].grades \in [Markets -> Versions]
    BY DEF TypeOK
  <2> QED
    BY <2>1 DEF Payloads
<1>2. CASE Load(r)
  BY <1>1, <1>2, Kinds, IdleType DEF Load, TypeOK, tableVars
<1>3. CASE Unavailable(r)
  BY <1>3, Kinds, IdleType DEF Unavailable, TypeOK, tableVars
<1>4. CASE Reject(r)
  BY <1>4, Kinds, IdleType DEF Reject, TypeOK, tableVars
<1> QED
  BY <1>2, <1>3, <1>4 DEF Progress

LEMMA NextType == TypeOK /\ [Next]_vars => TypeOK'
<1> SUFFICES ASSUME TypeOK, [Next]_vars PROVE TypeOK'
  OBVIOUS
<1>1. CASE Render
  BY <1>1, Kinds DEF Render, TypeOK, tableVars
<1>2. CASE EndTransition
  BY <1>2 DEF EndTransition, TypeOK, tableVars
<1>3. CASE UNCHANGED vars
  BY <1>3 DEF vars, rowVars, tableVars, TypeOK
<1> QED
  BY <1>1, <1>2, <1>3, TableNextType, ServeType, ClickType, ProgressType DEF Next

(* The row, its panel and the tables it reads have their types.            *)
THEOREM TypeCorrect == Spec => []TypeOK
BY InitType, NextType, PTL DEF Spec

-----------------------------------------------------------------------------
(* One read at a time.  The strengthening says when an answer may be kept  *)
(* or waiting to be rendered, and that a panel asked for has a result      *)
(* unless its read is under way or its answer is about to be rendered.     *)

RowInv ==
  /\ OneReadAtATime
  /\ update # NoResult => pending
  /\ asked \/ (result = NoResult /\ ~pending)
  /\ asked => Busy # {} \/ update # NoResult \/ result # NoResult
  /\ result \in Payloads => Busy = {} /\ update = NoResult
  /\ update \in Payloads => Busy = {}

LEMMA BusyKept == UNCHANGED reading => Busy' = Busy
BY DEF Busy

LEMMA BusyServed == ASSUME TypeOK, NEW r \in Reads, Serve(r) PROVE Busy' = Busy
<1>1. ASSUME NEW s \in Reads PROVE (reading'[s].stage # "idle") <=> (reading[s].stage # "idle")
  BY DEF Serve, ResolveLeague, ReadSelections, ReadGrades, TypeOK
<1> QED
  BY <1>1 DEF Busy

LEMMA BusyRead ==
  ASSUME TypeOK, Read, ~requested
  PROVE  \E r \in Reads : Busy' = Busy \cup {r}
<1> PICK r \in Reads \ Busy : reading' = [reading EXCEPT ![r].stage = "sent"]
  BY DEF Read
<1>1. ASSUME NEW s \in Reads
      PROVE  (reading'[s].stage # "idle") <=> (s = r \/ reading[s].stage # "idle")
  BY DEF TypeOK
<1> QED
  BY <1>1 DEF Busy

LEMMA BusyProgress ==
  ASSUME TypeOK, OneReadAtATime, NEW r \in Reads, Progress(r)
  PROVE  r \in Busy /\ Busy' = {}
<1>1. r \in Busy
  BY DEF Progress, Load, Unavailable, Reject, Busy
<1>2. reading' = [reading EXCEPT ![r] = Idle]
  BY DEF Progress, Load, Unavailable, Reject
<1>3. ASSUME NEW s \in Reads PROVE reading'[s].stage = "idle"
  <2>1. CASE s = r
    BY <1>2, <2>1 DEF TypeOK, Idle
  <2>2. CASE s # r
    BY <1>1, <1>2, <2>2 DEF OneReadAtATime, Busy, TypeOK
  <2> QED
    BY <2>1, <2>2
<1> QED
  BY <1>1, <1>3 DEF Busy

(* The guard, told from the sets of results.                               *)
LEMMA GuardClosed ==
  ASSUME TypeOK
  PROVE  OneReadAtATime <=>
           /\ \A r, s \in Busy : r = s
           /\ Busy # {} => pending
           /\ requested <=> \/ Busy # {}
                            \/ update \in Payloads
                            \/ update = NoResult /\ result \in Payloads
BY Kinds DEF TypeOK, OneReadAtATime

LEMMA InitRow == Init => RowInv
<1> SUFFICES ASSUME Init PROVE RowInv
  OBVIOUS
<1>1. Busy = {}
  BY DEF Init, TableInit, Busy, Idle
<1> QED
  BY <1>1, Kinds DEF Init, RowInv, OneReadAtATime

LEMMA QuietRow ==
  ASSUME RowInv, UNCHANGED rowVars, Busy' = Busy PROVE RowInv'
BY DEF RowInv, OneReadAtATime, rowVars

LEMMA ClickRow ==
  ASSUME TypeOK, TypeOK', RowInv, Expand \/ Collapse \/ Retry PROVE RowInv'
<1>1. CASE Collapse
  BY <1>1, BusyKept DEF Collapse, RowInv, OneReadAtATime
<1>2. CASE requested /\ Expand
  BY <1>2, BusyKept DEF Expand, Read, RowInv, OneReadAtATime
<1>3. CASE requested /\ Retry
  <2>1. ~pending /\ result = Failure /\ update = NoResult /\ Busy = {}
    BY <1>3 DEF Retry, FailureNotice, RowInv, OneReadAtATime
  <2> QED
    BY <1>3, <2>1, GuardClosed, Kinds DEF RowInv
<1>4. CASE ~requested /\ (Expand \/ Retry)
  <2>1. Read /\ update' = update /\ result' \in {result, NoResult}
    BY <1>4 DEF Expand, Retry
  <2>2. requested' /\ asked' /\ pending'
    BY <1>4, <2>1 DEF Read
  <2>3. Busy = {} /\ update \notin Payloads /\ ~(update = NoResult /\ result \in Payloads)
    BY <1>4, GuardClosed DEF RowInv
  <2>4. PICK r \in Reads : Busy' = {r}
    BY <1>4, <2>1, <2>3, BusyRead
  <2>5. result \notin Payloads
    BY <2>3 DEF RowInv
  <2>6. update' \notin Payloads /\ result' \notin Payloads
    BY <2>1, <2>3, <2>5, Kinds
  <2>7. OneReadAtATime'
    BY <2>2, <2>4 DEF OneReadAtATime
  <2>8. Busy' # {}
    BY <2>4
  <2> QED
    BY <2>2, <2>6, <2>7, <2>8 DEF RowInv
<1> QED
  BY <1>1, <1>2, <1>3, <1>4

LEMMA ProgressRow ==
  ASSUME TypeOK, TypeOK', RowInv, NEW r \in Reads, Progress(r) PROVE RowInv'
<1>1. r \in Busy /\ Busy' = {} /\ pending /\ asked
  BY BusyProgress DEF RowInv, OneReadAtATime
<1>2. UNCHANGED <<asked, result, pending>> /\ update' # NoResult
  BY Kinds DEF Progress, Load, Unavailable, Reject, Payload, Failure, NoResult
<1>3. result \notin Payloads
  BY <1>1 DEF RowInv
<1>4. requested' <=> update' \in Payloads
  <2>1. CASE Load(r)
    <3>1. requested' /\ update'.kind = "loaded"
      BY <2>1 DEF Load, Payload
    <3> QED
      BY <3>1, Kinds DEF TypeOK
  <2>2. CASE Unavailable(r) \/ Reject(r)
    BY <2>2, Kinds DEF Unavailable, Reject
  <2> QED
    BY <2>1, <2>2 DEF Progress
<1>5. OneReadAtATime'
  <2> DEFINE last == IF update # NoResult THEN update ELSE result
  <2>1. last' = update' /\ (update'.kind = "loaded" <=> update' \in Payloads)
    BY <1>2, Kinds DEF TypeOK
  <2> QED
    BY <1>1, <1>4, <2>1 DEF OneReadAtATime
<1> QED
  BY <1>1, <1>2, <1>3, <1>5 DEF RowInv

LEMMA RenderRow == ASSUME TypeOK, TypeOK', RowInv, Render PROVE RowInv'
<1>1. UNCHANGED <<asked, requested, pending>> /\ Busy' = Busy
  BY BusyKept DEF Render
<1>2. update # NoResult /\ result' = update /\ update' = NoResult
  BY DEF Render
<1>3. OneReadAtATime'
  BY <1>1, <1>2 DEF RowInv, OneReadAtATime
<1> QED
  BY <1>1, <1>2, <1>3, Kinds DEF RowInv

LEMMA EndTransitionRow == ASSUME TypeOK, TypeOK', RowInv, EndTransition PROVE RowInv'
BY BusyKept DEF EndTransition, RowInv, OneReadAtATime

LEMMA NextRow == TypeOK /\ TypeOK' /\ RowInv /\ [Next]_vars => RowInv'
<1> SUFFICES ASSUME TypeOK, TypeOK', RowInv, [Next]_vars PROVE RowInv'
  OBVIOUS
<1>1. CASE TableNext /\ UNCHANGED rowVars
  BY <1>1, BusyKept, QuietRow
     DEF TableNext, SynchronizePredictions, SynchronizeGrades, DeleteFixture
<1>2. CASE \E r \in Reads : Serve(r) /\ UNCHANGED rowVars
  BY <1>2, BusyServed, QuietRow
<1>3. CASE UNCHANGED vars
  BY <1>3, BusyKept, QuietRow DEF vars
<1> QED
  BY <1>1, <1>2, <1>3, ClickRow, ProgressRow, RenderRow, EndTransitionRow DEF Next

THEOREM RowCorrect == Spec => []RowInv
BY TypeCorrect, InitRow, NextRow, PTL DEF Spec

(* No two reads of a panel are ever under way, and the guard is closed     *)
(* exactly while one is or once its answer is kept, however often the row  *)
(* is clicked and however the answers come.                                *)
THEOREM OneRead == Spec => []OneReadAtATime
<1>1. RowInv => OneReadAtATime
  BY DEF RowInv
<1> QED
  BY <1>1, RowCorrect, PTL

-----------------------------------------------------------------------------
(* What a panel shows.  The rows every read holds, and every answer, are   *)
(* rows the table had.                                                     *)

Stored(pub) ==
  {NoRows} \cup {[m \in Markets |-> IF m \in pub[v] THEN v ELSE 0] : v \in DOMAIN pub}

ShownInv ==
  /\ rows \in Stored(published)
  /\ \A r \in Reads : reading[r].rows \in Stored(published)
  /\ result.rows \in Stored(published)
  /\ update.rows \in Stored(published)

LEMMA InitShown == Init => ShownInv
<1> SUFFICES ASSUME Init PROVE ShownInv
  OBVIOUS
<1>1. rows = Publication(1) /\ 1 \in DOMAIN published
  BY DEF Init, TableInit
<1>2. result.rows = NoRows /\ update.rows = NoRows
  BY Kinds DEF Init
<1>3. \A r \in Reads : reading[r].rows = NoRows
  BY DEF Init, TableInit, Idle
<1> QED
  BY <1>1, <1>2, <1>3 DEF ShownInv, Stored, Publication

LEMMA SynchronizeStored ==
  ASSUME TypeOK, NEW P \in SUBSET Markets, SynchronizePredictions(P)
  PROVE  rows' \in Stored(published') /\ Stored(published) \subseteq Stored(published')
<1>1. /\ published' = Append(published, P)
      /\ rows' = [m \in Markets |-> IF m \in P THEN Len(published) + 1 ELSE 0]
  BY DEF SynchronizePredictions
<1>2. DOMAIN published' = 1 .. Len(published) + 1 /\ published'[Len(published) + 1] = P
  BY <1>1 DEF TypeOK
<1>3. DOMAIN published = 1 .. Len(published)
      /\ \A v \in DOMAIN published : published'[v] = published[v]
  BY <1>1 DEF TypeOK
<1>4. Len(published) \in Nat
  BY DEF TypeOK
<1>5. rows' = [m \in Markets |-> IF m \in published'[Len(published) + 1]
                                THEN Len(published) + 1 ELSE 0]
  BY <1>1, <1>2
<1>6. Len(published) + 1 \in DOMAIN published' /\ DOMAIN published \subseteq DOMAIN published'
  BY <1>2, <1>3, <1>4
<1> QED
  BY <1>3, <1>5, <1>6 DEF Stored

LEMMA ServeStored ==
  ASSUME TypeOK, NEW r \in Reads, Serve(r), NEW s \in Reads
  PROVE  reading'[s].rows \in {reading[s].rows, rows}
<1>1. CASE ResolveLeague(r)
  BY <1>1 DEF ResolveLeague, TypeOK
<1>2. CASE ReadSelections(r)
  <2>1. CASE s = r
    BY <1>2, <2>1 DEF ReadSelections, TypeOK
  <2>2. CASE s # r
    BY <1>2, <2>2 DEF ReadSelections, TypeOK
  <2> QED
    BY <2>1, <2>2
<1>3. CASE ReadGrades(r)
  BY <1>3 DEF ReadGrades, TypeOK
<1> QED
  BY <1>1, <1>2, <1>3 DEF Serve

LEMMA ReadStored ==
  ASSUME TypeOK, Read \/ UNCHANGED reading, NEW s \in Reads
  PROVE  reading'[s].rows = reading[s].rows
<1>1. CASE UNCHANGED reading
  BY <1>1
<1>2. CASE Read /\ ~requested
  <2>1. PICK r \in Reads : reading' = [reading EXCEPT ![r].stage = "sent"]
    BY <1>2 DEF Read
  <2> QED
    BY <2>1 DEF TypeOK
<1>3. CASE Read /\ requested
  BY <1>3 DEF Read
<1> QED
  BY <1>1, <1>2, <1>3

LEMMA NextShown == TypeOK /\ ShownInv /\ [Next]_vars => ShownInv'
<1> SUFFICES ASSUME TypeOK, ShownInv, [Next]_vars PROVE ShownInv'
  OBVIOUS
<1> DEFINE kept == Stored(published)
<1>1. NoRows \in kept
  BY DEF Stored
<1>2. ASSUME NEW P \in SUBSET Markets, SynchronizePredictions(P), UNCHANGED rowVars
      PROVE  ShownInv'
  <2>1. UNCHANGED <<reading, result, update>>
    BY <1>2 DEF SynchronizePredictions, rowVars
  <2> QED
    BY <1>2, <2>1, SynchronizeStored DEF ShownInv
<1>3. ASSUME NEW P \in SUBSET Markets, SynchronizeGrades(P), UNCHANGED rowVars
      PROVE  ShownInv'
  BY <1>3 DEF SynchronizeGrades, rowVars, ShownInv
<1>4. CASE DeleteFixture /\ UNCHANGED rowVars
  BY <1>1, <1>4 DEF DeleteFixture, rowVars, ShownInv
<1>5. ASSUME NEW r \in Reads, Serve(r), UNCHANGED rowVars PROVE ShownInv'
  <2>1. UNCHANGED <<published, rows, result, update>>
    BY <1>5 DEF Serve, ResolveLeague, ReadSelections, ReadGrades, tableVars, rowVars
  <2> QED
    BY <1>5, <2>1, ServeStored DEF ShownInv
<1>6. CASE Expand \/ Collapse \/ Retry
  <2>1. /\ UNCHANGED <<published, rows, update>> /\ result' \in {result, NoResult}
        /\ Read \/ UNCHANGED reading
    BY <1>6 DEF Expand, Collapse, Retry, tableVars
  <2> QED
    BY <1>1, <2>1, ReadStored, Kinds DEF ShownInv
<1>7. ASSUME NEW r \in Reads, Progress(r) PROVE ShownInv'
  <2>1. /\ UNCHANGED <<published, rows, result>>
        /\ update'.rows \in {reading[r].rows, NoRows}
        /\ reading' = [reading EXCEPT ![r] = Idle]
    BY <1>7, Kinds DEF Progress, Load, Unavailable, Reject, tableVars, Payload
  <2>2. ASSUME NEW s \in Reads PROVE reading'[s].rows \in {reading[s].rows, NoRows}
    BY <2>1 DEF TypeOK, Idle
  <2> QED
    BY <1>1, <2>1, <2>2 DEF ShownInv
<1>8. CASE Render
  <2>1. UNCHANGED <<published, rows, reading>> /\ result' = update /\ update' = NoResult
    BY <1>8 DEF Render, tableVars
  <2> QED
    BY <1>1, <2>1, Kinds DEF ShownInv
<1>9. CASE EndTransition \/ UNCHANGED vars
  BY <1>9 DEF EndTransition, vars, rowVars, tableVars, ShownInv
<1> QED
  BY <1>2, <1>3, <1>4, <1>5, <1>6, <1>7, <1>8, <1>9 DEF Next, TableNext

(* A panel shows the markets of one synchronization, whichever commit      *)
(* between the statements of its read and however many there are.          *)
THEOREM ShowsOne == Spec => []ShowsOneSynchronization
<1>1. ShownInv => ShowsOneSynchronization
  BY DEF ShownInv, Stored, Publication, ShowsOneSynchronization
<1> QED
  BY <1>1, TypeCorrect, InitShown, NextShown, PTL DEF Spec

-----------------------------------------------------------------------------
(* The panel implements its promise.                                       *)

LEMMA InitPanel == Init => Panel!PanelInit
BY DEF Init, Panel!PanelInit

(* Every step of the row is a step of the panel or leaves it as it is.     *)
LEMMA StepPanel ==
  TypeOK /\ TypeOK' /\ RowInv /\ RowInv' /\ [Next]_vars => [Panel!PanelNext]_(Panel!panelVars)
<1> SUFFICES ASSUME TypeOK, TypeOK', RowInv, RowInv', [Next]_vars
             PROVE  Panel!PanelNext \/ UNCHANGED Panel!panelVars
  OBVIOUS
<1> USE DEF Placeholder
<1>1. CASE UNCHANGED <<asked, pending, result>>
  BY <1>1 DEF Panel!panelVars
<1>2. CASE (Expand \/ Retry) /\ ~requested
  <2>1. asked' /\ pending'
    BY <1>2 DEF Expand, Retry, Read
  <2>2. ~pending => update = NoResult /\ result \notin Payloads /\ (asked => result # NoResult)
    BY <1>2, GuardClosed DEF RowInv
  <2>3. ~pending /\ asked => result = Failure
    <3>1. result \in Payloads \cup {NoResult, Failure}
      BY DEF TypeOK, Results
    <3> QED
      BY <2>2, <3>1
  <2>4. result.kind # "loaded" \/ pending
    BY <2>2, Kinds DEF TypeOK
  <2> QED
    BY <2>1, <2>3, <2>4 DEF Panel!PanelNext, Panel!Ask, Panel!panelVars
<1>3. CASE Retry /\ requested
  <2>1. ~pending /\ result = Failure
    BY <1>3 DEF Retry, FailureNotice
  <2> QED
    BY <1>3, <2>1, GuardClosed, Kinds DEF RowInv
<1>4. CASE Render
  <2>1. pending /\ pending' /\ asked /\ asked'
    BY <1>4 DEF Render, RowInv
  <2> QED
    BY <2>1 DEF Panel!panelVars
<1>5. CASE EndTransition
  <2>1. pending /\ ~pending' /\ asked /\ asked' /\ result' = result /\ result # NoResult
    BY <1>5 DEF EndTransition, RowInv
  <2>2. CASE result = Failure
    BY <2>1, <2>2, Kinds DEF Panel!PanelNext, Panel!SettleFailed
  <2>3. CASE result \in Payloads
    BY <2>1, <2>3, Kinds DEF Panel!PanelNext, Panel!SettleLoaded
  <2> QED
    BY <2>1, <2>2, <2>3 DEF TypeOK, Results
<1>6. CASE Expand /\ requested
  BY <1>1, <1>6 DEF Expand, Read
<1>7. ASSUME NEW r \in Reads, Progress(r) PROVE UNCHANGED <<asked, pending, result>>
  BY <1>7 DEF Progress, Load, Unavailable, Reject
<1> QED
  BY <1>1, <1>2, <1>3, <1>4, <1>5, <1>6, <1>7 DEF Next, Collapse, vars, rowVars

(* The safety of the panel's promise, for any clicks and any answers: a    *)
(* panel goes from nothing to waiting, from waiting to a failure or to an  *)
(* answer, from a failure to waiting only, and keeps an answer for good.   *)
THEOREM ImplementsPanel == Spec => Panel!PanelSafety
<1>1. Init => Panel!PanelInit
  BY InitPanel
<1> QED
  BY <1>1, TypeCorrect, RowCorrect, StepPanel, PTL DEF Spec, Panel!PanelSafety

=============================================================================
