---------------------------- MODULE FixtureSync ----------------------------
(***************************************************************************)
(* The synchronization of the fixture window: fetch_fixtures_between reads *)
(* a sliding range of days from the provider, page by page while the       *)
(* provider changes, and upsert_fixtures stores the whole of it and        *)
(* deletes what the range no longer lists, in one transaction.  The lease  *)
(* of SyncLease guards each run and does not exclude an overlap.           *)
(*                                                                         *)
(* Every run upserts the same subscribed leagues first, so the row locks   *)
(* of that statement serialize the transactions of two runs and a          *)
(* transaction is one step.  A fixture is its day and the version of what  *)
(* the provider says of it.                                                *)
(***************************************************************************)
EXTENDS SyncLease

CONSTANTS
  Fixtures,      \* provider identifiers of fixtures
  PastDays,      \* FIXTURE_SYNCHRONIZATION_PAST_DAYS
  FutureDays,    \* FIXTURE_SYNCHRONIZATION_FUTURE_DAYS
  LastDay,       \* bound on the calendar
  MaxVersion     \* bound on the revisions of a fixture

ASSUME WindowAssumption ==
  /\ PastDays \in Nat
  /\ FutureDays \in Nat
  /\ LastDay \in Nat
  /\ MaxVersion \in Nat

VARIABLES
  today,         \* timezone.now().date()
  provider,      \* what the provider lists
  read,          \* what each run has read so far
  stored,        \* the fixture table
  overlapped     \* history: executions that were not alone past the guard

vars == <<lock, run, today, provider, read, stored, overlapped>>

Days == 0 .. LastDay
(* A day no window reaches, which is also where an unlisted fixture is.    *)
Elsewhere == LastDay + FutureDays + 1
KickoffDays == 0 .. Elsewhere

(* usable: _fixture_of accepts the entry.  It drops one that has no        *)
(* readable kick-off, no requested competition or not two sides.           *)
Entry == [version: 0 .. MaxVersion, day: KickoffDays, usable: BOOLEAN]

(* changed is history: the fixtures revised since the guard was passed.    *)
Read == [start: Days, seen: SUBSET Fixtures, entry: [Fixtures -> Entry],
         changed: SUBSET Fixtures]

(* The version of a row that is not stored is the one its absence rests on.*)
Row == [stored: BOOLEAN, version: 0 .. MaxVersion, day: KickoffDays]

TypeOK ==
  /\ LeaseTypeOK
  /\ today \in Days
  /\ provider \in [Fixtures -> Entry]
  /\ read \in [Runs -> Read]
  /\ stored \in [Fixtures -> Row]
  /\ overlapped \in [Runs -> BOOLEAN]

-----------------------------------------------------------------------------
(* The days asked of the provider, both ends included, and the kick-offs   *)
(* the delete matches: from midnight of the first to midnight after the    *)
(* last.                                                                   *)

InRange(start, day) == start <= day + PastDays /\ day <= start + FutureDays

DepartsFrom(start, day) ==
  start <= day + PastDays /\ day < start + FutureDays + 1

Lists(start, e) == e.usable /\ InRange(start, e.day)

NotRead == [version |-> 0, day |-> Elsewhere, usable |-> FALSE]

NothingRead(start) == [start |-> start, seen |-> {},
                       entry |-> [f \in Fixtures |-> NotRead], changed |-> {}]

Init ==
  /\ LeaseInit
  /\ today = 0
  /\ \E day \in [Fixtures -> KickoffDays] :
       provider = [f \in Fixtures |-> [version |-> 0, day |-> day[f], usable |-> TRUE]]
  /\ read = [r \in Runs |-> NothingRead(0)]
  /\ stored = [f \in Fixtures |-> [stored |-> FALSE, version |-> 0, day |-> Elsewhere]]
  /\ overlapped = [r \in Runs |-> FALSE]

dataVars == <<today, provider, read, stored, overlapped>>

-----------------------------------------------------------------------------
(* The world: midnight, and the provider's own changes (a postponement, a  *)
(* result, a delisting, an entry that becomes malformed).                  *)

NextDay ==
  /\ today < LastDay
  /\ today' = today + 1
  /\ UNCHANGED <<lock, run, provider, read, stored, overlapped>>

Revise(f, day, usable) ==
  /\ provider[f].version < MaxVersion
  /\ usable \/ day # Elsewhere
  /\ provider' = [provider EXCEPT ![f] =
                    [version |-> @.version + 1, day |-> day, usable |-> usable]]
  /\ read' = [r \in Runs |->
       IF run[r].step = "working" THEN [read[r] EXCEPT !.changed = @ \cup {f}]
       ELSE read[r]]
  /\ UNCHANGED <<lock, run, today, stored, overlapped>>

-----------------------------------------------------------------------------
(* The guard.                                                              *)

(* Mutant: the window opens a day late.                                    *)
StartTomorrow(r) ==
  /\ Call(r)
  /\ read' = [read EXCEPT ![r] = NothingRead(today + 1)]
  /\ UNCHANGED <<today, provider, stored, overlapped>>

Start(r) ==
  /\ Call(r)
  /\ read' = [read EXCEPT ![r] = NothingRead(today)]
  /\ UNCHANGED <<today, provider, stored, overlapped>>

Enter(r, l) ==
  /\ Acquire(r, l)
  /\ overlapped' = [q \in Runs |->
       IF q = r THEN \E p \in Runs \ {r} : Active(p) ELSE overlapped[q] \/ Active(q)]
  /\ UNCHANGED <<today, provider, read, stored>>

(* What an execution read and how it went is gone with the execution.      *)
Forget(r) ==
  /\ read' = [read EXCEPT ![r] = NothingRead(0)]
  /\ overlapped' = [overlapped EXCEPT ![r] = FALSE]
  /\ UNCHANGED <<today, provider, stored>>

Send(r) == (Publish(r) \/ Discard(r)) /\ UNCHANGED dataVars

Leave(r) ==
  /\ Skip(r) \/ AcquireFails(r) \/ Free(r) \/ ReleaseFails(r) \/ Crash(r)
  /\ Forget(r)

Check(r) ==
  /\ ReadBack(r)
  /\ IF run'[r].step = "freeing" THEN UNCHANGED dataVars ELSE Forget(r)

Expire == ExpireLock /\ UNCHANGED dataVars

-----------------------------------------------------------------------------
(* The work.                                                               *)

(* Mutant: the fetch does not wait for the guard.                          *)
ReadEntryUnguarded(r, f) ==
  /\ run[r].step \in {"called", "working"}
  /\ f \notin read[r].seen
  /\ read' = [read EXCEPT ![r].seen = @ \cup {f}, ![r].entry[f] = provider[f]]
  /\ UNCHANGED <<lock, run, today, provider, stored, overlapped>>

(* One entry at a time, in whatever order the provider paginates them.     *)
ReadEntry(r, f) ==
  /\ run[r].step = "working"
  /\ f \notin read[r].seen
  /\ read' = [read EXCEPT ![r].seen = @ \cup {f}, ![r].entry[f] = provider[f]]
  /\ UNCHANGED <<lock, run, today, provider, stored, overlapped>>

(* Mutant: the rows the range no longer lists are kept.                    *)
ReconciledUpsertOnly(r) ==
  [f \in Fixtures |->
     LET e == read[r].entry[f]
     IN IF Lists(read[r].start, e)
        THEN [stored |-> TRUE, version |-> e.version, day |-> e.day]
        ELSE stored[f]]

(* The upsert, then _delete_departed_fixtures.                             *)
Reconciled(r) ==
  LET start == read[r].start
  IN [f \in Fixtures |->
       LET e == read[r].entry[f]
       IN IF Lists(start, e)
          THEN [stored |-> TRUE, version |-> e.version, day |-> e.day]
          ELSE IF stored[f].stored /\ DepartsFrom(start, stored[f].day)
          THEN [stored[f] EXCEPT !.stored = FALSE, !.version = e.version]
          ELSE stored[f]]

(* Mutant: a truncated read returns the entries it managed to read.        *)
StoreTruncated(r) ==
  /\ EndWork(r)
  /\ stored' = Reconciled(r)
  /\ UNCHANGED <<today, provider, read, overlapped>>

Store(r) ==
  /\ read[r].seen = Fixtures
  /\ EndWork(r)
  /\ stored' = Reconciled(r)
  /\ UNCHANGED <<today, provider, read, overlapped>>

(* SportmonksError out of the fetch, or an error that rolls the            *)
(* transaction back: nothing is written.                                   *)
Fail(r) == EndWork(r) /\ UNCHANGED dataVars

-----------------------------------------------------------------------------

Next ==
  \/ NextDay
  \/ Expire
  \/ \E f \in Fixtures, day \in KickoffDays, usable \in BOOLEAN : Revise(f, day, usable)
  \/ \E r \in Runs :
       \/ Send(r) \/ Start(r)
       \/ \E l \in Leases : Enter(r, l)
       \/ \E f \in Fixtures : ReadEntry(r, f)
       \/ Store(r) \/ Fail(r)
       \/ Check(r) \/ Leave(r)

(* Beat sends the task again and again, workers take messages, keys time   *)
(* out, and every kind of step of a run succeeds now and then: the         *)
(* provider is not down and the workers are not killed for ever.           *)
Fairness ==
  /\ WF_vars(NextDay) /\ WF_vars(Expire)
  /\ \A r \in Runs : WF_vars(Send(r)) /\ WF_vars(Check(r) \/ Leave(r))
  /\ SF_vars(\E r \in Runs : Start(r))
  /\ SF_vars(\E r \in Runs, l \in Leases : Enter(r, l))
  /\ \A S \in SUBSET Fixtures :
       SF_vars(\E r \in Runs, f \in Fixtures : read[r].seen = S /\ ReadEntry(r, f))
  /\ SF_vars(\E r \in Runs : Store(r))

Spec == Init /\ [][Next]_vars /\ Fairness

-----------------------------------------------------------------------------
(* Properties.                                                             *)

(* A run that overlapped no other never takes the table back: what the     *)
(* table says of a fixture is never older than what it said before.        *)
NoRegressionWithoutOverlap ==
  [][\A f \in Fixtures :
       stored'[f].version < stored[f].version =>
         \E r \in Runs : Store(r) /\ overlapped[r]]_vars

(* Whatever changes under a paginated read, a fixture the provider left    *)
(* alone while the run was past the guard is stored exactly as the         *)
(* provider lists it, and is not in the range when it is not listed there. *)
UntouchedFixturesAreExact ==
  [][\A r \in Runs : Store(r) =>
       \A f \in Fixtures \ read[r].changed :
         LET start == read[r].start
             p == provider[f]
         IN IF Lists(start, p)
            THEN stored'[f] = [stored |-> TRUE, version |-> p.version, day |-> p.day]
            ELSE ~(stored'[f].stored /\ InRange(start, stored'[f].day))]_vars

(* Once the provider stops changing and the calendar stands, the window of *)
(* the day is and stays what the provider lists, whatever runs failed,     *)
(* overlapped, crashed or lost their lease before.                         *)
WindowIsCurrent ==
  \A f \in Fixtures :
    IF Lists(today, provider[f])
    THEN stored[f] = [stored |-> TRUE, version |-> provider[f].version,
                      day |-> provider[f].day]
    ELSE ~(stored[f].stored /\ InRange(today, stored[f].day))

TableConverges == <>[]WindowIsCurrent

=============================================================================
