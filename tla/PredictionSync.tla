--------------------------- MODULE PredictionSync ---------------------------
(***************************************************************************)
(* The prediction table under the transactions that write it: the upserts  *)
(* of the prediction synchronization, of which any may overlap because the *)
(* lease of SyncLease does not exclude it, and the cascade of the fixture  *)
(* synchronization, of which one is open at a time.                        *)
(*                                                                         *)
(* PostgreSQL at READ COMMITTED: a statement sees what was committed when  *)
(* it started, takes the lock of each row it writes and keeps it to the    *)
(* end of its transaction, waits for a row another transaction holds, and  *)
(* then looks at the row again.  Django declares its foreign keys          *)
(* DEFERRABLE INITIALLY DEFERRED: both ends check them when they commit.   *)
(*                                                                         *)
(* A row is a primary key of a fixture and a selection; its value is the   *)
(* stamp of the run that wrote it, which is that run.                      *)
(***************************************************************************)
EXTENDS Naturals

CONSTANTS
  Runs,          \* executions of upsert_fixture_predictions
  Fixtures,      \* provider identifiers
  Selections,    \* (market, selection) pairs, by their rank
  MaxKey,        \* bound on the primary keys of fixtures
  Earlier,       \* the stamp of the rows stored before
  None,          \* no row
  Sync,          \* the transaction of the fixture synchronization
  Nobody         \* no open transaction

ASSUME NamesAssumption ==
  /\ Selections \subseteq Nat
  /\ MaxKey \in Nat \ {0}
  /\ Earlier \notin Runs /\ None \notin Runs \cup {Earlier}
  /\ Sync \notin Runs /\ Nobody \notin Runs \cup {Sync}

VARIABLES
  key,           \* primary key of each stored fixture, 0 for the others
  lastKey,       \* the sequence of primary keys
  table,         \* the committed rows
  holder,        \* the open transaction that wrote a row
  draft,         \* what it wrote
  writer,        \* the transactions of the runs
  sync,          \* the transaction of the fixture synchronization
  met            \* history: pairs of runs whose transactions overlapped

vars == <<key, lastKey, table, holder, draft, writer, sync, met>>

Keys == 1 .. MaxKey
Rows == Keys \X Selections
Stamps == Runs \cup {Earlier}
Transactions == Runs \cup {Sync}

(* scope: the keys the delete is about.  pending: the rows the upsert has  *)
(* still to write.  victims: those the delete has still to.  History, kept *)
(* after the end: covered, the keys the fixtures of the read had, and      *)
(* offered, the rows of what it published.                                 *)
Writer ==
  [step: {"ready", "upserting", "deleting", "done"}, scope: SUBSET Keys,
   pending: SUBSET Rows, victims: SUBSET Rows, covered: SUBSET Keys,
   offered: SUBSET Rows]

(* departed: the keys to delete.  listed: the keys of the fixtures to add. *)
FixtureSync ==
  [step: {"idle", "cascading", "departed"}, departed: SUBSET Keys,
   listed: [Fixtures -> Keys \cup {0}], victims: SUBSET Rows]

TypeOK ==
  /\ key \in [Fixtures -> Keys \cup {0}]
  /\ lastKey \in Keys \cup {0}
  /\ table \in [Rows -> Stamps \cup {None}]
  /\ holder \in [Rows -> Transactions \cup {Nobody}]
  /\ draft \in [Rows -> Stamps \cup {None}]
  /\ writer \in [Runs -> Writer]
  /\ sync \in FixtureSync
  /\ met \subseteq SUBSET Runs

StoredKeys == {key[f] : f \in Fixtures} \ {0}
RowsOf(keys) == {r \in Rows : r[1] \in keys}
HeldBy(t) == {r \in Rows : holder[r] = t}
Open(w) == writer[w].step \in {"upserting", "deleting"}

(* The natural key order.                                                  *)
Before(r, q) == r[1] < q[1] \/ (r[1] = q[1] /\ r[2] < q[2])

(* Mutant: the rows are offered in the order of the provider's pages.      *)
IsOffered(r, S) == r \in S

IsFirst(r, S) == r \in S /\ \A q \in S \ {r} : Before(r, q)

Ready == [step |-> "ready", scope |-> {}, pending |-> {}, victims |-> {},
          covered |-> {}, offered |-> {}]
Idle == [step |-> "idle", departed |-> {}, listed |-> [f \in Fixtures |-> 0],
         victims |-> {}]

(* Primary keys are unique.                                                *)
Distinct(keys) == \A f, g \in Fixtures : f # g /\ keys[f] # 0 => keys[f] # keys[g]

Init ==
  /\ key \in [Fixtures -> Keys \cup {0}]
  /\ Distinct(key)
  /\ lastKey \in StoredKeys \cup {0}
  /\ \A f \in Fixtures : key[f] <= lastKey
  /\ table \in [Rows -> {Earlier, None}]
  /\ \A r \in Rows : table[r] # None => r[1] \in StoredKeys
  /\ holder = [r \in Rows |-> Nobody]
  /\ draft = [r \in Rows |-> None]
  /\ writer = [w \in Runs |-> Ready]
  /\ sync = Idle
  /\ met = {}

-----------------------------------------------------------------------------
(* The end of a transaction: its rows are free, and what it deleted is no  *)
(* longer there for a delete that waits for it.                            *)

Free(t) ==
  /\ holder' = [r \in Rows |-> IF holder[r] = t THEN Nobody ELSE holder[r]]
  /\ draft' = [r \in Rows |-> IF holder[r] = t THEN None ELSE draft[r]]

Done(w) == [writer[w] EXCEPT !.step = "done", !.pending = {}, !.victims = {}]

RollBack(t) ==
  /\ Free(t)
  /\ writer' = [w \in Runs |-> IF w = t THEN Done(w) ELSE writer[w]]
  /\ sync' = IF t = Sync THEN Idle ELSE sync
  /\ UNCHANGED <<key, lastKey, table, met>>

Persist(t) ==
  LET deleted == {r \in HeldBy(t) : draft[r] = None}
  IN /\ Free(t)
     /\ table' = [r \in Rows |-> IF holder[r] = t THEN draft[r] ELSE table[r]]
     /\ writer' = [w \in Runs |->
          IF w = t THEN Done(w) ELSE [writer[w] EXCEPT !.victims = @ \ deleted]]
     /\ sync' = IF t = Sync THEN Idle ELSE [sync EXCEPT !.victims = @ \ deleted]

-----------------------------------------------------------------------------
(* upsert_fixture_predictions.                                             *)

StoredAmong(read) == {f \in read : key[f] # 0}

(* Mutant: the scope is derived from the probabilities, not from the read. *)
ScopeOfPublished(read, published) ==
  {key[f] : f \in {g \in StoredAmong(read) : published[g] # {}}}

(* Mutant: fixtures that are not stored are not skipped.                   *)
ScopeUnskipped(read, published) == {key[f] : f \in read}

(* _resolve_fixture_keys: the stored fixtures among those read.            *)
Scope(read, published) == {key[f] : f \in StoredAmong(read)}

(* _prediction_rows.                                                       *)
RowsToOffer(read, published) ==
  {r \in Rows : \E f \in StoredAmong(read) : r[1] = key[f] /\ r[2] \in published[f]}

(* The transaction opens with the resolution.  The window was read before  *)
(* it: any fixtures, each with any selections.                             *)
Resolve(w, read, published) ==
  /\ writer[w].step = "ready"
  /\ writer' = [writer EXCEPT ![w] =
       [step |-> "upserting", scope |-> Scope(read, published),
        pending |-> RowsToOffer(read, published), victims |-> {},
        covered |-> {key[f] : f \in StoredAmong(read)},
        offered |-> RowsToOffer(read, published)]]
  /\ met' = met \cup {{w, x} : x \in {y \in Runs : Open(y)}}
  /\ UNCHANGED <<key, lastKey, table, holder, draft, sync>>

(* bulk_create, in the order of the natural key, in batches.               *)
UpsertRow(w, r) ==
  /\ writer[w].step = "upserting"
  /\ IsFirst(r, writer[w].pending)
  /\ holder[r] = Nobody
  /\ holder' = [holder EXCEPT ![r] = w]
  /\ draft' = [draft EXCEPT ![r] = w]
  /\ writer' = [writer EXCEPT ![w].pending = @ \ {r}]
  /\ UNCHANGED <<key, lastKey, table, sync, met>>

(* Mutant: rows with a smaller stamp, and the clock was stepped back since *)
(* the other run.                                                          *)
OlderRows(w) ==
  {r \in RowsOf(writer[w].scope) : table[r] = Earlier /\ holder[r] # w}

(* What the delete sees: the rows in scope with another stamp than w.      *)
StaleRows(w) ==
  {r \in RowsOf(writer[w].scope) : table[r] # None /\ holder[r] # w}

StartDelete(w) ==
  /\ writer[w].step = "upserting"
  /\ writer[w].pending = {}
  /\ writer' = [writer EXCEPT ![w].step = "deleting", ![w].victims = StaleRows(w)]
  /\ UNCHANGED <<key, lastKey, table, holder, draft, sync, met>>

(* In the order of whatever plan PostgreSQL chose.                         *)
DeleteRow(w, r) ==
  /\ r \in writer[w].victims
  /\ holder[r] = Nobody
  /\ holder' = [holder EXCEPT ![r] = w]
  /\ draft' = [draft EXCEPT ![r] = None]
  /\ writer' = [writer EXCEPT ![w].victims = @ \ {r}]
  /\ UNCHANGED <<key, lastKey, table, sync, met>>

(* The check at commit is of the parents of inserted rows: an update that  *)
(* leaves the foreign key alone queues none.  It waits for a delete of the *)
(* parent to end.                                                          *)
ParentsToCheck(w) == {r[1] : r \in {q \in HeldBy(w) : draft[q] # None /\ table[q] = None}}

Departing == IF sync.step = "departed" THEN sync.departed ELSE {}

(* Mutant: no constraint in the database.                                  *)
UncheckedParents(w) == {}

MissingParents(w) == ParentsToCheck(w) \ StoredKeys

AtEnd(w) == writer[w].step = "deleting" /\ writer[w].victims = {}

Commit(w) ==
  /\ AtEnd(w)
  /\ MissingParents(w) = {}
  /\ ParentsToCheck(w) \cap Departing = {}
  /\ Persist(w)
  /\ UNCHANGED <<key, lastKey, met>>

(* IntegrityError: the whole call is rolled back.                          *)
ParentGone(w) ==
  /\ AtEnd(w)
  /\ MissingParents(w) # {}
  /\ RollBack(w)

-----------------------------------------------------------------------------
(* upsert_fixtures, as far as it reaches the predictions.  Django collects *)
(* the departed fixtures, deletes their predictions, then the fixtures.    *)

(* The new fixtures take keys of the sequence, which no rollback returns.  *)
BeginSync(departed, listed) ==
  /\ sync.step = "idle"
  /\ Distinct(listed)
  /\ \A f \in Fixtures : listed[f] # 0 => key[f] = 0 /\ listed[f] > lastKey
  /\ lastKey' \in {lastKey} \cup {listed[f] : f \in Fixtures}
  /\ \A f \in Fixtures : lastKey' >= lastKey /\ lastKey' >= listed[f]
  /\ sync' = [step |-> "cascading", departed |-> departed, listed |-> listed,
              victims |-> {r \in RowsOf(departed) : table[r] # None}]
  /\ UNCHANGED <<key, table, holder, draft, writer, met>>

CascadeRow(r) ==
  /\ r \in sync.victims
  /\ holder[r] = Nobody
  /\ holder' = [holder EXCEPT ![r] = Sync]
  /\ draft' = [draft EXCEPT ![r] = None]
  /\ sync' = [sync EXCEPT !.victims = @ \ {r}]
  /\ UNCHANGED <<key, lastKey, table, writer, met>>

DeleteParents ==
  /\ sync.step = "cascading"
  /\ sync.victims = {}
  /\ sync' = [sync EXCEPT !.step = "departed"]
  /\ UNCHANGED <<key, lastKey, table, holder, draft, writer, met>>

(* The check at commit looks for committed children, and waits for one     *)
(* another transaction is deleting.                                        *)
Children == {r \in RowsOf(Departing) : table[r] # None /\ holder[r] # Sync}
BeingDeleted == {r \in Rows : holder[r] \in Runs /\ draft[r] = None}

CommitSync ==
  /\ sync.step = "departed"
  /\ Children = {}
  /\ key' = [f \in Fixtures |->
       IF key[f] = 0 THEN sync.listed[f]
       ELSE IF key[f] \in sync.departed THEN 0 ELSE key[f]]
  /\ Persist(Sync)
  /\ UNCHANGED <<lastKey, met>>

(* IntegrityError: the whole window is rolled back.                        *)
ChildLeft ==
  /\ Children \ BeingDeleted # {}
  /\ RollBack(Sync)

-----------------------------------------------------------------------------
(* Who waits for whom.                                                     *)

WaitsFor(t, u) ==
  \/ \E r \in HeldBy(u) :
       \/ t \in Runs /\ (IsFirst(r, writer[t].pending) \/ r \in writer[t].victims)
       \/ t = Sync /\ r \in sync.victims \cup (Children \cap BeingDeleted)
  \/ t \in Runs /\ u = Sync /\ AtEnd(t) /\ ParentsToCheck(t) \cap Departing # {}

AllWait(S) == S # {} /\ \A t \in S : \E u \in S \ {t} : WaitsFor(t, u)

(* A cycle, and nobody who only waits for it.                              *)
Deadlocked(S) == AllWait(S) /\ \A Q \in SUBSET S : AllWait(Q) => Q = S

(* PostgreSQL ends one transaction of a cycle (OperationalError).          *)
BreakDeadlock(S, t) == t \in S /\ Deadlocked(S) /\ RollBack(t)

(* Any other error, or the loss of the worker, while it is open.           *)
Fail(t) ==
  /\ IF t = Sync THEN sync.step # "idle" ELSE Open(t)
  /\ RollBack(t)

Step(w) ==
  \/ \E r \in Rows : UpsertRow(w, r)
  \/ StartDelete(w)
  \/ \E r \in Rows : DeleteRow(w, r)
  \/ Commit(w)
  \/ ParentGone(w)

SyncStep ==
  \/ \E r \in Rows : CascadeRow(r)
  \/ DeleteParents
  \/ CommitSync
  \/ ChildLeft

Next ==
  \/ \E w \in Runs, read \in SUBSET Fixtures, published \in [Fixtures -> SUBSET Selections] :
       Resolve(w, read, published)
  \/ \E w \in Runs : Step(w)
  \/ \E departed \in SUBSET StoredKeys, listed \in [Fixtures -> Keys \cup {0}] :
       BeginSync(departed, listed)
  \/ SyncStep
  \/ \E S \in SUBSET Transactions, t \in Transactions : BreakDeadlock(S, t)
  \/ \E t \in Transactions : Fail(t)

Spec == Init /\ [][Next]_vars

-----------------------------------------------------------------------------
(* Properties.                                                             *)

(* No probability outlives its fixture, whichever of the two transactions  *)
(* commits first.                                                          *)
NoOrphans == \A r \in Rows : table[r] # None => r[1] \in StoredKeys

(* A commit leaves of every fixture in the read what the read published    *)
(* and nothing else, but for rows of runs that were open beside it; it     *)
(* touches no other fixture, because it learned nothing about it.          *)
CommitLeavesTheRead ==
  [][\A w \in Runs : Commit(w) => \A r \in Rows :
       IF r[1] \in writer[w].covered
       THEN IF r \in writer[w].offered THEN table'[r] = w
            ELSE table'[r] = None \/ {w, table'[r]} \in met
       ELSE table'[r] = table[r]]_vars

(* The probabilities of a fixture are those of one read, except where two  *)
(* runs were open at once and published no selection of it in common: then *)
(* neither waited for the other, and neither saw the rows of the other.    *)
MixedOnlyWhenDisjoint ==
  \A r, q \in Rows :
    LET x == table[r]
        y == table[q]
    IN r[1] = q[1] /\ x # y /\ None \notin {x, y} =>
         /\ {x, y} \in met
         /\ writer[x].offered \cap writer[y].offered \cap RowsOf({r[1]}) = {}

(* What the sorting of the rows achieves: as long as transactions only     *)
(* insert, none waits in a cycle, however many rows they share.  A cycle   *)
(* has a delete in it, that of the reconciliation or the cascade.          *)
DeadlocksNeedADelete ==
  \A S \in SUBSET Transactions :
    Deadlocked(S) => Sync \in S \/ \E w \in S : writer[w].step = "deleting"

(* "The rows are then sorted by natural key so the lock order is           *)
(* deterministic across runs": two runs never wait for each other.         *)
RunsNeverDeadlock == \A w, x \in Runs : w # x => ~Deadlocked({w, x})

=============================================================================
