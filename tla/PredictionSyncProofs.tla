------------------------ MODULE PredictionSyncProofs ------------------------
(***************************************************************************)
(* Proofs about the prediction table, for any number of runs, fixtures,    *)
(* selections and keys.                                                    *)
(***************************************************************************)
EXTENDS PredictionSync, TLAPS

(* A row is locked by a transaction that is open; a run locks rows of the  *)
(* fixtures it read, and what it wrote there is what it offered.           *)
Locks(r) ==
  /\ holder[r] \in Runs => Open(holder[r]) /\ r[1] \in writer[holder[r]].covered
  /\ draft[r] # None => /\ holder[r] \in Runs
                        /\ draft[r] = holder[r]
                        /\ r \in writer[holder[r]].offered

(* A run holds whatever it offered and no longer has to write.             *)
Progressing(w) ==
  /\ writer[w].step # "upserting" => writer[w].pending = {}
  /\ writer[w].step # "deleting" => writer[w].victims = {}
  /\ Open(w) =>
       /\ writer[w].scope = writer[w].covered
       /\ writer[w].offered \subseteq RowsOf(writer[w].covered)
       /\ writer[w].pending \subseteq writer[w].offered
       /\ writer[w].victims \subseteq RowsOf(writer[w].covered)
       /\ \A r \in writer[w].offered \ writer[w].pending : holder[r] = w /\ draft[r] = w

Met(w, x) == w # x /\ Open(w) /\ Open(x) => {w, x} \in met

Written(r) == table[r] \in Runs => writer[table[r]].step = "done"

(* Two runs that were open at once and offered no row of the key in common.*)
Beside(w, x, k) ==
  /\ {w, x} \in met
  /\ writer[w].offered \cap writer[x].offered \cap RowsOf({k}) = {}

(* What the delete of a run does not reach was committed beside it.        *)
Reconciling(w) ==
  writer[w].step = "deleting" =>
    \A r \in RowsOf(writer[w].covered) \ writer[w].victims :
      holder[r] # w /\ table[r] # None => Beside(w, table[r], r[1])

Inv ==
  /\ TypeOK
  /\ \A r \in Rows : Locks(r) /\ Written(r)
  /\ \A w \in Runs : Progressing(w) /\ Reconciling(w)
  /\ \A w, x \in Runs : Met(w, x)
  /\ NoOrphans
  /\ MixedOnlyWhenDisjoint

-----------------------------------------------------------------------------

LEMMA Names ==
  /\ Earlier \notin Runs /\ None \notin Runs /\ None # Earlier /\ Sync \notin Runs
  /\ Nobody \notin Runs /\ Nobody # Sync
  /\ \A k \in Keys : k \in Nat /\ k # 0
  /\ \A r \in Rows : r[1] \in Keys /\ r[2] \in Selections
  /\ \A keys : RowsOf(keys) \subseteq Rows
  /\ 0 \notin Keys
  BY NamesAssumption DEF Keys, Rows, RowsOf

LEMMA InitInv == Init => Inv
  <1> SUFFICES ASSUME Init PROVE Inv
    OBVIOUS
  <1> USE Names
  <1>1. Ready \in Writer /\ Idle \in FixtureSync
    BY DEF Ready, Idle, Writer, FixtureSync
  <1>2. lastKey \in Keys \cup {0}
    BY DEF Init, StoredKeys
  <1>3. TypeOK
    BY <1>1, <1>2 DEF Init, TypeOK, Stamps, Transactions
  <1>4. \A r \in Rows : Locks(r) /\ Written(r)
    BY DEF Init, Locks, Written
  <1>5. \A w \in Runs : Progressing(w) /\ Reconciling(w)
    BY DEF Init, Ready, Progressing, Reconciling, Open
  <1>6. \A w, x \in Runs : Met(w, x)
    BY DEF Init, Ready, Met, Open
  <1>7. NoOrphans
    BY DEF Init, NoOrphans
  <1>8. MixedOnlyWhenDisjoint
    BY DEF Init, MixedOnlyWhenDisjoint
  <1>9. QED  BY <1>3, <1>4, <1>5, <1>6, <1>7, <1>8 DEF Inv

(* The transaction of a run opens.                                         *)
LEMMA ResolveInv ==
  ASSUME Inv, NEW w \in Runs, NEW read \in SUBSET Fixtures,
         NEW published \in [Fixtures -> SUBSET Selections], Resolve(w, read, published)
  PROVE  Inv'
  <1> USE Names
  <1> DEFINE rows == RowsToOffer(read, published)
             keys == {key[f] : f \in StoredAmong(read)}
  <1>1. rows \subseteq RowsOf(keys) /\ keys \subseteq Keys /\ rows \subseteq Rows
    BY DEF Inv, TypeOK, RowsToOffer, RowsOf, StoredAmong
  <1>2. /\ writer \in [Runs -> Writer]
        /\ writer' = [writer EXCEPT ![w] =
             [step |-> "upserting", scope |-> keys, pending |-> rows, victims |-> {},
              covered |-> keys, offered |-> rows]]
        /\ UNCHANGED <<key, lastKey, table, holder, draft, sync>>
        /\ writer[w].step = "ready" /\ met \subseteq met'
    BY DEF Resolve, Scope, Inv, TypeOK
  <1> HIDE DEF rows, keys
  <1>3. /\ writer'[w] = [step |-> "upserting", scope |-> keys, pending |-> rows,
                         victims |-> {}, covered |-> keys, offered |-> rows]
        /\ \A x \in Runs \ {w} : writer'[x] = writer[x]
        /\ ~Open(w)
    BY <1>2 DEF Open
  <1>4. TypeOK'
    <2>1. writer' \in [Runs -> Writer]
      BY <1>1, <1>2 DEF Writer
    <2>2. met' \subseteq SUBSET Runs
      BY DEF Resolve, Inv, TypeOK
    <2>3. QED  BY <1>2, <2>1, <2>2 DEF Inv, TypeOK
  <1>5. ASSUME NEW r \in Rows PROVE Locks(r)' /\ Written(r)'
    <2>1. Locks(r) /\ Written(r)
      BY DEF Inv
    <2>2. holder[r] # w /\ table[r] # w
      BY <1>2, <1>3, <2>1 DEF Locks, Written
    <2>3. QED  BY <1>2, <1>3, <2>1, <2>2 DEF Locks, Written, Open
  <1>6. ASSUME NEW x \in Runs PROVE Progressing(x)'
    <2>1. CASE x = w
      BY <1>1, <1>3, <2>1 DEF Progressing
    <2>2. CASE x # w
      BY <1>2, <1>3, <2>2 DEF Inv, Progressing, Open
    <2>3. QED  BY <2>1, <2>2
  <1>7. ASSUME NEW x \in Runs, NEW y, NEW k, Beside(x, y, k), x # w, y # w, y \in Runs
        PROVE  Beside(x, y, k)'
    BY <1>2, <1>3, <1>7 DEF Beside, RowsOf
  <1>8. ASSUME NEW x \in Runs, NEW r \in Rows, table[r] # None, Beside(x, table[r], r[1]), x # w
        PROVE  Beside(x, table[r], r[1])'
    <2>1. table[r] \in Runs
      BY <1>8 DEF Beside, Inv, TypeOK
    <2>2. table[r] # w
      BY <1>2, <2>1 DEF Inv, Written
    <2>3. QED  BY <1>2, <1>7, <1>8, <2>1, <2>2
  <1>9. ASSUME NEW x \in Runs PROVE Reconciling(x)'
    <2>1. CASE x = w
      BY <1>3, <2>1 DEF Reconciling
    <2>2. CASE x # w
      BY <1>2, <1>3, <1>8, <2>2 DEF Inv, Reconciling, RowsOf
    <2>3. QED  BY <2>1, <2>2
  <1>10. ASSUME NEW x \in Runs, NEW y \in Runs PROVE Met(x, y)'
    <2>1. Met(x, y)
      BY DEF Inv
    <2>2. x # w /\ Open(x) => {w, x} \in met' /\ {x, w} \in met'
      BY DEF Resolve
    <2>3. y # w /\ Open(y) => {w, y} \in met' /\ {y, w} \in met'
      BY DEF Resolve
    <2>4. \A z \in Runs \ {w} : Open(z)' <=> Open(z)
      BY <1>3 DEF Open
    <2>5. {x, y} \in met => {x, y} \in met'
      BY <1>2
    <2>6. SUFFICES ASSUME x # y, Open(x)', Open(y)' PROVE {x, y} \in met'
      BY DEF Met
    <2>7. CASE x = w
      BY <2>3, <2>4, <2>6, <2>7
    <2>8. CASE y = w
      BY <2>2, <2>4, <2>6, <2>8
    <2>9. CASE x # w /\ y # w
      BY <2>1, <2>4, <2>5, <2>6, <2>9 DEF Met
    <2>10. QED  BY <2>7, <2>8, <2>9
  <1>11. NoOrphans'
    BY <1>2 DEF Inv, NoOrphans, StoredKeys
  <1>12. MixedOnlyWhenDisjoint'
    <2> SUFFICES ASSUME NEW r \in Rows, NEW q \in Rows, r[1] = q[1],
                        table[r] # table[q], table[r] # None, table[q] # None
                 PROVE  Beside(table[r], table[q], r[1])'
      BY <1>2 DEF MixedOnlyWhenDisjoint, Beside
    <2>1. Beside(table[r], table[q], r[1])
      BY DEF Inv, MixedOnlyWhenDisjoint, Beside
    <2>2. table[r] \in Runs /\ table[q] \in Runs
      BY <2>1 DEF Beside, Inv, TypeOK
    <2>3. table[r] # w /\ table[q] # w
      BY <1>2, <2>2 DEF Inv, Written
    <2>4. QED  BY <1>2, <1>7, <2>1, <2>2, <2>3 DEF Beside
  <1>13. QED
    BY <1>4, <1>5, <1>6, <1>9, <1>10, <1>11, <1>12 DEF Inv

-----------------------------------------------------------------------------
(* Steps inside a transaction leave the committed tables and the history.  *)

(* What such a step has to keep: the row locks, the progress of one run,   *)
(* and what its delete does not reach.                                     *)
LEMMA InnerInv ==
  ASSUME Inv, TypeOK', UNCHANGED <<key, table, met>>,
         \A x \in Runs : /\ writer'[x].step = writer[x].step \/ (Open(x) /\ Open(x)')
                        /\ writer'[x].covered = writer[x].covered
                        /\ writer'[x].offered = writer[x].offered,
         \A r \in Rows : Locks(r)',
         \A x \in Runs : Progressing(x)' /\ Reconciling(x)'
  PROVE  Inv'
  <1>1. \A x \in Runs : Open(x)' <=> Open(x)
    BY DEF Open
  <1>2. \A r \in Rows : Written(r)'
    BY DEF Inv, Written, Open
  <1>3. \A x, y \in Runs : Met(x, y)'
    BY <1>1 DEF Inv, Met
  <1>4. NoOrphans'
    BY DEF Inv, NoOrphans, StoredKeys
  <1>5. MixedOnlyWhenDisjoint'
    <2> SUFFICES ASSUME NEW r \in Rows, NEW q \in Rows, r[1] = q[1],
                        table[r] # table[q], table[r] # None, table[q] # None
                 PROVE  Beside(table[r], table[q], r[1])'
      BY DEF MixedOnlyWhenDisjoint, Beside
    <2>1. Beside(table[r], table[q], r[1])
      BY DEF Inv, MixedOnlyWhenDisjoint, Beside
    <2>2. table[r] \in Runs /\ table[q] \in Runs
      BY <2>1 DEF Beside, Inv, TypeOK
    <2>3. QED  BY <2>1, <2>2 DEF Beside, RowsOf
  <1>6. QED
    BY <1>2, <1>3, <1>4, <1>5 DEF Inv

(* The upsert writes its next row.                                         *)
LEMMA UpsertInv ==
  ASSUME Inv, NEW w \in Runs, NEW r \in Rows, UpsertRow(w, r)
  PROVE  Inv'
  <1> USE Names DEF UpsertRow, IsFirst
  <1>0. /\ writer \in [Runs -> Writer] /\ holder \in [Rows -> Transactions \cup {Nobody}]
        /\ draft \in [Rows -> Stamps \cup {None}]
    BY DEF Inv, TypeOK
  <1>1. /\ writer'[w].step = "upserting" /\ writer'[w].pending = writer[w].pending \ {r}
        /\ writer'[w].victims = writer[w].victims /\ writer'[w].scope = writer[w].scope
        /\ writer'[w].covered = writer[w].covered
        /\ writer'[w].offered = writer[w].offered
        /\ \A x \in Runs \ {w} : writer'[x] = writer[x]
    BY <1>0 DEF Writer
  <1>2. /\ holder'[r] = w /\ draft'[r] = w
        /\ \A q \in Rows \ {r} : holder'[q] = holder[q] /\ draft'[q] = draft[q]
    BY <1>0
  <1>3. TypeOK'
    <2>1. writer' \in [Runs -> Writer]
      BY <1>0 DEF Writer
    <2>2. holder' \in [Rows -> Transactions \cup {Nobody}] /\ draft' \in [Rows -> Stamps \cup {None}]
      BY <1>0 DEF Transactions, Stamps
    <2>3. QED  BY <2>1, <2>2 DEF Inv, TypeOK
  <1>4. \A x \in Runs : Open(x)' <=> Open(x)
    BY <1>1 DEF Open
  <1>5. Progressing(w) /\ Open(w)
    BY DEF Inv, Open
  <1>6. ASSUME NEW q \in Rows PROVE Locks(q)'
    <2>1. CASE q = r
      <3>1. r \in writer[w].offered /\ r[1] \in writer[w].covered
        BY <1>5 DEF Progressing, RowsOf
      <3>2. QED  BY <1>1, <1>2, <1>4, <1>5, <2>1, <3>1 DEF Locks
    <2>2. CASE q # r
      <3>1. Locks(q)
        BY DEF Inv
      <3>2. \A x \in Runs : /\ writer'[x].covered = writer[x].covered
                            /\ writer'[x].offered = writer[x].offered
        BY <1>1
      <3>3. QED  BY <1>2, <1>4, <2>2, <3>1, <3>2 DEF Locks
    <2>3. QED  BY <2>1, <2>2
  <1>7. ASSUME NEW x \in Runs PROVE Progressing(x)' /\ Reconciling(x)'
    <2>1. Progressing(x) /\ Reconciling(x)
      BY DEF Inv
    <2>2. CASE x = w
      <3>1. Reconciling(x)'
        BY <1>1, <2>2 DEF Reconciling
      <3>2. Progressing(x)'
        <4>1. \A q \in writer'[w].offered \ writer'[w].pending : holder'[q] = w /\ draft'[q] = w
          <5>1. TAKE q \in writer'[w].offered \ writer'[w].pending
          <5>2. CASE q = r
            BY <1>2, <5>2
          <5>3. CASE q # r
            BY <1>1, <1>2, <1>5, <5>3 DEF Progressing, RowsOf
          <5>4. QED  BY <5>2, <5>3
        <4>2. QED  BY <1>1, <1>4, <1>5, <2>2, <4>1 DEF Progressing, RowsOf
      <3>3. QED  BY <3>1, <3>2
    <2>3. CASE x # w
      <3>1. \A q \in Rows : /\ holder[q] = x => holder'[q] = x /\ draft'[q] = draft[q]
                            /\ holder'[q] = x => holder[q] = x
        BY <1>2, <2>3
      <3>2. Progressing(x)'
        BY <1>1, <1>4, <2>1, <2>3, <3>1 DEF Progressing, RowsOf
      <3>3. \A y \in Runs : writer'[y].offered = writer[y].offered
        BY <1>1
      <3>4. \A y, k : Beside(x, y, k) => y \in Runs
        BY DEF Beside, Inv, TypeOK
      <3>5. \A y, k : Beside(x, y, k) => Beside(x, y, k)'
        BY <3>3, <3>4 DEF Beside, RowsOf
      <3>6. Reconciling(x)'
        BY <1>1, <2>1, <2>3, <3>1, <3>5 DEF Reconciling, RowsOf
      <3>7. QED  BY <3>2, <3>6
    <2>4. QED  BY <2>2, <2>3
  <1>8. \A x \in Runs : /\ writer'[x].step = writer[x].step
                        /\ writer'[x].covered = writer[x].covered
                        /\ writer'[x].offered = writer[x].offered
    BY <1>1
  <1>9. QED  BY <1>3, <1>6, <1>7, <1>8, InnerInv

(* What two runs are to each other does not change while neither offers.   *)
LEMMA BesideKept ==
  ASSUME Inv, met \subseteq met', NEW x \in Runs, NEW y, NEW k, Beside(x, y, k),
         \A z \in Runs : writer'[z].offered = writer[z].offered
  PROVE  Beside(x, y, k)'
  <1>1. y \in Runs
    BY DEF Beside, Inv, TypeOK
  <1>2. QED  BY <1>1 DEF Beside, RowsOf

(* The upsert is over: the delete sees every row with another stamp.       *)
LEMMA StartDeleteInv ==
  ASSUME Inv, NEW w \in Runs, StartDelete(w)
  PROVE  Inv'
  <1> USE Names DEF StartDelete
  <1>0. writer \in [Runs -> Writer]
    BY DEF Inv, TypeOK
  <1>1. /\ writer'[w].step = "deleting" /\ writer'[w].pending = {}
        /\ writer'[w].victims = StaleRows(w) /\ writer'[w].scope = writer[w].scope
        /\ writer'[w].covered = writer[w].covered
        /\ writer'[w].offered = writer[w].offered
        /\ \A x \in Runs \ {w} : writer'[x] = writer[x]
    BY <1>0 DEF Writer
  <1>2. Progressing(w) /\ Open(w)
    BY DEF Inv, Open
  <1>3. TypeOK'
    <2>1. writer' \in [Runs -> Writer]
      BY <1>0 DEF Writer, StaleRows, RowsOf
    <2>2. QED  BY <2>1 DEF Inv, TypeOK
  <1>4. \A x \in Runs : Open(x)' <=> Open(x)
    BY <1>1, <1>2 DEF Open
  <1>5. \A x \in Runs : /\ writer'[x].covered = writer[x].covered
                        /\ writer'[x].offered = writer[x].offered
                        /\ writer'[x].step = writer[x].step \/ (Open(x) /\ Open(x)')
    BY <1>1, <1>2, <1>4
  <1>6. \A r \in Rows : Locks(r)'
    BY <1>4, <1>5 DEF Inv, Locks
  <1>7. ASSUME NEW x \in Runs PROVE Progressing(x)' /\ Reconciling(x)'
    <2>1. CASE x = w
      <3>1. Progressing(w)'
        BY <1>1, <1>2, <1>4 DEF Progressing, StaleRows, RowsOf
      <3>2. Reconciling(w)'
        BY <1>1, <1>2 DEF Reconciling, Progressing, StaleRows, RowsOf
      <3>3. QED  BY <2>1, <3>1, <3>2
    <2>2. CASE x # w
      <3>1. Progressing(x)'
        <4>1. Progressing(x) /\ writer'[x] = writer[x] /\ UNCHANGED <<holder, draft>>
          BY <1>1, <2>2 DEF Inv
        <4>2. QED  BY <1>4, <4>1 DEF Progressing, RowsOf
      <3>2. \A y, k : Beside(x, y, k) => Beside(x, y, k)'
        BY <1>5, BesideKept
      <3>3. Reconciling(x)'
        BY <1>1, <2>2, <3>2 DEF Inv, Reconciling, RowsOf
      <3>4. QED  BY <3>1, <3>3
    <2>3. QED  BY <2>1, <2>2
  <1>8. QED  BY <1>3, <1>5, <1>6, <1>7, InnerInv

(* The delete reaches one of them.                                         *)
LEMMA DeleteInv ==
  ASSUME Inv, NEW w \in Runs, NEW r \in Rows, DeleteRow(w, r)
  PROVE  Inv'
  <1> USE Names DEF DeleteRow
  <1>0. /\ writer \in [Runs -> Writer] /\ holder \in [Rows -> Transactions \cup {Nobody}]
        /\ draft \in [Rows -> Stamps \cup {None}]
    BY DEF Inv, TypeOK
  <1>1. /\ writer'[w].step = writer[w].step /\ writer'[w].pending = writer[w].pending
        /\ writer'[w].victims = writer[w].victims \ {r}
        /\ writer'[w].scope = writer[w].scope
        /\ writer'[w].covered = writer[w].covered
        /\ writer'[w].offered = writer[w].offered
        /\ \A x \in Runs \ {w} : writer'[x] = writer[x]
    BY <1>0 DEF Writer
  <1>2. /\ holder'[r] = w /\ draft'[r] = None
        /\ \A q \in Rows \ {r} : holder'[q] = holder[q] /\ draft'[q] = draft[q]
    BY <1>0
  <1>3. TypeOK'
    <2>1. writer' \in [Runs -> Writer]
      BY <1>0 DEF Writer
    <2>2. holder' \in [Rows -> Transactions \cup {Nobody}] /\ draft' \in [Rows -> Stamps \cup {None}]
      BY <1>0 DEF Transactions, Stamps
    <2>3. QED  BY <2>1, <2>2 DEF Inv, TypeOK
  <1>4. /\ \A x \in Runs : Open(x)' <=> Open(x)
        /\ \A x \in Runs : /\ writer'[x].step = writer[x].step
                           /\ writer'[x].covered = writer[x].covered
                           /\ writer'[x].offered = writer[x].offered
    BY <1>1 DEF Open
  <1>5. Progressing(w) /\ Reconciling(w) /\ writer[w].step = "deleting" /\ Open(w)
    BY DEF Inv, Progressing, Open
  <1>6. ASSUME NEW q \in Rows PROVE Locks(q)'
    <2>1. CASE q = r
      BY <1>1, <1>2, <1>4, <1>5, <2>1 DEF Locks, Progressing, RowsOf
    <2>2. CASE q # r
      BY <1>2, <1>4, <2>2 DEF Inv, Locks
    <2>3. QED  BY <2>1, <2>2
  <1>7. ASSUME NEW x \in Runs PROVE Progressing(x)' /\ Reconciling(x)'
    <2>1. Progressing(x) /\ Reconciling(x)
      BY DEF Inv
    <2>2. \A y, k : Beside(x, y, k) => Beside(x, y, k)'
      BY <1>4, BesideKept
    <2>3. \A q \in Rows : Open(x) /\ q \in writer[x].offered \ writer[x].pending => q # r
      BY <1>0, <2>1 DEF Progressing
    <2>4. Progressing(x)'
      <3>1. /\ writer'[x].pending = writer[x].pending /\ writer'[x].scope = writer[x].scope
            /\ writer'[x].victims \subseteq writer[x].victims
        BY <1>1
      <3>2. Open(x) => \A q \in writer[x].offered \ writer[x].pending :
                          holder'[q] = x /\ draft'[q] = x
        BY <1>2, <2>1, <2>3 DEF Progressing, RowsOf
      <3>3. QED  BY <1>4, <2>1, <3>1, <3>2 DEF Progressing, RowsOf
    <2>5. Reconciling(x)'
      <3>1. CASE x = w
        BY <1>1, <1>2, <1>5, <2>2, <3>1 DEF Reconciling, RowsOf
      <3>2. CASE x # w
        BY <1>1, <1>2, <2>1, <2>2, <3>2 DEF Reconciling, RowsOf
      <3>3. QED  BY <3>1, <3>2
    <2>6. QED  BY <2>4, <2>5
  <1>8. QED  BY <1>3, <1>4, <1>6, <1>7, InnerInv

(* The fixture synchronization: it locks rows that nobody holds, and       *)
(* leaves the runs alone.                                                  *)
LEMMA CascadeInv ==
  ASSUME Inv, sync' \in FixtureSync, lastKey' \in Keys \cup {0},
         UNCHANGED <<key, table, writer, met>>, NEW S \in SUBSET Rows,
         \A r \in S : holder[r] = Nobody,
         holder' = [r \in Rows |-> IF r \in S THEN Sync ELSE holder[r]],
         draft' = [r \in Rows |-> IF r \in S THEN None ELSE draft[r]]
  PROVE  Inv'
  <1> USE Names
  <1>1. TypeOK'
    BY DEF Inv, TypeOK, Transactions
  <1>2. \A x \in Runs : Open(x)' <=> Open(x)
    BY DEF Open
  <1>3. \A r \in Rows : Locks(r)'
    BY <1>2 DEF Inv, Locks
  <1>4. ASSUME NEW x \in Runs PROVE Progressing(x)' /\ Reconciling(x)'
    <2>1. Progressing(x) /\ Reconciling(x)
      BY DEF Inv
    <2>2. \A r \in Rows : holder'[r] = x <=> holder[r] = x
      OBVIOUS
    <2>3. \A r \in Rows : holder[r] = x => draft'[r] = draft[r]
      OBVIOUS
    <2>4. \A y, k : Beside(x, y, k) => Beside(x, y, k)'
      BY BesideKept
    <2>5. Progressing(x)'
      BY <1>2, <2>1, <2>2, <2>3 DEF Progressing, RowsOf
    <2>6. Reconciling(x)'
      BY <2>1, <2>2, <2>4 DEF Reconciling, RowsOf
    <2>7. QED  BY <2>5, <2>6
  <1>5. QED  BY <1>1, <1>3, <1>4, InnerInv

LEMMA SyncInnerInv ==
  ASSUME Inv,
         \/ \E departed \in SUBSET StoredKeys, listed \in [Fixtures -> Keys \cup {0}] :
              BeginSync(departed, listed)
         \/ DeleteParents
         \/ \E r \in Rows : CascadeRow(r)
  PROVE  Inv'
  <1> USE Names
  <1>0. /\ sync \in FixtureSync /\ holder \in [Rows -> Transactions \cup {Nobody}]
        /\ draft \in [Rows -> Stamps \cup {None}] /\ lastKey \in Keys \cup {0}
        /\ StoredKeys \subseteq Keys
    BY DEF Inv, TypeOK, StoredKeys
  <1>1. ASSUME NEW departed \in SUBSET StoredKeys, NEW listed \in [Fixtures -> Keys \cup {0}],
               BeginSync(departed, listed)
        PROVE  Inv'
    <2>1. sync' \in FixtureSync
      BY <1>0, <1>1 DEF BeginSync, FixtureSync, RowsOf
    <2>2. lastKey' \in Keys \cup {0}
      BY <1>0, <1>1 DEF BeginSync
    <2>3. /\ holder' = [r \in Rows |-> IF r \in {} THEN Sync ELSE holder[r]]
          /\ draft' = [r \in Rows |-> IF r \in {} THEN None ELSE draft[r]]
          /\ UNCHANGED <<key, table, writer, met>>
      BY <1>0, <1>1 DEF BeginSync
    <2>4. {} \in SUBSET Rows /\ \A r \in {} : holder[r] = Nobody
      OBVIOUS
    <2>5. QED  BY <2>1, <2>2, <2>3, <2>4, CascadeInv
  <1>2. CASE DeleteParents
    <2>1. sync' \in FixtureSync
      BY <1>0, <1>2 DEF DeleteParents, FixtureSync
    <2>2. /\ holder' = [r \in Rows |-> IF r \in {} THEN Sync ELSE holder[r]]
          /\ draft' = [r \in Rows |-> IF r \in {} THEN None ELSE draft[r]]
          /\ UNCHANGED <<key, table, writer, met>> /\ lastKey' \in Keys \cup {0}
      BY <1>0, <1>2 DEF DeleteParents
    <2>3. {} \in SUBSET Rows /\ \A r \in {} : holder[r] = Nobody
      OBVIOUS
    <2>4. QED  BY <2>1, <2>2, <2>3, CascadeInv
  <1>3. ASSUME NEW r \in Rows, CascadeRow(r) PROVE Inv'
    <2>1. sync' \in FixtureSync
      BY <1>0, <1>3 DEF CascadeRow, FixtureSync
    <2>2. /\ holder' = [q \in Rows |-> IF q \in {r} THEN Sync ELSE holder[q]]
          /\ draft' = [q \in Rows |-> IF q \in {r} THEN None ELSE draft[q]]
          /\ UNCHANGED <<key, table, writer, met>> /\ lastKey' \in Keys \cup {0}
      BY <1>0, <1>3 DEF CascadeRow
    <2>3. {r} \in SUBSET Rows /\ \A q \in {r} : holder[q] = Nobody
      BY <1>3 DEF CascadeRow
    <2>4. QED  BY <2>1, <2>2, <2>3, CascadeInv
  <1>4. QED  BY <1>1, <1>2, <1>3

-----------------------------------------------------------------------------
(* The end of a transaction.                                               *)

(* The other runs stay where they were, but for the rows their deletes no  *)
(* longer find.                                                            *)
OthersStay(t) ==
  \A x \in Runs \ {t} :
    /\ writer'[x].step = writer[x].step /\ writer'[x].scope = writer[x].scope
    /\ writer'[x].pending = writer[x].pending
    /\ writer'[x].covered = writer[x].covered
    /\ writer'[x].offered = writer[x].offered
    /\ writer'[x].victims \subseteq writer[x].victims

(* Whichever way it ends, its locks are gone and the others keep theirs.   *)
LEMMA EndKeeps ==
  ASSUME Inv, NEW t \in Transactions, Free(t), UNCHANGED met,
         t \in Runs => writer'[t] = Done(t), OthersStay(t)
  PROVE  /\ \A r \in Rows : Locks(r)'
         /\ \A x \in Runs : Progressing(x)'
         /\ \A x, y \in Runs : Met(x, y)'
         /\ \A x \in Runs : writer'[x].offered = writer[x].offered
         /\ \A x \in Runs : writer[x].step = "done" => writer'[x].step = "done"
  <1> USE Names
  <1>0. /\ writer \in [Runs -> Writer] /\ holder \in [Rows -> Transactions \cup {Nobody}]
        /\ draft \in [Rows -> Stamps \cup {None}]
    BY DEF Inv, TypeOK
  <1>1. t \in Runs => /\ writer'[t].step = "done" /\ writer'[t].pending = {}
                      /\ writer'[t].victims = {} /\ writer'[t].offered = writer[t].offered
    BY <1>0 DEF Done, Writer
  <1>2. \A r \in Rows : /\ holder[r] # t => holder'[r] = holder[r] /\ draft'[r] = draft[r]
                        /\ holder[r] = t => holder'[r] = Nobody /\ draft'[r] = None
    BY DEF Free
  <1>3. \A x \in Runs : x # t => (Open(x)' <=> Open(x))
    BY DEF OthersStay, Open
  <1>4. t \in Runs => ~Open(t)'
    BY <1>1 DEF Open
  <1>5. ASSUME NEW r \in Rows PROVE Locks(r)'
    <2>1. Locks(r)
      BY DEF Inv
    <2>2. QED  BY <1>2, <1>3, <2>1 DEF Locks, OthersStay
  <1>6. ASSUME NEW x \in Runs PROVE Progressing(x)'
    <2>1. CASE x = t
      BY <1>1, <1>4, <2>1 DEF Progressing
    <2>2. CASE x # t
      <3>1. Progressing(x)
        BY DEF Inv
      <3>2. Open(x) => \A r \in writer[x].offered \ writer[x].pending :
                          holder'[r] = x /\ draft'[r] = x
        BY <1>2, <2>2, <3>1 DEF Progressing, RowsOf
      <3>3. QED  BY <1>3, <2>2, <3>1, <3>2 DEF Progressing, OthersStay, RowsOf
    <2>3. QED  BY <2>1, <2>2
  <1>7. \A x, y \in Runs : Met(x, y)'
    BY <1>3, <1>4 DEF Inv, Met
  <1>8. \A x \in Runs : writer'[x].offered = writer[x].offered
    BY <1>1 DEF OthersStay
  <1>9. \A x \in Runs : writer[x].step = "done" => writer'[x].step = "done"
    BY <1>1 DEF OthersStay
  <1>10. QED  BY <1>5, <1>6, <1>7, <1>8, <1>9

(* A transaction that is rolled back leaves nothing.                       *)
LEMMA RollBackInv ==
  ASSUME Inv, NEW t \in Transactions, RollBack(t)
  PROVE  Inv'
  <1> USE Names DEF RollBack
  <1>0. /\ writer \in [Runs -> Writer] /\ sync \in FixtureSync
        /\ holder \in [Rows -> Transactions \cup {Nobody}]
        /\ draft \in [Rows -> Stamps \cup {None}]
    BY DEF Inv, TypeOK
  <1>1. (t \in Runs => writer'[t] = Done(t)) /\ \A x \in Runs \ {t} : writer'[x] = writer[x]
    OBVIOUS
  <1>2. OthersStay(t)
    BY <1>1 DEF OthersStay
  <1>3. /\ \A r \in Rows : Locks(r)'
        /\ \A x \in Runs : Progressing(x)'
        /\ \A x, y \in Runs : Met(x, y)'
        /\ \A x \in Runs : writer'[x].offered = writer[x].offered
        /\ \A x \in Runs : writer[x].step = "done" => writer'[x].step = "done"
    BY <1>1, <1>2, EndKeeps
  <1>4. TypeOK'
    <2>1. \A w \in Runs : Done(w) \in Writer
      BY <1>0 DEF Done, Writer
    <2>2. Idle \in FixtureSync
      BY DEF Idle, FixtureSync
    <2>3. writer' \in [Runs -> Writer] /\ sync' \in FixtureSync
      BY <1>0, <2>1, <2>2
    <2>4. /\ holder' \in [Rows -> Transactions \cup {Nobody}]
          /\ draft' \in [Rows -> Stamps \cup {None}]
      BY <1>0 DEF Free
    <2>5. QED  BY <2>3, <2>4 DEF Inv, TypeOK
  <1>5. \A r \in Rows : Written(r)'
    BY <1>3 DEF Inv, Written
  <1>6. ASSUME NEW x \in Runs PROVE Reconciling(x)'
    <2>1. CASE x = t
      BY <1>0, <1>1, <2>1 DEF Reconciling, Done, Writer
    <2>2. CASE x # t
      <3>1. \A y, k : Beside(x, y, k) => Beside(x, y, k)'
        BY <1>3, BesideKept
      <3>2. \A r \in Rows : holder'[r] = x <=> holder[r] = x
        BY <2>2 DEF Free
      <3>3. QED  BY <1>1, <2>2, <3>1, <3>2 DEF Inv, Reconciling, RowsOf
    <2>3. QED  BY <2>1, <2>2
  <1>7. NoOrphans'
    BY DEF Inv, NoOrphans, StoredKeys
  <1>8. MixedOnlyWhenDisjoint'
    <2> SUFFICES ASSUME NEW r \in Rows, NEW q \in Rows, r[1] = q[1],
                        table[r] # table[q], table[r] # None, table[q] # None
                 PROVE  Beside(table[r], table[q], r[1])'
      BY DEF MixedOnlyWhenDisjoint, Beside
    <2>1. Beside(table[r], table[q], r[1])
      BY DEF Inv, MixedOnlyWhenDisjoint, Beside
    <2>2. table[r] \in Runs /\ table[q] \in Runs
      BY <2>1 DEF Beside, Inv, TypeOK
    <2>3. QED  BY <1>3, <2>1, <2>2 DEF Beside, RowsOf
  <1>9. QED
    BY <1>3, <1>4, <1>5, <1>6, <1>7, <1>8 DEF Inv

(* What a transaction that persists makes of the types and of the others.  *)
LEMMA PersistType ==
  ASSUME Inv, NEW t \in Transactions, Persist(t), key' \in [Fixtures -> Keys \cup {0}],
         UNCHANGED <<lastKey, met>>
  PROVE  /\ TypeOK'
         /\ t \in Runs => writer'[t] = Done(t)
         /\ OthersStay(t)
         /\ \A x \in Runs \ {t} :
              writer'[x].victims = writer[x].victims \ {r \in HeldBy(t) : draft[r] = None}
  <1>0. /\ writer \in [Runs -> Writer] /\ sync \in FixtureSync
        /\ holder \in [Rows -> Transactions \cup {Nobody}]
        /\ draft \in [Rows -> Stamps \cup {None}] /\ table \in [Rows -> Stamps \cup {None}]
    BY DEF Inv, TypeOK
  <1>1. \A w \in Runs : Done(w) \in Writer
    BY <1>0 DEF Done, Writer
  <1>2. Idle \in FixtureSync
    BY DEF Idle, FixtureSync
  <1>3. \A S : sync.victims \ S \subseteq Rows /\ [sync EXCEPT !.victims = @ \ S] \in FixtureSync
    BY <1>0 DEF FixtureSync
  <1>4. \A S : \A w \in Runs : [writer[w] EXCEPT !.victims = @ \ S] \in Writer
    BY <1>0 DEF Writer
  <1>5. writer' \in [Runs -> Writer]
    BY <1>1, <1>4 DEF Persist
  <1>6. sync' \in FixtureSync
    BY <1>2, <1>3 DEF Persist
  <1>7. /\ holder' \in [Rows -> Transactions \cup {Nobody}]
        /\ draft' \in [Rows -> Stamps \cup {None}]
        /\ table' \in [Rows -> Stamps \cup {None}]
    BY <1>0, Names DEF Persist, Free
  <1>8. TypeOK'
    BY <1>5, <1>6, <1>7 DEF Inv, TypeOK
  <1>9. t \in Runs => writer'[t] = Done(t)
    BY DEF Persist
  <1>10. \A x \in Runs \ {t} :
           writer'[x] = [writer[x] EXCEPT !.victims = @ \ {r \in HeldBy(t) : draft[r] = None}]
    BY DEF Persist
  <1>11. ASSUME NEW x \in Runs \ {t}
         PROVE  /\ writer'[x].victims = writer[x].victims \ {r \in HeldBy(t) : draft[r] = None}
                /\ writer'[x].step = writer[x].step /\ writer'[x].scope = writer[x].scope
                /\ writer'[x].pending = writer[x].pending
                /\ writer'[x].covered = writer[x].covered
                /\ writer'[x].offered = writer[x].offered
    <2> DEFINE S == {r \in HeldBy(t) : draft[r] = None}
    <2>1. writer[x] \in Writer /\ writer'[x] = [writer[x] EXCEPT !.victims = @ \ S]
      BY <1>0, <1>10
    <2> HIDE DEF S
    <2>2. /\ writer'[x].victims = writer[x].victims \ S
          /\ writer'[x].step = writer[x].step /\ writer'[x].scope = writer[x].scope
          /\ writer'[x].pending = writer[x].pending
          /\ writer'[x].covered = writer[x].covered
          /\ writer'[x].offered = writer[x].offered
      BY <2>1 DEF Writer
    <2>3. QED  BY <2>2 DEF S
  <1>12. QED
    BY <1>8, <1>9, <1>11 DEF OthersStay

(* A run at the end of its delete holds all it offered, so a row of the    *)
(* fixtures it read that it does not hold was committed beside it.         *)
LEMMA AtEndHolds ==
  ASSUME Inv, NEW w \in Runs, AtEnd(w)
  PROVE  /\ Open(w)
         /\ \A r \in writer[w].offered : holder[r] = w /\ draft[r] = w
         /\ \A r \in Rows : holder[r] = w /\ draft[r] # None =>
                            draft[r] = w /\ r \in writer[w].offered
         /\ \A r \in RowsOf(writer[w].covered) :
              holder[r] # w /\ table[r] # None => Beside(w, table[r], r[1])
         /\ writer[w].offered \subseteq RowsOf(writer[w].covered)
  <1>1. Progressing(w) /\ Reconciling(w) /\ \A r \in Rows : Locks(r)
    BY DEF Inv
  <1>2. writer[w].step = "deleting" /\ writer[w].victims = {} /\ Open(w)
    BY DEF AtEnd, Open
  <1>3. \A r \in writer[w].offered : holder[r] = w /\ draft[r] = w
    BY <1>1, <1>2 DEF Progressing
  <1>4. \A r \in Rows : holder[r] = w /\ draft[r] # None =>
                       draft[r] = w /\ r \in writer[w].offered
    BY <1>1 DEF Locks
  <1>5. \A r \in RowsOf(writer[w].covered) :
          holder[r] # w /\ table[r] # None => Beside(w, table[r], r[1])
    BY <1>1, <1>2 DEF Reconciling
  <1>6. QED  BY <1>1, <1>2, <1>3, <1>4, <1>5 DEF Progressing

(* A run commits.                                                          *)
LEMMA CommitInv ==
  ASSUME Inv, NEW w \in Runs, Commit(w)
  PROVE  Inv'
  <1> USE Names
  <1>0. /\ AtEnd(w) /\ MissingParents(w) = {} /\ Free(w)
        /\ table' = [r \in Rows |-> IF holder[r] = w THEN draft[r] ELSE table[r]]
        /\ UNCHANGED <<key, lastKey, met>> /\ w \in Transactions
    BY DEF Commit, Persist, Transactions
  <1>1. /\ TypeOK' /\ writer'[w] = Done(w) /\ OthersStay(w)
        /\ \A x \in Runs \ {w} :
             writer'[x].victims = writer[x].victims \ {r \in HeldBy(w) : draft[r] = None}
    BY <1>0, PersistType DEF Commit, Inv, TypeOK
  <1>2. /\ \A r \in Rows : Locks(r)'
        /\ \A x \in Runs : Progressing(x)'
        /\ \A x, y \in Runs : Met(x, y)'
        /\ \A x \in Runs : writer'[x].offered = writer[x].offered
        /\ \A x \in Runs : writer[x].step = "done" => writer'[x].step = "done"
    BY <1>0, <1>1, EndKeeps
  <1>3. \A x \in Runs : \A y, k : Beside(x, y, k) => Beside(x, y, k)'
    BY <1>0, <1>2, BesideKept
  <1>4. writer[w] \in Writer /\ writer'[w].step = "done"
    BY <1>1 DEF Inv, TypeOK, Done, Writer
  <1>5. \A r \in Rows : /\ holder[r] = w => table'[r] = draft[r] /\ draft[r] \in {w, None}
                        /\ holder[r] # w => table'[r] = table[r]
    BY <1>0, AtEndHolds
  <1>6. \A r \in Rows : Written(r)'
    BY <1>2, <1>4, <1>5 DEF Inv, Written
  <1>7. ASSUME NEW x \in Runs PROVE Reconciling(x)'
    <2>1. CASE x = w
      BY <1>4, <2>1 DEF Reconciling
    <2>2. ASSUME x # w, writer[x].step = "deleting",
                 NEW r \in RowsOf(writer[x].covered), r \notin writer'[x].victims,
                 holder'[r] # x, table'[r] # None
          PROVE  Beside(x, table[r], r[1])'
      <3>1. Progressing(x) /\ Reconciling(x) /\ Open(x) /\ Met(x, w)
        BY <2>2 DEF Inv, Open
      <3>2. r \in Rows
        BY <2>2
      <3>3. CASE holder[r] = w
        <4>1. table'[r] = w
          BY <1>5, <2>2, <3>2, <3>3
        <4>2. {x, w} \in met
          BY <1>0, <2>2, <3>1, AtEndHolds DEF Met
        <4>3. writer[x].offered \cap writer[w].offered = {}
          BY <1>0, <2>2, <3>1, AtEndHolds DEF Progressing
        <4>4. Beside(x, w, r[1])
          BY <4>2, <4>3 DEF Beside
        <4>5. Beside(x, w, r[1])'
          BY <1>3, <4>4
        <4>6. QED  BY <4>1, <4>5 DEF Beside
      <3>4. CASE holder[r] # w
        <4>1. holder[r] # x
          BY <1>0, <2>2, <3>2, <3>4 DEF Free
        <4>2. r \notin writer[x].victims
          BY <1>1, <2>2, <3>4 DEF HeldBy
        <4>3. table'[r] = table[r]
          BY <1>5, <3>2, <3>4
        <4>4. Beside(x, table[r], r[1])
          BY <2>2, <3>1, <4>1, <4>2, <4>3 DEF Reconciling
        <4>5. \A y : y = table[r] => Beside(x, y, r[1])'
          BY <1>3, <4>4
        <4>6. QED  BY <4>3, <4>5 DEF Beside
      <3>5. QED  BY <3>3, <3>4
    <2>3. QED  BY <1>1, <2>1, <2>2 DEF Reconciling, OthersStay, RowsOf
  <1>8. NoOrphans'
    <2> SUFFICES ASSUME NEW r \in Rows, table'[r] # None PROVE r[1] \in StoredKeys
      BY <1>0 DEF NoOrphans, StoredKeys
    <2>1. CASE table[r] # None
      BY <2>1 DEF Inv, NoOrphans
    <2>2. CASE table[r] = None
      <3>1. holder[r] = w /\ draft[r] # None
        BY <1>5, <2>2
      <3>2. r[1] \in ParentsToCheck(w)
        BY <2>2, <3>1 DEF ParentsToCheck, HeldBy
      <3>3. QED  BY <1>0, <3>2 DEF MissingParents
    <2>3. QED  BY <2>1, <2>2
  <1>9. MixedOnlyWhenDisjoint'
    <2> SUFFICES ASSUME NEW r \in Rows, NEW q \in Rows, r[1] = q[1],
                        table'[r] # table'[q], table'[r] # None, table'[q] # None
                 PROVE  Beside(table[r], table[q], r[1])'
      BY DEF MixedOnlyWhenDisjoint, Beside
    <2>1. ASSUME NEW a \in Rows, NEW b \in Rows, a[1] = b[1], holder[a] = w, holder[b] # w,
                 table'[a] # None, table'[b] # None
          PROVE  Beside(w, table[b], a[1])' /\ table'[a] = w
      <3>1. table'[a] = w /\ a \in writer[w].offered /\ table'[b] = table[b]
        BY <1>0, <1>5, <2>1, AtEndHolds
      <3>2. b \in RowsOf(writer[w].covered)
        BY <1>0, <2>1, <3>1, AtEndHolds DEF RowsOf
      <3>3. Beside(w, table[b], b[1])
        BY <1>0, <2>1, <3>1, <3>2, AtEndHolds
      <3>4. \A y : y = table[b] => Beside(w, y, b[1])'
        BY <1>3, <3>3
      <3>5. QED  BY <2>1, <3>1, <3>4 DEF Beside
    <2>2. CASE holder[r] = w /\ holder[q] # w
      <3>1. Beside(w, table[q], r[1])' /\ table'[r] = w
        BY <2>1, <2>2
      <3>2. QED  BY <3>1 DEF Beside
    <2>3. CASE holder[r] # w /\ holder[q] = w
      <3>1. Beside(w, table[r], q[1])' /\ table'[q] = w
        BY <2>1, <2>3
      <3>2. QED  BY <3>1 DEF Beside
    <2>4. CASE holder[r] = w /\ holder[q] = w
      BY <1>5, <2>4
    <2>5. CASE holder[r] # w /\ holder[q] # w
      <3>1. table'[r] = table[r] /\ table'[q] = table[q]
        BY <1>5, <2>5
      <3>2. Beside(table[r], table[q], r[1])
        BY <3>1 DEF Inv, MixedOnlyWhenDisjoint, Beside
      <3>3. table[r] \in Runs
        BY <3>1, <3>2 DEF Beside, Inv, TypeOK
      <3>4. \A x, y : x = table[r] /\ y = table[q] => Beside(x, y, r[1])'
        BY <1>3, <3>2, <3>3
      <3>5. QED  BY <3>1, <3>4 DEF Beside
    <2>6. QED  BY <2>2, <2>3, <2>4, <2>5
  <1>10. QED
    BY <1>1, <1>2, <1>6, <1>7, <1>8, <1>9 DEF Inv

(* The fixture synchronization commits: what it holds is gone, and no row  *)
(* of a departed fixture is left.                                          *)
LEMMA CommitSyncInv ==
  ASSUME Inv, CommitSync
  PROVE  Inv'
  <1> USE Names
  <1>0. /\ sync.step = "departed" /\ Children = {} /\ Free(Sync) /\ Sync \in Transactions
        /\ table' = [r \in Rows |-> IF holder[r] = Sync THEN draft[r] ELSE table[r]]
        /\ UNCHANGED <<lastKey, met>> /\ Persist(Sync)
        /\ key' = [f \in Fixtures |->
             IF key[f] = 0 THEN sync.listed[f]
             ELSE IF key[f] \in sync.departed THEN 0 ELSE key[f]]
    BY DEF CommitSync, Persist, Transactions
  <1>1. key' \in [Fixtures -> Keys \cup {0}]
    BY <1>0 DEF Inv, TypeOK, FixtureSync
  <1>2. TypeOK' /\ OthersStay(Sync)
        /\ \A x \in Runs : writer'[x].victims =
             writer[x].victims \ {r \in HeldBy(Sync) : draft[r] = None}
    BY <1>0, <1>1, PersistType
  <1>3. /\ \A r \in Rows : Locks(r)'
        /\ \A x \in Runs : Progressing(x)'
        /\ \A x, y \in Runs : Met(x, y)'
        /\ \A x \in Runs : writer'[x].offered = writer[x].offered
        /\ \A x \in Runs : writer[x].step = "done" => writer'[x].step = "done"
    BY <1>0, <1>2, EndKeeps
  <1>4. \A x \in Runs : \A y, k : Beside(x, y, k) => Beside(x, y, k)'
    BY <1>0, <1>3, BesideKept
  <1>5. \A r \in Rows : /\ holder[r] = Sync => table'[r] = None /\ draft[r] = None
                        /\ holder[r] # Sync => table'[r] = table[r]
    BY <1>0 DEF Inv, Locks
  <1>6. \A r \in Rows : Written(r)'
    BY <1>3, <1>5 DEF Inv, Written
  <1>7. ASSUME NEW x \in Runs PROVE Reconciling(x)'
    <2> SUFFICES ASSUME writer[x].step = "deleting",
                        NEW r \in RowsOf(writer[x].covered), r \notin writer'[x].victims,
                        holder'[r] # x, table'[r] # None
                 PROVE  Beside(x, table[r], r[1])'
      BY <1>2 DEF Reconciling, OthersStay, RowsOf
    <2>1. holder[r] # Sync /\ table'[r] = table[r]
      BY <1>5
    <2>2. holder[r] # x /\ r \notin writer[x].victims
      BY <1>0, <1>2, <2>1 DEF Free, HeldBy
    <2>3. Beside(x, table[r], r[1])
      BY <2>1, <2>2 DEF Inv, Reconciling
    <2>4. \A y : y = table[r] => Beside(x, y, r[1])'
      BY <1>4, <2>3
    <2>5. QED  BY <2>1, <2>4 DEF Beside
  <1>8. NoOrphans'
    <2> SUFFICES ASSUME NEW r \in Rows, table'[r] # None PROVE r[1] \in StoredKeys'
      BY DEF NoOrphans
    <2>1. table[r] # None /\ holder[r] # Sync
      BY <1>5
    <2>2. PICK f \in Fixtures : key[f] = r[1] /\ key[f] # 0
      BY <2>1 DEF Inv, NoOrphans, StoredKeys
    <2>3. r[1] \notin sync.departed
      BY <1>0, <2>1 DEF Children, Departing, RowsOf
    <2>4. key'[f] = r[1]
      BY <1>0, <2>2, <2>3
    <2>5. QED  BY <2>2, <2>4 DEF StoredKeys
  <1>9. MixedOnlyWhenDisjoint'
    <2> SUFFICES ASSUME NEW r \in Rows, NEW q \in Rows, r[1] = q[1],
                        table'[r] # table'[q], table'[r] # None, table'[q] # None
                 PROVE  Beside(table[r], table[q], r[1])'
      BY DEF MixedOnlyWhenDisjoint, Beside
    <2>1. table'[r] = table[r] /\ table'[q] = table[q]
      BY <1>5
    <2>2. Beside(table[r], table[q], r[1])
      BY <2>1 DEF Inv, MixedOnlyWhenDisjoint, Beside
    <2>3. table[r] \in Runs
      BY <2>1, <2>2 DEF Beside, Inv, TypeOK
    <2>4. \A x, y : x = table[r] /\ y = table[q] => Beside(x, y, r[1])'
      BY <1>4, <2>2, <2>3
    <2>5. QED  BY <2>1, <2>4 DEF Beside
  <1>10. QED
    BY <1>2, <1>3, <1>6, <1>7, <1>8, <1>9 DEF Inv

-----------------------------------------------------------------------------
(* The theorems.                                                           *)

LEMMA StepInv ==
  ASSUME Inv, NEW w \in Runs, Step(w)
  PROVE  Inv'
  <1>1. CASE \E r \in Rows : UpsertRow(w, r)
    BY <1>1, UpsertInv
  <1>2. CASE StartDelete(w)
    BY <1>2, StartDeleteInv
  <1>3. CASE \E r \in Rows : DeleteRow(w, r)
    BY <1>3, DeleteInv
  <1>4. CASE Commit(w)
    BY <1>4, CommitInv
  <1>5. CASE ParentGone(w)
    BY <1>5, RollBackInv DEF ParentGone, Transactions
  <1>6. QED  BY <1>1, <1>2, <1>3, <1>4, <1>5 DEF Step

LEMMA NextInv == Inv /\ [Next]_vars => Inv'
  <1> SUFFICES ASSUME Inv, [Next]_vars PROVE Inv'
    OBVIOUS
  <1>1. ASSUME NEW w \in Runs, NEW read \in SUBSET Fixtures,
               NEW published \in [Fixtures -> SUBSET Selections], Resolve(w, read, published)
        PROVE  Inv'
    BY <1>1, ResolveInv
  <1>2. CASE \E w \in Runs : Step(w)
    BY <1>2, StepInv
  <1>3. CASE \E departed \in SUBSET StoredKeys, listed \in [Fixtures -> Keys \cup {0}] :
               BeginSync(departed, listed)
    BY <1>3, SyncInnerInv
  <1>4. CASE SyncStep
    <2>1. CASE \E r \in Rows : CascadeRow(r)
      BY <2>1, SyncInnerInv
    <2>2. CASE DeleteParents
      BY <2>2, SyncInnerInv
    <2>3. CASE CommitSync
      BY <2>3, CommitSyncInv
    <2>4. CASE ChildLeft
      BY <2>4, RollBackInv DEF ChildLeft, Transactions
    <2>5. QED  BY <1>4, <2>1, <2>2, <2>3, <2>4 DEF SyncStep
  <1>5. ASSUME NEW S \in SUBSET Transactions, NEW t \in Transactions, BreakDeadlock(S, t)
        PROVE  Inv'
    BY <1>5, RollBackInv DEF BreakDeadlock
  <1>6. ASSUME NEW t \in Transactions, Fail(t) PROVE Inv'
    BY <1>6, RollBackInv DEF Fail
  <1>7. CASE UNCHANGED vars
    <2>1. \A r \in Rows : Locks(r)'
      BY <1>7 DEF vars, Inv, Locks, Open
    <2>2. \A x \in Runs : Progressing(x)' /\ Reconciling(x)'
      BY <1>7 DEF vars, Inv, Progressing, Reconciling, Beside, Open, RowsOf
    <2>3. TypeOK'
      BY <1>7 DEF vars, Inv, TypeOK
    <2>4. QED  BY <1>7, <2>1, <2>2, <2>3, InnerInv DEF vars
  <1>8. QED
    BY <1>1, <1>2, <1>3, <1>4, <1>5, <1>6, <1>7 DEF Next

(* The inductive invariant of the prediction table.                        *)
THEOREM PredictionInvariant == Spec => []Inv
  BY InitInv, NextInv, PTL DEF Spec

(* The tables, the row locks and the transactions have their types.        *)
THEOREM PredictionType == Spec => []TypeOK
  <1>1. Inv => TypeOK
    BY DEF Inv
  <1>2. QED  BY <1>1, PredictionInvariant, PTL

(* No stored probability is of a fixture that is not stored, in whatever   *)
(* order the upserts and the cascade lock, write and commit.               *)
THEOREM PredictionNoOrphans == Spec => []NoOrphans
  <1>1. Inv => NoOrphans
    BY DEF Inv
  <1>2. QED  BY <1>1, PredictionInvariant, PTL

(* The probabilities of a fixture are of one read, unless two runs were    *)
(* open at once and had no selection of it in common.                      *)
THEOREM PredictionMixed == Spec => []MixedOnlyWhenDisjoint
  <1>1. Inv => MixedOnlyWhenDisjoint
    BY DEF Inv
  <1>2. QED  BY <1>1, PredictionInvariant, PTL

(* A commit of a run leaves what it offered of the fixtures it read, the   *)
(* rows of runs beside it, and every other fixture as it was.              *)
THEOREM PredictionCommit == Spec => CommitLeavesTheRead
  <1> DEFINE Leaves(w) == \A r \in Rows :
               IF r[1] \in writer[w].covered
               THEN IF r \in writer[w].offered THEN table'[r] = w
                    ELSE table'[r] = None \/ {w, table'[r]} \in met
               ELSE table'[r] = table[r]
  <1>1. ASSUME Inv, NEW w \in Runs, Commit(w) PROVE Leaves(w)
    <2> SUFFICES ASSUME NEW r \in Rows
                 PROVE  IF r[1] \in writer[w].covered
                        THEN IF r \in writer[w].offered THEN table'[r] = w
                             ELSE table'[r] = None \/ {w, table'[r]} \in met
                        ELSE table'[r] = table[r]
      OBVIOUS
    <2>1. table'[r] = IF holder[r] = w THEN draft[r] ELSE table[r]
      BY <1>1 DEF Commit, Persist
    <2>2. AtEnd(w) /\ Locks(r)
      BY <1>1 DEF Commit, Inv
    <2>3. CASE r[1] \notin writer[w].covered
      BY <2>1, <2>2, <2>3 DEF Locks
    <2>4. CASE r \in writer[w].offered
      <3>1. holder[r] = w /\ draft[r] = w /\ r[1] \in writer[w].covered
        BY <1>1, <2>2, <2>4, AtEndHolds DEF RowsOf
      <3>2. QED  BY <2>1, <2>4, <3>1
    <2>5. CASE r[1] \in writer[w].covered /\ r \notin writer[w].offered
      <3>1. CASE holder[r] = w
        BY <2>1, <2>2, <2>5, <3>1 DEF Locks
      <3>2. CASE holder[r] # w
        <4>1. table[r] # None => Beside(w, table[r], r[1])
          BY <1>1, <2>2, <2>5, <3>2, AtEndHolds DEF RowsOf
        <4>2. QED  BY <2>1, <2>5, <3>2, <4>1 DEF Beside
      <3>3. QED  BY <3>1, <3>2
    <2>6. QED  BY <2>3, <2>4, <2>5
  <1>2. Inv /\ [Next]_vars => [\A w \in Runs : Commit(w) => Leaves(w)]_vars
    BY <1>1
  <1>3. QED
    BY <1>2, PredictionInvariant, PTL DEF Spec, CommitLeavesTheRead

=============================================================================
