------------------------- MODULE FixtureSyncProofs -------------------------
(***************************************************************************)
(* Proofs about the lease protocol, for any number of messages and tokens, *)
(* and about the synchronization of fixtures that runs under it, for any   *)
(* number of runs, fixtures and revisions and any window.                  *)
(***************************************************************************)
EXTENDS FixtureSync, TLAPS

-----------------------------------------------------------------------------
(* The lease protocol.                                                     *)


(* Per execution: while it is past the guard it holds a token, and the key *)
(* holds that token unless it was lost; an execution that is freeing did   *)
(* not lose it before it read it back.                                     *)
HoldsItsLease(r) ==
  IF Active(r)
  THEN /\ run[r].lease \in Leases
       /\ run[r].lost = "no" <=> lock = run[r].lease
       /\ run[r].step = "freeing" => run[r].lost # "early"
  ELSE run[r].lease = NoLease /\ run[r].lost = "no"

LeasesDiffer ==
  \A r, q \in Runs : r # q /\ Active(r) /\ Active(q) => run[r].lease # run[q].lease

LeaseInv ==
  /\ LeaseTypeOK
  /\ \A r \in Runs : HoldsItsLease(r)
  /\ LeasesDiffer

-----------------------------------------------------------------------------

(* At the start nothing is sent and the key is absent.                     *)
LEMMA LeaseInitInv == LeaseInit => LeaseInv
  BY LeaseAssumption
  DEF LeaseInit, LeaseInv, LeaseTypeOK, HoldsItsLease, LeasesDiffer, Active, NoRun, Run, Steps

(* A step that moves one message, keeps its token and its history, does    *)
(* not make it active or freeing, and leaves the key, keeps the invariant; *)
(* so does one that takes the message back to a state without a token.     *)
LEMMA HandleKeepsInv ==
  ASSUME LeaseInv, NEW r \in Runs, UNCHANGED lock,
         NEW new \in Run, run' = [run EXCEPT ![r] = new],
         \/ /\ new.step \notin {"working", "releasing", "freeing"}
            /\ new.lease = NoLease /\ new.lost = "no"
         \/ /\ Active(r) /\ new.step \in {"working", "releasing", "freeing"}
            /\ new.lease = run[r].lease /\ new.lost = run[r].lost
            /\ new.step = "freeing" => new.lost # "early"
  PROVE  LeaseInv'
  <1> USE DEF LeaseInv
  <1>1. LeaseTypeOK'
    BY DEF LeaseTypeOK
  <1>2. \A q \in Runs : HoldsItsLease(q)'
    <2>1. TAKE q \in Runs
    <2>2. CASE q = r
      BY <2>2 DEF LeaseTypeOK, HoldsItsLease, Active
    <2>3. CASE q # r
      BY <2>3 DEF LeaseTypeOK, HoldsItsLease, Active
    <2>4. QED  BY <2>2, <2>3
  <1>3. LeasesDiffer'
    BY DEF LeaseTypeOK, LeasesDiffer, Active
  <1>4. QED  BY <1>1, <1>2, <1>3

(* A step that clears the key, by its timeout or by the delete of r, makes *)
(* its owner an execution that lost its lease.                             *)
LEMMA ClearingKeepsInv ==
  ASSUME LeaseInv, NEW S \in SUBSET Runs, lock' = NoLease,
         run' = [q \in Runs |-> IF q \in S THEN NoRun ELSE Losing(q)]
  PROVE  LeaseInv'
  <1> USE DEF LeaseInv
  <1>1. NoRun \in Run /\ \A q \in Runs : Losing(q) \in Run
    BY LeaseAssumption DEF LeaseTypeOK, NoRun, Run, Steps, Losing
  <1>2. LeaseTypeOK'
    BY <1>1 DEF LeaseTypeOK
  <1>3. \A q \in Runs : HoldsItsLease(q)'
    <2>1. TAKE q \in Runs
    <2>2. CASE q \in S
      BY <2>2 DEF LeaseTypeOK, HoldsItsLease, Active, NoRun
    <2>3. CASE q \notin S
      <3>1. run'[q] = Losing(q)
        BY <2>3
      <3>2. /\ Losing(q).step = run[q].step
            /\ Losing(q).lease = run[q].lease
            /\ Losing(q).lost = IF ~(Active(q) /\ run[q].lease = lock) THEN run[q].lost
                                ELSE IF run[q].step = "freeing" THEN "late" ELSE "early"
        BY DEF LeaseTypeOK, Run, Losing
      <3>3. HoldsItsLease(q)
        OBVIOUS
      <3>4. CASE Active(q) /\ run[q].lease = lock
        BY <3>1, <3>2, <3>3, <3>4, LeaseAssumption DEF HoldsItsLease, Active
      <3>5. CASE Active(q) /\ run[q].lease # lock
        BY <3>1, <3>2, <3>3, <3>5, LeaseAssumption DEF HoldsItsLease, Active
      <3>6. CASE ~Active(q)
        BY <3>1, <3>2, <3>3, <3>6 DEF HoldsItsLease, Active
      <3>7. QED  BY <3>4, <3>5, <3>6
    <2>4. QED  BY <2>2, <2>3
  <1>4. LeasesDiffer'
    <2>1. \A q \in Runs : Active(q)' => Active(q) /\ run'[q].lease = run[q].lease
      BY DEF LeaseTypeOK, Run, Losing, Active, NoRun
    <2>2. QED  BY <2>1 DEF LeasesDiffer
  <1>5. QED  BY <1>2, <1>3, <1>4

(* So does a fresh lease that no execution holds.                          *)
LEMMA OrphanKeepsInv ==
  ASSUME LeaseInv, NEW r \in Runs, run' = [run EXCEPT ![r] = NoRun],
         NEW l \in Leases, lock = NoLease, Fresh(l), lock' = l
  PROVE  LeaseInv'
  <1> USE LeaseAssumption
  <1>1. run \in [Runs -> Run] /\ NoRun \in Run
    BY DEF LeaseInv, LeaseTypeOK, NoRun, Run, Steps
  <1>2. run'[r] = NoRun /\ \A q \in Runs \ {r} : run'[q] = run[q]
    BY <1>1
  <1>3. \A q \in Runs : HoldsItsLease(q)'
    <2>1. TAKE q \in Runs
    <2>2. CASE q = r
      BY <1>2, <2>2 DEF HoldsItsLease, Active, NoRun
    <2>3. CASE q # r
      <3>1. HoldsItsLease(q) /\ run[q].lease # l /\ run'[q] = run[q]
        BY <1>2, <2>3 DEF LeaseInv, Fresh
      <3>2. QED  BY <3>1 DEF HoldsItsLease, Active
    <2>4. QED  BY <2>2, <2>3
  <1>4. LeaseTypeOK'
    BY <1>1 DEF LeaseTypeOK
  <1>5. LeasesDiffer'
    BY <1>2 DEF LeaseInv, LeasesDiffer, Active, NoRun
  <1>6. QED  BY <1>3, <1>4, <1>5 DEF LeaseInv

(* Every step of the protocol keeps the invariant.                         *)
LEMMA LeaseNextInv == LeaseInv /\ [LeaseNext]_leaseVars => LeaseInv'
  <1> SUFFICES ASSUME LeaseInv, [LeaseNext]_leaseVars PROVE LeaseInv'
    OBVIOUS
  <1>0. \A r \in Runs : run[r] \in Run
    BY DEF LeaseInv, LeaseTypeOK
  <1>1. CASE UNCHANGED leaseVars
    BY <1>1 DEF leaseVars, LeaseInv, LeaseTypeOK, HoldsItsLease, LeasesDiffer, Active
  <1>2. CASE ExpireLock
    <2>1. PICK S \in SUBSET Runs : S = {}
      OBVIOUS
    <2>2. run' = [q \in Runs |-> IF q \in S THEN NoRun ELSE Losing(q)]
      BY <1>2, <2>1 DEF ExpireLock
    <2>3. QED  BY <1>2, <2>2, ClearingKeepsInv DEF ExpireLock
  <1>3. ASSUME NEW r \in Runs, Publish(r) \/ Call(r)
        PROVE  LeaseInv'
    <2> DEFINE new == run'[r]
    <2>1. /\ UNCHANGED lock /\ new \in Run /\ run' = [run EXCEPT ![r] = new]
          /\ new.step \notin {"working", "releasing", "freeing"}
          /\ new.lease = run[r].lease /\ new.lost = run[r].lost /\ ~Active(r)
      BY <1>3, <1>0 DEF Publish, Call, Run, Steps, Active, LeaseInv, LeaseTypeOK
    <2>2. run[r].lease = NoLease /\ run[r].lost = "no"
      BY <2>1 DEF LeaseInv, HoldsItsLease
    <2>3. QED  BY <2>1, <2>2, HandleKeepsInv
  <1>4. ASSUME NEW r \in Runs, Discard(r) \/ Skip(r) \/ AcquireFails(r) \/ ReleaseFails(r)
        PROVE  LeaseInv'
    <2>1. NoRun \in Run /\ run' = [run EXCEPT ![r] = NoRun] /\ ~Active(r)'
      BY <1>0, <1>4, LeaseAssumption
      DEF Discard, Skip, AcquireFails, ReleaseFails, NoRun, Run, Steps, Active,
          LeaseInv, LeaseTypeOK
    <2>2. CASE UNCHANGED lock
      BY <2>1, <2>2, HandleKeepsInv DEF NoRun
    <2>3. CASE \E l \in Leases : lock = NoLease /\ Fresh(l) /\ lock' = l
      BY <2>1, <2>3, OrphanKeepsInv
    <2>4. QED
      BY <1>4, <2>2, <2>3 DEF Discard, Skip, AcquireFails, ReleaseFails
  <1>5. ASSUME NEW r \in Runs, Crash(r) PROVE LeaseInv'
    <2> DEFINE new == [NoRun EXCEPT !.step = "queued"]
    <2>1. new \in Run /\ UNCHANGED lock /\ run' = [run EXCEPT ![r] = new]
      BY <1>5, <1>0 DEF Crash, NoRun, Run, Steps
    <2>2. new.step = "queued" /\ new.lease = NoLease /\ new.lost = "no"
      BY DEF NoRun
    <2>3. QED  BY <2>1, <2>2, HandleKeepsInv
  <1>6. ASSUME NEW r \in Runs, NEW l \in Leases, Acquire(r, l) PROVE LeaseInv'
    <2> USE <1>6 DEF Acquire
    <2>1. run' = [run EXCEPT ![r] = [run[r] EXCEPT !.step = "working", !.lease = l]]
      BY <1>0 DEF LeaseInv, LeaseTypeOK, Run
    <2>2. HoldsItsLease(r) /\ ~Active(r) /\ run[r].lost = "no"
      BY DEF LeaseInv, HoldsItsLease, Active
    <2>3. LeaseTypeOK'
      BY <2>1, <1>0 DEF LeaseInv, LeaseTypeOK, Run, Steps
    <2>4. /\ run'[r].step = "working" /\ run'[r].lease = l /\ run'[r].lost = "no"
          /\ \A q \in Runs \ {r} : run'[q] = run[q]
      BY <2>1, <2>2, <1>0 DEF LeaseInv, LeaseTypeOK, Run
    <2>5. \A q \in Runs : HoldsItsLease(q)'
      <3>1. TAKE q \in Runs
      <3>2. CASE q = r
        BY <2>4, <3>2 DEF HoldsItsLease, Active
      <3>3. CASE q # r
        BY <2>4, <3>3, LeaseAssumption DEF LeaseInv, HoldsItsLease, Active, Fresh
      <3>4. QED  BY <3>2, <3>3
    <2>6. LeasesDiffer'
      <3>1. \A q \in Runs \ {r} : run'[q].lease # l
        BY <2>4 DEF Fresh
      <3>2. \A p, q \in Runs \ {r} :
              p # q /\ Active(p)' /\ Active(q)' => run'[p].lease # run'[q].lease
        BY <2>4 DEF LeaseInv, LeasesDiffer, Active
      <3>3. QED  BY <2>4, <3>1, <3>2 DEF LeasesDiffer
    <2>7. QED  BY <2>3, <2>5, <2>6 DEF LeaseInv
  <1>7. ASSUME NEW r \in Runs, EndWork(r) PROVE LeaseInv'
    <2> DEFINE new == [run[r] EXCEPT !.step = "releasing"]
    <2>1. new \in Run /\ UNCHANGED lock /\ run' = [run EXCEPT ![r] = new]
      BY <1>7, <1>0 DEF EndWork, Run, Steps, LeaseInv, LeaseTypeOK
    <2>2. Active(r) /\ new.step = "releasing" /\ new.lease = run[r].lease
          /\ new.lost = run[r].lost
      BY <1>7, <1>0 DEF EndWork, Active, Run
    <2>3. QED  BY <2>1, <2>2, HandleKeepsInv
  <1>8. ASSUME NEW r \in Runs, ReadBack(r) PROVE LeaseInv'
    <2>1. CASE lock = run[r].lease
      <3> DEFINE new == [run[r] EXCEPT !.step = "freeing"]
      <3>1. new \in Run /\ UNCHANGED lock /\ run' = [run EXCEPT ![r] = new]
        BY <1>8, <2>1, <1>0 DEF ReadBack, Run, Steps
      <3>2. Active(r) /\ new.step = "freeing" /\ new.lease = run[r].lease
            /\ new.lost = run[r].lost
        BY <1>8, <1>0 DEF ReadBack, Active, Run
      <3>3. new.lost # "early"
        BY <2>1, <3>2 DEF LeaseInv, HoldsItsLease
      <3>4. QED  BY <3>1, <3>2, <3>3, HandleKeepsInv
    <2>2. CASE lock # run[r].lease
      <3>1. NoRun \in Run /\ UNCHANGED lock /\ run' = [run EXCEPT ![r] = NoRun]
        BY <1>8, <2>2, LeaseAssumption DEF ReadBack, NoRun, Run, Steps
      <3>2. QED  BY <3>1, HandleKeepsInv DEF NoRun
    <2>3. QED  BY <2>1, <2>2
  <1>9. ASSUME NEW r \in Runs, Free(r) PROVE LeaseInv'
    <2>1. run' = [q \in Runs |-> IF q \in {r} THEN NoRun ELSE Losing(q)]
      BY <1>9 DEF Free
    <2>2. QED  BY <1>9, <2>1, ClearingKeepsInv DEF Free
  <1>10. QED
    BY <1>1, <1>2, <1>3, <1>4, <1>5, <1>6, <1>7, <1>8, <1>9 DEF LeaseNext, Handle

THEOREM LeaseInvariant == LeaseSpec => []LeaseInv
  BY LeaseInitInv, LeaseNextInv, PTL DEF LeaseSpec

-----------------------------------------------------------------------------

(* Two executions that lost nothing would hold the key with two tokens.    *)
LEMMA InvExcludes == LeaseInv => ExclusiveWhileLeased
  BY DEF LeaseInv, HoldsItsLease, LeasesDiffer, ExclusiveWhileLeased

(* Two executions of the task are past the guard at once only when one of  *)
(* them lost its lease.                                                    *)
THEOREM LeaseExclusive == LeaseSpec => []ExclusiveWhileLeased
  BY LeaseInvariant, InvExcludes, PTL

(* A delete hits a successor only when the lease of the execution that     *)
(* makes it left the cache after it was read back.                         *)
THEOREM LeaseRace == LeaseSpec => FreesASuccessorOnlyInARace
  <1>1. LeaseInv /\ [LeaseNext]_leaseVars =>
          [\A r \in Runs :
             Free(r) /\ lock \notin {NoLease, run[r].lease} => run[r].lost = "late"]_leaseVars
    <2> SUFFICES ASSUME LeaseInv, NEW r \in Runs, Free(r), lock # run[r].lease
                 PROVE  run[r].lost = "late"
      OBVIOUS
    <2>1. HoldsItsLease(r) /\ Active(r) /\ run[r].step = "freeing"
      BY DEF LeaseInv, Free, Active
    <2>2. run[r].lost \in {"no", "early", "late"}
      BY DEF LeaseInv, LeaseTypeOK, Run
    <2>3. QED  BY <2>1, <2>2 DEF HoldsItsLease
  <1>2. QED
    BY <1>1, LeaseInvariant, PTL DEF LeaseSpec, FreesASuccessorOnlyInARace

-----------------------------------------------------------------------------
(* The synchronization of fixtures.                                        *)


(* An execution that overlapped no other is alone past the guard.          *)
AloneUnlessOverlapped ==
  \A r, q \in Runs : r # q /\ Active(r) /\ ~overlapped[r] => ~Active(q)

(* Nothing was read before the guard.                                      *)
NothingReadBefore == \A r \in Runs : run[r].step = "called" => read[r].seen = {}

(* An entry that was read is what the provider says, unless it was revised *)
(* since the guard was passed, and then it is older.                       *)
ReadsTrack ==
  \A r \in Runs : run[r].step = "working" =>
    \A f \in read[r].seen :
      /\ read[r].entry[f].version <= provider[f].version
      /\ f \notin read[r].changed => read[r].entry[f] = provider[f]

(* The table is never ahead of the provider, nor of the reads of a run     *)
(* that is alone.                                                          *)
TableBehindProvider == \A f \in Fixtures : stored[f].version <= provider[f].version

TableBehindReads ==
  \A r \in Runs : run[r].step = "working" /\ ~overlapped[r] =>
    \A f \in read[r].seen : stored[f].version <= read[r].entry[f].version

DataInv ==
  /\ AloneUnlessOverlapped
  /\ NothingReadBefore
  /\ ReadsTrack
  /\ TableBehindProvider
  /\ TableBehindReads

Inv == LeaseInv /\ TypeOK /\ DataInv

-----------------------------------------------------------------------------
(* The lease protocol inside the synchronization.                          *)

LEMMA InitLease == Init => LeaseInit
  BY DEF Init

(* Every step of the synchronization is a step of the lease protocol or    *)
(* leaves the key and the messages alone.                                  *)
LEMMA NextLease == [Next]_vars => [LeaseNext]_leaseVars
  BY DEF Next, vars, leaseVars, LeaseNext, Handle, NextDay, Expire, Revise, Send, Start,
         Enter, ReadEntry, Store, Fail, Check, Leave

(* The synchronization implements the lease protocol.                      *)
THEOREM ImplementsLease == Spec => LeaseSpec
  BY InitLease, NextLease, PTL DEF Spec, LeaseSpec

(* Two runs are past the guard at once only when one lost its lease.       *)
THEOREM SyncExclusive == Spec => []ExclusiveWhileLeased
  BY ImplementsLease, LeaseExclusive

(* A run's delete hits a successor only in the window between its two      *)
(* commands.                                                               *)
THEOREM SyncRace == Spec => FreesASuccessorOnlyInARace
  BY ImplementsLease, LeaseRace

-----------------------------------------------------------------------------
(* Types.                                                                  *)

LEMMA Constants ==
  /\ 0 \in Days /\ 0 \in 0 .. MaxVersion /\ Elsewhere \in KickoffDays
  /\ NotRead \in Entry
  /\ \A day \in Days : NothingRead(day) \in Read
  BY WindowAssumption
  DEF Days, Elsewhere, KickoffDays, NotRead, Entry, NothingRead, Read

LEMMA InitType == Init => TypeOK
  <1> SUFFICES ASSUME Init PROVE TypeOK
    OBVIOUS
  <1>1. LeaseTypeOK
    BY InitLease, LeaseInitInv DEF LeaseInv
  <1>2. provider \in [Fixtures -> Entry]
    BY Constants DEF Init, Entry
  <1>3. stored \in [Fixtures -> Row]
    BY Constants DEF Init, Row
  <1>4. QED  BY <1>1, <1>2, <1>3, Constants DEF Init, TypeOK

(* What a window leaves in the table are rows.                             *)
LEMMA ReconciledType ==
  ASSUME TypeOK, NEW r \in Runs
  PROVE  Reconciled(r) \in [Fixtures -> Row]
  <1>1. ASSUME NEW f \in Fixtures
        PROVE  /\ read[r].entry[f].version \in 0 .. MaxVersion
               /\ read[r].entry[f].day \in KickoffDays
               /\ stored[f] \in Row
    BY DEF TypeOK, Read, Entry
  <1>2. QED  BY <1>1 DEF Reconciled, Row

LEMMA NextType == LeaseTypeOK' /\ TypeOK /\ [Next]_vars => TypeOK'
  <1> SUFFICES ASSUME LeaseTypeOK', TypeOK, [Next]_vars PROVE TypeOK'
    OBVIOUS
  <1>1. CASE UNCHANGED vars
    BY <1>1 DEF vars, TypeOK
  <1>2. CASE NextDay
    BY <1>2, WindowAssumption DEF NextDay, TypeOK, Days
  <1>3. ASSUME NEW f \in Fixtures, NEW day \in KickoffDays, NEW usable \in BOOLEAN,
               Revise(f, day, usable)
        PROVE  TypeOK'
    <2>1. [version |-> provider[f].version + 1, day |-> day, usable |-> usable] \in Entry
      BY <1>3, WindowAssumption DEF Revise, TypeOK, Entry
    <2>2. provider' \in [Fixtures -> Entry]
      BY <1>3, <2>1 DEF Revise, TypeOK
    <2>3. read' \in [Runs -> Read]
      BY <1>3 DEF Revise, TypeOK, Read
    <2>4. QED  BY <1>3, <2>2, <2>3 DEF Revise, TypeOK
  <1>4. ASSUME NEW r \in Runs, Send(r) \/ Fail(r) PROVE TypeOK'
    BY <1>4 DEF Send, Fail, dataVars, TypeOK
  <1>5. CASE Expire
    BY <1>5 DEF Expire, dataVars, TypeOK
  <1>6. ASSUME NEW r \in Runs, Start(r) PROVE TypeOK'
    BY <1>6, Constants DEF Start, TypeOK
  <1>7. ASSUME NEW r \in Runs, NEW l \in Leases, Enter(r, l) PROVE TypeOK'
    <2>1. overlapped' \in [Runs -> BOOLEAN]
      BY <1>7 DEF Enter, TypeOK, Active
    <2>2. QED  BY <1>7, <2>1 DEF Enter, TypeOK
  <1>8. ASSUME NEW r \in Runs, Forget(r) PROVE TypeOK'
    BY <1>8, Constants DEF Forget, TypeOK
  <1>9. ASSUME NEW r \in Runs, NEW f \in Fixtures, ReadEntry(r, f) PROVE TypeOK'
    <2> DEFINE entry == [read[r].entry EXCEPT ![f] = provider[f]]
               new == [read[r] EXCEPT !.seen = @ \cup {f}, !.entry = entry]
    <2>1. read[r] \in Read /\ provider[f] \in Entry
      BY DEF TypeOK
    <2>2. entry \in [Fixtures -> Entry]
      BY <2>1 DEF Read
    <2>3. new \in Read
      BY <2>1, <2>2 DEF Read
    <2>4. read' = [read EXCEPT ![r] = new]
      BY <1>9, <2>1 DEF ReadEntry, TypeOK, Read
    <2>5. QED  BY <1>9, <2>3, <2>4 DEF ReadEntry, TypeOK
  <1>10. ASSUME NEW r \in Runs, Store(r) PROVE TypeOK'
    BY <1>10, ReconciledType DEF Store, TypeOK
  <1>11. ASSUME NEW r \in Runs, Check(r) \/ Leave(r) PROVE TypeOK'
    BY <1>8, <1>11 DEF Check, Leave, dataVars, TypeOK
  <1>12. QED
    BY <1>1, <1>2, <1>3, <1>4, <1>5, <1>6, <1>7, <1>9, <1>10, <1>11 DEF Next

-----------------------------------------------------------------------------
(* The invariant of the data.                                              *)

LEMMA InitData == Init => DataInv
  BY DEF Init, LeaseInit, NoRun, NothingRead, DataInv, AloneUnlessOverlapped,
         NothingReadBefore, ReadsTrack, TableBehindProvider, TableBehindReads, Active

(* A run that passes the guard is marked, with all it meets there.         *)
LEMMA NextAlone == TypeOK /\ AloneUnlessOverlapped /\ [Next]_vars => AloneUnlessOverlapped'
  <1> SUFFICES ASSUME TypeOK, AloneUnlessOverlapped, [Next]_vars
               PROVE  AloneUnlessOverlapped'
    OBVIOUS
  <1>0. \A r \in Runs : run[r] \in Run /\ overlapped[r] \in BOOLEAN
    BY DEF TypeOK, LeaseTypeOK
  <1> DEFINE Kept(r) == Active(r)' => Active(r) /\ overlapped'[r] = overlapped[r]
  <1>1. ASSUME \A r \in Runs : Kept(r) PROVE AloneUnlessOverlapped'
    BY <1>1 DEF AloneUnlessOverlapped
  <1>2. CASE UNCHANGED <<run, overlapped>>
    BY <1>1, <1>2 DEF Active
  <1>3. CASE Expire
    <2>1. \A r \in Runs : run'[r].step = run[r].step
      BY <1>0, <1>3 DEF Expire, ExpireLock, Losing, Run
    <2>2. QED  BY <1>1, <1>3, <2>1 DEF Expire, dataVars, Active
  <1>4. ASSUME NEW r \in Runs, Forget(r),
               Free(r) \/ Skip(r) \/ AcquireFails(r) \/ ReleaseFails(r) \/ Crash(r)
                       \/ (ReadBack(r) /\ run'[r].step # "freeing")
        PROVE  AloneUnlessOverlapped'
    <2>0. run \in [Runs -> Run]
      BY DEF TypeOK, LeaseTypeOK
    <2>1. ~Active(r)' /\ \A q \in Runs \ {r} : run'[q].step = run[q].step
      <3>1. CASE Free(r)
        <4>1. run'[r] = NoRun /\ \A q \in Runs \ {r} : run'[q] = Losing(q)
          BY <3>1 DEF Free
        <4>2. \A q \in Runs : Losing(q).step = run[q].step
          BY <2>0 DEF Losing, Run
        <4>3. QED  BY <4>1, <4>2 DEF NoRun, Active
      <3>2. CASE Skip(r) \/ AcquireFails(r) \/ ReleaseFails(r)
        BY <3>2, <2>0 DEF Skip, AcquireFails, ReleaseFails, NoRun, Active
      <3>3. CASE Crash(r)
        BY <3>3, <2>0 DEF Crash, NoRun, Active
      <3>4. CASE ReadBack(r) /\ run'[r].step # "freeing"
        <4>1. CASE lock = run[r].lease
          BY <3>4, <4>1, <2>0 DEF ReadBack, Run
        <4>2. CASE lock # run[r].lease
          BY <3>4, <4>2, <2>0 DEF ReadBack, NoRun, Active
        <4>3. QED  BY <4>1, <4>2
      <3>5. QED  BY <1>4, <3>1, <3>2, <3>3, <3>4
    <2>3. \A q \in Runs \ {r} : overlapped'[q] = overlapped[q]
      BY <1>4 DEF Forget, TypeOK
    <2>4. QED  BY <1>1, <2>1, <2>3 DEF Active
  <1>5. ASSUME NEW r \in Runs, UNCHANGED overlapped,
               Publish(r) \/ Discard(r) \/ Call(r) \/ EndWork(r)
                          \/ (ReadBack(r) /\ run'[r].step = "freeing")
        PROVE  AloneUnlessOverlapped'
    <2>1. Active(r)' => Active(r)
      BY <1>5, <1>0 DEF Publish, Discard, Call, EndWork, ReadBack, NoRun, Active,
                        TypeOK, LeaseTypeOK, Run
    <2>2. \A q \in Runs \ {r} : run'[q].step = run[q].step
      BY <1>5, <1>0 DEF Publish, Discard, Call, EndWork, ReadBack, TypeOK, LeaseTypeOK, Run
    <2>3. QED  BY <1>1, <1>5, <2>1, <2>2 DEF Active
  <1>6. ASSUME NEW r \in Runs, NEW l \in Leases, Enter(r, l)
        PROVE  AloneUnlessOverlapped'
    <2>1. \A q \in Runs \ {r} : run'[q] = run[q]
      BY <1>6 DEF Enter, Acquire, TypeOK, LeaseTypeOK
    <2>2. /\ overlapped'[r] = (\E p \in Runs \ {r} : Active(p))
          /\ \A q \in Runs \ {r} : overlapped'[q] = (overlapped[q] \/ Active(q))
      BY <1>6 DEF Enter
    <2>3. QED  BY <2>1, <2>2 DEF AloneUnlessOverlapped, Active
  <1>7. QED
    BY <1>2, <1>3, <1>4, <1>5, <1>6
    DEF Next, vars, NextDay, Revise, Send, Start, ReadEntry, Store, Fail, Check, Leave, dataVars

(* A message is called with nothing read.                                  *)
LEMMA NextNothingRead == TypeOK /\ NothingReadBefore /\ [Next]_vars => NothingReadBefore'
  <1> SUFFICES ASSUME TypeOK, NothingReadBefore, [Next]_vars, NEW r \in Runs,
                      run'[r].step = "called"
               PROVE  read'[r].seen = {}
    BY DEF NothingReadBefore
  <1>0. run \in [Runs -> Run] /\ read \in [Runs -> Read]
    BY DEF TypeOK, LeaseTypeOK
  <1>1. CASE run[r].step = "called"
    <2>1. read[r].seen = {}
      BY <1>1 DEF NothingReadBefore
    <2>2. \A day : NothingRead(day).seen = {}
      BY DEF NothingRead
    <2>3. ASSUME NEW q \in Runs, Forget(q) \/ Start(q) PROVE read'[r].seen = {}
      BY <1>0, <2>1, <2>2, <2>3 DEF Forget, Start
    <2>4. ASSUME NEW q \in Runs, NEW f \in Fixtures, ReadEntry(q, f)
          PROVE  read'[r].seen = {}
      BY <1>0, <1>1, <2>1, <2>4 DEF ReadEntry
    <2>5. ASSUME NEW f \in Fixtures, NEW day \in KickoffDays, NEW usable \in BOOLEAN,
                 Revise(f, day, usable)
          PROVE  read'[r].seen = {}
      BY <1>1, <2>1, <2>5 DEF Revise
    <2>6. CASE UNCHANGED read
      BY <2>1, <2>6
    <2>7. QED
      BY <2>3, <2>4, <2>5, <2>6
      DEF Next, vars, NextDay, Expire, Send, Enter, Store, Fail, Check, Leave, dataVars
  <1>2. CASE run[r].step # "called"
    <2>1. ASSUME NEW q \in Runs, Start(q) PROVE read'[r].seen = {}
      BY <1>0, <1>2, <2>1 DEF Start, Call, NothingRead
    <2>2. CASE UNCHANGED run
      BY <1>2, <2>2
    <2>3. \A q \in Runs : Losing(q).step = run[q].step
      BY <1>0 DEF Losing, Run
    <2>4. CASE Expire
      BY <1>2, <2>3, <2>4 DEF Expire, ExpireLock
    <2>5. ASSUME NEW q \in Runs, Free(q) PROVE FALSE
      BY <1>2, <2>3, <2>5 DEF Free, NoRun
    <2>6. ASSUME NEW q \in Runs, Publish(q) \/ Discard(q) \/ Skip(q) \/ AcquireFails(q)
                                  \/ EndWork(q) \/ ReleaseFails(q)
          PROVE  FALSE
      BY <1>0, <1>2, <2>6
      DEF Publish, Discard, Skip, AcquireFails, EndWork, ReleaseFails, NoRun, Run
    <2>7. ASSUME NEW q \in Runs, Crash(q) PROVE FALSE
      BY <1>0, <1>2, <2>7 DEF Crash, NoRun
    <2>8. ASSUME NEW q \in Runs, ReadBack(q) PROVE FALSE
      BY <1>0, <1>2, <2>8 DEF ReadBack, NoRun, Run
    <2>9. ASSUME NEW q \in Runs, NEW l \in Leases, Acquire(q, l) PROVE FALSE
      BY <1>0, <1>2, <2>9 DEF Acquire, Run
    <2>10. QED
      BY <2>1, <2>2, <2>4, <2>5, <2>6, <2>7, <2>8, <2>9
      DEF Next, vars, NextDay, Revise, Send, Enter, ReadEntry, Store, Fail, Check, Leave
  <1>3. QED  BY <1>1, <1>2

(* A run is working because it was, or because it just passed the guard.   *)
LEMMA BecomesWorking ==
  ASSUME TypeOK, [Next]_vars, NEW r \in Runs, run'[r].step = "working"
  PROVE  run[r].step = "working" \/ \E l \in Leases : Enter(r, l)
  <1> SUFFICES ASSUME run[r].step # "working" PROVE \E l \in Leases : Enter(r, l)
    OBVIOUS
  <1>0. run \in [Runs -> Run] /\ \A q \in Runs : Losing(q).step = run[q].step
    BY DEF TypeOK, LeaseTypeOK, Losing, Run
  <1>1. CASE UNCHANGED run
    BY <1>1
  <1>2. CASE Expire
    BY <1>0, <1>2 DEF Expire, ExpireLock
  <1>3. ASSUME NEW q \in Runs, Free(q) PROVE FALSE
    BY <1>0, <1>3 DEF Free, NoRun
  <1>4. ASSUME NEW q \in Runs, Publish(q) \/ Discard(q) \/ Call(q) \/ Skip(q)
                \/ AcquireFails(q) \/ EndWork(q) \/ ReleaseFails(q)
        PROVE  FALSE
    BY <1>0, <1>4
    DEF Publish, Discard, Call, Skip, AcquireFails, EndWork, ReleaseFails, NoRun, Run
  <1>5. ASSUME NEW q \in Runs, Crash(q) PROVE FALSE
    BY <1>0, <1>5 DEF Crash, NoRun
  <1>6. ASSUME NEW q \in Runs, ReadBack(q) PROVE FALSE
    BY <1>0, <1>6 DEF ReadBack, NoRun, Run
  <1>7. ASSUME NEW q \in Runs, NEW l \in Leases, Enter(q, l)
        PROVE  \E k \in Leases : Enter(r, k)
    <2>1. CASE q = r
      BY <1>7, <2>1
    <2>2. CASE q # r
      BY <1>0, <1>7, <2>2 DEF Enter, Acquire
    <2>3. QED  BY <2>1, <2>2
  <1>8. QED
    BY <1>1, <1>2, <1>3, <1>4, <1>5, <1>6, <1>7
    DEF Next, vars, NextDay, Revise, Send, Start, ReadEntry, Store, Fail, Check, Leave

(* While a run works, its read grows by an entry or is marked by a         *)
(* revision, and nothing else touches it.                                  *)
LEMMA WorkingRead ==
  ASSUME TypeOK, [Next]_vars, NEW r \in Runs, run[r].step = "working",
         run'[r].step = "working"
  PROVE  \/ read'[r] = read[r] /\ UNCHANGED provider
         \/ \E f \in Fixtures : ReadEntry(r, f)
         \/ \E f \in Fixtures, day \in KickoffDays, usable \in BOOLEAN :
              Revise(f, day, usable)
  <1>0. run \in [Runs -> Run] /\ read \in [Runs -> Read]
    BY DEF TypeOK, LeaseTypeOK
  <1>1. ASSUME NEW q \in Runs, Forget(q), q # r
        PROVE  read'[r] = read[r] /\ UNCHANGED provider
    BY <1>0, <1>1 DEF Forget
  <1>2. ASSUME NEW q \in Runs, Start(q) PROVE read'[r] = read[r] /\ UNCHANGED provider
    BY <1>0, <1>2 DEF Start, Call
  <1>3. ASSUME NEW q \in Runs, NEW f \in Fixtures, ReadEntry(q, f), q # r
        PROVE  read'[r] = read[r] /\ UNCHANGED provider
    BY <1>0, <1>3 DEF ReadEntry
  <1>4. ~Leave(r) /\ ~Check(r)
    <2>1. ~(Skip(r) \/ AcquireFails(r) \/ ReleaseFails(r) \/ ReadBack(r) \/ Free(r))
      BY DEF Skip, AcquireFails, ReleaseFails, ReadBack, Free
    <2>2. ~Crash(r)
      BY <1>0 DEF Crash, NoRun
    <2>3. QED  BY <2>1, <2>2 DEF Leave, Check
  <1>5. QED
    BY <1>1, <1>2, <1>3, <1>4
    DEF Next, vars, NextDay, Expire, Send, Enter, Store, Fail, Check, Leave, dataVars

LEMMA NextTracks ==
  TypeOK /\ NothingReadBefore /\ ReadsTrack /\ [Next]_vars => ReadsTrack'
  <1> SUFFICES ASSUME TypeOK, NothingReadBefore, ReadsTrack, [Next]_vars,
                      NEW r \in Runs, run'[r].step = "working", NEW f \in read'[r].seen
               PROVE  /\ read'[r].entry[f].version <= provider'[f].version
                      /\ f \notin read'[r].changed => read'[r].entry[f] = provider'[f]
    BY DEF ReadsTrack
  <1>0. /\ read \in [Runs -> Read] /\ provider \in [Fixtures -> Entry]
        /\ \A g \in Fixtures : provider[g].version \in Nat
        /\ \A g \in Fixtures : read[r].entry[g].version \in Nat
    BY WindowAssumption DEF TypeOK, Entry, Read
  <1>1. CASE \E l \in Leases : Enter(r, l)
    BY <1>1 DEF Enter, Acquire, NothingReadBefore
  <1>2. CASE run[r].step = "working"
    <2>1. CASE read'[r] = read[r] /\ UNCHANGED provider
      BY <1>2, <2>1 DEF ReadsTrack
    <2>2. ASSUME NEW g \in Fixtures, ReadEntry(r, g)
          PROVE  /\ read'[r].entry[f].version <= provider'[f].version
                 /\ f \notin read'[r].changed => read'[r].entry[f] = provider'[f]
      <3>1. /\ UNCHANGED provider /\ read'[r].seen = read[r].seen \cup {g}
            /\ read'[r].changed = read[r].changed
            /\ read'[r].entry = [read[r].entry EXCEPT ![g] = provider[g]]
        BY <1>0, <2>2 DEF ReadEntry, Read
      <3>2. read[r].entry \in [Fixtures -> Entry] /\ read[r].seen \subseteq Fixtures
        BY <1>0 DEF Read
      <3>3. CASE f = g
        BY <1>0, <3>1, <3>2, <3>3
      <3>4. CASE f # g
        <4>1. f \in read[r].seen /\ read'[r].entry[f] = read[r].entry[f]
          BY <3>1, <3>2, <3>4
        <4>2. QED  BY <1>2, <3>1, <4>1 DEF ReadsTrack
      <3>5. QED  BY <3>3, <3>4
    <2>3. ASSUME NEW g \in Fixtures, NEW day \in KickoffDays, NEW usable \in BOOLEAN,
                 Revise(g, day, usable)
          PROVE  /\ read'[r].entry[f].version <= provider'[f].version
                 /\ f \notin read'[r].changed => read'[r].entry[f] = provider'[f]
      <3>1. /\ read'[r].seen = read[r].seen /\ read'[r].entry = read[r].entry
            /\ read'[r].changed = read[r].changed \cup {g}
        BY <1>0, <1>2, <2>3 DEF Revise, Read
      <3>2. /\ provider'[g].version = provider[g].version + 1
            /\ \A h \in Fixtures \ {g} : provider'[h] = provider[h]
        BY <1>0, <2>3 DEF Revise
      <3>3. f \in Fixtures /\ f \in read[r].seen
        BY <1>0, <3>1 DEF Read
      <3>4. /\ read[r].entry[f].version <= provider[f].version
            /\ f \notin read[r].changed => read[r].entry[f] = provider[f]
        BY <1>2, <3>3 DEF ReadsTrack
      <3>5. CASE f = g
        BY <1>0, <3>1, <3>2, <3>3, <3>4, <3>5
      <3>6. CASE f # g
        BY <3>1, <3>2, <3>3, <3>4, <3>6
      <3>7. QED  BY <3>5, <3>6
    <2>4. QED  BY <1>2, <2>1, <2>2, <2>3, WorkingRead
  <1>3. QED  BY <1>1, <1>2, BecomesWorking

(* What a window leaves of a fixture: its row as read, or the row it had.  *)
LEMMA ReconciledVersion ==
  ASSUME TypeOK, NEW r \in Runs, NEW f \in Fixtures
  PROVE  Reconciled(r)[f].version \in {read[r].entry[f].version, stored[f].version}
  <1>1. stored[f] \in Row
    BY DEF TypeOK
  <1>2. QED  BY <1>1 DEF Reconciled, Row

LEMMA NextBehindProvider ==
  TypeOK /\ DataInv /\ [Next]_vars => TableBehindProvider'
  <1> SUFFICES ASSUME TypeOK, DataInv, [Next]_vars, NEW f \in Fixtures
               PROVE  stored'[f].version <= provider'[f].version
    BY DEF TableBehindProvider
  <1>0. /\ provider \in [Fixtures -> Entry] /\ stored[f].version \in Nat
        /\ provider[f].version \in Nat /\ stored[f].version <= provider[f].version
    BY WindowAssumption DEF TypeOK, Entry, Row, DataInv, TableBehindProvider
  <1>1. CASE UNCHANGED <<stored, provider>>
    BY <1>0, <1>1
  <1>2. ASSUME NEW g \in Fixtures, NEW day \in KickoffDays, NEW usable \in BOOLEAN,
               Revise(g, day, usable)
        PROVE  stored'[f].version <= provider'[f].version
    <2>1. CASE f = g
      BY <1>0, <1>2, <2>1 DEF Revise
    <2>2. CASE f # g
      BY <1>0, <1>2, <2>2 DEF Revise
    <2>3. QED  BY <2>1, <2>2
  <1>3. ASSUME NEW r \in Runs, Store(r) PROVE stored'[f].version <= provider'[f].version
    <2>1. read[r].entry[f].version <= provider[f].version
      BY <1>3 DEF Store, EndWork, DataInv, ReadsTrack
    <2>2. QED  BY <1>0, <1>3, <2>1, ReconciledVersion DEF Store
  <1>4. QED
    BY <1>1, <1>2, <1>3
    DEF Next, vars, NextDay, Expire, Send, Start, Enter, ReadEntry, Fail, Check, Leave,
        Forget, dataVars

(* A run that is alone stores alone, so the table waits for its reads.     *)
LEMMA NextBehindReads ==
  TypeOK /\ DataInv /\ [Next]_vars => TableBehindReads'
  <1> SUFFICES ASSUME TypeOK, DataInv, [Next]_vars, NEW r \in Runs,
                      run'[r].step = "working", ~overlapped'[r], NEW f \in read'[r].seen
               PROVE  stored'[f].version <= read'[r].entry[f].version
    BY DEF TableBehindReads
  <1>0. /\ run \in [Runs -> Run] /\ read \in [Runs -> Read]
        /\ overlapped \in [Runs -> BOOLEAN]
    BY DEF TypeOK, LeaseTypeOK
  <1>1. CASE \E l \in Leases : Enter(r, l)
    BY <1>1 DEF Enter, Acquire, DataInv, NothingReadBefore
  <1>2. CASE run[r].step = "working"
    <2>1. ~overlapped[r]
      <3>1. ASSUME NEW q \in Runs, NEW l \in Leases, Enter(q, l) PROVE ~overlapped[r]
        BY <1>0, <1>2, <3>1 DEF Enter, Acquire, Active
      <3>2. ASSUME NEW q \in Runs, Check(q) \/ Leave(q), q # r PROVE ~overlapped[r]
        BY <1>0, <3>2 DEF Check, Leave, Forget, dataVars
      <3>3. ~Leave(r) /\ ~Check(r)
        <4>1. ~(Skip(r) \/ AcquireFails(r) \/ ReleaseFails(r) \/ ReadBack(r) \/ Free(r))
          BY <1>2 DEF Skip, AcquireFails, ReleaseFails, ReadBack, Free
        <4>2. ~Crash(r)
          BY <1>0 DEF Crash, NoRun
        <4>3. QED  BY <4>1, <4>2 DEF Leave, Check
      <3>4. CASE UNCHANGED overlapped
        BY <3>4
      <3>5. QED
        BY <3>1, <3>2, <3>3, <3>4
        DEF Next, vars, NextDay, Revise, Expire, Send, Start, ReadEntry, Store, Fail, dataVars
    <2>2. UNCHANGED stored
      <3>1. ASSUME NEW q \in Runs, Store(q) PROVE FALSE
        <4>1. q # r
          BY <1>0, <3>1 DEF Store, EndWork, Run
        <4>2. QED
          BY <1>2, <2>1, <3>1, <4>1 DEF DataInv, AloneUnlessOverlapped, Store, EndWork, Active
      <3>2. QED
        BY <3>1
        DEF Next, vars, NextDay, Revise, Expire, Send, Start, Enter, ReadEntry, Fail, Check,
            Leave, Forget, dataVars
    <2>3. CASE read'[r] = read[r]
      BY <1>2, <2>1, <2>2, <2>3 DEF DataInv, TableBehindReads
    <2>4. ASSUME NEW g \in Fixtures, ReadEntry(r, g)
          PROVE  stored[f].version <= read'[r].entry[f].version
      <3>1. /\ read'[r].seen = read[r].seen \cup {g}
            /\ read'[r].entry = [read[r].entry EXCEPT ![g] = provider[g]]
        BY <1>0, <2>4 DEF ReadEntry, Read
      <3>2. read[r].entry \in [Fixtures -> Entry]
        BY <1>0 DEF Read
      <3>3. CASE f = g
        BY <3>1, <3>2, <3>3 DEF DataInv, TableBehindProvider
      <3>4. CASE f # g
        <4>1. f \in read[r].seen /\ read'[r].entry[f] = read[r].entry[f]
          BY <3>1, <3>2, <3>4
        <4>2. QED  BY <1>2, <2>1, <4>1 DEF DataInv, TableBehindReads
      <3>5. QED  BY <3>3, <3>4
    <2>5. ASSUME NEW g \in Fixtures, NEW day \in KickoffDays, NEW usable \in BOOLEAN,
                 Revise(g, day, usable)
          PROVE  stored[f].version <= read'[r].entry[f].version
      <3>1. read'[r].seen = read[r].seen /\ read'[r].entry = read[r].entry
        BY <1>0, <2>5 DEF Revise, Read
      <3>2. QED  BY <1>2, <2>1, <3>1 DEF DataInv, TableBehindReads
    <2>6. QED  BY <1>2, <2>2, <2>3, <2>4, <2>5, WorkingRead
  <1>3. QED  BY <1>1, <1>2, BecomesWorking

-----------------------------------------------------------------------------
(* The invariant of the specification, and what follows from it.           *)

LEMMA InitInv == Init => Inv
  BY InitLease, LeaseInitInv, InitType, InitData DEF Inv

LEMMA NextInv == Inv /\ [Next]_vars => Inv'
  <1> SUFFICES ASSUME Inv, [Next]_vars PROVE Inv'
    OBVIOUS
  <1>1. LeaseInv'
    BY NextLease, LeaseNextInv DEF Inv
  <1>2. TypeOK'
    BY <1>1, NextType DEF Inv, LeaseInv
  <1>3. DataInv'
    BY NextAlone, NextNothingRead, NextTracks, NextBehindProvider, NextBehindReads
    DEF Inv, DataInv
  <1>4. QED  BY <1>1, <1>2, <1>3 DEF Inv

THEOREM SyncInvariant == Spec => []Inv
  BY InitInv, NextInv, PTL DEF Spec

(* The state of the synchronization has its types.                         *)
THEOREM SyncType == Spec => []TypeOK
  <1>1. Inv => TypeOK
    BY DEF Inv
  <1>2. QED  BY <1>1, SyncInvariant, PTL

(* A run that overlapped no other never takes the table back.              *)
THEOREM SyncNoRegression == Spec => NoRegressionWithoutOverlap
  <1>1. Inv /\ [Next]_vars =>
          [\A f \in Fixtures :
             stored'[f].version < stored[f].version =>
               \E r \in Runs : Store(r) /\ overlapped[r]]_vars
    <2> SUFFICES ASSUME Inv, Next, NEW f \in Fixtures,
                        stored'[f].version < stored[f].version
                 PROVE  \E r \in Runs : Store(r) /\ overlapped[r]
      BY DEF vars
    <2>0. stored[f].version \in Nat /\ \A r \in Runs : read[r].entry[f].version \in Nat
      BY WindowAssumption DEF Inv, TypeOK, Row, Read, Entry
    <2>1. ASSUME UNCHANGED stored PROVE FALSE
      BY <2>0, <2>1
    <2>2. PICK r \in Runs : Store(r)
      BY <2>1
      DEF Next, NextDay, Revise, Expire, Send, Start, Enter, ReadEntry, Fail, Check, Leave,
          Forget, dataVars
    <2>3. overlapped[r] \in BOOLEAN
      BY DEF Inv, TypeOK
    <2>4. CASE ~overlapped[r]
      <3>1. stored[f].version <= read[r].entry[f].version
        BY <2>2, <2>4 DEF Store, EndWork, Inv, DataInv, TableBehindReads
      <3>2. QED  BY <2>0, <2>2, <3>1, ReconciledVersion DEF Store, Inv
    <2>5. QED  BY <2>2, <2>3, <2>4
  <1>2. QED  BY <1>1, SyncInvariant, PTL DEF Spec, NoRegressionWithoutOverlap

(* A fixture the provider left alone while a run was past the guard is     *)
(* stored exactly as the provider lists it, or not in the range.           *)
THEOREM SyncExact == Spec => UntouchedFixturesAreExact
  <1>1. Inv /\ [Next]_vars =>
          [\A r \in Runs : Store(r) =>
             \A f \in Fixtures \ read[r].changed :
               LET start == read[r].start
                   p == provider[f]
               IN IF Lists(start, p)
                  THEN stored'[f] = [stored |-> TRUE, version |-> p.version, day |-> p.day]
                  ELSE ~(stored'[f].stored /\ InRange(start, stored'[f].day))]_vars
    <2> SUFFICES ASSUME Inv, NEW r \in Runs, Store(r), NEW f \in Fixtures \ read[r].changed
                 PROVE  IF Lists(read[r].start, provider[f])
                        THEN stored'[f] = [stored |-> TRUE, version |-> provider[f].version,
                                           day |-> provider[f].day]
                        ELSE ~(stored'[f].stored /\ InRange(read[r].start, stored'[f].day))
      OBVIOUS
    <2>1. read[r].entry[f] = provider[f]
      BY DEF Store, EndWork, Inv, DataInv, ReadsTrack
    <2>2. /\ read[r].start \in Nat /\ stored[f].day \in Nat /\ stored[f] \in Row
      BY WindowAssumption DEF Inv, TypeOK, Read, Row, Days, KickoffDays, Elsewhere
    <2>3. InRange(read[r].start, stored[f].day) <=> DepartsFrom(read[r].start, stored[f].day)
      BY <2>2, WindowAssumption DEF InRange, DepartsFrom
    <2>4. stored'[f] =
            IF Lists(read[r].start, provider[f])
            THEN [stored |-> TRUE, version |-> provider[f].version, day |-> provider[f].day]
            ELSE IF stored[f].stored /\ DepartsFrom(read[r].start, stored[f].day)
            THEN [stored[f] EXCEPT !.stored = FALSE, !.version = provider[f].version]
            ELSE stored[f]
      BY <2>1 DEF Store, Reconciled
    <2>5. CASE Lists(read[r].start, provider[f])
      BY <2>4, <2>5
    <2>6. CASE ~Lists(read[r].start, provider[f])
      BY <2>2, <2>3, <2>4, <2>6 DEF Row
    <2>7. QED  BY <2>5, <2>6
  <1>2. QED  BY <1>1, SyncInvariant, PTL DEF Spec, UntouchedFixturesAreExact

=============================================================================
