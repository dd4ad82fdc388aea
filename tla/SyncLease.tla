----------------------------- MODULE SyncLease -----------------------------
(***************************************************************************)
(* The guard around a synchronization task (backend/apps/fixtures/tasks.py *)
(* and backend/apps/predictions/tasks.py): a message of the Celery broker, *)
(* the worker process that executes it, and the lease it keeps in Redis.   *)
(*                                                                         *)
(* The lease is acquired by one atomic cache.add and released by two       *)
(* commands, a read and a delete.  It carries a timeout, and a run may     *)
(* outlive it.  A worker process that is lost leaves its lease behind and  *)
(* its message is delivered again.  A lease is a fresh uuid4: it differs   *)
(* from every lease held or stored at that moment.                         *)
(***************************************************************************)
EXTENDS Naturals, FiniteSets

CONSTANTS
  Runs,      \* messages of the task that can exist at once
  Leases,    \* tokens a run can draw
  NoLease    \* the lock key is absent

ASSUME LeaseAssumption == NoLease \notin Leases

VARIABLES
  lock,      \* the value under SYNCHRONIZATION_LOCK_KEY
  run        \* the messages and their executions

leaseVars == <<lock, run>>

Steps == {"idle", "queued", "called", "working", "releasing", "freeing"}

(* lost is history: whether the lease of the execution left the cache      *)
(* behind its back, by its timeout or by the delete of another execution,  *)
(* before ("early") or after ("late") the execution read it back.          *)
Run == [step: Steps, lease: Leases \cup {NoLease}, lost: {"no", "early", "late"}]

LeaseTypeOK ==
  /\ lock \in Leases \cup {NoLease}
  /\ run \in [Runs -> Run]

NoRun == [step |-> "idle", lease |-> NoLease, lost |-> "no"]

(* Between the cache.add that succeeded and the end of the release.        *)
Active(r) == run[r].step \in {"working", "releasing", "freeing"}

LeaseInit ==
  /\ lock = NoLease
  /\ run = [r \in Runs |-> NoRun]

-----------------------------------------------------------------------------
(* Beat, a deployment or an operator sends the task.                       *)

Publish(r) ==
  /\ run[r].step = "idle"
  /\ run' = [run EXCEPT ![r].step = "queued"]
  /\ UNCHANGED lock

(* A message older than its expires option is dropped unexecuted.          *)
Discard(r) ==
  /\ run[r].step = "queued"
  /\ run' = [run EXCEPT ![r] = NoRun]
  /\ UNCHANGED lock

(* A worker calls the task, which reads the date before anything else.     *)
Call(r) ==
  /\ run[r].step = "queued"
  /\ run' = [run EXCEPT ![r].step = "called"]
  /\ UNCHANGED lock

(* History: the execution as the key is cleared without it.                *)
Losing(r) ==
  [run[r] EXCEPT
     !.lost = IF ~(Active(r) /\ run[r].lease = lock) THEN @
              ELSE IF run[r].step = "freeing" THEN "late" ELSE "early"]

Fresh(l) == l # lock /\ \A q \in Runs : run[q].lease # l

(* Mutant: a get followed by a set, the get made before this step.         *)
AcquireUnguarded(r, l) ==
  /\ run[r].step = "called"
  /\ Fresh(l)
  /\ lock' = l
  /\ run' = [run EXCEPT ![r].step = "working", ![r].lease = l]

(* cache.add stores the lease only when the key is absent.                 *)
Acquire(r, l) ==
  /\ run[r].step = "called"
  /\ lock = NoLease
  /\ Fresh(l)
  /\ lock' = l
  /\ run' = [run EXCEPT ![r].step = "working", ![r].lease = l]

Skip(r) ==
  /\ run[r].step = "called"
  /\ lock # NoLease
  /\ run' = [run EXCEPT ![r] = NoRun]
  /\ UNCHANGED lock

(* An error of the cache fails the task before it did anything.  When it   *)
(* is the answer that was lost, a lease without a run stays behind.        *)
AcquireFails(r) ==
  /\ run[r].step = "called"
  /\ run' = [run EXCEPT ![r] = NoRun]
  /\ \/ UNCHANGED lock
     \/ /\ lock = NoLease
        /\ \E l \in Leases : Fresh(l) /\ lock' = l

(* The try block ends, by its last statement or by an exception.           *)
EndWork(r) ==
  /\ run[r].step = "working"
  /\ run' = [run EXCEPT ![r].step = "releasing"]
  /\ UNCHANGED lock

-----------------------------------------------------------------------------
(* _release_lock: cache.get, then cache.delete on a match.                 *)

(* Mutant: the value read back is not compared.                            *)
ReadBackUncompared(r) ==
  /\ run[r].step = "releasing"
  /\ run' = [run EXCEPT ![r].step = "freeing"]
  /\ UNCHANGED lock

ReadBack(r) ==
  /\ run[r].step = "releasing"
  /\ run' = [run EXCEPT ![r] = IF lock = run[r].lease
                               THEN [run[r] EXCEPT !.step = "freeing"] ELSE NoRun]
  /\ UNCHANGED lock

(* Deletes whatever the key holds by now.                                  *)
Free(r) ==
  /\ run[r].step = "freeing"
  /\ lock' = NoLease
  /\ run' = [q \in Runs |-> IF q = r THEN NoRun ELSE Losing(q)]

(* A cache that cannot be reached: the fixture task raises out of its      *)
(* finally, the prediction tasks log and return; the lease is left.        *)
ReleaseFails(r) ==
  /\ run[r].step \in {"releasing", "freeing"}
  /\ run' = [run EXCEPT ![r] = NoRun]
  /\ UNCHANGED lock

-----------------------------------------------------------------------------
(* The worker process is lost: acks_late and reject_on_worker_lost put the *)
(* message back, and the lease stays where it is.                          *)

Crash(r) ==
  /\ run[r].step \notin {"idle", "queued"}
  /\ run' = [run EXCEPT ![r] = [NoRun EXCEPT !.step = "queued"]]
  /\ UNCHANGED lock

(* The timeout of the key.                                                 *)
ExpireLock ==
  /\ lock # NoLease
  /\ lock' = NoLease
  /\ run' = [r \in Runs |-> Losing(r)]

-----------------------------------------------------------------------------

Handle(r) ==
  \/ Publish(r) \/ Discard(r) \/ Call(r)
  \/ Skip(r) \/ AcquireFails(r)
  \/ \E l \in Leases : Acquire(r, l)
  \/ ReadBack(r) \/ Free(r) \/ ReleaseFails(r)
  \/ Crash(r)

LeaseNext == ExpireLock \/ \E r \in Runs : Handle(r) \/ EndWork(r)

LeaseSpec == LeaseInit /\ [][LeaseNext]_leaseVars

-----------------------------------------------------------------------------
(* Properties.                                                             *)

(* Two executions are past the guard at once only when one of them lost    *)
(* its lease.                                                              *)
ExclusiveWhileLeased ==
  \A r, q \in Runs :
    r # q /\ Active(r) /\ Active(q) => run[r].lost # "no" \/ run[q].lost # "no"

(* _release_lock "shrinks the window in which that can happen from the     *)
(* whole remainder of a run to a single round trip": a delete removes      *)
(* another run's lease only when its own left the cache after it was read  *)
(* back (by its timeout, or by the delete of a run in the same position).  *)
FreesASuccessorOnlyInARace ==
  [][\A r \in Runs :
       Free(r) /\ lock \notin {NoLease, run[r].lease} => run[r].lost = "late"]_leaseVars

=============================================================================
