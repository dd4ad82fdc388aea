---------------------- MODULE SessionLifecycleProofs ----------------------
(***************************************************************************)
(* Proofs about SessionLifecycle, for every set of accounts, sessions,     *)
(* requests, operators and forms and every value of the bounds.            *)
(***************************************************************************)
EXTENDS SessionLifecycle, TLAPS

USE BoundsAssumption

LEMMA Witnesses == AnAccount \in Accounts /\ ASession \in Sessions
  BY DEF AnAccount, ASession

LEMMA InitialRecords ==
  /\ FirstUser \in User
  /\ NoSession \in SessionRow
  /\ IdleSignIn \in SignIn
  /\ NoForm \in SessionForm
  /\ \A u \in User, a \in Accounts, st \in {"away", "held"} :
       [Away(u) EXCEPT !.step = st, !.account = a] \in Instance
  /\ \A u \in User : Away(u) \in Instance
<1>1. FirstUser \in User
  BY DEF FirstUser, FirstHash, User, Hash
<1>2. NoSession \in SessionRow
  BY Witnesses DEF NoSession, SessionRow, Instant, Never
<1>3. IdleSignIn \in SignIn
  BY <1>1, Witnesses DEF IdleSignIn, SignIn
<1>4. NoForm \in SessionForm
  BY <1>2, Witnesses DEF NoForm, SessionForm
<1>5. \A u \in User : Away(u) \in Instance
  BY Witnesses DEF Away, Instance, Instant, Never
<1>6. \A u \in User, a \in Accounts, st \in {"away", "held"} :
       [Away(u) EXCEPT !.step = st, !.account = a] \in Instance
  BY <1>5 DEF Away, Instance
<1> QED
  BY <1>1, <1>2, <1>3, <1>4, <1>5, <1>6

LEMMA RevokeType ==
  ASSUME session \in [Sessions -> SessionRow], NEW S, NEW at \in Instant
  PROVE  Revoke(S, at) \in [Sessions -> SessionRow]
  BY DEF Revoke, SessionRow, Never

LEMMA ExcuseType ==
  ASSUME lapse \in [Sessions -> SUBSET Lapses], NEW S, NEW why \in Lapses
  PROVE  Excuse(S, why) \in [Sessions -> SUBSET Lapses]
  BY DEF Excuse

(* Every variable keeps its type: the rows, the requests in flight, the    *)
(* instances and the transactions of their saves.                          *)
THEOREM TypeCorrect == Spec => []TypeOK
<1>1. Init => TypeOK
  <2> SUFFICES ASSUME Init PROVE TypeOK
    OBVIOUS
  <2>1. user \in [Accounts -> User]
    <3>1. PICK old \in SUBSET Accounts :
            user = [a \in Accounts |->
                      [hash |-> [FirstHash EXCEPT !.outdated = a \in old],
                       active |-> TRUE]]
      BY DEF Init
    <3>2. \A b \in BOOLEAN : [FirstHash EXCEPT !.outdated = b] \in Hash
      BY DEF FirstHash, Hash
    <3>3. \A a : (a \in old) \in BOOLEAN
      OBVIOUS
    <3>4. \A a \in Accounts : [FirstHash EXCEPT !.outdated = a \in old] \in Hash
      BY <3>2, <3>3
    <3> QED
      BY <3>1, <3>4 DEF User
  <2>2. now \in Time
    BY DEF Init, Time
  <2> QED
    BY <2>1, <2>2, InitialRecords DEF Init, TypeOK
<1>2. TypeOK /\ [Next]_vars => TypeOK'
  <2> SUFFICES ASSUME TypeOK, [Next]_vars PROVE TypeOK'
    OBVIOUS
  <2>0. now \in Instant /\ Never \in Instant
    BY DEF TypeOK, Instant
  <2>1. ASSUME NEW r \in Requests, NEW a \in Accounts, VerifyPassword(r, a)
        PROVE TypeOK'
    BY <2>1 DEF TypeOK, VerifyPassword, SignIn
  <2>2. ASSUME NEW r \in Requests, UpgradeHash(r) PROVE TypeOK'
    <3>1. signIn[r].account \in Accounts /\ signIn[r].loaded \in User
      BY DEF TypeOK, SignIn
    <3> DEFINE up == [signIn[r].loaded.hash EXCEPT !.outdated = FALSE]
    <3>2. up \in Hash
      BY <3>1 DEF User, Hash
    <3>3. user' \in [Accounts -> User]
      BY <2>2, <3>1, <3>2 DEF TypeOK, UpgradeHash, User
    <3>4. signIn' \in [Requests -> SignIn]
      BY <2>2, <3>1, <3>2 DEF TypeOK, UpgradeHash, User, SignIn
    <3>5. lapse' \in [Sessions -> SUBSET Lapses]
      BY <2>2, ExcuseType DEF TypeOK, UpgradeHash, Lapses
    <3> QED
      BY <2>2, <3>3, <3>4, <3>5 DEF TypeOK, UpgradeHash
  <2>3. ASSUME NEW r \in Requests, RejectInactive(r) PROVE TypeOK'
    BY <2>3, InitialRecords DEF TypeOK, RejectInactive
  <2>4. ASSUME NEW r \in Requests, NEW s \in Sessions, IssueSession(r, s)
        PROVE TypeOK'
    <3>1. signIn[r].account \in Accounts /\ signIn[r].loaded.hash.version \in Nat
      BY DEF TypeOK, SignIn, User, Hash
    <3>2. now + Lifetime \in Instant
      BY <2>4 DEF TypeOK, IssueSession, Time, Instant
    <3>3. session' \in [Sessions -> SessionRow]
      BY <2>4, <2>0, <3>1, <3>2 DEF TypeOK, IssueSession, SessionRow
    <3>4. lapse' \in [Sessions -> SUBSET Lapses]
      BY <2>4, ExcuseType DEF TypeOK, IssueSession, Lapses
    <3> QED
      BY <2>4, <3>3, <3>4, InitialRecords DEF TypeOK, IssueSession
  <2>5. ASSUME NEW i \in Operators, NEW a \in Accounts, LoadUser(i, a) PROVE TypeOK'
    <3>1. [Away(user[a]) EXCEPT !.step = "held", !.account = a] \in Instance
      BY InitialRecords DEF TypeOK
    <3> QED
      BY <2>5, <3>1 DEF TypeOK, LoadUser
  <2>6. ASSUME NEW i \in Operators, DropUser(i) PROVE TypeOK'
    BY <2>6, InitialRecords DEF TypeOK, DropUser
  <2>7. ASSUME NEW i \in Operators, SetPassword(i) \/ SetUnusablePassword(i)
        PROVE TypeOK'
    <3>1. operator[i] \in Instance
      BY DEF TypeOK
    <3>2. NewHash(TRUE) \in Hash /\ NewHash(FALSE) \in Hash
      BY DEF TypeOK, Hash, NewHash
    <3>3. /\ [operator[i].user EXCEPT !.hash = NewHash(TRUE)] \in User
          /\ [operator[i].user EXCEPT !.hash = NewHash(FALSE)] \in User
      BY <3>1, <3>2 DEF User, Instance
    <3>4. CASE SetPassword(i)
      <4>1. operator'[i] \in Instance
        BY <3>1, <3>3, <3>4 DEF TypeOK, SetPassword, Instance
      <4> QED
        BY <3>4, <4>1 DEF TypeOK, SetPassword
    <3>5. CASE SetUnusablePassword(i)
      <4>1. operator'[i] \in Instance
        BY <3>1, <3>3, <3>5 DEF TypeOK, SetUnusablePassword, Instance
      <4> QED
        BY <3>5, <4>1 DEF TypeOK, SetUnusablePassword
    <3> QED
      BY <2>7, <3>4, <3>5
  <2>8. ASSUME NEW i \in Operators, SetActive(i) PROVE TypeOK'
    <3>1. operator[i] \in Instance
      BY DEF TypeOK
    <3>2. operator' \in [Operators -> Instance]
      BY <2>8, <3>1 DEF TypeOK, SetActive, Instance, User
    <3> QED
      BY <2>8, <3>2 DEF TypeOK, SetActive
  <2>9. ASSUME NEW i \in Operators, NEW fields \in {"all", "password", "others"},
               BeginSave(i, fields)
        PROVE TypeOK'
    <3>1. /\ operator[i] \in Instance
          /\ UnrevokedOf(operator[i].account) \in SUBSET Sessions
          /\ MatchedBySave(i, fields) \in SUBSET Sessions
          /\ SeenBySave(i, fields) \in SUBSET Sessions
      BY DEF TypeOK, UnrevokedOf, StoredOf, MatchedBySave, SeenBySave
    <3>2. operator' \in [Operators -> Instance]
      BY <2>9, <2>0, <3>1 DEF TypeOK, BeginSave, Instance
    <3> QED
      BY <2>9, <3>2 DEF TypeOK, BeginSave
  <2>10. ASSUME NEW i \in Operators, CommitSave(i) PROVE TypeOK'
    <3>1. operator[i] \in Instance
      BY DEF TypeOK
    <3>2. /\ operator[i].account \in Accounts
          /\ operator[i].user \in User
          /\ operator[i].at \in Instant
      BY <3>1 DEF Instance
    <3>3. WrittenRow(i) \in User
      BY <3>2 DEF TypeOK, WrittenRow, User
    <3>4. user' \in [Accounts -> User]
      BY <2>10, <3>2, <3>3 DEF TypeOK, CommitSave
    <3>5. session' \in [Sessions -> SessionRow]
      BY <2>10, <3>2, RevokeType DEF TypeOK, CommitSave
    <3>6. lapse' \in [Sessions -> SUBSET Lapses]
      BY <2>10, ExcuseType DEF TypeOK, CommitSave, ExcusedBySave, Lapses
    <3>7. DutyAfterCommit(i) \in {"none", "dropped", "lost", "owed"}
      BY DEF DutyAfterCommit
    <3>8. operator' \in [Operators -> Instance]
      BY <2>10, <2>0, <3>1, <3>7 DEF TypeOK, CommitSave, AfterSave, Instance
    <3> QED
      BY <2>10, <3>4, <3>5, <3>6, <3>8 DEF TypeOK, CommitSave
  <2>11. ASSUME NEW i \in Operators, AbortSave(i) PROVE TypeOK'
    <3>1. operator[i] \in Instance
      BY DEF TypeOK
    <3>2. operator' \in [Operators -> Instance]
      BY <2>11, <2>0, <3>1 DEF TypeOK, AbortSave, AfterSave, Instance
    <3> QED
      BY <2>11, <3>2 DEF TypeOK, AbortSave
  <2>12. ASSUME NEW s \in Sessions, SignOut(s) PROVE TypeOK'
    BY <2>12, <2>0, RevokeType DEF TypeOK, SignOut
  <2>13. ASSUME NEW s \in Sessions, DeleteSession(s) PROVE TypeOK'
    BY <2>13 DEF TypeOK, DeleteSession, SessionRow
  <2>14. ASSUME NEW S \in SUBSET Sessions, RevokeSelectedSessions(S) PROVE TypeOK'
    BY <2>14, <2>0, RevokeType DEF TypeOK, RevokeSelectedSessions
  <2>15. ASSUME NEW f \in Forms, NEW s \in Sessions, LoadSessionForm(f, s)
         PROVE TypeOK'
    BY <2>15 DEF TypeOK, LoadSessionForm, SessionForm
  <2>16. ASSUME NEW f \in Forms, SaveSessionForm(f) PROVE TypeOK'
    <3>1. form[f].session \in Sessions /\ form[f].row \in SessionRow
      BY DEF TypeOK, SessionForm
    <3>2. session' \in [Sessions -> SessionRow]
      BY <2>16, <3>1 DEF TypeOK, SaveSessionForm
    <3>3. lapse' \in [Sessions -> SUBSET Lapses]
      BY <2>16, ExcuseType DEF TypeOK, SaveSessionForm, Lapses
    <3> QED
      BY <2>16, <3>2, <3>3, InitialRecords DEF TypeOK, SaveSessionForm
  <2>17. ASSUME NEW at \in Time, DeleteExpiredSessions(at) PROVE TypeOK'
    BY <2>17 DEF TypeOK, DeleteExpiredSessions, SessionRow
  <2>18. CASE Tick
    BY <2>18 DEF TypeOK, Tick, Time
  <2>19. CASE UNCHANGED vars
    BY <2>19 DEF TypeOK, vars
  <2>20. ASSUME NEW i \in Operators, ClearRawPassword(i) PROVE TypeOK'
    <3>1. operator[i] \in Instance
      BY DEF TypeOK
    <3>2. operator' \in [Operators -> Instance]
      BY <2>20, <3>1 DEF TypeOK, ClearRawPassword, Instance
    <3> QED
      BY <2>20, <3>2 DEF TypeOK, ClearRawPassword
  <2>21. ASSUME NEW i \in Operators, NEW enclosed \in BOOLEAN, LoseCommit(i, enclosed)
         PROVE TypeOK'
    <3>1. operator[i] \in Instance
      BY DEF TypeOK
    <3>2. operator' \in [Operators -> Instance]
      BY <2>21, <2>0, <3>1 DEF TypeOK, LoseCommit, AfterSave, Instance
    <3> QED
      BY <2>21, <3>2 DEF TypeOK, LoseCommit
  <2> QED
    BY <2>1, <2>2, <2>3, <2>4, <2>5, <2>6, <2>7, <2>8, <2>9, <2>10, <2>11, <2>12,
       <2>13, <2>14, <2>15, <2>16, <2>17, <2>18, <2>19, <2>20, <2>21
       DEF Next, SignInStep, OperatorStep, SaveEnds, SessionStep, PurgeStep
<1> QED
  BY <1>1, <1>2, PTL DEF Spec

-----------------------------------------------------------------------------
(* The flags of an instance.                                               *)

(* A written instance has no raw password left, and still owes only what   *)
(* its flags said when the save began: nothing but a duty leaves           *)
(* _password_removed set.                                                  *)
ClearedInv ==
  \A i \in Operators :
    operator[i].step = "written" =>
      /\ operator[i].raw = FALSE
      /\ operator[i].removed => operator[i].duty = "owed"

(* What the operators' steps do to the instance they act on, and that they *)
(* touch no other.                                                         *)
LEMMA OperatorFrame ==
  ASSUME TypeOK, NEW i \in Operators, NEW j \in Operators, i # j,
         NEW a \in Accounts, NEW fields \in {"all", "password", "others"},
         \/ LoadUser(i, a) \/ DropUser(i) \/ SetPassword(i)
         \/ SetUnusablePassword(i) \/ SetActive(i)
         \/ BeginSave(i, fields) \/ SaveEnds(i)
  PROVE  operator'[j] = operator[j]
  BY DEF TypeOK, LoadUser, DropUser, SetPassword, SetUnusablePassword, SetActive,
         BeginSave, SaveEnds, ClearRawPassword, CommitSave, AbortSave, LoseCommit

LEMMA LoadedInstance ==
  ASSUME TypeOK, NEW i \in Operators, NEW a \in Accounts,
         LoadUser(i, a) \/ DropUser(i)
  PROVE  /\ operator'[i].step \notin {"saving", "written"}
         /\ operator'[i].raw = FALSE
         /\ operator'[i].removed = FALSE
         /\ operator'[i].duty = "none"
<1>1. CASE LoadUser(i, a)
  BY <1>1 DEF TypeOK, LoadUser, Away
<1>2. CASE DropUser(i)
  BY <1>2 DEF TypeOK, DropUser, Away
<1> QED
  BY <1>1, <1>2

LEMMA ReplacedInstance ==
  ASSUME TypeOK, NEW i \in Operators, SetPassword(i) \/ SetUnusablePassword(i)
  PROVE  /\ operator'[i].step = "held"
         /\ operator'[i].raw = TRUE \/ operator'[i].removed = TRUE
         /\ operator'[i].duty = "owed"
<1>1. operator[i] \in Instance
  BY DEF TypeOK
<1>2. CASE SetPassword(i)
  BY <1>1, <1>2 DEF TypeOK, SetPassword, Instance
<1>3. CASE SetUnusablePassword(i)
  BY <1>1, <1>3 DEF TypeOK, SetUnusablePassword, Instance
<1> QED
  BY <1>2, <1>3

LEMMA KeptInstance ==
  ASSUME TypeOK, NEW i \in Operators, NEW fields \in {"all", "password", "others"},
         SetActive(i) \/ BeginSave(i, fields) \/ AbortSave(i)
  PROVE  /\ operator[i].step # "written"
         /\ operator'[i].raw = operator[i].raw
         /\ operator'[i].removed = operator[i].removed
         /\ operator'[i].duty = operator[i].duty
<1>1. operator[i] \in Instance
  BY DEF TypeOK
<1>2. CASE SetActive(i)
  BY <1>1, <1>2 DEF TypeOK, SetActive, Instance
<1>3. CASE BeginSave(i, fields)
  BY <1>1, <1>3 DEF TypeOK, BeginSave, Instance
<1>4. CASE AbortSave(i)
  BY <1>1, <1>4 DEF TypeOK, AbortSave, AfterSave, Instance
<1> QED
  BY <1>2, <1>3, <1>4

LEMMA StepsKept ==
  ASSUME TypeOK, NEW i \in Operators, NEW fields \in {"all", "password", "others"},
         SetActive(i) \/ BeginSave(i, fields) \/ AbortSave(i)
  PROVE  /\ operator'[i].step # "written"
         /\ ~BeginSave(i, fields) => operator'[i].step = "held"
<1>1. operator[i] \in Instance
  BY DEF TypeOK
<1>2. CASE SetActive(i)
  BY <1>1, <1>2 DEF TypeOK, SetActive, Instance
<1>3. CASE BeginSave(i, fields)
  BY <1>1, <1>3 DEF TypeOK, BeginSave, Instance
<1>4. CASE AbortSave(i)
  BY <1>1, <1>4 DEF TypeOK, AbortSave, AfterSave, Instance
<1> QED
  BY <1>2, <1>3, <1>4

LEMMA BegunInstance ==
  ASSUME TypeOK, NEW i \in Operators, NEW fields \in {"all", "password", "others"},
         BeginSave(i, fields)
  PROVE  /\ operator'[i].fields = fields
         /\ operator'[i].matched = MatchedBySave(i, fields)
         /\ operator'[i].seen = SeenBySave(i, fields)
         /\ operator'[i].matched # {} => operator'[i].at \in Time
<1>1. operator[i] \in Instance
  BY DEF TypeOK
<1> QED
  BY <1>1 DEF TypeOK, BeginSave, Instance

(* Django clears the raw password and touches nothing else.                *)
LEMMA ClearedInstance ==
  ASSUME TypeOK, NEW i \in Operators, ClearRawPassword(i)
  PROVE  /\ operator[i].step = "saving"
         /\ operator'[i].step = "written"
         /\ operator'[i].raw = FALSE
         /\ operator'[i].removed = operator[i].removed
         /\ operator'[i].duty = operator[i].duty
         /\ operator'[i].fields = operator[i].fields
         /\ operator'[i].matched = operator[i].matched
         /\ operator'[i].seen = operator[i].seen
         /\ operator'[i].at = operator[i].at
<1>1. operator[i] \in Instance
  BY DEF TypeOK
<1> QED
  BY <1>1 DEF TypeOK, ClearRawPassword, Instance

LEMMA SavedInstance ==
  ASSUME TypeOK, ClearedInv, NEW i \in Operators, CommitSave(i)
  PROVE  /\ operator'[i].step = "held"
         /\ operator'[i].raw = FALSE
         /\ operator'[i].removed = FALSE
         /\ operator'[i].duty # "owed"
<1>1. operator[i] \in Instance
  BY DEF TypeOK
<1>2. DutyAfterCommit(i) # "owed"
  BY DEF DutyAfterCommit
<1>3. operator[i].raw = FALSE
  BY DEF CommitSave, ClearedInv
<1> QED
  BY <1>1, <1>2, <1>3 DEF TypeOK, CommitSave, AfterSave, Instance

(* A failed commit leaves the credential owed when it was destroyed and    *)
(* the transaction was that of the save, and lost otherwise.               *)
LEMMA LostInstance ==
  ASSUME TypeOK, ClearedInv, NEW i \in Operators, NEW enclosed \in BOOLEAN,
         LoseCommit(i, enclosed)
  PROVE  /\ operator'[i].step = "held"
         /\ operator'[i].raw = FALSE
         /\ operator'[i].removed = (operator[i].removed /\ ~enclosed)
         /\ operator[i].duty # "owed" => operator'[i].duty = operator[i].duty
         /\ operator[i].duty = "owed" =>
              (operator'[i].duty = "owed" <=> operator[i].removed /\ ~enclosed)
<1>1. operator[i] \in Instance
  BY DEF TypeOK
<1>2. operator[i].raw = FALSE
  BY DEF LoseCommit, ClearedInv
<1> QED
  BY <1>1, <1>2 DEF TypeOK, LoseCommit, AfterSave, Instance

(* Every step but an operator's leaves the instances alone.                *)
LEMMA OperatorSteps ==
  ASSUME [Next]_vars
  PROVE  \/ UNCHANGED operator
         \/ \E i \in Operators, a \in Accounts : LoadUser(i, a)
         \/ \E i \in Operators : DropUser(i) \/ SetPassword(i)
              \/ SetUnusablePassword(i) \/ SetActive(i) \/ ClearRawPassword(i)
              \/ CommitSave(i) \/ AbortSave(i)
         \/ \E i \in Operators, enclosed \in BOOLEAN : LoseCommit(i, enclosed)
         \/ \E i \in Operators, fields \in {"all", "password", "others"} :
              BeginSave(i, fields)
  BY DEF Next, SignInStep, VerifyPassword, UpgradeHash, RejectInactive, IssueSession,
         OperatorStep, SaveEnds, SessionStep, SignOut, DeleteSession,
         RevokeSelectedSessions, LoadSessionForm, SaveSessionForm, PurgeStep,
         DeleteExpiredSessions, Tick, vars

(* The flags and what they stand for, at every moment of a save.           *)
PendingInv == ClearedInv /\ CredentialPendingUntilStored

LEMMA PendingInvariant == Spec => []PendingInv
<1>1. Init => PendingInv
  BY DEF Init, Away, PendingInv, ClearedInv, CredentialPendingUntilStored,
         HasNewPassword
<1>2. TypeOK /\ PendingInv /\ [Next]_vars => PendingInv'
  <2> SUFFICES ASSUME TypeOK, PendingInv, [Next]_vars PROVE PendingInv'
    OBVIOUS
  <2> USE DEF PendingInv, ClearedInv, CredentialPendingUntilStored, HasNewPassword
  <2>0. \A j \in Operators : /\ operator[j].raw \in BOOLEAN
                             /\ operator[j].removed \in BOOLEAN
    BY DEF TypeOK, Instance
  <2>1. CASE UNCHANGED operator
    BY <2>1
  <2>2. ASSUME NEW i \in Operators, NEW a \in Accounts, LoadUser(i, a) PROVE PendingInv'
    BY <2>2, LoadedInstance, OperatorFrame
  <2>3. ASSUME NEW i \in Operators, DropUser(i) PROVE PendingInv'
    <3>1. PICK a \in Accounts : TRUE
      BY Witnesses
    <3> QED
      BY <2>3, <3>1, LoadedInstance, OperatorFrame
  <2>4. ASSUME NEW i \in Operators, SetPassword(i) \/ SetUnusablePassword(i)
        PROVE PendingInv'
    BY <2>4, ReplacedInstance, OperatorFrame, Witnesses
  <2>5. ASSUME NEW i \in Operators, NEW fields \in {"all", "password", "others"},
               SetActive(i) \/ BeginSave(i, fields) \/ AbortSave(i)
        PROVE PendingInv'
    <3>1. operator'[i].step # "written"
      BY <2>5, KeptInstance, StepsKept
    <3> QED
      BY <2>5, <3>1, KeptInstance, OperatorFrame, Witnesses DEF SaveEnds
  <2>6. ASSUME NEW i \in Operators, CommitSave(i) PROVE PendingInv'
    BY <2>6, SavedInstance, OperatorFrame, Witnesses DEF SaveEnds
  <2>7. ASSUME NEW i \in Operators, ClearRawPassword(i) PROVE PendingInv'
    <3>1. operator[i].removed => operator[i].duty = "owed"
      BY <2>7, ClearedInstance
    <3>2. /\ operator'[i].step = "written"
          /\ operator'[i].raw = FALSE
          /\ operator'[i].removed => operator'[i].duty = "owed"
      BY <2>7, <3>1, ClearedInstance
    <3>3. \A j \in Operators : j # i => operator'[j] = operator[j]
      BY <2>7, OperatorFrame, Witnesses DEF SaveEnds
    <3> QED
      BY <3>2, <3>3
  <2>8. ASSUME NEW i \in Operators, NEW enclosed \in BOOLEAN, LoseCommit(i, enclosed)
        PROVE PendingInv'
    <3>1. operator[i].step = "written"
      BY <2>8 DEF LoseCommit
    <3>2. \A j \in Operators : j # i => operator'[j] = operator[j]
      BY <2>8, OperatorFrame, Witnesses DEF SaveEnds
    <3>3. operator'[i].step = "held"
      BY <2>8, LostInstance
    <3>4. operator'[i].duty = "owed" <=> operator'[i].raw \/ operator'[i].removed
      <4>1. CASE operator[i].duty = "owed"
        BY <2>8, <4>1, LostInstance
      <4>2. CASE operator[i].duty # "owed"
        <5>1. operator[i].removed = FALSE
          BY <2>0, <3>1, <4>2
        <5> QED
          BY <2>8, <4>2, <5>1, LostInstance
      <4> QED
        BY <4>1, <4>2
    <3> QED
      BY <3>2, <3>3, <3>4
  <2> QED
    BY <2>1, <2>2, <2>3, <2>4, <2>5, <2>6, <2>7, <2>8, OperatorSteps
<1> QED
  BY <1>1, <1>2, TypeCorrect, PTL DEF Spec

(* Once a save has returned or raised, has_new_password is true of an      *)
(* instance exactly while it owes the database a credential: a failed      *)
(* write or receiver keeps the flags, a save of other columns and a commit *)
(* that fails after Django cleared the raw password lose them early.       *)
THEOREM PendingCorrect == Spec => []CredentialPendingUntilStored
<1>1. PendingInv => CredentialPendingUntilStored
  BY DEF PendingInv
<1> QED
  BY <1>1, PendingInvariant, PTL

-----------------------------------------------------------------------------
(* What a credential leaves standing.  Expiry plays no part in it, so the  *)
(* inductive invariant is about sessions that are stored and not revoked.  *)

Standing(s) == session[s].stored /\ session[s].revoked = Never

Accounted(s) ==
  Standing(s) => \/ session[s].version = user[session[s].account].hash.version
                 \/ lapse[s] # {}

(* A transaction about to store a replaced credential has matched every    *)
(* session that stood when its receiver ran.                               *)
ReceiverMatched(i) ==
  /\ InTransaction(i)
  /\ operator[i].duty = "owed"
  /\ WritesPassword(operator[i].fields)
  => /\ operator[i].matched = operator[i].seen
     /\ operator[i].matched # {} => operator[i].at \in Time

(* The columns of a session other than revoked_at never change, so a       *)
(* loaded form can only be wrong about that one.                           *)
FormFaithful(f) ==
  form[f].loaded =>
    LET row == form[f].row
        s == form[f].session
    IN /\ session[s].issued
       /\ row.issued
       /\ row.stored
       /\ row.account = session[s].account
       /\ row.version = session[s].version

CredentialInv ==
  /\ PendingInv
  /\ \A i \in Operators : ReceiverMatched(i)
  /\ \A s \in Sessions : session[s].stored => session[s].issued
  /\ \A f \in Forms : FormFaithful(f)
  /\ \A s \in Sessions : Accounted(s)

LEMMA CredentialInvInit == Init => CredentialInv
<1> SUFFICES ASSUME Init PROVE CredentialInv
  OBVIOUS
<1>1. PendingInv
  BY DEF Init, Away, PendingInv, ClearedInv, CredentialPendingUntilStored,
         HasNewPassword
<1>2. \A i \in Operators : ReceiverMatched(i)
  BY DEF Init, Away, ReceiverMatched, InTransaction
<1>3. \A f \in Forms : FormFaithful(f)
  BY DEF Init, NoForm, FormFaithful
<1>4. \A s \in Sessions : session[s].stored = FALSE
  BY DEF Init, NoSession
<1> QED
  BY <1>1, <1>2, <1>3, <1>4 DEF CredentialInv, Accounted, Standing

(* The receiver is the only way a replaced credential reaches the table    *)
(* with its flags set, so a save's transaction keeps what it matched.      *)
LEMMA ReceiverStep ==
  ASSUME TypeOK, PendingInv, \A i \in Operators : ReceiverMatched(i), [Next]_vars
  PROVE  \A i \in Operators : ReceiverMatched(i)'
<1> USE DEF ReceiverMatched, InTransaction
<1> DEFINE Goal == \A j \in Operators : ReceiverMatched(j)'
<1>1. CASE UNCHANGED operator
  BY <1>1
<1>2. ASSUME NEW i \in Operators, NEW a \in Accounts, LoadUser(i, a) PROVE Goal
  BY <1>2, LoadedInstance, OperatorFrame
<1>3. ASSUME NEW i \in Operators,
             \/ DropUser(i) \/ SetPassword(i) \/ SetUnusablePassword(i)
             \/ SetActive(i) \/ CommitSave(i) \/ AbortSave(i)
      PROVE Goal
  <2>1. operator'[i].step \notin {"saving", "written"}
    <3>1. CASE SetActive(i)
      BY <3>1 DEF TypeOK, SetActive, Instance
    <3>2. CASE AbortSave(i)
      BY <3>2 DEF TypeOK, AbortSave, AfterSave, Instance
    <3>3. CASE CommitSave(i)
      BY <3>3, SavedInstance DEF PendingInv
    <3> QED
      BY <1>3, <3>1, <3>2, <3>3, LoadedInstance, ReplacedInstance, Witnesses
  <2>2. \A j \in Operators : j # i => operator'[j] = operator[j]
    BY <1>3, OperatorFrame, Witnesses DEF SaveEnds
  <2> QED
    BY <2>1, <2>2
<1>4. ASSUME NEW i \in Operators, NEW fields \in {"all", "password", "others"},
             BeginSave(i, fields)
      PROVE Goal
  <2>1. /\ operator'[i].duty = operator[i].duty
        /\ operator'[i].fields = fields
        /\ operator'[i].matched = MatchedBySave(i, fields)
        /\ operator'[i].seen = SeenBySave(i, fields)
        /\ operator'[i].matched # {} => operator'[i].at \in Time
    BY <1>4, KeptInstance, BegunInstance
  <2>2. operator[i].duty = "owed" => HasNewPassword(i)
    BY <1>4 DEF BeginSave, PendingInv, CredentialPendingUntilStored
  <2>3. ReceiverMatched(i)'
    BY <2>1, <2>2 DEF MatchedBySave, SeenBySave, WritesPassword
  <2>4. \A j \in Operators : j # i => operator'[j] = operator[j]
    BY <1>4, OperatorFrame, Witnesses
  <2> QED
    BY <2>3, <2>4
<1>5. ASSUME NEW i \in Operators, ClearRawPassword(i) PROVE Goal
  <2>1. /\ operator[i].step = "saving"
        /\ operator'[i].duty = operator[i].duty
        /\ operator'[i].fields = operator[i].fields
        /\ operator'[i].matched = operator[i].matched
        /\ operator'[i].seen = operator[i].seen
        /\ operator'[i].at = operator[i].at
    BY <1>5, ClearedInstance
  <2>2. \A j \in Operators : j # i => operator'[j] = operator[j]
    BY <1>5, OperatorFrame, Witnesses DEF SaveEnds
  <2> QED
    BY <2>1, <2>2
<1>6. ASSUME NEW i \in Operators, NEW enclosed \in BOOLEAN, LoseCommit(i, enclosed)
      PROVE Goal
  <2>1. operator'[i].step = "held"
    BY <1>6, LostInstance DEF PendingInv
  <2>2. \A j \in Operators : j # i => operator'[j] = operator[j]
    BY <1>6, OperatorFrame, Witnesses DEF SaveEnds
  <2> QED
    BY <2>1, <2>2
<1> QED
  BY <1>1, <1>2, <1>3, <1>4, <1>5, <1>6, OperatorSteps

(* What a step may do to a session: issue it once, or change whether it is *)
(* stored and when it was revoked.                                         *)
LEMMA ColumnsStep ==
  ASSUME TypeOK, \A f \in Forms : FormFaithful(f), [Next]_vars, NEW s \in Sessions,
         session[s].issued
  PROVE  /\ session'[s].issued
         /\ session'[s].account = session[s].account
         /\ session'[s].version = session[s].version
<1> USE DEF TypeOK, SessionRow
<1>1. ASSUME NEW r \in Requests, NEW t \in Sessions, IssueSession(r, t)
      PROVE session'[s] = session[s]
  BY <1>1 DEF IssueSession
<1>2. ASSUME NEW S, NEW at, session' = Revoke(S, at)
      PROVE /\ session'[s].issued
            /\ session'[s].account = session[s].account
            /\ session'[s].version = session[s].version
  BY <1>2 DEF Revoke
<1>3. ASSUME NEW f \in Forms, SaveSessionForm(f)
      PROVE /\ session'[s].issued
            /\ session'[s].account = session[s].account
            /\ session'[s].version = session[s].version
  BY <1>3 DEF SaveSessionForm, FormFaithful
<1>4. ASSUME NEW t \in Sessions, DeleteSession(t)
      PROVE /\ session'[s].issued
            /\ session'[s].account = session[s].account
            /\ session'[s].version = session[s].version
  BY <1>4 DEF DeleteSession
<1>5. ASSUME NEW at \in Time, DeleteExpiredSessions(at)
      PROVE /\ session'[s].issued
            /\ session'[s].account = session[s].account
            /\ session'[s].version = session[s].version
  BY <1>5 DEF DeleteExpiredSessions
<1>6. CASE UNCHANGED session
  BY <1>6
<1> QED
  BY <1>1, <1>2, <1>3, <1>4, <1>5, <1>6
     DEF Next, SignInStep, VerifyPassword, UpgradeHash, RejectInactive, OperatorStep,
         LoadUser, DropUser, SetPassword, SetUnusablePassword, SetActive, BeginSave,
         SaveEnds, ClearRawPassword, CommitSave, AbortSave, LoseCommit,
         SessionStep, SignOut, RevokeSelectedSessions, LoadSessionForm, PurgeStep,
         Tick, vars

LEMMA FormStep ==
  ASSUME TypeOK, \A f \in Forms : FormFaithful(f), [Next]_vars,
         \A s \in Sessions : session[s].stored => session[s].issued
  PROVE  \A f \in Forms : FormFaithful(f)'
<1> SUFFICES ASSUME NEW f \in Forms, form'[f].loaded
             PROVE FormFaithful(f)'
  BY DEF FormFaithful
<1>1. CASE form'[f] = form[f]
  <2>1. form[f].session \in Sessions
    BY DEF TypeOK, SessionForm
  <2> QED
    BY <1>1, <2>1, ColumnsStep DEF FormFaithful
<1>2. CASE form'[f] # form[f]
  <2>1. PICK g \in Forms :
          SaveSessionForm(g) \/ \E s \in Sessions : LoadSessionForm(g, s)
    BY <1>2 DEF Next, SignInStep, VerifyPassword, UpgradeHash, RejectInactive,
                IssueSession, OperatorStep, LoadUser, DropUser, SetPassword,
                SetUnusablePassword, SetActive, BeginSave, SaveEnds,
                ClearRawPassword, CommitSave, AbortSave, LoseCommit, SessionStep,
                SignOut, DeleteSession, RevokeSelectedSessions, PurgeStep,
                DeleteExpiredSessions, Tick, vars
  <2>2. CASE SaveSessionForm(g)
    BY <1>2, <2>2 DEF TypeOK, SaveSessionForm, NoForm
  <2>3. ASSUME NEW s \in Sessions, LoadSessionForm(g, s) PROVE FormFaithful(f)'
    BY <1>2, <2>3 DEF TypeOK, LoadSessionForm, FormFaithful
  <2> QED
    BY <2>1, <2>2, <2>3
<1> QED
  BY <1>1, <1>2

(* A step that leaves the rows of accounts alone keeps a session accounted *)
(* for when it leaves the session standing as it was, or excuses it.       *)
LEMMA AccountedKept ==
  ASSUME TypeOK, NEW s \in Sessions, Accounted(s), UNCHANGED user,
         lapse[s] \subseteq lapse'[s],
         Standing(s)' => /\ Standing(s)
                         /\ session'[s].account = session[s].account
                         /\ session'[s].version = session[s].version
  PROVE  Accounted(s)'
  BY DEF Accounted, Standing

LEMMA RevokeStanding ==
  ASSUME TypeOK, NEW S, NEW at, session' = Revoke(S, at), NEW s \in Sessions,
         Standing(s)'
  PROVE  /\ Standing(s)
         /\ session'[s] = session[s]
         /\ s \in S => at = Never
  BY DEF TypeOK, SessionRow, Revoke, Standing

LEMMA ExcuseGrows ==
  ASSUME NEW S, NEW why, NEW s \in Sessions
  PROVE  /\ lapse[s] \subseteq Excuse(S, why)[s]
         /\ s \in S => Excuse(S, why)[s] # {}
  BY DEF Excuse

(* The save of an instance: a replaced credential that was owed ends every *)
(* session its receiver matched, and any other it leaves is excused.       *)
LEMMA AccountedAfterSave ==
  ASSUME TypeOK, CredentialInv, NEW i \in Operators, CommitSave(i),
         NEW s \in Sessions
  PROVE  Accounted(s)'
<1> SUFFICES ASSUME Standing(s)'
             PROVE  \/ session'[s].version = user'[session'[s].account].hash.version
                    \/ lapse'[s] # {}
  BY DEF Accounted
<1> DEFINE a == operator[i].account
           replaces == WrittenRow(i).hash.version # user[a].hash.version
<1>1. /\ operator[i] \in Instance
      /\ a \in Accounts
      /\ session[s].account \in Accounts
  BY DEF TypeOK, Instance, SessionRow
<1>2. /\ session' = Revoke(operator[i].matched, operator[i].at)
      /\ lapse' = ExcusedBySave(i)
      /\ user' = [user EXCEPT ![a] = WrittenRow(i)]
      /\ InTransaction(i)
  BY DEF CommitSave, InTransaction
<1>3. /\ Standing(s)
      /\ session'[s] = session[s]
      /\ s \in operator[i].matched => operator[i].at = Never
  BY <1>2, RevokeStanding
<1>4. lapse[s] \subseteq lapse'[s]
  BY <1>2, ExcuseGrows DEF ExcusedBySave
<1>5. Accounted(s)
  BY DEF CredentialInv
<1>6. CASE session[s].account # a
  BY <1>1, <1>2, <1>3, <1>4, <1>5, <1>6 DEF TypeOK, Accounted
<1>7. CASE session[s].account = a /\ ~replaces
  <2>1. user'[a].hash.version = user[a].hash.version
    BY <1>1, <1>2, <1>7 DEF TypeOK
  <2> QED
    BY <1>3, <1>4, <1>5, <1>7, <2>1 DEF Accounted
<1>8. CASE session[s].account = a /\ replaces
  <2>1. s \in UnrevokedOf(a)
    BY <1>3, <1>8 DEF UnrevokedOf, StoredOf, Standing
  <2>2. CASE operator[i].duty = "owed"
    <3>1. WritesPassword(operator[i].fields)
      BY <1>8 DEF WrittenRow
    <3>2. /\ operator[i].matched = operator[i].seen
          /\ operator[i].matched # {} => operator[i].at \in Time
      BY <1>2, <2>2, <3>1 DEF CredentialInv, ReceiverMatched
    <3>3. s \notin operator[i].seen
      BY <1>3, <3>2 DEF Time, Never
    <3>4. lapse' = Excuse(UnrevokedOf(a) \ operator[i].seen, "overtaken")
      BY <1>2, <1>8, <2>2 DEF ExcusedBySave
    <3> QED
      BY <2>1, <3>3, <3>4, ExcuseGrows
  <2>3. CASE operator[i].duty # "owed"
    <3>1. \E why : lapse' = Excuse(UnrevokedOf(a), why)
      BY <1>2, <1>8, <2>3 DEF ExcusedBySave
    <3> QED
      BY <2>1, <3>1, ExcuseGrows
  <2> QED
    BY <2>2, <2>3
<1> QED
  BY <1>6, <1>7, <1>8

LEMMA AccountedStep ==
  ASSUME TypeOK, CredentialInv, [Next]_vars, NEW s \in Sessions
  PROVE  Accounted(s)'
<1>0. Accounted(s)
  BY DEF CredentialInv
<1>1. CASE UNCHANGED <<user, session, lapse>>
  BY <1>0, <1>1 DEF Accounted, Standing
<1>2. ASSUME NEW r \in Requests, UpgradeHash(r) PROVE Accounted(s)'
  <2> DEFINE a == signIn[r].account
             up == [signIn[r].loaded.hash EXCEPT !.outdated = FALSE]
  <2>1. /\ a \in Accounts /\ session[s].account \in Accounts
        /\ up.version = signIn[r].loaded.hash.version
    BY DEF TypeOK, SignIn, SessionRow, User, Hash
  <2>2. /\ user' = [user EXCEPT ![a].hash = up]
        /\ lapse' = IF user[a].hash.version # up.version
                    THEN Excuse(UnrevokedOf(a), "stale") ELSE lapse
        /\ session' = session
    BY <1>2 DEF UpgradeHash
  <2>3. user'[a].hash.version = up.version
    BY <2>1, <2>2 DEF TypeOK, User
  <2>4. lapse[s] \subseteq lapse'[s]
    BY <2>2, ExcuseGrows
  <2>5. CASE session[s].account # a
    BY <1>0, <2>1, <2>2, <2>4, <2>5 DEF TypeOK, Accounted, Standing
  <2>6. CASE session[s].account = a /\ user[a].hash.version = up.version
    BY <1>0, <2>2, <2>3, <2>4, <2>6 DEF Accounted, Standing
  <2>7. CASE session[s].account = a /\ user[a].hash.version # up.version
    <3>1. Standing(s) => s \in UnrevokedOf(a)
      BY <2>7 DEF Standing, UnrevokedOf, StoredOf
    <3>2. Standing(s)' => lapse'[s] # {}
      BY <2>2, <2>7, <3>1, ExcuseGrows DEF Standing
    <3> QED
      BY <3>2 DEF Accounted
  <2> QED
    BY <2>5, <2>6, <2>7
<1>3. ASSUME NEW r \in Requests, NEW t \in Sessions, IssueSession(r, t)
      PROVE Accounted(s)'
  <2>1. lapse[s] \subseteq lapse'[s]
    BY <1>3, ExcuseGrows DEF IssueSession
  <2>2. CASE s # t
    <3>1. session'[s] = session[s] /\ user' = user
      BY <1>3, <2>2 DEF TypeOK, IssueSession
    <3> QED
      BY <1>0, <2>1, <3>1, AccountedKept DEF Standing
  <2>3. CASE s = t
    <3>1. /\ session'[s].account = signIn[r].account
          /\ session'[s].version = signIn[r].loaded.hash.version
          /\ user' = user
      BY <1>3, <2>3 DEF TypeOK, IssueSession
    <3>2. user[signIn[r].account].hash.version # signIn[r].loaded.hash.version
            => lapse'[s] # {}
      BY <1>3, <2>3, ExcuseGrows DEF IssueSession
    <3> QED
      BY <3>1, <3>2 DEF Accounted
  <2> QED
    BY <2>2, <2>3
<1>4. ASSUME NEW S, NEW at, session' = Revoke(S, at), UNCHANGED <<user, lapse>>
      PROVE Accounted(s)'
  BY <1>0, <1>4, RevokeStanding, AccountedKept
<1>5. ASSUME NEW t \in Sessions, DeleteSession(t) PROVE Accounted(s)'
  <2>1. Standing(s)' => session'[s] = session[s]
    BY <1>5 DEF TypeOK, SessionRow, DeleteSession, Standing
  <2> QED
    BY <1>0, <1>5, <2>1 DEF DeleteSession, Accounted, Standing
<1>6. ASSUME NEW at \in Time, DeleteExpiredSessions(at) PROVE Accounted(s)'
  <2>1. Standing(s)' => session'[s] = session[s]
    BY <1>6 DEF TypeOK, SessionRow, DeleteExpiredSessions, Standing
  <2> QED
    BY <1>0, <1>6, <2>1 DEF DeleteExpiredSessions, Accounted, Standing
<1>7. ASSUME NEW f \in Forms, SaveSessionForm(f) PROVE Accounted(s)'
  <2> DEFINE t == form[f].session
             row == form[f].row
  <2>1. /\ session' = [session EXCEPT ![t] = row]
        /\ lapse' = IF IsStale(f) THEN Excuse({t}, "restored") ELSE lapse
        /\ user' = user
        /\ form[f].loaded
    BY <1>7 DEF SaveSessionForm
  <2>2. lapse[s] \subseteq lapse'[s]
    BY <2>1, ExcuseGrows
  <2>3. CASE s # t
    BY <1>0, <2>1, <2>2, <2>3 DEF TypeOK, Accounted, Standing
  <2>4. CASE s = t /\ IsStale(f)
    BY <2>1, <2>4, ExcuseGrows DEF Accounted
  <2>5. CASE s = t /\ ~IsStale(f)
    <3>1. session'[s] = row
      BY <2>1, <2>5 DEF TypeOK
    <3>2. row.account = session[s].account /\ row.version = session[s].version
      BY <2>1, <2>5 DEF CredentialInv, FormFaithful
    <3>3. Standing(s)' => Standing(s)
      <4>1. session[s].stored \in BOOLEAN
        BY DEF TypeOK, SessionRow
      <4> QED
        BY <2>5, <3>1, <4>1 DEF IsStale, Standing
    <3> QED
      BY <1>0, <2>1, <2>2, <3>1, <3>2, <3>3, AccountedKept
  <2> QED
    BY <2>3, <2>4, <2>5
<1>8. ASSUME NEW t \in Sessions, SignOut(t) PROVE Accounted(s)'
  BY <1>4, <1>8 DEF SignOut
<1>9. ASSUME NEW S \in SUBSET Sessions, RevokeSelectedSessions(S) PROVE Accounted(s)'
  BY <1>4, <1>9 DEF RevokeSelectedSessions
<1>10. ASSUME NEW i \in Operators, CommitSave(i) PROVE Accounted(s)'
  BY <1>10, AccountedAfterSave
<1> QED
  BY <1>1, <1>2, <1>3, <1>5, <1>6, <1>7, <1>8, <1>9, <1>10
     DEF Next, SignInStep, VerifyPassword, RejectInactive, OperatorStep, LoadUser,
         DropUser, SetPassword, SetUnusablePassword, SetActive, BeginSave, SaveEnds,
         ClearRawPassword, AbortSave, LoseCommit, SessionStep, LoadSessionForm,
         PurgeStep, Tick, vars

LEMMA StoredIssuedStep ==
  ASSUME TypeOK, CredentialInv, [Next]_vars, NEW s \in Sessions, session'[s].stored
  PROVE  session'[s].issued
<1>1. CASE session[s].issued
  BY <1>1, ColumnsStep DEF CredentialInv
<1>2. CASE ~session[s].issued
  <2>1. ~session[s].stored
    BY <1>2 DEF CredentialInv
  <2>2. ASSUME NEW S, NEW at, session' = Revoke(S, at) PROVE FALSE
    BY <2>1, <2>2 DEF TypeOK, SessionRow, Revoke
  <2>3. ASSUME NEW t \in Sessions, DeleteSession(t) PROVE FALSE
    BY <2>1, <2>3 DEF TypeOK, SessionRow, DeleteSession
  <2>4. ASSUME NEW at \in Time, DeleteExpiredSessions(at) PROVE FALSE
    BY <2>1, <2>4 DEF TypeOK, SessionRow, DeleteExpiredSessions
  <2>5. ASSUME NEW f \in Forms, SaveSessionForm(f) PROVE session'[s].issued
    BY <1>2, <2>1, <2>5 DEF TypeOK, SaveSessionForm, CredentialInv, FormFaithful
  <2>6. ASSUME NEW r \in Requests, NEW t \in Sessions, IssueSession(r, t)
        PROVE session'[s].issued
    BY <2>1, <2>6 DEF TypeOK, IssueSession
  <2> QED
    BY <2>1, <2>2, <2>3, <2>4, <2>5, <2>6
       DEF Next, SignInStep, VerifyPassword, UpgradeHash, RejectInactive, OperatorStep,
           LoadUser, DropUser, SetPassword, SetUnusablePassword, SetActive, BeginSave,
           SaveEnds, ClearRawPassword, CommitSave, AbortSave, LoseCommit,
           SessionStep, SignOut, RevokeSelectedSessions, LoadSessionForm,
           PurgeStep, Tick, vars
<1> QED
  BY <1>1, <1>2

(* In every reachable state the sessions that stand were issued under the  *)
(* account's credential, or one of the five lapses says why not.           *)
THEOREM CredentialInvariant == Spec => []CredentialInv
<1>1. TypeOK /\ PendingInv' /\ CredentialInv /\ [Next]_vars
        => CredentialInv'
  <2> SUFFICES ASSUME TypeOK, PendingInv', CredentialInv, [Next]_vars
               PROVE CredentialInv'
    OBVIOUS
  <2>1. /\ PendingInv
        /\ \A i \in Operators : ReceiverMatched(i)
        /\ \A s \in Sessions : session[s].stored => session[s].issued
        /\ \A f \in Forms : FormFaithful(f)
    BY DEF CredentialInv
  <2>2. \A i \in Operators : ReceiverMatched(i)'
    BY <2>1, ReceiverStep
  <2>3. \A s \in Sessions : session'[s].stored => session'[s].issued
    BY StoredIssuedStep
  <2>4. \A f \in Forms : FormFaithful(f)'
    BY <2>1, FormStep
  <2>5. \A s \in Sessions : Accounted(s)'
    BY AccountedStep
  <2> QED
    BY <2>2, <2>3, <2>4, <2>5 DEF CredentialInv
<1> QED
  BY <1>1, CredentialInvInit, TypeCorrect, PendingInvariant, PTL DEF Spec

(* No session outlives its credential but through a lapse: the promise the *)
(* receiver, the transaction around the save and the flags keep together.  *)
THEOREM OnlyLapsesOutlive == Spec => []OnlyLapsesOutliveTheirCredential
<1>1. CredentialInv => OnlyLapsesOutliveTheirCredential
  BY DEF CredentialInv, Accounted, Standing, OnlyLapsesOutliveTheirCredential, IsUsable
<1> QED
  BY <1>1, CredentialInvariant, PTL

-----------------------------------------------------------------------------
(* What a step may never do to a row.                                      *)

(* A revocation, made or about to be committed, is of an issued session.   *)
RevocationInv ==
  /\ CredentialInv
  /\ \A s \in Sessions : session[s].revoked # Never => session[s].issued
  /\ \A i \in Operators : \A s \in operator[i].matched : session[s].issued

LEMMA MatchedStep ==
  ASSUME TypeOK, RevocationInv, [Next]_vars, NEW i \in Operators,
         NEW s \in operator'[i].matched
  PROVE  s \in Sessions /\ session[s].issued
<1>0. \A j \in Operators : operator[j].matched \subseteq Sessions
  BY DEF TypeOK, Instance
<1>1. CASE operator'[i].matched \subseteq operator[i].matched
  BY <1>0, <1>1 DEF RevocationInv
<1>2. ASSUME NEW j \in Operators, NEW fields \in {"all", "password", "others"},
             BeginSave(j, fields)
      PROVE s \in Sessions /\ session[s].issued
  <2>1. CASE i = j
    <3>1. s \in UnrevokedOf(operator[j].account)
      BY <1>2, <2>1, BegunInstance DEF MatchedBySave
    <3> QED
      BY <3>1 DEF UnrevokedOf, StoredOf, RevocationInv, CredentialInv
  <2>2. CASE i # j
    <3>1. operator'[i] = operator[i]
      BY <1>2, <2>2, OperatorFrame, Witnesses
    <3> QED
      BY <1>1, <3>1
  <2> QED
    BY <2>1, <2>2
<1>3. ASSUME NEW j \in Operators, NEW a \in Accounts,
             \/ LoadUser(j, a) \/ DropUser(j) \/ SetPassword(j)
             \/ SetUnusablePassword(j) \/ SetActive(j) \/ SaveEnds(j)
      PROVE operator'[i].matched \subseteq operator[i].matched
  <2>1. CASE i = j
    <3>1. operator[i] \in Instance
      BY DEF TypeOK
    <3>2. CASE LoadUser(i, a) \/ DropUser(i)
      <4>1. CASE LoadUser(i, a)
        BY <4>1 DEF TypeOK, LoadUser, Away
      <4>2. CASE DropUser(i)
        BY <4>2 DEF TypeOK, DropUser, Away
      <4> QED
        BY <3>2, <4>1, <4>2
    <3>3. CASE SetPassword(i)
      BY <3>1, <3>3 DEF TypeOK, SetPassword, Instance
    <3>4. CASE SetUnusablePassword(i)
      BY <3>1, <3>4 DEF TypeOK, SetUnusablePassword, Instance
    <3>5. CASE SetActive(i)
      BY <3>1, <3>5 DEF TypeOK, SetActive, Instance
    <3>6. CASE CommitSave(i)
      BY <3>1, <3>6 DEF TypeOK, CommitSave, AfterSave, Instance
    <3>7. CASE AbortSave(i)
      BY <3>1, <3>7 DEF TypeOK, AbortSave, AfterSave, Instance
    <3>8. CASE ClearRawPassword(i)
      BY <3>1, <3>8 DEF TypeOK, ClearRawPassword, Instance
    <3>9. ASSUME NEW enclosed \in BOOLEAN, LoseCommit(i, enclosed)
          PROVE operator'[i].matched \subseteq operator[i].matched
      BY <3>1, <3>9 DEF TypeOK, LoseCommit, AfterSave, Instance
    <3> QED
      BY <1>3, <2>1, <3>2, <3>3, <3>4, <3>5, <3>6, <3>7, <3>8, <3>9 DEF SaveEnds
  <2>2. CASE i # j
    BY <1>3, <2>2, OperatorFrame
  <2> QED
    BY <2>1, <2>2
<1> QED
  BY <1>1, <1>2, <1>3, OperatorSteps, Witnesses DEF SaveEnds

LEMMA RevokedStep ==
  ASSUME TypeOK, RevocationInv, [Next]_vars, NEW s \in Sessions,
         session[s].revoked # Never
  PROVE  \/ session'[s].revoked = session[s].revoked
         \/ \E f \in Forms : form[f].session = s /\ SaveSessionForm(f)
<1>1. session[s].issued
  BY DEF RevocationInv
<1>2. ASSUME NEW S, NEW at, session' = Revoke(S, at)
      PROVE session'[s].revoked = session[s].revoked
  BY <1>2 DEF Revoke
<1>3. ASSUME NEW t \in Sessions, DeleteSession(t)
      PROVE session'[s].revoked = session[s].revoked
  BY <1>3 DEF TypeOK, SessionRow, DeleteSession
<1>4. ASSUME NEW at \in Time, DeleteExpiredSessions(at)
      PROVE session'[s].revoked = session[s].revoked
  BY <1>4 DEF TypeOK, SessionRow, DeleteExpiredSessions
<1>5. ASSUME NEW f \in Forms, SaveSessionForm(f)
      PROVE \/ session'[s].revoked = session[s].revoked
            \/ form[f].session = s
  BY <1>5 DEF TypeOK, SaveSessionForm
<1>6. ASSUME NEW r \in Requests, NEW t \in Sessions, IssueSession(r, t)
      PROVE session'[s].revoked = session[s].revoked
  BY <1>1, <1>6 DEF TypeOK, IssueSession
<1> QED
  BY <1>2, <1>3, <1>4, <1>5, <1>6
     DEF Next, SignInStep, VerifyPassword, UpgradeHash, RejectInactive, OperatorStep,
         LoadUser, DropUser, SetPassword, SetUnusablePassword, SetActive, BeginSave,
         SaveEnds, ClearRawPassword, CommitSave, AbortSave, LoseCommit,
         SessionStep, SignOut, RevokeSelectedSessions, LoadSessionForm, PurgeStep,
         Tick, vars

LEMMA RevokedIssuedStep ==
  ASSUME TypeOK, RevocationInv, [Next]_vars, NEW s \in Sessions,
         session'[s].revoked # Never
  PROVE  session'[s].issued
<1>1. CASE session[s].issued
  BY <1>1, ColumnsStep DEF RevocationInv, CredentialInv
<1>2. CASE ~session[s].issued
  <2>1. ~session[s].stored /\ session[s].revoked = Never
    BY <1>2 DEF RevocationInv, CredentialInv
  <2>2. ASSUME NEW S, NEW at, session' = Revoke(S, at), s \notin S PROVE FALSE
    BY <2>1, <2>2 DEF Revoke
  <2>3. ASSUME NEW t \in Sessions, DeleteSession(t) PROVE FALSE
    BY <2>1, <2>3 DEF TypeOK, SessionRow, DeleteSession
  <2>4. ASSUME NEW at \in Time, DeleteExpiredSessions(at) PROVE FALSE
    BY <2>1, <2>4 DEF TypeOK, SessionRow, DeleteExpiredSessions
  <2>5. ASSUME NEW f \in Forms, SaveSessionForm(f) PROVE session'[s].issued
    BY <1>2, <2>1, <2>5
       DEF TypeOK, SaveSessionForm, RevocationInv, CredentialInv, FormFaithful
  <2>6. ASSUME NEW r \in Requests, NEW t \in Sessions, IssueSession(r, t)
        PROVE session'[s].issued
    BY <2>1, <2>6 DEF TypeOK, IssueSession
  <2>7. ASSUME NEW i \in Operators, CommitSave(i) PROVE FALSE
    BY <1>2, <2>2, <2>7 DEF CommitSave, RevocationInv
  <2>8. ASSUME NEW t \in Sessions, SignOut(t) PROVE FALSE
    BY <2>1, <2>2, <2>8 DEF SignOut
  <2>9. ASSUME NEW S \in SUBSET Sessions, RevokeSelectedSessions(S) PROVE FALSE
    BY <2>1, <2>2, <2>9 DEF RevokeSelectedSessions
  <2> QED
    BY <2>1, <2>3, <2>4, <2>5, <2>6, <2>7, <2>8, <2>9
       DEF Next, SignInStep, VerifyPassword, UpgradeHash, RejectInactive, OperatorStep,
           LoadUser, DropUser, SetPassword, SetUnusablePassword, SetActive, BeginSave,
           SaveEnds, ClearRawPassword, AbortSave, LoseCommit, SessionStep,
           LoadSessionForm, PurgeStep, Tick, vars
<1> QED
  BY <1>1, <1>2

LEMMA RevocationInvariant == Spec => []RevocationInv
<1>1. Init /\ CredentialInv => RevocationInv
  <2> SUFFICES ASSUME Init, CredentialInv PROVE RevocationInv
    OBVIOUS
  <2>1. \A s \in Sessions : session[s].revoked = Never
    BY DEF Init, NoSession
  <2>2. \A i \in Operators : operator[i].matched = {}
    BY DEF Init, Away
  <2> QED
    BY <2>1, <2>2 DEF RevocationInv
<1>2. TypeOK /\ CredentialInv' /\ RevocationInv /\ [Next]_vars => RevocationInv'
  <2> SUFFICES ASSUME TypeOK, CredentialInv', RevocationInv, [Next]_vars
               PROVE RevocationInv'
    OBVIOUS
  <2>1. \A s \in Sessions : session'[s].revoked # Never => session'[s].issued
    BY RevokedIssuedStep
  <2>2. \A i \in Operators : \A s \in operator'[i].matched : session'[s].issued
    BY MatchedStep, ColumnsStep DEF RevocationInv, CredentialInv
  <2> QED
    BY <2>1, <2>2 DEF RevocationInv
<1> QED
  BY <1>1, <1>2, TypeCorrect, CredentialInvariant, PTL DEF Spec

(* The first revocation of a session stays as it is but for a stale form.  *)
THEOREM FirstRevocationPermanent == Spec => FirstRevocationIsPermanent
<1>1. TypeOK /\ RevocationInv /\ [Next]_vars =>
        [\A s \in Sessions :
           session[s].revoked # Never =>
             \/ session'[s].revoked = session[s].revoked
             \/ \E f \in Forms : form[f].session = s /\ SaveSessionForm(f)]_vars
  BY RevokedStep
<1> QED
  BY <1>1, TypeCorrect, RevocationInvariant, PTL DEF Spec, FirstRevocationIsPermanent

(* A row leaves the table only past its expiry, however late a purge runs, *)
(* or by an operator's deletion.                                           *)
THEOREM RowOutlives == Spec => RowOutlivesItsToken
<1>1. ASSUME TypeOK, CredentialInv, [Next]_vars, NEW s \in Sessions,
             session[s].stored, ~session'[s].stored
      PROVE  session[s].expires <= now \/ session'[s].deleted
  <2>1. ASSUME NEW S, NEW at, session' = Revoke(S, at) PROVE FALSE
    BY <1>1, <2>1 DEF TypeOK, SessionRow, Revoke
  <2>2. ASSUME NEW t \in Sessions, DeleteSession(t) PROVE session'[s].deleted
    BY <1>1, <2>2 DEF TypeOK, SessionRow, DeleteSession
  <2>3. ASSUME NEW at \in Time, DeleteExpiredSessions(at)
        PROVE session[s].expires <= now
    BY <1>1, <2>3
       DEF TypeOK, SessionRow, Instant, Never, Time, DeleteExpiredSessions, Expired
  <2>4. ASSUME NEW f \in Forms, SaveSessionForm(f) PROVE FALSE
    BY <1>1, <2>4 DEF TypeOK, SaveSessionForm, CredentialInv, FormFaithful
  <2>5. ASSUME NEW r \in Requests, NEW t \in Sessions, IssueSession(r, t) PROVE FALSE
    BY <1>1, <2>5 DEF TypeOK, IssueSession
  <2> QED
    BY <1>1, <2>1, <2>2, <2>3, <2>4, <2>5
       DEF Next, SignInStep, VerifyPassword, UpgradeHash, RejectInactive, OperatorStep,
           LoadUser, DropUser, SetPassword, SetUnusablePassword, SetActive, BeginSave,
           SaveEnds, ClearRawPassword, CommitSave, AbortSave, LoseCommit,
           SessionStep, SignOut, RevokeSelectedSessions, LoadSessionForm,
           PurgeStep, Tick, vars
<1>2. TypeOK /\ CredentialInv /\ [Next]_vars =>
        [\A s \in Sessions :
           session[s].stored /\ ~session'[s].stored =>
             session[s].expires <= now \/ session'[s].deleted]_vars
  BY <1>1
<1> QED
  BY <1>2, TypeCorrect, CredentialInvariant, PTL DEF Spec, RowOutlivesItsToken

=============================================================================
