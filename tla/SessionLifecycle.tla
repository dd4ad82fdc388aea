------------------------- MODULE SessionLifecycle -------------------------
(***************************************************************************)
(* Bearer sessions and the credentials they were issued under              *)
(* (backend/apps/accounts).                                                *)
(*                                                                         *)
(* The table of accounts and the table of sessions live in PostgreSQL.     *)
(* Around them run, interleaved: sign-in requests (authenticate, then      *)
(* insert a session: two statements with nothing between them),            *)
(* sign-out requests (resolve, then revoke), operators that hold a User    *)
(* instance in memory and save it (the admin, changepassword, a shell),    *)
(* the admin form of one session, and the hourly purge.                    *)
(*                                                                         *)
(* A password is a version number: every set_password and every            *)
(* set_unusable_password makes a new one, while a hash upgrade re-encodes  *)
(* the version it verified.  Time counts in units of which SESSION_LIFETIME*)
(* is Lifetime.                                                            *)
(***************************************************************************)
EXTENDS Naturals, FiniteSets

CONSTANTS
  Accounts,      \* accounts of the installation
  Sessions,      \* digests of the tokens that can be issued
  Requests,      \* sign-in requests that can be in flight
  Operators,     \* holders of a User instance
  Forms,         \* admin change forms of one session
  Lifetime,      \* SESSION_LIFETIME, in ticks
  MaxTime,       \* bound on the clock
  MaxVersion     \* bound on the credentials ever set

ASSUME BoundsAssumption ==
  /\ Accounts # {}
  /\ Sessions # {}
  /\ Lifetime \in Nat \ {0}
  /\ MaxTime \in Nat \ {0}
  /\ MaxVersion \in Nat \ {0}

VARIABLES
  now,           \* timezone.now()
  version,       \* the newest credential any set_password produced
  user,          \* rows of the accounts table
  session,       \* rows of the session table, by token digest
  signIn,        \* sign-in requests between authenticate and the insert
  operator,      \* User instances, and the transactions that save them
  form,          \* admin session forms loaded and not yet saved
  lapse          \* history: why a session may survive its credential

vars == <<now, version, user, session, signIn, operator, form, lapse>>

Time == 1 .. MaxTime
Never == 0
Instant == Time \cup {Never}

(* The password column.  "outdated" is a hash of a hasher or an iteration  *)
(* count Django no longer prefers.                                         *)
Hash == [version: Nat, usable: BOOLEAN, outdated: BOOLEAN]
User == [hash: Hash, active: BOOLEAN]

(* issued and deleted are history: the token was drawn by a sign-in, and   *)
(* its row was deleted by an operator.                                     *)
SessionRow == [stored: BOOLEAN, issued: BOOLEAN, deleted: BOOLEAN, account: Accounts,
               version: Nat, expires: Instant, revoked: Instant]

SignIn == [step: {"idle", "verified"}, account: Accounts, loaded: User]

(* raw and removed are _password is not None and _password_removed.  A     *)
(* save is "saving" until the receiver has run, "written" from the moment  *)
(* Django has cleared the raw password to the commit.  duty is history:    *)
(* whether the instance carries a credential no save stored yet ("owed"),  *)
(* and whether the flags of that credential went without storing it, in a  *)
(* save that left the password column alone ("dropped") or in a commit     *)
(* that failed ("lost").  A transaction that saves holds the fields it     *)
(* writes, the sessions its receiver matched, those that stood when it     *)
(* wrote an owed credential (history), and the instant it stamps.          *)
Instance ==
  [step: {"away", "held", "saving", "written"}, account: Accounts, user: User,
   raw: BOOLEAN, removed: BOOLEAN, duty: {"none", "owed", "dropped", "lost"},
   fields: {"all", "password", "others"}, matched: SUBSET Sessions,
   seen: SUBSET Sessions, at: Instant]

SessionForm == [loaded: BOOLEAN, session: Sessions, row: SessionRow]

Lapses == {"overtaken", "stale", "dropped", "lost", "restored"}

TypeOK ==
  /\ now \in Time
  /\ version \in Nat
  /\ user \in [Accounts -> User]
  /\ session \in [Sessions -> SessionRow]
  /\ signIn \in [Requests -> SignIn]
  /\ operator \in [Operators -> Instance]
  /\ form \in [Forms -> SessionForm]
  /\ lapse \in [Sessions -> SUBSET Lapses]

-----------------------------------------------------------------------------
(* Reading the tables.                                                     *)

IsUsable(s, at) ==
  /\ session[s].stored
  /\ session[s].revoked = Never
  /\ session[s].expires > at

(* resolve_session: the account is joined by the same statement.           *)
Authenticates(s) ==
  IsUsable(s, now) /\ user[session[s].account].active

StoredOf(a) == {s \in Sessions : session[s].stored /\ session[s].account = a}

UnrevokedOf(a) == {s \in StoredOf(a) : session[s].revoked = Never}

HasNewPassword(i) == operator[i].raw \/ operator[i].removed

WritesPassword(fields) == fields \in {"all", "password"}

(* The rows a transaction in progress has written, which every other       *)
(* writer waits for.                                                       *)
InTransaction(i) == operator[i].step \in {"saving", "written"}
UserLocked(a) == \E i \in Operators : InTransaction(i) /\ operator[i].account = a
SessionLocked(s) == \E i \in Operators : InTransaction(i)
                                         /\ s \in operator[i].matched

-----------------------------------------------------------------------------
(* The tables start with every account active and no session.              *)

AnAccount == CHOOSE a \in Accounts : TRUE
ASession == CHOOSE s \in Sessions : TRUE

NoSession == [stored |-> FALSE, issued |-> FALSE, deleted |-> FALSE,
              account |-> AnAccount, version |-> 0, expires |-> 0, revoked |-> Never]

Away(u) == [step |-> "away", account |-> AnAccount, user |-> u, raw |-> FALSE,
            removed |-> FALSE, duty |-> "none", fields |-> "all", matched |-> {},
            seen |-> {}, at |-> Never]

FirstHash == [version |-> 0, usable |-> TRUE, outdated |-> FALSE]
FirstUser == [hash |-> FirstHash, active |-> TRUE]
IdleSignIn == [step |-> "idle", account |-> AnAccount, loaded |-> FirstUser]
NoForm == [loaded |-> FALSE, session |-> ASession, row |-> NoSession]

Init ==
  /\ now = 1
  /\ version = 0
  /\ \E old \in SUBSET Accounts :
       user = [a \in Accounts |-> [hash |-> [FirstHash EXCEPT !.outdated = a \in old],
                                   active |-> TRUE]]
  /\ session = [s \in Sessions |-> NoSession]
  /\ signIn = [r \in Requests |-> IdleSignIn]
  /\ operator = [i \in Operators |-> Away(FirstUser)]
  /\ form = [f \in Forms |-> NoForm]
  /\ lapse = [s \in Sessions |-> {}]

-----------------------------------------------------------------------------
(* Stamping and excusing sets of sessions.                                 *)

(* Mutant: the update also matches rows that carry an instant.             *)
RevokeRestamping(S, at) ==
  [s \in Sessions |->
     IF s \in S THEN [session[s] EXCEPT !.revoked = at] ELSE session[s]]

Revoke(S, at) ==
  [s \in Sessions |->
     IF s \in S /\ session[s].revoked = Never
     THEN [session[s] EXCEPT !.revoked = at] ELSE session[s]]

Excuse(S, why) ==
  [s \in Sessions |-> IF s \in S THEN lapse[s] \cup {why} ELSE lapse[s]]

-----------------------------------------------------------------------------
(* Sign-in: authenticate() loads the row and verifies the password         *)
(* submitted against it, so a request that gets past it knows the version  *)
(* the row held.  A rejected attempt changes nothing.                      *)

VerifyPassword(r, a) ==
  /\ signIn[r].step = "idle"
  /\ user[a].hash.usable
  /\ signIn' = [signIn EXCEPT ![r] = [step |-> "verified", account |-> a,
                                      loaded |-> user[a]]]
  /\ UNCHANGED <<now, version, user, session, operator, form,
                 lapse>>

(* check_password re-encodes what it verified against an outdated hash and *)
(* saves the password column alone, with the raw password cleared first so *)
(* that the receiver sees no new credential.                               *)
UpgradeHash(r) ==
  LET a == signIn[r].account
      upgraded == [signIn[r].loaded.hash EXCEPT !.outdated = FALSE]
  IN /\ signIn[r].step = "verified"
     /\ signIn[r].loaded.hash.outdated
     /\ ~UserLocked(a)
     /\ user' = [user EXCEPT ![a].hash = upgraded]
     /\ signIn' = [signIn EXCEPT ![r].loaded.hash = upgraded]
     /\ lapse' = IF user[a].hash.version # upgraded.version
                 THEN Excuse(UnrevokedOf(a), "stale") ELSE lapse
     /\ UNCHANGED <<now, version, session, operator, form>>

RejectInactive(r) ==
  /\ signIn[r].step = "verified"
  /\ ~signIn[r].loaded.hash.outdated
  /\ ~signIn[r].loaded.active
  /\ signIn' = [signIn EXCEPT ![r] = IdleSignIn]
  /\ UNCHANGED <<now, version, user, session, operator, form,
                 lapse>>

(* Mutant: the lifetime is added twice.                                    *)
IssueSessionTwiceAsLong(r, s) ==
  /\ signIn[r].step = "verified"
  /\ ~signIn[r].loaded.hash.outdated
  /\ ~session[s].issued
  /\ now + Lifetime <= MaxTime
  /\ session' = [session EXCEPT ![s] =
                   [stored |-> TRUE, issued |-> TRUE, deleted |-> FALSE,
                    account |-> signIn[r].account, version |-> signIn[r].loaded.hash.version,
                    expires |-> now + Lifetime + Lifetime, revoked |-> Never]]
  /\ signIn' = [signIn EXCEPT ![r] = IdleSignIn]
  /\ UNCHANGED <<now, version, user, operator, form, lapse>>

(* issue_session inserts the row whatever the account's row holds by now:  *)
(* the foreign key locks the account's key, not its columns.               *)
IssueSession(r, s) ==
  LET a == signIn[r].account
      v == signIn[r].loaded.hash.version
  IN /\ signIn[r].step = "verified"
     /\ ~signIn[r].loaded.hash.outdated
     /\ signIn[r].loaded.active
     /\ ~session[s].issued
     /\ now + Lifetime <= MaxTime
     /\ session' = [session EXCEPT ![s] =
                      [stored |-> TRUE, issued |-> TRUE, deleted |-> FALSE, account |-> a,
                       version |-> v, expires |-> now + Lifetime, revoked |-> Never]]
     /\ lapse' = IF user[a].hash.version # v
                 THEN Excuse({s}, "overtaken") ELSE lapse
     /\ signIn' = [signIn EXCEPT ![r] = IdleSignIn]
     /\ UNCHANGED <<now, version, user, operator, form>>

-----------------------------------------------------------------------------
(* Sign-out: the endpoint resolves the token in one statement and revokes  *)
(* in another, so the update may meet a session that was revoked, expired  *)
(* or deleted in between; on the last it matches nothing.                  *)

SignOut(s) ==
  /\ session[s].stored
  /\ ~SessionLocked(s)
  /\ session' = Revoke({s}, now)
  /\ UNCHANGED <<now, version, user, signIn, operator, form, lapse>>

-----------------------------------------------------------------------------
(* Holders of a User instance.                                             *)

LoadUser(i, a) ==
  /\ operator[i].step = "away"
  /\ operator' = [operator EXCEPT ![i] = [Away(user[a]) EXCEPT !.step = "held",
                                                               !.account = a]]
  /\ UNCHANGED <<now, version, user, session, signIn, form, lapse>>

DropUser(i) ==
  /\ operator[i].step = "held"
  /\ operator' = [operator EXCEPT ![i] = Away(FirstUser)]
  /\ UNCHANGED <<now, version, user, session, signIn, form, lapse>>

NewHash(matchable) ==
  [version |-> version + 1, usable |-> matchable, outdated |-> FALSE]

SetPassword(i) ==
  /\ operator[i].step = "held"
  /\ version < MaxVersion
  /\ version' = version + 1
  /\ operator' = [operator EXCEPT ![i] =
       [@ EXCEPT !.user.hash = NewHash(TRUE), !.raw = TRUE, !.duty = "owed"]]
  /\ UNCHANGED <<now, user, session, signIn, form, lapse>>

SetUnusablePassword(i) ==
  /\ operator[i].step = "held"
  /\ version < MaxVersion
  /\ version' = version + 1
  /\ operator' = [operator EXCEPT ![i] =
       [@ EXCEPT !.user.hash = NewHash(FALSE), !.removed = TRUE, !.duty = "owed"]]
  /\ UNCHANGED <<now, user, session, signIn, form, lapse>>

SetActive(i) ==
  /\ operator[i].step = "held"
  /\ operator' = [operator EXCEPT ![i].user.active = ~operator[i].user.active]
  /\ UNCHANGED <<now, version, user, session, signIn, form, lapse>>

(* Mutant: the receiver overlooks a credential that was destroyed.         *)
MatchedByRawPassword(i, fields) ==
  IF WritesPassword(fields) /\ operator[i].raw
  THEN UnrevokedOf(operator[i].account) ELSE {}

(* The receiver's selection, made inside the transaction of the save: an   *)
(* insert that commits after this statement is not in it.                  *)
MatchedBySave(i, fields) ==
  IF WritesPassword(fields) /\ HasNewPassword(i)
  THEN UnrevokedOf(operator[i].account) ELSE {}

(* History: the sessions that stand while an owed credential is written.   *)
SeenBySave(i, fields) ==
  IF WritesPassword(fields) /\ operator[i].duty = "owed"
  THEN UnrevokedOf(operator[i].account) ELSE {}

(* The instant matters to an update that matches a session.                *)
BeginSave(i, fields) ==
  LET a == operator[i].account
  IN /\ operator[i].step = "held"
     /\ ~UserLocked(a)
     /\ operator' = [operator EXCEPT ![i] =
          [@ EXCEPT !.step = "saving", !.fields = fields,
                    !.matched = MatchedBySave(i, fields),
                    !.seen = SeenBySave(i, fields),
                    !.at = IF MatchedBySave(i, fields) = {} THEN Never ELSE now]]
     /\ UNCHANGED <<now, version, user, session, signIn, form,
                    lapse>>

WrittenRow(i) ==
  LET row == user[operator[i].account]
      held == operator[i].user
  IN [hash |-> IF WritesPassword(operator[i].fields) THEN held.hash ELSE row.hash,
      active |-> IF operator[i].fields = "password" THEN row.active ELSE held.active]

(* History: the sessions this save may leave standing, and why.            *)
ExcusedBySave(i) ==
  LET a == operator[i].account
      replaces == WrittenRow(i).hash.version # user[a].hash.version
  IN CASE ~replaces -> lapse
       [] replaces /\ operator[i].duty = "owed" ->
            Excuse(UnrevokedOf(a) \ operator[i].seen, "overtaken")
       [] replaces /\ operator[i].duty \in {"dropped", "lost"} ->
            Excuse(UnrevokedOf(a), operator[i].duty)
       [] OTHER -> Excuse(UnrevokedOf(a), "stale")

(* AbstractBaseUser.save, still inside the transaction: the row is written *)
(* and the receiver has run, so the raw password goes, whatever columns    *)
(* were written.                                                           *)
ClearRawPassword(i) ==
  /\ operator[i].step = "saving"
  /\ operator' = [operator EXCEPT ![i] = [@ EXCEPT !.step = "written", !.raw = FALSE]]
  /\ UNCHANGED <<now, version, user, session, signIn, form, lapse>>

(* The instance after its transaction, with what is left of its duty.      *)
AfterSave(i, duty) ==
  [operator[i] EXCEPT !.step = "held", !.duty = duty, !.fields = "all",
                      !.matched = {}, !.seen = {}, !.at = Never]

DutyAfterCommit(i) ==
  IF operator[i].duty # "none" /\ ~WritesPassword(operator[i].fields)
  THEN "dropped" ELSE "none"

(* Row and revocations commit together, and User.save goes on to clear     *)
(* _password_removed.                                                      *)
CommitSave(i) ==
  /\ operator[i].step = "written"
  /\ user' = [user EXCEPT ![operator[i].account] = WrittenRow(i)]
  /\ session' = Revoke(operator[i].matched, operator[i].at)
  /\ lapse' = ExcusedBySave(i)
  /\ operator' = [operator EXCEPT ![i] =
       [AfterSave(i, DutyAfterCommit(i)) EXCEPT !.removed = FALSE]]
  /\ UNCHANGED <<now, version, signIn, form>>

(* Mutant: a save that fails clears the flags as well.                     *)
AbortSaveClearing(i) ==
  /\ operator[i].step = "saving"
  /\ operator' = [operator EXCEPT ![i] =
       [AfterSave(i, operator[i].duty) EXCEPT !.raw = FALSE, !.removed = FALSE]]
  /\ UNCHANGED <<now, version, user, session, signIn, form, lapse>>

(* An error in the write or in the receiver undoes both and leaves the     *)
(* flags set.                                                              *)
AbortSave(i) ==
  /\ operator[i].step = "saving"
  /\ operator' = [operator EXCEPT ![i] = AfterSave(i, operator[i].duty)]
  /\ UNCHANGED <<now, version, user, session, signIn, form, lapse>>

(* A commit that fails undoes both as well, but the raw password has gone. *)
(* _password_removed is still set when the transaction was that of the     *)
(* save, and gone with it when save returned inside a transaction of its   *)
(* caller (enclosed) that rolls back later.                                *)
LoseCommit(i, enclosed) ==
  LET removed == operator[i].removed /\ ~enclosed
      duty == IF operator[i].duty = "owed" /\ ~removed THEN "lost"
              ELSE operator[i].duty
  IN /\ operator[i].step = "written"
     /\ operator' = [operator EXCEPT ![i] =
          [AfterSave(i, duty) EXCEPT !.removed = removed]]
     /\ UNCHANGED <<now, version, user, session, signIn, form, lapse>>

-----------------------------------------------------------------------------
(* The admin surface of the session table.                                 *)

RevokeSelectedSessions(S) ==
  /\ S # {}
  /\ \A s \in S : session[s].stored /\ ~SessionLocked(s)
  /\ session' = Revoke(S, now)
  /\ UNCHANGED <<now, version, user, signIn, operator, form, lapse>>

DeleteSession(s) ==
  /\ session[s].stored
  /\ ~SessionLocked(s)
  /\ session' = [session EXCEPT ![s].stored = FALSE, ![s].deleted = TRUE]
  /\ UNCHANGED <<now, version, user, signIn, operator, form, lapse>>

(* Every field of the change form is read-only, and submitting it saves    *)
(* the instance the request loaded all the same: all columns, inserted     *)
(* again when the row has gone.                                            *)
LoadSessionForm(f, s) ==
  /\ ~form[f].loaded
  /\ session[s].stored
  /\ form' = [form EXCEPT ![f] = [loaded |-> TRUE, session |-> s, row |-> session[s]]]
  /\ UNCHANGED <<now, version, user, session, signIn, operator,
                 lapse>>

IsStale(f) ==
  LET s == form[f].session
  IN /\ form[f].row.revoked = Never
     /\ ~session[s].stored \/ session[s].revoked # Never

SaveSessionForm(f) ==
  LET s == form[f].session
  IN /\ form[f].loaded
     /\ ~SessionLocked(s)
     /\ session' = [session EXCEPT ![s] = form[f].row]
     /\ lapse' = IF IsStale(f) THEN Excuse({s}, "restored") ELSE lapse
     /\ form' = [form EXCEPT ![f] = NoForm]
     /\ UNCHANGED <<now, version, user, signIn, operator>>

-----------------------------------------------------------------------------
(* The purge reads the clock, then deletes in one statement that waits for *)
(* locked rows: "at" is any instant up to now, as late as that may be.     *)

(* Mutant: a revoked row is purged before its expiry.                      *)
ExpiredOrRevoked(at) ==
  {s \in Sessions : session[s].stored /\ (session[s].expires <= at
                                          \/ session[s].revoked # Never)}

(* Mutant: a revoked row is kept for ever.                                 *)
ExpiredUnrevoked(at) ==
  {s \in Sessions : session[s].stored /\ session[s].expires <= at
                                      /\ session[s].revoked = Never}

Expired(at) == {s \in Sessions : session[s].stored /\ session[s].expires <= at}

DeleteExpiredSessions(at) ==
  /\ at <= now
  /\ Expired(at) # {}
  /\ \A s \in Expired(at) : ~SessionLocked(s)
  /\ session' = [s \in Sessions |->
       IF s \in Expired(at) THEN [session[s] EXCEPT !.stored = FALSE]
       ELSE session[s]]
  /\ UNCHANGED <<now, version, user, signIn, operator, form, lapse>>

Tick ==
  /\ now < MaxTime
  /\ now' = now + 1
  /\ UNCHANGED <<version, user, session, signIn, operator, form,
                 lapse>>

-----------------------------------------------------------------------------

SignInStep == \E r \in Requests :
  \/ \E a \in Accounts : VerifyPassword(r, a)
  \/ UpgradeHash(r)
  \/ RejectInactive(r)
  \/ \E s \in Sessions : IssueSession(r, s)

SaveEnds(i) ==
  \/ ClearRawPassword(i)
  \/ CommitSave(i)
  \/ AbortSave(i)
  \/ \E enclosed \in BOOLEAN : LoseCommit(i, enclosed)

OperatorStep == \E i \in Operators :
  \/ \E a \in Accounts : LoadUser(i, a)
  \/ DropUser(i)
  \/ SetPassword(i)
  \/ SetUnusablePassword(i)
  \/ SetActive(i)
  \/ \E fields \in {"all", "password", "others"} : BeginSave(i, fields)
  \/ SaveEnds(i)

SessionStep ==
  \/ \E s \in Sessions : SignOut(s) \/ DeleteSession(s)
  \/ \E S \in SUBSET Sessions : RevokeSelectedSessions(S)
  \/ \E f \in Forms : SaveSessionForm(f) \/ \E s \in Sessions : LoadSessionForm(f, s)

PurgeStep == \E at \in Time : DeleteExpiredSessions(at)

Next == SignInStep \/ OperatorStep \/ SessionStep \/ PurgeStep \/ Tick

(* The clock advances, Beat starts a purge every hour, transactions end and*)
(* PostgreSQL grants row locks in the order they were asked for, so a      *)
(* delete that waits for rows is not overtaken for ever.                   *)
Fairness ==
  /\ WF_vars(Tick)
  /\ SF_vars(DeleteExpiredSessions(now))
  /\ \A i \in Operators : WF_vars(SaveEnds(i))

Spec == Init /\ [][Next]_vars /\ Fairness

-----------------------------------------------------------------------------
(* Properties.                                                             *)

(* A session that still authenticates was issued under the credential its  *)
(* account has now, except for five lapses: its sign-in was overtaken by   *)
(* the replacement, a save wrote back a password column it had loaded      *)
(* before, a save of other columns had dropped the pending flags, a commit *)
(* that failed had lost them, or a stale admin form restored its row.      *)
OnlyLapsesOutliveTheirCredential ==
  \A s \in Sessions :
    IsUsable(s, now) =>
      \/ session[s].version = user[session[s].account].hash.version
      \/ lapse[s] # {}

(* Outside the last moments of a save, has_new_password is true of an      *)
(* instance exactly while it carries a credential no save stored: across   *)
(* saves whose write or receiver failed, and across the failed commit of a *)
(* destroyed credential.  Only a save of other columns and a commit that   *)
(* fails after Django cleared the raw password end it early.               *)
CredentialPendingUntilStored ==
  \A i \in Operators :
    operator[i].step # "written" => (operator[i].duty = "owed" <=> HasNewPassword(i))

(* The first revocation of a session is permanent: no later sign-out,      *)
(* replacement, admin action or purge moves the instant or removes it,     *)
(* only the admin form of the session writes back what it loaded.          *)
FirstRevocationIsPermanent ==
  [][\A s \in Sessions :
       session[s].revoked # Never =>
         \/ session'[s].revoked = session[s].revoked
         \/ \E f \in Forms : form[f].session = s /\ SaveSessionForm(f)]_vars

(* The row of a session outlives every moment its token could have been    *)
(* presented, whatever instant a purge captured and however late it runs,  *)
(* unless an operator deletes it.                                          *)
RowOutlivesItsToken ==
  [][\A s \in Sessions :
       session[s].stored /\ ~session'[s].stored =>
         session[s].expires <= now \/ session'[s].deleted]_vars

(* No row stays in the table for ever.                                     *)
EveryRowIsCollected ==
  \A s \in Sessions : session[s].stored ~> ~session[s].stored

(* README: "Replacing the credential of an account ends the sessions       *)
(* issued under the previous one", those whose sign-in was overtaken by    *)
(* the replacement included.                                               *)
ReplacementEndsItsSessions ==
  \A s \in Sessions :
    IsUsable(s, now) =>
      \/ session[s].version = user[session[s].account].hash.version
      \/ lapse[s] \ {"overtaken"} # {}

=============================================================================
