# Tactiqo: verification models

Tactiqo is a Django API with a Celery worker, PostgreSQL and Redis behind a
Next.js frontend. It ingests fixtures and match predictions from Sportmonks and
serves them to signed-in visitors. This directory holds TLA+ models of the parts
of it whose correctness depends on the order in which things happen, the TLC
configurations that check them, and proofs checked by TLAPS.

Paths below are relative to the repository root (`backend/...`, `frontend/...`).

## 1. Inventory

| Component | State it keeps | Operations | Talks to |
|---|---|---|---|
| Bearer sessions and credentials (`backend/apps/accounts`) | rows of accounts and of sessions; `_password` and `_password_removed` of each `User` in memory | `sign_in`, `resolve_session`, `revoke_session`, `User.save` and its `post_save` receiver, the admin of accounts and of sessions, `purge_expired_sessions` | PostgreSQL, Celery Beat, Django's `authenticate` |
| Sign-in throttle (`accounts/api/throttling.py`) | one counter per client and window, in Redis | `allow_request` | the login endpoint, client identity |
| Synchronization lease and task delivery (`*/tasks.py`, `config/settings/base.py`) | one key per task in Redis; messages in the broker | `cache.add`, `_release_lock`, redelivery, expiry | Celery, Redis |
| Fixture synchronization (`backend/apps/fixtures`) | competitions, clubs, fixtures | `fetch_fixtures_between`, `upsert_fixtures`, `_delete_departed_fixtures` | the provider, the lease, predictions by cascade |
| Prediction and reliability synchronization (`backend/apps/predictions`) | probabilities per fixture, grades per competition | the two upserts with reconciliation by stamp | the provider, its own leases, the fixture table |
| Sportmonks client (`backend/integrations/sportmonks/client.py`) | attempts, pages and the deadline of one read | `get_pages` and its retries | the provider |
| Provider normalization (`sportmonks/fixtures.py`, `predictions.py`) | none | parsing of entries | the client |
| Queries and public API | none | `list_fixtures_on`, `list_leagues`, `get_fixture_predictions` | the tables |
| Client identity (`config/client_identity.py`) | none | resolution of the forwarded chain | throttle, logs |
| Web session (`frontend/src/proxy.ts`, `features/auth`) | the cookie | sign-in and sign-out actions, redirects | the session endpoints |
| Fixture disclosure (`fixture-disclosure.tsx`) | open, loading and result of a panel | toggle, read, retry | the prediction endpoint |
| Health, settings, logging, rendering, build | none that changes | - | - |

What is hard in it:

- *Two statements with nothing between them.* Sign-in verifies and then inserts;
  sign-out resolves and then revokes; the release of a lease reads and then
  deletes; the throttle adds and then increments.
- *Instances that are stale when saved.* `User` objects and admin forms hold the
  row they loaded.
- *Runs that overlap.* The lease has a timeout and excludes nothing after it;
  Celery delivers a message again when a worker process is lost.
- *Reads that take time.* A window is read page by page while the provider
  changes it, and what is absent from it is deleted.
- *Tables two transactions meet in.* The delete of a fixture cascades to the
  predictions another transaction is inserting.
- *Payloads of any shape.* One value the database refuses would cost every row of
  its run, and what a malformed entry loses must not be another entry's.
- *Answers that arrive late.* A Server Action settles after the row was closed, or
  after another tab changed the cookie it is about to change.
- *Several judges of one question.* Proxy, page and API each decide whether a
  visitor is signed in, at different moments and from different evidence.

What makes each component correct, as a property: sections 3 and 6 for what is
modelled, section 7 for what is left out. `PROJECT.json` lists the hazards at
their lines.

## 2. Plan

In order of importance; everything listed is done.

1. `SessionLifecycle` with `SessionLifecycleProofs`.
2. `SyncLease`: the guard of every synchronization task, a module that other
   modules extend.
3. `FixtureSync`, which extends `SyncLease`, with `FixtureSyncProofs`.
4. `PredictionSync` with `PredictionSyncProofs`: the prediction upsert statement
   by statement beside Django's cascade.
5. `SportmonksClient` with `SportmonksClientProofs`: one paginated read.
6. `SignInThrottle` with `SignInThrottleProofs`: the attempts of one client, and
   `ClientIdentity`, which decides what one client is.
7. `ProviderValues`, and over it `PredictionRead`, `ReliabilityRead` and
   `FixtureRead`: one run of each task, from the entries to the tables. They are
   composed by `ProviderReads`, with `ProviderReadsProofs`.
8. `PanelRead` and, over it, `FixtureDisclosure`, which implements the abstract
   `PredictionPanel`; `FixtureDisclosureProofs`.
9. `WebSession` with `WebSessionProofs`.

What could follow: two overlapping reliability upserts (their tables have no
cascade, so the cases are a subset of those of `PredictionSync`), the admin of
the fixture table, creation and deletion of accounts.

## 3. Modules

### SessionLifecycle

`user` and `session` are the two tables. `signIn[r]` is a request that
`authenticate()` let through and that has not inserted its session yet.
`operator[i]` is somebody who holds a `User` instance: an admin request,
`changepassword`, a shell. `form[f]` is an admin form of one session. A password
is a version number; `outdated` marks a hash Django re-encodes at the next
sign-in.

| Action | Code |
|---|---|
| `VerifyPassword`, `UpgradeHash`, `RejectInactive`, `IssueSession` | `sign_in`, `check_password`'s setter, `issue_session` |
| `SignOut` | `logout` and `revoke_session`; the resolve and the update are two statements, so the update may meet any row |
| `SetPassword`, `SetUnusablePassword`, `SetActive` | changes of the instance in memory |
| `BeginSave` | `User.save` and the receiver inside its transaction: what the receiver matched is fixed here, and the rows it locked are `SessionLocked` |
| `ClearRawPassword`, `CommitSave` | Django's `save` sets `_password` to `None` before the transaction ends; row and revocations become visible at the commit, after which `_password_removed` is cleared |
| `AbortSave`, `LoseCommit` | an error in the write or in the receiver, which leaves both flags; a commit that fails, or a transaction around `save` that rolls back (`enclosed`), after the raw password has gone |
| `RevokeSelectedSessions`, `DeleteSession`, `LoadSessionForm`, `SaveSessionForm` | `AuthSessionAdmin` |
| `DeleteExpiredSessions` | `purge_expired_sessions`; its instant may be older than the delete |

`lapse` and `duty` are history variables. They record why a session may have
survived its credential, so that the invariant can say that nothing else does:
it was inserted after the receiver looked (`overtaken`), an instance loaded before
the replacement wrote the row (`stale`), the pending flags went in a save of other
columns (`dropped`) or with a commit that failed (`lost`), or the admin form of the
session wrote it back (`restored`). A commit the database executes and whose answer
is lost is not modelled.

### SyncLease and FixtureSync

`lock` is the Redis key; `run[r]` is a message of the task and its execution:
`queued`, `called` (the date was read), `working` (the `try` block), `releasing`
(before the read of the release), `freeing` (between the read and the delete).
A lease is a fresh token. `lost` is history: whether the lease left the cache
while its execution was active, before or after it was read back. `Crash` is the
loss of the worker process: the message is queued again, the lease stays.
`ExpireLock` may happen whenever the key is set, so a run may outlive its lease.

`FixtureSync` adds the calendar, the provider, the reads and the fixture table.
`Start` fixes the window; `ReadEntry` reads one entry at a time, in any order,
from a provider that changes in between (`Revise`); `Store` is
`upsert_fixtures`; `Fail` is a `SportmonksError` or a rolled back transaction. A
fixture is its day and a version that counts what the provider said of it. An
entry that is not `usable` is one `_fixture_of` drops.

`Store` is one step because the transactions of two runs are serialized: each
upserts the subscribed competitions in its first statement, and the row locks of
those upserts are held to the commit. This assumes that the two reads have a
competition in common, which holds unless the provider answered a read of the
competitions with none of them.

### PredictionSync

`table` is what is committed; `holder` and `draft` are the row locks and the
uncommitted rows. A row is a primary key and a selection, and its value the run
that stamped it, so stamps of different runs differ. `writer[w]` is the
transaction of a run, `sync` that of the fixture synchronization. `met`,
`covered` and `offered` are history. The lease does not appear: `SyncLease`
shows that two runs may overlap, so here they always may. The fixture
synchronizations are serialized (above), so one is open at a time.

| Action | Code |
|---|---|
| `Resolve` | `_resolve_fixture_keys` and `_prediction_rows`, at the start of the transaction of `upsert_fixture_predictions`, for any read |
| `UpsertRow` | one row of `bulk_create`, which the sort puts in the order of the natural key |
| `StartDelete`, `DeleteRow` | the delete by stamp: its snapshot, then one row at a time in whatever order the plan has |
| `Commit`, `ParentGone` | the end of the block, with the deferred check of the foreign key |
| `BeginSync`, `CascadeRow`, `DeleteParents`, `CommitSync`, `ChildLeft` | `upsert_fixtures`, as far as it reaches predictions: the departed fixtures are collected, Django deletes their predictions, then them; the commit checks that no child is left |
| `BreakDeadlock`, `Fail` | an `OperationalError`; any other error or the loss of the worker |

PostgreSQL runs at its default level, READ COMMITTED, and Django creates its
foreign keys `DEFERRABLE INITIALLY DEFERRED`. The lock a check takes on the
parent is part of the commit.

### SportmonksClient

`call` is the generator of one `get_pages`: its deadline, page and cursor, the
attempt it is in and what it waits for. Time passes in requests (`Tick`,
`Progress`) and sleeps; `silent` is how long the socket has been silent, which is
what httpx compares with `REQUEST_TIMEOUT_SECONDS`. The provider is arbitrary: it
may answer anything to anything, in any order, cursors it used before included.

| Action | Code |
|---|---|
| `Open`, `RefusePastDeadline`, `Send` | the start of `get_pages`, and of an attempt in `_read_page` |
| `RepeatableFailure`, `Refused`, `Throttled`, `Undecodable`, `Yield` | what `connection.get` may do, with `_retry_delay`, `_throttled_delay`, `_reported_reset` and the backoff |
| `Wake` | the end of a sleep |
| `Resume` | the caller asks for more: `_next_cursor` and the cap of pages |

An answer names a further page by a cursor, by nothing readable (`Nameless`), says
that there is none (`Nothing`), or has no readable `has_more` (`Unpaged`), which
`_next_cursor` takes for the last page. What the client can promise is therefore
every page the provider announced (`AnnouncedPagesAreRead`), not the whole window.

A reset may be stated as a number, as one that is negative, as NaN (which Python
parses from a body and from a header), as an integer no float holds (`Huge`) or not
at all, by each of its three carriers. NaN passes every comparison of
`_throttled_delay` and ends the call in `time.sleep`, `Huge` ends it in `float()`,
both with an exception other than `SportmonksError` (`broken`).

### SignInThrottle

`counter` and `expiry` are the keys of one client, one key per window; `attempt`
is a request in `allow_request`, one step for each command that Redis executes:
`Add`, and the `Exists` and `Increment` that Django's `incr` consists of. A
command may be executed and its answer be lost (`Answered`), Redis may be out of
reach (`CacheFails`), restart without a key (`Lose`), and a key may expire
between any two commands. `late` and `lost` are history: windows an attempt was
handled for longer than a whole window after, and windows whose key was lost.

### ClientIdentity

The counters of `SignInThrottle` are those of one client; `ClientIdentity` is what
makes a client one. `chain` is `X-Forwarded-For`. A visitor begins it with
whatever they like (`Forge`), or reaches the API directly; the edge appends the
address it sees in one of the notations proxies use (`AppendPeer`), infrastructure
behind it appends `Hops` more (`AppendHop`), and the web application forwards the
chain unchanged (`forwarding-chain.ts`). `Resolve` is `resolve_client_identity` with
its helpers, which are operators of the same names. An address is a family, a
network and a host, a text a spelling of an address, junk or blank.

The model assumes what the settings ask of the operator: `TRUSTED_PROXY_HOPS` is
the number of proxies behind the edge, and the edge always appends. The branch
for a peer that is no address is translated and never taken: a socket names an
address.

### ProviderValues, PredictionRead, ReliabilityRead, FixtureRead, ProviderReads

`ProviderValues` has the conversions of single values that both adapters share:
`Identifier`, `BoundedDecimal` with `Quantize`, and the strings `int()` refuses
although `isdigit` accepts them (`Raises`). A raw figure is counted in fractions
of the column's unit, so that a figure beyond the ceiling may round to the
ceiling. The other three are one run of each task: the provider sends one entry
after another out of a set that holds the malformed ones, the adapter keeps what
it can use, and the store is one step (its statements are `PredictionSync`'s and
`FixtureSync`'s subject). `windowSent`, `pages` and `leagueSent`/`fixtureSent`
are history: what the provider said, against which the tables are compared.

| Action | Code |
|---|---|
| `ReadFixtureEntry`; `ReadGradeEntry`, `NextLeague`; `ReadLeague`, `LeaguesRead`, `ReadFixture` | one turn of the loops of `fetch_prediction_window`, `fetch_market_reliability`, `fetch_fixtures_between`, with `_fixture_probabilities_of`, `_league_grades`, `_fixture_of` and their helpers |
| `WindowReadFails`, `ReliabilityReadFails`, `ReadFails` | `SportmonksError`, or the `ValueError` of an identifier |
| `StoreWindow`, `StoreReliability`, `StoreFixtures` | the three upserts with their collapse of duplicates, their scope and their delete; `refused` is an error of the database |
| `NextWindow`, `NextReliability`, `NextRead` | the next run, on the tables the last one left |

A text is a value, too long for its column (`overlong`), or one no column takes
(`Unstorable`: a NUL, a lone surrogate). `_stored_text` drops an entry with the
second and lets the third through, so `StoreFixtures` may be refused
(`RefusesTexts`); `FixturesAreReadWhole` says that this is the only reason.

`ProviderReads` runs one of the three, whichever `machine` is. `Collected` is a dict
of the code after its loop: a fold of updates, of which a later one replaces a key
of an earlier one. The reference definitions of the properties do not use it: they
pick the last usable statement of a selection out of the whole history.

### PanelRead, FixtureDisclosure, PredictionPanel

`PanelRead` has the tables of one fixture and the three statements of
`get_fixture_predictions`, which run in no transaction: a row of the table is the
ordinal of the synchronization that stored it, so a payload shows which
synchronizations it mixes. Prediction synchronizations of one fixture do not
overlap here (`PredictionSync` has what an overlap leaves).

| Action | Code |
|---|---|
| `ResolveLeague`, `ReadSelections`, `ReadGrades` | the three statements of the query |
| `SynchronizePredictions`, `SynchronizeGrades`, `DeleteFixture` | commits of the three tasks |
| `Expand`, `Collapse`, `Retry`, with `Read` | the click handlers of the row and of the notice; `read` sets the ref `requested` at once and state for the next rendering |
| `Load`, `Unavailable`, `Reject` | the Server Action settles: with predictions, with a reason, or by rejecting |
| `Render`, `EndTransition` | React renders what the settled read set; `isPending` ends |

`reading` has two slots although the code never needs the second: a second read
under way must be a state of the model for `OneReadAtATime` to say anything. What
is taken from React: clicks are discrete events whose updates are rendered before
the next one, `isPending` included; what is set after the `await` is committed
before the transition ends; `isPending` ends when every action of the transition
has; an `inert` panel takes no clicks.

`PredictionPanel` is the promise of the panel: unasked, then waiting, then either
failed, from where it can be asked again, or loaded for good; and it never waits
for a read nobody makes. `FixtureDisclosure` implements it under the mapping
`Panel`, liveness included (`KeepsThePanelsPromise`).

### WebSession

Tabs share `cookie`; `request[b]` is the one request tab b waits for, with the
token it carried when it was sent, and `view[b]` what the tab shows. The rows
behind the tokens are `SessionLifecycle`'s, reduced to whether they authenticate.

| Action | Code |
|---|---|
| `Visit`, `SubmitSignIn`, `SubmitSignOut` | navigation and the two forms |
| `proxy` | `proxy.ts`: looks at the presence of the cookie |
| `AppPage`, `LoginPage` | `requireUser`; the login page with `getCurrentUser` and `sessionLossWarning` |
| `SessionLossToast` | announces the warning and removes the marker from the address |
| `Issue`, `SignedIn`, `Refused` | `signInAction`: the API's session, and the answer that sets the cookie; any failure, after which a row may be left |
| `Revoke`, `SignedOut` | `signOutAction`: the call whose failure is ignored, and the answer that clears the cookie |
| `Lapse`, `DropCookie`, `Outage`, `Recovery` | what happens to a session or to the API by itself |

A sign-out without a cookie is redirected by the proxy with its method, so the
action runs all the same. The toast is taken to mount afresh at every arrival; a
comment in `session-loss-toast.tsx` says that a typed address may be an exception. A call lost on
its way is an outage during that call, and so is an API that can be reached and
answers with an error status. A cookie that is present and empty is not
represented. `/signup` takes no part in the session.

## 4. Runs

| Run | Instance | Question | Outcome |
|---|---|---|---|
| `session_races` | 1 account, 1 token, 1 sign-in, 2 operators, clock 1..2, 1 new credential | what survives a replaced credential | holds |
| `session_rows` | 1 of each, an admin form, clock 1..3 | the life of a row | holds |
| `session_overtaken` | small | README: replacing a credential ends the sessions issued under it | violated |
| `fixture_sync` | 2 runs, 2 fixtures, 1 revision each | what the guard excludes; what a stored window is worth | holds |
| `fixture_converges` | 2 runs, 1 fixture, 2 days | the table ends up right | holds |
| `prediction_sync` | 3 runs, 1 fixture, 2 selections, 2 keys | what overlapping upserts and the cascade leave; that sorted inserts alone never deadlock | holds |
| `prediction_deadlock` | 2 runs, 1 key | docstring: the order of locks is deterministic, so runs do not deadlock | violated |
| `sportmonks_client` | 2 cursors, 3 pages, 3 attempts, a budget of 3, waits up to 1 | whether a read has all the pages announced, is late, repeated in vain, or endless | holds |
| `sign_in_throttle` | 3 attempts, 3 windows of 2 seconds, a rate of 1; 1 hop, 2 networks, 2 forged entries | how many are admitted, who is refused, when a key becomes immortal; what one client is | holds |
| `provider_reads` | up to 3 prediction entries of 10, 4 grade entries of 5 over 3 leagues, 2 entries of competitions of 5 and 2 of fixtures of 8; two runs and more | whether a run stores what the provider said last, whatever else it said, and what of it the database can refuse | holds |
| `fixture_panel` | 2 reads, 2 markets, 2 synchronizations of each table, 5 clicks | one read at a time; whose selections a panel shows; that no placeholder stays | holds |
| `web_session` | 2 tabs, 2 tokens, 5 acts, 1 outage | that no navigation circles, that a form is explained, that a sign-out is final | holds |

Bounds. Two operators and one sign-in give every pair of concurrent writers of an
account; a third would only repeat one. One new credential distinguishes old from
new, and a stale instance from a current one. The clock needs three ticks for a
session to be issued, to expire and to be purged late. Two runs are needed for an
overlap and for a release that hits a successor. Two leases suffice for two runs:
when the key is free, at most one other run holds a lease. One revision of each
fixture makes a read old or new; a second day makes the window slide. With
`PastDays = FutureDays = 0` the window is one day, so a day before and a day
after it exist in the instance. Symmetry is used only in runs without liveness.
A deadlock needs two rows and two transactions; a third run makes longer cycles. One fixture with two keys is one
that departs and is listed again under a new key, so a run may hold rows of a key
that is gone; two selections let reads be equal, nested, overlapping or disjoint.
That one fixture's rows do not affect another's is what the proof adds.
Three pages with two cursors let cursors repeat; a reset is negative, short enough
or too long; the budget can pass during any request. `LastAnswer` bounds only how
long responses take. Three attempts at a rate of one let two be refused or admitted
beside a third, and three windows of two seconds let a key expire, which takes two
windows, while one that found it is between its commands.
The chain has an entry of the edge, one hop and up to two forged entries, so an
entry counted from either end, or by one too many, is a forged one. The two halves
of that run and the three of `provider_reads` share no variable, so each behaviour
runs one of them.
The entries of `provider_reads` are chosen, not generated: each of the reasons to
drop an entry or a value is one of them, some repeat a fixture, a selection or a
type with another value, and some are beyond the ceiling and round to it; the
bounds on a read let any two or three meet in any order. Leagues are `<<8, 9, 8>>`,
one repeated, of which the table knows 8 and 10.
Five clicks are an expansion, a retry after a failure, a collapse and an expansion
while a read is under way, and one more; the bound also stands for a visitor who
stops clicking. Two tabs and five acts let one tab sign in between another's
revocation and its answer and be redirected after it; two tokens make the session
that is surrendered differ from the one that is held. One outage begins and ends at
any moment or never ends. `NavigationsEnd` needs the bound on outages: an API that
failed and recovered at every redirect could send a visitor to and fro for ever.

The two violated properties are quotations of the repository, and
`PROJECT.json` ("findings") says what each counterexample shows, and lists
disagreements that were read off the same definitions and have no run: pending
flags that a save of other columns clears, the admin form of a session that
writes a revoked row back, an overlap that takes the table back (which is why
`NoRegressionWithoutOverlap` has its condition), a redelivered task that meets the
lease of its dead predecessor, a malformed entry that is taken for a delisted
fixture, flags that a failed commit takes, a page without pagination that ends a
read, a text no column takes, overlapping reads of a fixture that nothing
reconciles until the next run, a digit that `int()` refuses, a request that no timeout bounds (the lease
is longer than two reads only if the budget bounds a read), the NaN and the huge integer of a reset,
a deleted fixture that answers as one never predicted, a live session reported as
expired during an outage, and two docstrings about the foreign key of predictions.
The properties that hold are the exact forms:
`OnlyLapsesOutliveTheirCredential` names the five ways a session survives its
credential, `FirstRevocationIsPermanent` the one operation that moves a
revocation, `NoRegressionWithoutOverlap` the condition under which the table never
goes back, `FreesASuccessorOnlyInARace` the window `_release_lock` claims,
`NeverOnlyAfterAStall` what it takes to reach the race the docstring of the
throttle calls unreachable. On the release, the model adds a detail to the
docstring: a run whose lease was deleted by a predecessor in that window is
itself in the window, so a race can be passed on to a third run.

## 5. Fairness

- `SessionLifecycle`: the clock advances; transactions end; the purge has strong
  fairness, because Beat starts one every hour and PostgreSQL queues a delete for
  the row locks it waits for, so it is not overtaken for ever.
- `FixtureSync`: midnight comes and the key times out (weak). Beat publishes, and
  what is in the broker is taken up or dropped (weak). An
  execution does not stand still: it ends, or it is killed (weak). Strong fairness
  of starting, acquiring, of each position of a read and of the store says that
  no kind of step fails for ever: the provider is not down and workers are not
  killed for ever. Without it nothing could be promised, and each of these steps
  may still fail any finite number of times.
- `SportmonksClient`: the client goes on when it can, a sleep ends, and the clock
  advances (weak). A response may trickle only up to `LastAnswer`; `CallEnds` is
  about the client, and says nothing of a provider that never stops sending.
- `FixtureDisclosure`: a read settles (weak; the action gives up after six
  seconds), React renders what was set and ends the transition (weak). Nothing
  obliges the visitor or a synchronization, and the statements of the query need
  not run: the timeout answers for them.
- `WebSession`: whatever a tab waits for goes on (weak, per tab), because each
  call of the API gives up after five seconds and the rest is the platform's own
  work. Neither a recovery of the API nor an act of the visitor is assumed.
- `PredictionSync`, `SignInThrottle`, `ClientIdentity` and the provider reads state
  safety only.

## 6. Proofs

`SessionLifecycleProofs` proves, for any number of accounts, sessions, requests,
operators and forms and any bounds:

- `TypeCorrect`, `PendingCorrect`;
- `OnlyLapsesOutlive`, by `CredentialInvariant`. The invariant extends the
  property to expired sessions (`Accounted`: what is stored and not revoked has
  the version of its account or a lapse), because expiry plays no part in why it
  holds. It has to speak of transactions in progress (`ReceiverMatched`: a save
  about to store a pending credential matched every session it saw), because
  what a save leaves standing is decided when its receiver selects and becomes
  visible when it commits; `CredentialPendingUntilStored` is what makes the
  receiver run, and rests on `ClearedInv`: in a transaction that has written
  its row the raw password has gone, and a credential marked as destroyed is owed. `FormFaithful` says that a loaded admin form is wrong about
  nothing but the revocation;
- `FirstRevocationPermanent`, an action property, by `RevocationInv`: whatever is
  revoked, or matched by a save, was issued, so no sign-in reuses its row; and
  `RowOutlives`, which follows from type correctness.

`FixtureSyncProofs` begins with the lease: for any number of messages and tokens,
`LeaseExclusive` and `LeaseRace`, from `LeaseInv`: an execution past the guard
holds a token; the key holds that token exactly while the lease is not lost; two
executions past the guard hold different tokens; and an execution that is
`freeing` did not lose its lease before it read it back. The second part is what
makes the exclusion follow, and the last one what makes the race of the release
as narrow as `_release_lock` says. It rests on `Fresh`: a `uuid4` differs from
every token held at that moment.

It goes on with the synchronization, for any runs, fixtures, revisions and window:

- `ImplementsLease`: the synchronization implements `LeaseSpec`, every step of
  it being a step of the lease protocol or a stutter, so that `SyncExclusive`
  and `SyncRace` follow from the theorems about the lease;
- `SyncInvariant`, with `Inv`. `AloneUnlessOverlapped` and `TableBehindReads`
  are about runs that overlapped no other: nobody else writes between what such
  a run reads and what it stores, so the table is not newer than its reads.
  `TableBehindProvider` is needed for that at the moment an entry is read, and
  `ReadsTrack` (an entry read is the provider's, or the fixture was revised since
  and the entry is older) keeps `TableBehindProvider` at the store. `NothingReadBefore` says that no
  entry precedes the guard, and is what fails when the fetch is moved before it;
- `SyncType`, `SyncNoRegression` and `SyncExact`, which follow.

`PredictionSyncProofs` proves, for any number of runs, fixtures, selections and
keys, `PredictionType`, `PredictionNoOrphans`, `PredictionMixed` and the action
property `PredictionCommit`. The invariant adds to the properties:

- `Locks`: a run holds locks only while it is open and only on rows of fixtures
  it read, and the synchronization writes nothing but deletions;
- `Progressing`: a run holds every row it offered and no longer has to write, so
  at its commit it holds all of them, which is why two runs that committed with a
  row in common were not both past it at once;
- `Met`, `Written`: history agrees with the transactions;
- `Reconciling`: while a run deletes, whatever row of its scope is neither its own
  nor still to be deleted was committed by a run beside it with no row of that key
  in common. This is where the snapshot of the delete and the locks of the insert
  come together, and `MixedOnlyWhenDisjoint` is not inductive without it.

`NoOrphans` is preserved by the two commits for different reasons: a run's checks
the parents of what it inserted, the synchronization's that no child is left.

`SportmonksClientProofs` proves `ClientType`, `ClientReadsAnnounced`, `ClientWaits` and
the action properties `ClientDeadline` and `ClientHopeless`, for any limits and
any provider. The invariant says that what was asked and told so far is a chain
from the first request to the cursor in use, which makes what `AnnouncedPagesAreRead` says follow
from the last page alone. That the backoff is a number, for any attempt, comes
from counting subsets (`PowerOfTwo`): the exponential has no other theory.
`ClientAdvances` is what `CallEnds` rests on: each step of the client goes forward in
its page, its attempt or the stage of the attempt, and pages and attempts are limited.

`SignInThrottleProofs` proves the four properties of `SignInThrottle` for any
number of attempts, any rate and any window. `CounterCounts` bounds each counter
by the attempts counted in its window, whatever was lost, so a refusal means a
spent budget. `KeyOutlives`, `FoundIsThere` and `ValuesDiffer` are about windows
nobody was late in and whose key was kept: there the counter only grows and its
answers differ, so the pigeonhole principle bounds those it admitted
(`ThrottleRate`).

`OneBucket`, in the same module, is about `ForwardSpec`, the specification of
`ClientIdentity`: for any number of hops, networks and forged entries, a request
is attributed to what it was sent from. The invariant is `Appended`: of a chain at
the edge the last entries are its own, the visitor's address first and the hops
after it, and none of them is blank. `CountsFromTheRight` concludes that the entry
counted from the end is that address, whatever precedes it; it compares the sets of
the entries not further left, so nothing is said of where the forged part ends.

`FixtureDisclosureProofs` proves, for any number of clicks, markets,
synchronizations and possible reads, `TypeCorrect`, `OneRead`, `ShowsOne` and
`ImplementsPanel`, the safety half of the panel's promise. The invariant is
`RowInv`: beyond `OneReadAtATime`, an answer that is set and not rendered keeps the
transition pending; whoever asked has a read under way, an answer or a failure; and
an answer, rendered or not, leaves no read under way. That is why the guard may
be a ref alone. `ShowsOne` adds that whatever a read carries from its second
statement was published by one synchronization or deleted.

`WebSessionProofs` proves, for any number of tabs, tokens, acts and outages,
`TypeCorrect`, `FormExplained` and `SurrenderedOver`. `FormInv` follows a tab
through its redirects: until a visitor who asked for a page has been told, what
the tab waits for or shows carries the marker, and after a sign-out nothing does.
`SessionInv` says that a token is nowhere before it is issued (`Fresh`), that until
the browser is given it only the tab that signs in has it, and it was never
surrendered (`Issued`), and that a sign-out past its call has a session that is
over or an outage to blame (`Called`).
`NavigationsAreShort` is the safety half of `NavigationsEnd`. `StepsLeft` bounds the
steps of a tab from what it waits for, the token it carries and the cookie of the
moment; it is at most nine, each step of the tab decreases it and no step of another
tab moves it, unless the step changes the cookie, a row or the reachability of the
API. So the redirects of `proxy.ts`, of the pages and of the toast lead in no circle of
their own. That such changes run out between two acts of the visitor (a row is issued
and ends once, outages are bounded, a cookie is dropped once after it was set) is
left to the run.

`ProviderReadsProofs` proves the five properties of `provider_reads`, for reads of
any length, any set of entries the provider may send and any vocabulary:
`WindowType`, `WindowNeverRefused` and `WindowStoresTheLast`, `GradeType` and
`GradesAreOfOneRead`, `FixtureType` and `FixturesOfOneEntry`, each of the
specification of one read, and, by `RunsTheReads`, the same of the composition.

- `CollectedKeepsTheLast` is what they share: the dict a loop collects has exactly
  the keys some update has, and under each the value of the last one that has it.
  It is where the fold of the code meets the reference definitions, which choose a
  greatest position. The library's induction takes an operator and cannot be used,
  so `UpTo` is induction stated about a set of numbers, from a least element of its
  complement; `CollectsStepByStep` unfolds the fold one update at a time.
- What a read keeps is a subsequence of what it was sent, so the invariants name
  where each kept entry came from: `InOrder` and `ReadInOrder` say that an
  increasing function leads from the usable positions of the history onto the
  positions of what was kept. The last kept entry is then the last usable one,
  which is what `StoreKeepsWindow` and `StoreKeepsFixtures` need.
- `WindowInv` adds that figures are within the ceiling (`BoundedFits`: a figure not
  above the ceiling does not round above it), and nothing offered is then refused.
- `GradeInv` says that `byType` holds the last entry of each type of the reading
  under way (`TypesInv`), and each collected row the grade of the last reading of
  its league that had one (`GradesInv`). `AddedIsLast` and `StatedGrows` keep them:
  a league that comes again replaces what its first reading gave, market by market.
- `FixtureInv` adds that the leagues read are those told, with the text of the last
  usable entry (`TextIsTold`). `UniqueKeepsTheLast` (a
  fixture has one row, that of its last entry, whatever place it has),
  `GoalsAreLast` and `TeamsAreNamed` make the row, its score and the clubs it points
  at those of one entry; `RefusedTextIsStated` finds the entry behind a refusal.

Their assumptions on the constants: markers such as `NoRow`, `Unset` and `Unusable`
differ from the values they stand beside, the lists of an entry are sequences, and
the identifiers that occur are among those of the tables, which in the model stand
for the rows that exist or may be made.

Everything is proved from the named assumptions on the constants. Liveness
(`EveryRowIsCollected`, `TableConverges`, `CallEnds`,
`NavigationsEnd` and the liveness half of `KeepsThePanelsPromise`) is
model-checked only: it is out of the prover's reach. `ClientAdvances`,
`NavigationsAreShort` and `ImplementsPanel` are what of it is safety.
`WaitsAreShort` is proved (`ClientWaits`) and has no run.

## 7. What is not modelled

Creation and deletion of accounts, and writes of the password column that bypass
`save` (the repository's README excludes them itself). The admin of the fixture
and prediction tables. Two reliability upserts at once (one is
`ReliabilityRead`). Which exception a failing cache leaves with Celery. The list
query of fixtures (one statement and a projection), the health probes, settings,
logging, rendering, building and deployment: they keep no state, and what the
models need of them is a constant or a fairness condition.
