---------------------------- MODULE FixtureRead ----------------------------
(***************************************************************************)
(* One read of a fixture window, entry by entry, and what it leaves in the *)
(* three tables: fetch_fixtures_between and upsert_fixtures as one         *)
(* program, with the write as a single step (FixtureSync models the runs   *)
(* of it that overlap).  The competitions are read first, then the         *)
(* fixtures; the provider may send anything: competitions nobody asked     *)
(* for, entries without an identifier or a kick-off, participants that     *)
(* are not one home and one away side, texts too long for a column or with *)
(* a character none takes, scores of other periods, of one side, or that   *)
(* count nothing.                                                          *)
(***************************************************************************)
EXTENDS ProviderValues

CONSTANTS
  LeagueIds,        \* SPORTMONKS_LEAGUE_IDS
  LeagueEntries,    \* what the provider may send for a competition
  WindowEntries,    \* what the provider may send for a fixture
  FixtureIds, TeamIds, \* the identifiers that occur, as the tables hold them
  ProviderStates,   \* the status of a state code
  Scheduled,        \* FixtureStatus.SCHEDULED
  InWindow,         \* the kick-offs inside the range that is read
  GoalsLimit,
  MaxLeagueEntries, MaxWindowEntries, \* bounds on the entries of one read
  Unstorable,       \* texts with a character no column takes: NUL, a lone surrogate
  Malformed,        \* not the list or the object the provider documents
  Unset             \* no row, and the goals of a fixture without a score

ASSUME FixtureReadAssumption ==
  /\ GoalsLimit \in Nat
  /\ MaxLeagueEntries \in Nat /\ MaxWindowEntries \in Nat
  /\ Unset \notin Int
  /\ FixtureIds \subseteq Int
  /\ \A entry \in LeagueEntries : entry.name # Unset
  /\ \A entry \in WindowEntries :
       /\ entry.scores # Malformed => entry.scores \in Seq(Range(entry.scores))
       /\ entry.participants # Malformed =>
            \A i \in DOMAIN entry.participants :
              LET side == entry.participants[i]
              IN side # Malformed =>
                   Identifier(side.id) \in TeamIds \cup {NoId} /\ side.name # Unset

VARIABLES
  readStep,         \* "leagues", "fixtures", "stored", "failed" or "refused"
  leagueSent,       \* history: the entries of the competitions
  fixtureSent,      \* history: the entries of the window
  leaguesRead,      \* ProviderWindow.leagues
  fixturesRead,     \* ProviderWindow.fixtures
  league, team, fixture \* the tables: the text of a row, the row of a fixture

readVars == <<readStep, leagueSent, fixtureSent, leaguesRead, fixturesRead,
              league, team, fixture>>
tables == <<league, team, fixture>>

-----------------------------------------------------------------------------
(* Normalization of one entry.                                             *)

(* _league_of, None for an entry whose identifier no column holds or with  *)
(* a text that is too long for one (_stored_text).  The length is all that *)
(* is asked of a text: an unstorable one passes.  The name stands for all  *)
(* the texts of the entry.                                                 *)
UsableLeague(entry) ==
  Identifier(entry.id) \in LeagueIds /\ ~entry.overlong

(* _side_of, with the same _stored_text.                                   *)
IsSide(side) ==
  /\ side # Malformed
  /\ Identifier(side.id) # NoId
  /\ side.location \in {"home", "away"}
  /\ ~side.overlong

(* _sides_of: the participants that can be read, which must name exactly   *)
(* one home and one away side.                                             *)
Sides(participants, location) ==
  IF participants = Malformed THEN {}
  ELSE {i \in DOMAIN participants :
          IsSide(participants[i]) /\ participants[i].location = location}

NamesBothSides(participants) ==
  \A location \in {"home", "away"} : Cardinality(Sides(participants, location)) = 1

SideOf(participants, location) == participants[CHOOSE i \in Sides(participants, location) : TRUE]

(* _current_side_of.                                                       *)
IsCurrent(score) ==
  /\ score # Malformed
  /\ score.description = "CURRENT"
  /\ score.score # Malformed
  /\ score.score.participant \in {"home", "away"}
  /\ score.score.goals \in 0 .. GoalsLimit

(* by_location after all the entries of the scores.                        *)
Counted(score) ==
  IF IsCurrent(score) THEN [side \in {score.score.participant} |-> score.score.goals] ELSE Empty

ByLocation(scores) ==
  IF scores = Malformed THEN Empty
  ELSE Collected([i \in DOMAIN scores |-> Counted(scores[i])])

(* Mutant: a score of one side is kept.                                    *)
HalfGoalsOf(scores) ==
  [side \in {"home", "away"} |->
     IF side \in DOMAIN ByLocation(scores) THEN ByLocation(scores)[side] ELSE Unset]

(* _goals_of: both sides or neither.                                       *)
GoalsOf(scores) ==
  IF DOMAIN ByLocation(scores) = {"home", "away"} THEN ByLocation(scores)
  ELSE [side \in {"home", "away"} |-> Unset]

StatusOf(state) ==
  IF state \in DOMAIN ProviderStates THEN ProviderStates[state] ELSE Scheduled

(* Does _fixture_of return a fixture?                                      *)
UsableFixture(entry) ==
  /\ Identifier(entry.id) # NoId
  /\ Identifier(entry.league) \in DOMAIN leaguesRead
  /\ entry.kickoff # Malformed
  /\ NamesBothSides(entry.participants)

FixtureOf(entry) ==
  [id |-> Identifier(entry.id),
   league |-> Identifier(entry.league),
   kickoff |-> entry.kickoff,
   sides |-> [side \in {"home", "away"} |-> SideOf(entry.participants, side)],
   status |-> StatusOf(entry.state),
   goals |-> GoalsOf(entry.scores)]

(* An identifier _fixture_of gets to and int refuses.                      *)
FixtureRaises(entry) ==
  \/ Raises(entry.id)
  \/ Identifier(entry.id) # NoId /\ Raises(entry.league)
  \/ /\ Identifier(entry.id) # NoId /\ Identifier(entry.league) \in DOMAIN leaguesRead
     /\ entry.kickoff # Malformed /\ entry.participants # Malformed
     /\ \E i \in DOMAIN entry.participants :
          entry.participants[i] # Malformed /\ Raises(entry.participants[i].id)

-----------------------------------------------------------------------------
(* The rows of a read.                                                     *)

(* unique_fixtures: the last of an identifier, in the place of its first.  *)
UniqueFixtures(fixtures) ==
  LET With(id) == {i \in DOMAIN fixtures : fixtures[i].id = id}
  IN [i \in {j \in DOMAIN fixtures : \A k \in With(fixtures[j].id) : j <= k} |->
        fixtures[Max(With(fixtures[i].id))]]

(* provider_teams: the text of each side, the last in that order.          *)
Named(f) ==
  [t \in {Identifier(f.sides[side].id) : side \in {"home", "away"}} |->
     f.sides[IF t = Identifier(f.sides["away"].id) THEN "away" ELSE "home"].name]

TeamsOf(fixtures) ==
  LET unique == UniqueFixtures(fixtures)
  IN Collected([i \in DOMAIN fixtures |->
                  IF i \in DOMAIN unique THEN Named(unique[i]) ELSE Empty])

FixtureRow(f) ==
  [league |-> f.league,
   home |-> Identifier(f.sides["home"].id), away |-> Identifier(f.sides["away"].id),
   kickoff |-> f.kickoff, status |-> f.status, goals |-> f.goals]

(* What PostgreSQL refuses of the fixtures: a row touched twice by one     *)
(* statement, half a score, a row that points at none.                     *)
RefusesFixtures(fixtures) ==
  \/ \E i, j \in DOMAIN fixtures : i # j /\ fixtures[i].id = fixtures[j].id
  \/ \E i \in DOMAIN fixtures :
       \/ (fixtures[i].goals["home"] = Unset) # (fixtures[i].goals["away"] = Unset)
       \/ fixtures[i].league \notin DOMAIN leaguesRead

(* The statement of _upsert_leagues or of _upsert_teams that carries a     *)
(* text no column takes fails, in psycopg or in PostgreSQL.                *)
RefusesTexts(leagues, teams) == (Range(leagues) \cup Range(teams)) \cap Unstorable # {}

Upserted(table, rows) == [k \in DOMAIN table |-> IF k \in DOMAIN rows THEN rows[k] ELSE table[k]]

-----------------------------------------------------------------------------
ReadInit ==
  /\ readStep = "leagues"
  /\ leagueSent = <<>> /\ fixtureSent = <<>>
  /\ leaguesRead = Empty /\ fixturesRead = <<>>
  /\ league = [l \in LeagueIds |-> Unset]
  /\ team = [t \in TeamIds |-> Unset]
  /\ fixture = [f \in FixtureIds |-> Unset]

ReadLeague(entry) ==
  /\ readStep = "leagues"
  /\ Len(leagueSent) < MaxLeagueEntries
  /\ ~Raises(entry.id)
  /\ leagueSent' = Append(leagueSent, entry)
  /\ leaguesRead' = IF UsableLeague(entry) THEN Assigned(leaguesRead, Identifier(entry.id), entry.name)
                    ELSE leaguesRead
  /\ UNCHANGED <<readStep, fixtureSent, fixturesRead, tables>>

LeaguesRead ==
  /\ readStep = "leagues"
  /\ readStep' = "fixtures"
  /\ UNCHANGED <<leagueSent, fixtureSent, leaguesRead, fixturesRead, tables>>

ReadFixture(entry) ==
  /\ readStep = "fixtures"
  /\ Len(fixtureSent) < MaxWindowEntries
  /\ ~FixtureRaises(entry)
  /\ fixtureSent' = Append(fixtureSent, entry)
  /\ fixturesRead' = IF UsableFixture(entry) THEN Append(fixturesRead, FixtureOf(entry))
                     ELSE fixturesRead
  /\ UNCHANGED <<readStep, leagueSent, leaguesRead, tables>>

(* SportmonksError, or the ValueError of an identifier.                    *)
ReadFails ==
  /\ readStep \in {"leagues", "fixtures"}
  /\ readStep' = "failed"
  /\ UNCHANGED <<leagueSent, fixtureSent, leaguesRead, fixturesRead, tables>>

(* upsert_fixtures: the four writes of its transaction, or none.           *)
StoreFixtures ==
  LET unique == UniqueFixtures(fixturesRead)
      rows == [id \in {unique[i].id : i \in DOMAIN unique} |->
                 FixtureRow(unique[CHOOSE i \in DOMAIN unique : unique[i].id = id])]
      departed == {f \in FixtureIds \ DOMAIN rows :
                     fixture[f] # Unset /\ fixture[f].kickoff \in InWindow}
  IN /\ readStep = "fixtures"
     /\ UNCHANGED <<leagueSent, fixtureSent, leaguesRead, fixturesRead>>
     /\ IF RefusesTexts(leaguesRead, TeamsOf(fixturesRead)) \/ RefusesFixtures(unique)
        THEN readStep' = "refused" /\ UNCHANGED tables
        ELSE /\ readStep' = "stored"
             /\ league' = Upserted(league, leaguesRead)
             /\ team' = Upserted(team, TeamsOf(fixturesRead))
             /\ fixture' = Upserted(fixture, [f \in DOMAIN rows \cup departed |->
                                                IF f \in departed THEN Unset ELSE rows[f]])

NextRead ==
  /\ readStep \in {"stored", "failed", "refused"}
  /\ readStep' = "leagues"
  /\ leagueSent' = <<>> /\ fixtureSent' = <<>>
  /\ leaguesRead' = Empty /\ fixturesRead' = <<>>
  /\ UNCHANGED tables

FixtureReadNext ==
  \/ \E entry \in LeagueEntries : ReadLeague(entry)
  \/ LeaguesRead
  \/ \E entry \in WindowEntries : ReadFixture(entry)
  \/ ReadFails
  \/ StoreFixtures
  \/ NextRead

FixtureReadSpec == ReadInit /\ [][FixtureReadNext]_readVars

-----------------------------------------------------------------------------
(* Properties.                                                             *)

(* The columns hold what is stored: counts within the limit, and rows that *)
(* point at identifiers of the tables.                                     *)
FixtureReadTypeOK ==
  LET Goals == [{"home", "away"} -> (0 .. GoalsLimit) \cup {Unset}]
  IN /\ readStep \in {"leagues", "fixtures", "stored", "failed", "refused"}
     /\ leagueSent \in Seq(LeagueEntries) /\ fixtureSent \in Seq(WindowEntries)
     /\ DOMAIN leaguesRead \subseteq LeagueIds
     /\ \A f \in FixtureIds :
          fixture[f] # Unset =>
            /\ fixture[f].league \in LeagueIds
            /\ {fixture[f].home, fixture[f].away} \subseteq TeamIds
            /\ fixture[f].goals \in Goals

LeagueTold(id) == \E i \in DOMAIN leagueSent : UsableLeague(leagueSent[i]) /\
                                               Identifier(leagueSent[i].id) = id

OnlySide(entry, location) ==
  LET P == {i \in DOMAIN entry.participants :
              IsSide(entry.participants[i]) /\ entry.participants[i].location = location}
  IN IF Cardinality(P) = 1 THEN Identifier(entry.participants[CHOOSE i \in P : TRUE].id) ELSE NoId

(* The entries of the window that state fixture f completely.              *)
Complete(f) ==
  {i \in DOMAIN fixtureSent :
     LET entry == fixtureSent[i]
     IN /\ Identifier(entry.id) = f
        /\ LeagueTold(Identifier(entry.league))
        /\ entry.kickoff # Malformed
        /\ entry.participants # Malformed
        /\ OnlySide(entry, "home") # NoId /\ OnlySide(entry, "away") # NoId}

LastCount(scores, side) ==
  LET P == {i \in DOMAIN scores : IsCurrent(scores[i]) /\ scores[i].score.participant = side}
  IN IF P = {} THEN Unset ELSE scores[CHOOSE i \in P : \A j \in P : j <= i].score.goals

(* The last usable entry of a competition, or the last complete one of a   *)
(* fixture, carries a text no column takes.                                *)
StatesUnstorable ==
  \/ \E i \in DOMAIN leagueSent :
       /\ UsableLeague(leagueSent[i]) /\ leagueSent[i].name \in Unstorable
       /\ \A j \in DOMAIN leagueSent :
            UsableLeague(leagueSent[j]) /\ Identifier(leagueSent[j].id) = Identifier(leagueSent[i].id)
              => j <= i
  \/ \E i \in DOMAIN fixtureSent :
       LET entry == fixtureSent[i]
       IN /\ i \in Complete(Identifier(entry.id)) /\ Identifier(entry.id) # NoId
          /\ \A j \in Complete(Identifier(entry.id)) : j <= i
          /\ \E k \in DOMAIN entry.participants :
               IsSide(entry.participants[k]) /\ entry.participants[k].name \in Unstorable

(* A run writes the whole window or nothing, and only a text no column     *)
(* takes, in an entry that counts, makes the database refuse it: no other  *)
(* thing the provider sends does.  What a written run leaves of a fixture  *)
(* is what the last of its entries that can be read says: its league among *)
(* those requested, its two sides, and the last current count of each or   *)
(* no score at all.  A fixture no such entry names is gone from the range  *)
(* and stays as it was outside it, and the clubs and the competition a     *)
(* fixture points at have rows.                                            *)
FixturesAreReadWhole ==
  [][StoreFixtures =>
       \/ readStep' = "refused" /\ StatesUnstorable /\ UNCHANGED tables
       \/ /\ readStep' = "stored"
          /\ \A f \in FixtureIds :
               LET entry == fixtureSent[CHOOSE i \in Complete(f) : \A j \in Complete(f) : j <= i]
                   scores == IF entry.scores = Malformed THEN <<>> ELSE entry.scores
                   count == [side \in {"home", "away"} |-> LastCount(scores, side)]
                   row == fixture'[f]
               IN IF Complete(f) = {}
                  THEN row = IF fixture[f] # Unset /\ fixture[f].kickoff \in InWindow THEN Unset
                             ELSE fixture[f]
                  ELSE /\ row.home = OnlySide(entry, "home") /\ team'[row.home] # Unset
                       /\ row.away = OnlySide(entry, "away") /\ team'[row.away] # Unset
                       /\ row.league = Identifier(entry.league) /\ league'[row.league] # Unset
                       /\ row.kickoff = entry.kickoff /\ row.status = StatusOf(entry.state)
                       /\ row.goals = IF Unset \in Range(count)
                                      THEN [side \in {"home", "away"} |-> Unset] ELSE count]_readVars

=============================================================================
