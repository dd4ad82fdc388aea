-------------------------- MODULE ReliabilityRead --------------------------
(***************************************************************************)
(* One read of the market reliability, league by league and entry by      *)
(* entry, and what it leaves in the table: fetch_market_reliability and    *)
(* upsert_market_reliability as one program.  A league is graded by an     *)
(* entry of words and an entry of hit ratios, which may be on any page,    *)
(* come more than once, or not at all; the configured leagues may repeat   *)
(* one, and may name one the fixture synchronization never stored.         *)
(***************************************************************************)
EXTENDS ProviderValues

CONSTANTS
  Requested,      \* SPORTMONKS_LEAGUE_IDS, a sequence
  StoredLeagues,  \* provider identifiers with a row in the league table
  GradeEntries,   \* what the provider may send for a league
  GradedMarkets,  \* the keys of PREDICTABILITY_MARKETS, one per market
  Words,          \* the words of PROVIDER_QUALITIES
  Share,          \* the ceiling of a hit ratio
  MaxGradeEntries, \* bound on the entries of one read
  NoData,         \* an entry whose data is not an object
  Ungraded

QUALITY_TYPE == 243
HIT_RATIO_TYPE == 242

Leagues == Range(Requested)

ASSUME ReliabilityAssumption ==
  /\ Share \in Nat /\ MaxGradeEntries \in Nat
  /\ Words \cap Int = {} /\ Unusable \notin Words
  /\ Requested \in Seq(Leagues)

VARIABLES
  gradeStep,      \* "reading", "stored", "failed" or "refused"
  pages,          \* history: the entries of each position of Requested read so far
  byType,         \* by_type of the league being read
  grades,         \* the grades read so far
  reliability     \* LeagueMarketReliability

gradeVars == <<gradeStep, pages, byType, grades, reliability>>

ReliabilityRows == StoredLeagues \X GradedMarkets

(* The league being read.                                                  *)
Current == Requested[Len(pages)]

-----------------------------------------------------------------------------
(* _graded_data_of: nothing when the type did not come or carries no       *)
(* object.                                                                 *)
GradedData(types, type) ==
  IF type \in DOMAIN types /\ types[type] # NoData THEN types[type] ELSE Empty

(* _qualities_of: the markets graded with a word of the vocabulary.        *)
Qualities(types) ==
  LET data == GradedData(types, QUALITY_TYPE)
  IN [m \in {n \in DOMAIN data \cap GradedMarkets : data[n] \in Words} |-> data[m]]

(* _hit_ratios_of.                                                         *)
HitRatios(types) ==
  LET data == GradedData(types, HIT_RATIO_TYPE)
  IN [m \in {n \in DOMAIN data \cap GradedMarkets :
               BoundedDecimal(data[n], Share) # Unusable} |-> BoundedDecimal(data[m], Share)]

(* The grades of a league, a word and a ratio each.                        *)
Joined(types) ==
  [m \in DOMAIN Qualities(types) \cap DOMAIN HitRatios(types) |->
     <<Qualities(types)[m], HitRatios(types)[m]>>]

(* The rows to offer after one more league: unique_grades keeps the last.  *)
AddedGrades(rows, league, types) ==
  {r \in rows : ~(r[1] = league /\ r[2] \in DOMAIN Joined(types))}
    \cup {<<league, m, Joined(types)[m]>> : m \in DOMAIN Joined(types)}

(* Mutant: the scope is derived from the grades.                           *)
ScopeOfGrades(rows) == {r[1] : r \in rows} \cap StoredLeagues

(* league_provider_ids, as far as they are stored.                         *)
GradeScope(rows) == Leagues \cap StoredLeagues

-----------------------------------------------------------------------------
ReliabilityInit ==
  /\ gradeStep = "reading"
  /\ pages = <<>>
  /\ byType = Empty
  /\ grades = {}
  /\ \E known \in SUBSET StoredLeagues, w \in Words, s \in 0 .. Share :
       reliability = [r \in ReliabilityRows |-> IF r[1] \in known THEN <<w, s>> ELSE Ungraded]

(* The first page of the next league is asked for: what was read of the    *)
(* one before is joined.                                                   *)
NextLeague ==
  /\ gradeStep = "reading"
  /\ Len(pages) < Len(Requested)
  /\ pages' = Append(pages, <<>>)
  /\ grades' = IF pages = <<>> THEN grades ELSE AddedGrades(grades, Current, byType)
  /\ byType' = Empty
  /\ UNCHANGED <<gradeStep, reliability>>

ReadGradeEntry(entry) ==
  /\ gradeStep = "reading"
  /\ pages # <<>>
  /\ Len(FlattenSeq(pages)) < MaxGradeEntries
  /\ ~Raises(entry.type)
  /\ pages' = [pages EXCEPT ![Len(pages)] = Append(@, entry)]
  /\ byType' = IF Identifier(entry.type) = NoId THEN byType
               ELSE Assigned(byType, Identifier(entry.type), entry.data)
  /\ UNCHANGED <<gradeStep, grades, reliability>>

(* SportmonksError of any league, or the ValueError of an identifier.      *)
ReliabilityReadFails ==
  /\ gradeStep = "reading"
  /\ gradeStep' = "failed"
  /\ UNCHANGED <<pages, byType, grades, reliability>>

(* Every league was read: the transaction commits, or none of it happens.  *)
StoreReliability ==
  LET read == AddedGrades(grades, Current, byType)
      offered == {r \in read : r[1] \in StoredLeagues}
      refused == \E q, r \in offered : q # r /\ q[1] = r[1] /\ q[2] = r[2]
  IN /\ gradeStep = "reading"
     /\ pages # <<>> /\ Len(pages) = Len(Requested)
     /\ grades' = read
     /\ gradeStep' = IF refused THEN "refused" ELSE "stored"
     /\ reliability' =
          IF refused THEN reliability
          ELSE [r \in ReliabilityRows |->
                  IF \E o \in offered : <<o[1], o[2]>> = r
                  THEN (CHOOSE o \in offered : <<o[1], o[2]>> = r)[3]
                  ELSE IF r[1] \in GradeScope(read) THEN Ungraded ELSE reliability[r]]
     /\ UNCHANGED <<pages, byType>>

NextReliability ==
  /\ gradeStep # "reading"
  /\ gradeStep' = "reading"
  /\ pages' = <<>>
  /\ byType' = Empty
  /\ grades' = {}
  /\ UNCHANGED reliability

ReliabilityNext ==
  \/ NextLeague
  \/ \E entry \in GradeEntries : ReadGradeEntry(entry)
  \/ ReliabilityReadFails
  \/ StoreReliability
  \/ NextReliability

ReliabilitySpec == ReliabilityInit /\ [][ReliabilityNext]_gradeVars

-----------------------------------------------------------------------------
(* Properties.                                                             *)

(* A grade is a word and a share of a market that has a key.               *)
GradeTypeOK ==
  LET Grades == Words \X (0 .. Share)
  IN /\ gradeStep \in {"reading", "stored", "failed", "refused"}
     /\ pages \in Seq(Seq(GradeEntries)) /\ Len(pages) <= Len(Requested)
     /\ grades \subseteq Leagues \X GradedMarkets \X Grades
     /\ reliability \in [ReliabilityRows -> Grades \cup {Ungraded}]

(* What the entries of one reading of a league state of a type: the last   *)
(* of the type counts.                                                     *)
Stated(page, type) ==
  LET P == {j \in DOMAIN page : Identifier(page[j].type) = type}
  IN IF P = {} THEN NoData ELSE page[CHOOSE j \in P : \A k \in P : k <= j].data

Half(page, type, m) ==
  IF Stated(page, type) = NoData \/ m \notin DOMAIN Stated(page, type) THEN Unusable
  ELSE Stated(page, type)[m]

(* The word and the ratio of market m, where both are usable.              *)
IsGraded(page, m) ==
  /\ Half(page, QUALITY_TYPE, m) \in Words
  /\ BoundedDecimal(Half(page, HIT_RATIO_TYPE, m), Share) # Unusable

Pair(page, m) ==
  <<Half(page, QUALITY_TYPE, m), BoundedDecimal(Half(page, HIT_RATIO_TYPE, m), Share)>>

(* The positions of Requested at which league l gave market m a grade.     *)
GradedAt(l, m) == {i \in DOMAIN pages : Requested[i] = l /\ IsGraded(pages[i], m)}

(* "A market is reported only when both are present and usable": what a    *)
(* run leaves of a requested league is, market by market, the word and the *)
(* ratio of one reading of its pages, the last that had both, and no row   *)
(* where none had, also for a league graded in nothing at all; other       *)
(* leagues keep their rows, and the database refuses nothing although a    *)
(* league may be configured twice.                                         *)
GradesArePairsOfOneRead ==
  [][StoreReliability =>
       /\ gradeStep' = "stored"
       /\ \A r \in ReliabilityRows :
            LET G == GradedAt(r[1], r[2])
                i == CHOOSE j \in G : \A k \in G : k <= j
            IN reliability'[r] =
                 IF r[1] \notin Leagues THEN reliability[r]
                 ELSE IF G = {} THEN Ungraded
                 ELSE Pair(pages[i], r[2])]_gradeVars

=============================================================================
