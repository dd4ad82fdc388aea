-------------------------- MODULE MCProviderReads --------------------------
(* What a provider may send, the usable and the unusable.                  *)
EXTENDS ProviderReads

CONSTANTS Junk, Good, Poor, Early, Late

-----------------------------------------------------------------------------
Number(n) == [form |-> "number", of |-> n]
Digits(n) == [form |-> "digits", of |-> n]
Numeral == [form |-> "numeral", of |-> 0]
NoNumber == [form |-> "other", of |-> 0]

MCMinId == -500

MCProviderMarkets == 237 :> "result" @@ 240 :> "score"
MCProviderKeys == "result" :> {"home", "draw"} @@ "score" :> {"0-0"}

Prediction(type, shape, values) == [type |-> type, shape |-> shape, values |-> values]
Result(home, draw) == Prediction(Number(237), "selections", "home" :> home @@ "draw" :> draw)
Exact(value) == Prediction(Digits(240), "scores", "0-0" :> value @@ "9-9" :> 1)

PredictionEntry(id, predictions) == [id |-> id, predictions |-> predictions]

(* Percent is 2 and Fine 2: 3 is a half that is rounded up, 1 one that is  *)
(* rounded down, 5 is beyond the ceiling although it rounds to it.         *)
MCFixtureEntries ==
  {PredictionEntry(Number(1), <<Result(3, 1), Exact(4)>>),
   PredictionEntry(Digits(1), <<Result(5, 2), NotAnObject>>),
   PredictionEntry(Number(1), <<Result(0, Junk), Result(-3, 4)>>),
   PredictionEntry(Number(1), <<Prediction(Number(240), "selections", "0-0" :> 2)>>),
   PredictionEntry(Number(2), <<>>),
   PredictionEntry(Number(2), NotAList),
   PredictionEntry(Digits(2), <<Prediction(Number(238), "selections", "home" :> 2), Exact(2)>>),
   PredictionEntry(Number(3), <<Result(2, 2)>>),
   PredictionEntry(Number(900), <<Result(2, 2)>>),
   PredictionEntry(Number(1), <<Prediction(Numeral, "selections", "home" :> 2)>>)}

-----------------------------------------------------------------------------
MCRequested == <<8, 9, 8>>

Grade(type, data) == [type |-> type, data |-> data]

MCGradeEntries ==
  {Grade(Number(243), "result" :> Good @@ "score" :> Poor),
   Grade(Digits(243), "result" :> Poor @@ "score" :> 2 @@ "corners" :> Good),
   Grade(Number(242), "result" :> 1 @@ "score" :> 5),
   Grade(Number(242), NoData),
   Grade(NoNumber, "result" :> Poor)}

-----------------------------------------------------------------------------
LeagueEntry(id, name, overlong) == [id |-> id, name |-> name, overlong |-> overlong]

MCLeagueEntries ==
  {LeagueEntry(Number(8), "one", FALSE), LeagueEntry(Digits(8), "two", FALSE),
   LeagueEntry(Number(8), "long", TRUE), LeagueEntry(Number(7), "other", FALSE),
   LeagueEntry(Number(8), "nul", FALSE)}

Side(id, location, name) == [id |-> id, location |-> location, name |-> name, overlong |-> FALSE]
Count(participant, goals) ==
  [description |-> "CURRENT", score |-> [participant |-> participant, goals |-> goals]]

Home == Side(Number(1), "home", "a")
Away == Side(Digits(2), "away", "b")

Match(id, kickoff, state, participants, scores) ==
  [id |-> id, league |-> Number(8), kickoff |-> kickoff, state |-> state,
   participants |-> participants, scores |-> scores]

MCWindowEntries ==
  {Match(Number(1), Early, "FT", <<Home, Away>>,
         <<[description |-> "1ST_HALF", score |-> [participant |-> "away", goals |-> 0]],
           Count("home", 1), Count("away", 2), Count("home", 0)>>),
   Match(Digits(1), Early, "??", <<Away, [Home EXCEPT !.name = "c"]>>,
         <<Count("home", 1), Count("away", 3), Malformed>>),
   Match(Number(1), Late, "NS", <<Home, Away, [Home EXCEPT !.id = Number(3)]>>, Malformed),
   Match(Number(1), Malformed, "NS", <<Home, Away>>, <<>>),
   Match(Number(2), Late, "NS", <<[Home EXCEPT !.id = Number(2), !.name = "d"],
                                  [Away EXCEPT !.id = Number(3)],
                                  [Away EXCEPT !.overlong = TRUE], Malformed>>,
         <<Count("home", 1), [description |-> "CURRENT", score |-> Malformed]>>),
   Match(Number(2), Early, "NS", <<Home, [Away EXCEPT !.name = "nul"]>>, <<>>),
   [Match(Number(2), Early, "NS", <<Home, Away>>, <<>>) EXCEPT !.league = Number(7)],
   Match(Number(2), Early, "NS", <<[Home EXCEPT !.id = Numeral], Away>>, <<>>)}

MCProviderStates == "NS" :> "scheduled" @@ "FT" :> "finished"

=============================================================================
