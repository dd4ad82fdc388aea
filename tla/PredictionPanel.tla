-------------------------- MODULE PredictionPanel --------------------------
(***************************************************************************)
(* What the prediction panel of a fixture promises its visitor: nothing    *)
(* before it was asked for, a placeholder while a read is under way, then  *)
(* either a failure from which it can be asked again or an answer that is  *)
(* kept.  It never waits for a read that nobody makes.                     *)
(***************************************************************************)
CONSTANTS Answers, Nothing  \* what can be shown, and that nothing is

VARIABLES phase, shown

panelVars == <<phase, shown>>

PanelInit == phase = "unasked" /\ shown = Nothing

Ask ==
  /\ phase \in {"unasked", "failed"}
  /\ phase' = "waiting"
  /\ UNCHANGED shown

SettleFailed ==
  /\ phase = "waiting"
  /\ phase' = "failed"
  /\ UNCHANGED shown

SettleLoaded(answer) ==
  /\ phase = "waiting"
  /\ phase' = "loaded"
  /\ shown' = answer

PanelNext == Ask \/ SettleFailed \/ \E answer \in Answers : SettleLoaded(answer)

PanelSafety == PanelInit /\ [][PanelNext]_panelVars

PanelSpec == PanelSafety /\ WF_panelVars(SettleFailed \/ \E answer \in Answers : SettleLoaded(answer))

=============================================================================
