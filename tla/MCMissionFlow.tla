----------------------------- MODULE MCMissionFlow -----------------------------
(* Model checking of MissionFlow: the kinds of the objectives. *)
EXTENDS MissionFlow, TLC

CONSTANTS m1, m2, plain, escape, survive, bomb

\* One objective of each kind.
KindAll == (plain :> "plain") @@ (escape :> "escape") @@ (survive :> "survive") @@ (bomb :> "countdown")

\* Without an objective of survival: the last death is not a failed objective.
KindNoSurvival == (plain :> "plain") @@ (escape :> "escape") @@ (bomb :> "countdown")
=============================================================================
