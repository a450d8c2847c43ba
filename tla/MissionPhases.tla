----------------------------- MODULE MissionPhases -----------------------------
(***************************************************************************)
(* What the game rules promise of a mission, whatever ends it: it is        *)
(* briefed, launched and played, it is decided once, the debriefing follows *)
(* the decision, the campaign goes on from the debriefing and only a        *)
(* mission that was won counts for it.  Abstract specification of           *)
(* MissionFlow.                                                             *)
(***************************************************************************)
VARIABLES
    phase,      \* the state of the game
    outcome,    \* "open", "won" or "lost"
    recorded    \* the campaign counts the mission as complete

vars == <<phase, outcome, recorded>>

Init == phase = "BRIEFING" /\ outcome = "open" /\ recorded = FALSE

Launch ==
    /\ phase = "BRIEFING" /\ phase' = "LAUNCHING"
    /\ UNCHANGED <<outcome, recorded>>

Begin ==
    /\ phase = "LAUNCHING" /\ phase' = "INGAME"
    /\ UNCHANGED <<outcome, recorded>>

Decide ==
    /\ phase \in {"BRIEFING", "LAUNCHING", "INGAME"}
    /\ outcome = "open" /\ outcome' \in {"won", "lost"}
    /\ phase' = "DEBRIEF"
    /\ UNCHANGED recorded

\* Only a mission that was won is recorded, and the outro follows a recorded
\* one.
Proceed ==
    /\ phase = "DEBRIEF"
    /\ \/ /\ outcome = "won"
          /\ recorded' = TRUE /\ phase' \in {"CAMPAIGNMAP", "OUTRO"}
       \/ phase' = "CAMPAIGNMAP" /\ UNCHANGED recorded
    /\ UNCHANGED outcome

\* The level is loaded anew.
Reload == phase' = "BRIEFING" /\ outcome' = "open" /\ recorded' = FALSE

Next == Launch \/ Begin \/ Decide \/ Proceed \/ Reload

Spec == Init /\ [][Next]_vars
=============================================================================
