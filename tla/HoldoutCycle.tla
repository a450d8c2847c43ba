------------------------------ MODULE HoldoutCycle ------------------------------
(***************************************************************************)
(* What a holdout mission promises, without events, aliens or time: the     *)
(* waves 0, 1, ..., NumWaves-1 are announced and fought in this order, each *)
(* once; a score screen follows each wave; between two waves there may be a *)
(* resupply; after the last wave's score the mission is complete.           *)
(***************************************************************************)
EXTENDS Integers

CONSTANT NumWaves

VARIABLES phase, wave

cycleVars == <<phase, wave>>

Init == phase = "BRIEFING" /\ wave = -1

Announce ==
    /\ phase \in {"BRIEFING", "SHOWING_WAVE_SCORE", "RESUPPLY"}
    /\ wave + 1 < NumWaves
    /\ phase' = "ANNOUNCE_NEW_WAVE" /\ wave' = wave + 1

Fight ==
    /\ phase = "ANNOUNCE_NEW_WAVE"
    /\ phase' = "WAVE_IN_PROGRESS" /\ UNCHANGED wave

Score ==
    /\ phase = "WAVE_IN_PROGRESS"
    /\ phase' = "SHOWING_WAVE_SCORE" /\ UNCHANGED wave

Resupply ==
    /\ phase = "SHOWING_WAVE_SCORE" /\ wave + 1 < NumWaves
    /\ phase' = "RESUPPLY" /\ UNCHANGED wave

Complete ==
    /\ phase = "SHOWING_WAVE_SCORE" /\ wave + 1 = NumWaves
    /\ phase' = "COMPLETE" /\ UNCHANGED wave

Next == Announce \/ Fight \/ Score \/ Resupply \/ Complete

Spec == Init /\ [][Next]_cycleVars
=============================================================================
