-------------------------------- MODULE Director --------------------------------
(***************************************************************************)
(* The director and the spawn manager: hordes, wandering aliens, and the    *)
(* pace of the mission (game/server/swarm/asw_director.cpp,                 *)
(* asw_director_control.cpp, asw_director_intensity.cpp,                    *)
(* asw_spawn_manager.cpp), with horde mode choosing what hordes consist of. *)
(*                                                                          *)
(* A timer is "off" (invalidated), "running" or "elapsed"; where off and    *)
(* elapsed come to the same, it runs or does not.  What depends on the map  *)
(* and on the marines' positions (how many of a batch find room, whether a  *)
(* place for a horde or a node for a wanderer is found, how many drones are *)
(* awake) is any outcome.                                                   *)
(***************************************************************************)
EXTENDS HordeMode

CONSTANTS
    DefaultMin, DefaultMax, \* asw_horde_size_min and _max as the server starts
    BatchMax,               \* asw_max_alien_batch
    WandererMax             \* asw_wanderer_max

ASSUME DirectorConstants ==
    /\ DefaultMin \in Nat /\ DefaultMax \in Nat /\ DefaultMin <= DefaultMax
    /\ BatchMax \in Nat \ {0} /\ WandererMax \in Nat

VARIABLES
    director,       \* the members of CASW_Director
    manager,        \* the members of CASW_Spawn_Manager
    atPeak          \* GetMaxIntensity() >= 1

vars == <<director, manager, atPeak, hordeModeVars>>

Timers == {"off", "running", "elapsed"}

Directors ==
    [spawning : BOOLEAN, peaked : BOOLEAN,      \* m_bSpawningAliens, m_bReachedIntensityPeak
     sustain : Timers, horde : Timers, alien : BOOLEAN,
     finale : BOOLEAN, hordes : BOOLEAN, wanderers : BOOLEAN]

SizeLimit(kind) == IF kind = Unchosen THEN DefaultMax ELSE SizeMax[kind]
HordeSizes(kind) == IF kind = Unchosen THEN DefaultMin..DefaultMax ELSE SizeMin[kind]..SizeMax[kind]
LargestHorde == Max({DefaultMax} \cup {SizeMax[k] : k \in Kinds})

Managers ==
    [place : BOOLEAN,                   \* m_vecHordePosition is set
     toSpawn : 0..LargestHorde,         \* m_iHordeToSpawn
     batch : BOOLEAN,                   \* m_batchInterval runs
     queue : 0..(WandererMax + 1)]      \* m_iAliensToSpawn

-----------------------------------------------------------------------------
(* The spawn manager.                                                       *)

\* Faulty variant: a horde that finds no other place is not given up.
SpawnHorde_KeepCount(m, spawned, found) ==
    LET left == m.toSpawn - spawned IN
    IF m.toSpawn = 0 \/ m.batch THEN m
    ELSE [m EXCEPT !.toSpawn = left, !.place = left > 0 /\ (spawned > 0 \/ found), !.batch = TRUE]

\* Update, the horde: a batch of it is spawned where there is room.  If nothing
\* fits, another place is looked for, and without one the horde is given up.
SpawnHorde(m, spawned, found) ==
    LET left == m.toSpawn - spawned
        over == left = 0 \/ (spawned = 0 /\ ~found)
    IN IF m.toSpawn = 0 THEN m
       ELSE IF ~m.place THEN [m EXCEPT !.toSpawn = 0]
       ELSE IF m.batch THEN m
       ELSE [m EXCEPT !.toSpawn = IF over THEN 0 ELSE left, !.place = ~over, !.batch = TRUE]

\* Update, the wanderers.
SpawnWanderer(m, found) == [m EXCEPT !.queue = IF @ > 0 /\ found THEN @ - 1 ELSE @]

\* The place of a horde in progress is kept, its remainder is not.
AddHorde(m, size) == [m EXCEPT !.place = TRUE, !.toSpawn = size]

AddAlien(m) == IF m.queue > WandererMax THEN m ELSE [m EXCEPT !.queue = @ + 1]

-----------------------------------------------------------------------------
(* The director.                                                            *)

\* UpdateHorde, what becomes of the timer.
UpdateHordeTimer(d, added) ==
    [d EXCEPT !.horde = CASE ~(d.hordes \/ override) -> @
                          [] @ = "off" -> "running"
                          [] @ = "elapsed" -> IF added THEN "off" ELSE "running"
                          [] OTHER -> @]

HordeIsDue(d) == (d.hordes \/ override) /\ d.horde = "elapsed"

\* Faulty variant: a new peak starts the time the peak is held again.
UpdateSpawningState_HoldAgain(d, peak) ==
    CASE d.finale -> [d EXCEPT !.spawning = TRUE]
      [] ~d.finale /\ ~d.spawning ->
            IF d.sustain = "off" THEN [d EXCEPT !.sustain = IF peak THEN "off" ELSE "running"]
            ELSE IF d.sustain = "elapsed"
                 THEN [d EXCEPT !.spawning = TRUE, !.peaked = FALSE, !.sustain = "off", !.alien = FALSE]
            ELSE d
      [] OTHER ->
            IF peak THEN [d EXCEPT !.peaked = TRUE, !.sustain = "running"]
            ELSE IF d.peaked /\ d.sustain = "elapsed" THEN [d EXCEPT !.spawning = FALSE, !.sustain = "off"]
            ELSE d

\* Fight until the intensity peaks, hold the peak for a while, relax once the
\* marines have left it, and fight again; in the finale, fight for ever.
UpdateSpawningState(d, peak) ==
    CASE d.finale -> [d EXCEPT !.spawning = TRUE]
      [] ~d.finale /\ ~d.spawning ->
            IF d.sustain = "off" THEN [d EXCEPT !.sustain = IF peak THEN "off" ELSE "running"]
            ELSE IF d.sustain = "elapsed"
                 THEN [d EXCEPT !.spawning = TRUE, !.peaked = FALSE, !.sustain = "off", !.alien = FALSE]
            ELSE d
      [] ~d.finale /\ d.spawning /\ d.peaked ->
            IF d.sustain = "off" THEN [d EXCEPT !.sustain = "running"]
            ELSE IF d.sustain = "elapsed" THEN [d EXCEPT !.spawning = FALSE, !.sustain = "off"]
            ELSE d
      [] OTHER -> [d EXCEPT !.peaked = peak]

WandererIsDue(d) == d.wanderers /\ d.spawning /\ ~d.alien

\* FrameUpdatePostEntityThink in the game: the spawn manager first, then the
\* hordes, the pace and the wanderers.  awake: the drones that are awake, "few"
\* (below asw_wanderer_max), "some" (below 25) or "many".
DirectorFrame ==
    /\ UNCHANGED <<atPeak, hordeMode, override, configured>>
    /\ \E added \in {FALSE, HordeIsDue(director)}, awake \in {"few", "some", "many"} :
          LET paced == UpdateSpawningState(UpdateHordeTimer(director, added), atPeak)
              wanderer == WandererIsDue(paced) IN
          /\ director' = IF wanderer THEN [paced EXCEPT !.alien = TRUE] ELSE paced
          /\ \E spawned \in 0..Min({manager.toSpawn, BatchMax}), anotherPlace \in {FALSE, manager.place},
                place \in {FALSE, HordeIsDue(director)}, node \in {FALSE, manager.queue > 0} :
                LET updated == SpawnWanderer(SpawnHorde(manager, spawned, anotherPlace), node)
                    finished == manager.toSpawn > 0 /\ updated.toSpawn = 0 IN
                /\ added = (HordeIsDue(director) /\ awake # "many" /\ (updated.place \/ place))
                /\ IF finished THEN HordeFinishedSpawning ELSE UNCHANGED hordeSettings
                /\ \E size \in HordeSizes(chosen') :
                      LET withHorde == IF added THEN AddHorde(updated, size) ELSE updated IN
                      manager' = IF wanderer /\ awake = "few" THEN AddAlien(withHorde) ELSE withHorde

SustainTimeUp ==
    /\ director.sustain = "running" /\ director' = [director EXCEPT !.sustain = "elapsed"]
    /\ UNCHANGED <<manager, atPeak, hordeModeVars>>
HordeTimeUp ==
    /\ director.horde = "running" /\ director' = [director EXCEPT !.horde = "elapsed"]
    /\ UNCHANGED <<manager, atPeak, hordeModeVars>>
AlienTimeUp ==
    /\ director.alien /\ director' = [director EXCEPT !.alien = FALSE]
    /\ UNCHANGED <<manager, atPeak, hordeModeVars>>
BatchTimeUp ==
    /\ manager.batch /\ manager' = [manager EXCEPT !.batch = FALSE]
    /\ UNCHANGED <<director, atPeak, hordeModeVars>>

-----------------------------------------------------------------------------
(* What reaches the director from the game.                                 *)

\* Event_AlienKilled, MarineTookDamage.
IntensityPeaks ==
    /\ ~atPeak /\ atPeak' = TRUE
    /\ UNCHANGED <<director, manager, hordeModeVars>>

\* UpdateIntensity lets it decay; OnMarineStartedHack resets it, and brings a
\* horde that is waited for nearer.
IntensityFalls ==
    /\ atPeak /\ atPeak' = FALSE
    /\ UNCHANGED <<director, manager, hordeModeVars>>

\* Inputs of asw_director_control.
InputHordes(on) ==
    /\ director' = [director EXCEPT !.hordes = on]
    /\ UNCHANGED <<manager, atPeak, hordeModeVars>>
InputWanderers(on) ==
    /\ director' = [director EXCEPT !.wanderers = on]
    /\ UNCHANGED <<manager, atPeak, hordeModeVars>>
StartFinale ==
    /\ director' = [director EXCEPT !.finale = TRUE, !.hordes = TRUE, !.wanderers = TRUE]
    /\ UNCHANGED <<manager, atPeak, hordeModeVars>>

NewDirector(hordes, wanderers) ==
    [spawning |-> FALSE, peaked |-> FALSE, sustain |-> "off", horde |-> "off", alien |-> FALSE,
     finale |-> FALSE, hordes |-> hordes, wanderers |-> wanderers]

NewManager == [place |-> FALSE, toSpawn |-> 0, batch |-> FALSE, queue |-> 0]

\* LevelInitPostEntity of the director and the spawn manager.  The settings of
\* horde mode stay as they are.
LevelInit ==
    /\ director' \in {NewDirector(h, w) : h, w \in BOOLEAN}
    /\ manager' = NewManager
    /\ atPeak' = FALSE
    /\ UNCHANGED hordeModeVars

-----------------------------------------------------------------------------

Init ==
    /\ director \in {NewDirector(h, w) : h, w \in BOOLEAN}
    /\ manager = NewManager
    /\ atPeak = FALSE
    /\ HordeModeInit

Next ==
    \/ DirectorFrame
    \/ SustainTimeUp \/ HordeTimeUp \/ AlienTimeUp \/ BatchTimeUp
    \/ IntensityPeaks \/ IntensityFalls
    \/ \E on \in BOOLEAN : InputHordes(on) \/ InputWanderers(on)
    \/ StartFinale
    \/ LevelInit
    \/ HordeModeNext /\ UNCHANGED <<director, manager, atPeak>>

\* The director thinks in every frame, and time passes.
Spec == Init /\ [][Next]_vars /\ WF_vars(DirectorFrame) /\ WF_vars(SustainTimeUp)

TypeOK ==
    /\ director \in Directors /\ manager \in Managers
    /\ atPeak \in BOOLEAN
    /\ HordeModeTypeOK

-----------------------------------------------------------------------------
(* Properties.                                                              *)

\* What is left of a horde has a place to come from, and is never more than the
\* maximum of the kind it is made of, though kind, size and place are chosen at
\* different times and hordes are given up, cut short by the next or left behind
\* with the level.
HordeWithinLimit ==
    manager.toSpawn > 0 => /\ manager.place
                           /\ UpdateMode = "finished" => manager.toSpawn <= SizeLimit(chosen)

\* The kind chosen last asks for the beta model of variable c.
Asks(c) == chosen \in Beta /\ BetaCvar[chosen] = c

\* A beta variable says what the administrator set it to, whenever that was, or
\* else whether the kind chosen last is a beta: nothing is left behind by the
\* kinds before it, and a mix that was set is never overwritten.
BetaMatchesChoice ==
    \A c \in BetaCvars :
        \/ betaModel[c] = configured[c]
        \/ /\ configured[c] # "mixed"
           /\ betaModel[c] = IF Asks(c) THEN "on" ELSE "off"

\* Pacing: a peak that was reached ends in a breather, and every breather in a
\* new fight, unless the marines never leave the peak or the level changes.
PeakEndsInBreather ==
    /\ director.spawning /\ director.peaked ~> ~director.spawning \/ director.finale
    /\ <>[]~atPeak /\ <>[][~LevelInit]_vars => []<>director.spawning

\* Horde mode is an option: switched off, it leaves the server's settings alone,
\* and only the administrator changes them.
\* Asserted of the code by the text of asw_hordemode; see HordeModeOff.
OffChangesNothing == [][~hordeMode => SetBetaVariable \/ UNCHANGED hordeSettings]_vars

\* A breather: no wanderer comes while the director does not spawn aliens.
\* Asserted of the code by its comment; see DirectorFindings.
BreatherIsQuiet == [][~director.spawning => manager'.queue >= manager.queue]_vars

\* asw_hordemode_*_max bounds what is left of a horde by the clock as well; see
\* HordeTimed.
TimedHordeWithinLimit == manager.toSpawn > 0 => manager.toSpawn <= SizeLimit(chosen)

\* The aliens of a horde have the health of their own kind; see DirectorFindings.
HealthOfItsKind == chosen # Unchosen => healthFrom[HealthCvar[chosen]] = chosen
=============================================================================
