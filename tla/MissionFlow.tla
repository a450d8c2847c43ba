------------------------------ MODULE MissionFlow ------------------------------
(***************************************************************************)
(* A mission from its briefing to the change of level: the game state of    *)
(* the rules and its Think (game/shared/swarm/asw_gamerules.cpp), the       *)
(* mission manager (game/server/swarm/asw_mission_manager.cpp) and the      *)
(* objectives that report to it (asw_objective*.cpp).                       *)
(*                                                                          *)
(* The players are an environment: which marines they select, what they     *)
(* request and whether the others are ready is theirs to choose.  The map's *)
(* logic drives the objectives at any time.  A request to change the level  *)
(* is carried out by the engine later; the game runs on until then.         *)
(***************************************************************************)
EXTENDS Integers, FiniteSets

CONSTANTS
    Marines,
    Techs,              \* the marines who can hack
    RequiresTech,       \* m_bMissionRequiresTech
    Objectives,
    Kind,               \* of each objective: what makes it complete or failed
    Optional,           \* the objectives with m_bOptional set by the map
    Campaign,           \* IsCampaignGame, with a campaign and its save loaded
    InstantRestart,     \* asw_instant_restart
    LaunchDeaths        \* marines may die in the half second of the launch

ASSUME MissionConstants ==
    /\ Techs \subseteq Marines
    /\ Kind \in [Objectives -> {"plain", "escape", "survive", "countdown"}]
    /\ \A o, p \in Objectives : Kind[o] = "countdown" /\ Kind[p] = "countdown" => o = p
    /\ Optional \subseteq Objectives
    /\ RequiresTech \in BOOLEAN /\ Campaign \in BOOLEAN
    /\ InstantRestart \in BOOLEAN /\ LaunchDeaths \in BOOLEAN

States == {"BRIEFING", "LAUNCHING", "INGAME", "DEBRIEF", "CAMPAIGNMAP", "OUTRO"}
Over == {"DEBRIEF", "CAMPAIGNMAP", "OUTRO"}

VARIABLES
    gameState,      \* m_iGameState
    missionSuccess, missionFailed,
    levelChange,    \* a change of level waits in the engine
    shouldStart,    \* m_bShouldStartMission
    roster,         \* the marines selected
    equipped,       \* AreRequirementsMet of the equipment requirements
    landed,         \* m_iMarinesSpawned: the marines of the roster have been spawned
    alive,
    complete,       \* the objectives with m_bComplete
    failed,         \* the objectives with m_bFailed
    countdown,      \* of the countdown objective: its think function
    allDead,        \* m_bAllMarinesDead of the mission manager
    recentDeath,    \* m_flLastMarineDeathTime is less than its delay ago
    techRestart,    \* m_flTechFailureRestartTime: unset, set, passed
    longPlayed,     \* more than 30 seconds since m_fMissionStartedTime
    recorded        \* SetMissionComplete in the saved campaign

progress == <<gameState, missionSuccess, missionFailed, levelChange>>
briefing == <<shouldStart, roster, equipped>>
objectives == <<complete, failed, countdown>>
clocks == <<recentDeath, techRestart, longPlayed>>
vars == <<progress, briefing, landed, alive, objectives, allDead, clocks, recorded>>

-----------------------------------------------------------------------------
(* How a mission ends.                                                      *)

ChangeLevelRequested ==
    /\ levelChange' = TRUE
    /\ UNCHANGED <<gameState, missionSuccess, missionFailed>>

\* Faulty variant: a mission that is over can be decided again.
MissionComplete_Again(won) ==
    /\ gameState' = "DEBRIEF"
    /\ missionSuccess' = (missionSuccess \/ won)
    /\ missionFailed' = (missionFailed \/ ~won)
    /\ UNCHANGED levelChange

\* MissionComplete.  With asw_instant_restart a failure restarts a game in
\* progress at once (and does nothing before it has begun).
MissionComplete(won) ==
    \/ /\ gameState \notin Over
       /\ won \/ ~InstantRestart
       /\ gameState' = "DEBRIEF"
       /\ missionSuccess' = (missionSuccess \/ won)
       /\ missionFailed' = (missionFailed \/ ~won)
       /\ UNCHANGED levelChange
    \/ /\ gameState = "INGAME" /\ ~won /\ InstantRestart
       /\ ChangeLevelRequested
    \/ /\ \/ gameState \in Over
          \/ gameState # "INGAME" /\ ~won /\ InstantRestart
       /\ UNCHANGED progress

\* Faulty variant: a restart in a game in progress is a failure at any time.
RestartMission_AlwaysFails ==
    \/ gameState = "INGAME" /\ MissionComplete(FALSE)
    \/ gameState \notin {"INGAME", "CAMPAIGNMAP", "OUTRO"} /\ ChangeLevelRequested

\* RestartMission: after half a minute of play the mission is failed instead.
RestartMission ==
    LET played == gameState = "INGAME" /\ longPlayed /\ ~InstantRestart IN
    \/ played /\ MissionComplete(FALSE)
    \/ ~played /\ gameState \notin {"CAMPAIGNMAP", "OUTRO"} /\ ChangeLevelRequested

-----------------------------------------------------------------------------
(* The mission manager.  The operators look at the new values of the        *)
(* objectives and the marines: whoever changed them calls them.             *)

\* Faulty variant: a countdown that runs stays optional.
IsRequired_NotCountdown(o) == o \notin Optional /\ Kind[o] \notin {"survive", "countdown"}

\* !IsObjectiveOptional.
IsRequired(o) ==
    /\ o \notin Optional /\ Kind[o] # "survive"
    /\ Kind[o] = "countdown" => countdown # "idle"

ObjectivesDone == Objectives # {} /\ \A o \in Objectives : IsRequired(o) => o \in complete

\* Faulty variant: it is not noticed that all marines are dead.
CheckMissionComplete_Unaware(failures) ==
    /\ allDead' = FALSE
    /\ \/ ObjectivesDone' /\ MissionComplete(TRUE)
       \/ ~ObjectivesDone' /\ failures # {} /\ MissionComplete(FALSE)
       \/ ~ObjectivesDone' /\ failures = {} /\ UNCHANGED progress

\* CheckMissionComplete with these failed objectives: success comes first.
\* Right after the last death the mission is not failed yet, unless the time
\* runs slowly, which may be the case at any moment.
CheckMissionComplete(failures) ==
    /\ allDead' = (alive' = {} /\ gameState \notin {"BRIEFING", "LAUNCHING"})
    /\ \/ ObjectivesDone' /\ MissionComplete(TRUE)
       \/ ~ObjectivesDone' /\ (failures # {} \/ allDead') /\ MissionComplete(FALSE)
       \/ ~ObjectivesDone' /\ failures = {} /\ (allDead' => recentDeath') /\ UNCHANGED progress

\* ManagerThink checks again once all marines were found dead.
ManagerThink ==
    /\ allDead
    /\ UNCHANGED <<briefing, landed, alive, objectives, clocks, recorded>>
    /\ CheckMissionComplete(failed)

-----------------------------------------------------------------------------
(* Objectives.                                                              *)

\* The part of SetComplete that follows the assignment.
AfterSetComplete ==
    \/ gameState = "INGAME" /\ CheckMissionComplete(failed)
    \/ gameState # "INGAME" /\ UNCHANGED <<progress, allDead>>

\* A plain objective is completed by what it counts or by the map; an escape
\* when everything else is done and the live marines are in the exit.
MayComplete(o) ==
    \/ Kind[o] = "plain"
    \/ Kind[o] = "escape" /\ \A p \in Objectives \ {o} : IsRequired(p) => p \in complete

SetComplete ==
    /\ \E o \in Objectives : MayComplete(o) /\ complete' = complete \cup {o}
    /\ UNCHANGED <<failed, countdown, briefing, landed, alive, clocks, recorded>>
    /\ AfterSetComplete

\* InputSetFailed, whatever the state of the game.
SetFailed ==
    /\ \E o \in Objectives : Kind[o] = "plain" /\ failed' = failed \cup {o}
    /\ UNCHANGED <<complete, countdown, briefing, landed, alive, clocks, recorded>>
    /\ CheckMissionComplete(failed')

\* InputSetIncomplete: SetComplete(false), then SetFailed(false); the first of
\* them checks, in a game in progress, with the failure still set.
SetIncomplete ==
    /\ \E o \in Objectives :
          /\ Kind[o] = "plain"
          /\ complete' = complete \ {o} /\ failed' = failed \ {o}
    /\ UNCHANGED <<countdown, briefing, landed, alive, clocks, recorded>>
    /\ CheckMissionComplete(IF gameState = "INGAME" THEN failed ELSE failed')

StartCountdown ==
    /\ countdown = "idle" /\ \E o \in Objectives : Kind[o] = "countdown"
    /\ countdown' = "running"
    /\ UNCHANGED <<progress, briefing, landed, alive, complete, failed, allDead, clocks, recorded>>

CancelCountdown ==
    /\ countdown # "idle"
    /\ countdown' = "over"
    /\ \E o \in Objectives : Kind[o] = "countdown" /\ complete' = complete \cup {o}
    /\ UNCHANGED <<failed, briefing, landed, alive, clocks, recorded>>
    /\ AfterSetComplete

\* The countdown's think: the level explodes, seven seconds later it is lost.
ExplodeLevel ==
    /\ countdown = "running"
    /\ countdown' = "exploding"
    /\ UNCHANGED <<progress, briefing, landed, alive, complete, failed, allDead, clocks, recorded>>

Survival == {o \in Objectives : Kind[o] = "survive"}

\* ExplodedLevel: the mission fails, then every marine is killed.  Whether a
\* tech dies before somebody else depends on their order.
ExplodedLevel ==
    /\ countdown = "exploding"
    /\ countdown' = "over"
    /\ \/ /\ gameState = "INGAME"
          /\ MissionComplete(FALSE)
          /\ alive' = {} /\ allDead' = (allDead \/ alive # {})
          /\ failed' = IF alive # {} THEN failed \cup Survival ELSE failed
          /\ recentDeath' = (recentDeath \/ alive # {})
          /\ techRestart' \in {techRestart} \cup
                (IF RequiresTech /\ techRestart = "unset" /\ alive # {} THEN {"set"} ELSE {})
       \/ gameState # "INGAME" /\ UNCHANGED <<progress, alive, allDead, failed, recentDeath, techRestart>>
    /\ UNCHANGED <<briefing, landed, complete, longPlayed, recorded>>

-----------------------------------------------------------------------------
(* The marines.                                                             *)

LiveTech == alive \cap Techs # {}

\* Event_Killed: the mission manager fails the objectives of survival and
\* checks; the loss of the last tech schedules a restart.
MarineDies ==
    /\ \/ gameState = "INGAME"
       \/ LaunchDeaths /\ gameState = "LAUNCHING"
    /\ \E m \in alive : alive' = alive \ {m}
    /\ recentDeath' = TRUE
    /\ failed' = failed \cup Survival
    /\ techRestart' = IF RequiresTech /\ techRestart = "unset" /\ ~LiveTech' /\ alive' # {}
                      THEN "set" ELSE techRestart
    /\ UNCHANGED <<complete, countdown, briefing, landed, longPlayed, recorded>>
    /\ CheckMissionComplete(failed')

\* RosterSelect, RosterDeselect, LoadoutSelect.
SelectMarines ==
    /\ gameState = "BRIEFING"
    /\ \E m \in Marines : roster' \in {roster \cup {m}, roster \ {m}, roster}
    /\ equipped' \in BOOLEAN
    /\ UNCHANGED <<progress, shouldStart, landed, alive, objectives, allDead, clocks, recorded>>

-----------------------------------------------------------------------------
(* Requests of the players.                                                 *)

RequirementsMet ==
    /\ roster # {}
    /\ RequiresTech => roster \cap Techs # {}
    /\ equipped

\* RequestStartMission, when the others are ready; or the leader forces it with
\* any marine at all (FinishForceReady).
RequestStart ==
    /\ \/ RequirementsMet
       \/ gameState = "BRIEFING" /\ roster # {}
    /\ shouldStart' = TRUE
    /\ UNCHANGED <<progress, roster, equipped, landed, alive, objectives, allDead, clocks, recorded>>

RequestRestart ==
    /\ RestartMission
    /\ UNCHANGED <<briefing, landed, alive, objectives, allDead, clocks, recorded>>

\* The outro follows when no mission is left.
CampaignSaveAndShowCampaignMap ==
    /\ Campaign /\ gameState = "DEBRIEF" /\ missionSuccess
    /\ recorded' = TRUE
    /\ gameState' \in {"CAMPAIGNMAP", "OUTRO"}
    /\ UNCHANGED <<missionSuccess, missionFailed, levelChange>>
    /\ UNCHANGED <<briefing, landed, alive, objectives, allDead, clocks>>

\* FinishForceReady, ASW_FR_CAMPAIGN_MAP: the map without saving.
ShowCampaignMap ==
    /\ Campaign /\ gameState = "DEBRIEF"
    /\ gameState' = "CAMPAIGNMAP"
    /\ UNCHANGED <<missionSuccess, missionFailed, levelChange>>
    /\ UNCHANGED <<briefing, landed, alive, objectives, allDead, clocks, recorded>>

LaunchCampaignMission ==
    /\ Campaign /\ gameState = "CAMPAIGNMAP"
    /\ ChangeLevelRequested
    /\ UNCHANGED <<briefing, landed, alive, objectives, allDead, clocks, recorded>>

-----------------------------------------------------------------------------
(* Think.                                                                   *)

\* StartMission; the request that led to it stays set.
StartMission ==
    \/ /\ RequirementsMet
       /\ gameState' = "LAUNCHING" /\ longPlayed' = FALSE
       /\ UNCHANGED <<missionSuccess, missionFailed, levelChange, landed, alive, techRestart>>
    \/ /\ ~RequirementsMet
       /\ UNCHANGED <<progress, landed, alive, clocks>>

\* UpdateLaunching: one step spawns the marines (the map has a place for each),
\* the next finds nobody left; without a further place the first is the last.
UpdateLaunching ==
    /\ \/ ~landed /\ landed' = TRUE /\ alive' = roster /\ gameState' \in {gameState, "INGAME"}
       \/ landed /\ gameState' = "INGAME" /\ UNCHANGED <<landed, alive>>
    /\ UNCHANGED <<missionSuccess, missionFailed, levelChange, techRestart, longPlayed>>

\* Faulty variant: the restart waits for a tech.
CheckTechFailure_Inverted ==
    /\ techRestart = "passed" /\ LiveTech
    /\ RestartMission
    /\ UNCHANGED <<landed, alive, techRestart, longPlayed>>

\* CheckTechFailure: the time stays set; ASW_FR_INGAME_RESTART ends at once.
CheckTechFailure ==
    /\ techRestart = "passed" /\ ~LiveTech /\ alive # {}
    /\ RestartMission
    /\ UNCHANGED <<landed, alive, techRestart, longPlayed>>

Think ==
    /\ \/ gameState = "BRIEFING" /\ shouldStart /\ StartMission
       \/ gameState = "LAUNCHING" /\ UpdateLaunching
       \/ gameState = "INGAME" /\ CheckTechFailure
    /\ UNCHANGED <<briefing, objectives, allDead, recentDeath, recorded>>

-----------------------------------------------------------------------------
(* Time and the engine.                                                     *)

TimePasses ==
    /\ \/ recentDeath /\ recentDeath' = FALSE /\ UNCHANGED <<techRestart, longPlayed>>
       \/ techRestart = "set" /\ techRestart' = "passed" /\ UNCHANGED <<recentDeath, longPlayed>>
       \/ /\ gameState \in {"LAUNCHING", "INGAME"} /\ ~longPlayed
          /\ longPlayed' = TRUE /\ UNCHANGED <<recentDeath, techRestart>>
    /\ UNCHANGED <<progress, briefing, landed, alive, objectives, allDead, recorded>>

\* A vote or an administrator asks for another level.
OtherLevelChange ==
    /\ ChangeLevelRequested
    /\ UNCHANGED <<briefing, landed, alive, objectives, allDead, clocks, recorded>>

Init ==
    /\ gameState = "BRIEFING" /\ missionSuccess = FALSE /\ missionFailed = FALSE
    /\ levelChange = FALSE
    /\ shouldStart = FALSE /\ roster = {} /\ equipped = FALSE
    /\ landed = FALSE /\ alive = {}
    /\ complete = {} /\ failed = {} /\ countdown = "idle"
    /\ allDead = FALSE
    /\ recentDeath = FALSE /\ techRestart = "unset" /\ longPlayed = FALSE
    /\ recorded = FALSE

\* The engine loads the level anew.
ChangeLevel ==
    /\ levelChange
    /\ gameState' = "BRIEFING" /\ missionSuccess' = FALSE /\ missionFailed' = FALSE
    /\ levelChange' = FALSE
    /\ shouldStart' = FALSE /\ roster' = {} /\ equipped' = FALSE
    /\ landed' = FALSE /\ alive' = {}
    /\ complete' = {} /\ failed' = {} /\ countdown' = "idle"
    /\ allDead' = FALSE
    /\ recentDeath' = FALSE /\ techRestart' = "unset" /\ longPlayed' = FALSE
    /\ recorded' = FALSE

Next ==
    \/ ManagerThink
    \/ SetComplete
    \/ SetFailed
    \/ SetIncomplete
    \/ StartCountdown
    \/ CancelCountdown
    \/ ExplodeLevel
    \/ ExplodedLevel
    \/ MarineDies
    \/ SelectMarines
    \/ RequestStart
    \/ RequestRestart
    \/ CampaignSaveAndShowCampaignMap
    \/ ShowCampaignMap
    \/ LaunchCampaignMission
    \/ Think
    \/ TimePasses
    \/ OtherLevelChange
    \/ ChangeLevel

Spec == Init /\ [][Next]_vars

\* The server and the mission manager think, and time passes.
FairSpec == Spec /\ WF_vars(Think) /\ WF_vars(ManagerThink) /\ WF_vars(TimePasses)
-----------------------------------------------------------------------------
(* Properties.                                                              *)

\* Every variable keeps its type, and only marines of the roster are alive.
TypeOK ==
    /\ gameState \in States
    /\ missionSuccess \in BOOLEAN /\ missionFailed \in BOOLEAN
    /\ levelChange \in BOOLEAN /\ shouldStart \in BOOLEAN
    /\ roster \subseteq Marines /\ alive \subseteq roster
    /\ equipped \in BOOLEAN /\ landed \in BOOLEAN
    /\ complete \subseteq Objectives /\ failed \subseteq Objectives
    /\ countdown \in {"idle", "running", "exploding", "over"}
    /\ allDead \in BOOLEAN /\ recentDeath \in BOOLEAN
    /\ techRestart \in {"unset", "set", "passed"}
    /\ longPlayed \in BOOLEAN /\ recorded \in BOOLEAN

\* The mission is won only by a step that leaves every objective complete,
\* but for the optional ones, those of survival and a countdown that was never
\* started (CheckMissionComplete, IsObjectiveOptional).
SuccessEarned ==
    [][~missionSuccess /\ missionSuccess' =>
          \A o \in Objectives :
             \/ o \in complete' \cup Optional
             \/ Kind[o] = "survive"
             \/ Kind[o] = "countdown" /\ countdown' = "idle"]_vars

\* The mission is lost only with a failed objective, with nobody alive, by
\* the explosion, or when half a minute was played and it is given up; what
\* else restarts it leaves no failure behind (MissionComplete, RestartMission).
FailureHasCause ==
    [][~missionFailed /\ missionFailed' =>
          \/ gameState = "INGAME" /\ (alive' = {} \/ longPlayed)
          \/ failed' # {}
          \/ countdown = "exploding"]_vars

\* No mission is launched without a marine, without the tech it needs or
\* without its equipment, however long ago its start was requested and
\* whatever was deselected since (RequestStartMission, StartMission).
LaunchMeetsRequirements ==
    [][gameState = "BRIEFING" /\ gameState' = "LAUNCHING" =>
          /\ roster # {} /\ equipped
          /\ RequiresTech => roster \cap Techs # {}]_vars

\* When the last marine dies in a game in progress, the mission is lost or the
\* level restarts, even if nothing else ever happens (ManagerThink).
LostMissionEnds ==
    gameState = "INGAME" /\ alive = {} ~> gameState # "INGAME" \/ levelChange

\* When nobody alive can hack in a mission that needs it, the mission is lost
\* or the level restarts (CheckTechFailure).
TechLossEnds ==
    RequiresTech /\ gameState = "INGAME" /\ ~LiveTech ~> gameState # "INGAME" \/ levelChange

\* The mission follows its phases, is decided once and not both ways, and only
\* one that was won is recorded in the campaign, whatever still reports after
\* the decision (MissionPhases).
Phases == INSTANCE MissionPhases WITH
    phase <- gameState,
    outcome <- IF missionSuccess /\ missionFailed THEN "both"
               ELSE IF missionSuccess THEN "won"
               ELSE IF missionFailed THEN "lost" ELSE "open"
FollowsPhases == Phases!Spec

\* "A player wants to start the mission; flag it so we can trigger the start
\* in our next think" (RequestStartMission): a flagged start is acted on, the
\* mission starts or the request is dropped.
RequestIsAnswered ==
    gameState = "BRIEFING" /\ shouldStart ~>
        gameState # "BRIEFING" \/ ~shouldStart \/ levelChange
=============================================================================
