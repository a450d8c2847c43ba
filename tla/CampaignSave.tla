---------------------------- MODULE CampaignSave ----------------------------
(***************************************************************************)
(* The campaign save: the record of a campaign in memory, its file on      *)
(* disk, and the campaign map on which the squad is moved to the next      *)
(* mission (CASW_Campaign_Save, with the parts of CAlienSwarm that drive   *)
(* it).  A level change, a restart of the mission and a crash all replace  *)
(* the record by what the file says.  The one think function of the entity *)
(* is shared by the walk over the map and by the end of the vote.          *)
(*                                                                         *)
(* Skill points are the custom ones (asw_custom_skill_points 1) and each   *)
(* marine has one skill to spend them on.  PlayerVote,                     *)
(* StartingCampaignVote and ForceNextMissionLaunch have no caller left, so *)
(* nobody has votes and VoteEnded draws among the missions it may launch.  *)
(***************************************************************************)
EXTENDS Integers, FiniteSets

CONSTANTS NumMissions,                \* entries of the campaign, the dropzone (0) included
          Links,                      \* the missions a mission is linked to
          Marines, Players,
          SkillCap,                   \* GetMaxSkillPoints of the one skill
          PointsPerMission,           \* sk_asw_points_per_mission
          MaxSpare,                   \* bound: no award beyond this many spare points
          bReadyclicked,              \* asw_marine_lobby_ready: all are marked ready on the map
          asw_campaign_death

Missions == 0..NumMissions - 1
Dropzone == 0
Completable == Missions \ {Dropzone}
NoMission == -1

ASSUME CampaignAssumption ==
    /\ NumMissions \in Nat /\ NumMissions >= 2
    /\ Links \in [Missions -> SUBSET Missions]
    /\ SkillCap \in Nat /\ PointsPerMission \in Nat
    /\ MaxSpare \in Nat /\ MaxSpare >= 2 * NumMissions + PointsPerMission
    /\ bReadyclicked \in BOOLEAN /\ asw_campaign_death \in BOOLEAN
    /\ IsFiniteSet(Players)

VARIABLES gameState,      \* m_iGameState
          map,            \* the mission whose level is loaded, 0 for the intro or lobby level
          success,        \* GetMissionSuccess
          save,           \* the campaign save in memory
          file,           \* the save file, or NoFile
          think,          \* the think function of the save entity: "none", "move" or "vote"
          moveDestination,
          voteEnded,      \* m_bNextMissionVoteEnded
          connected,
          ready           \* who is ready, on the map and on the levels that lead there

mapVars == <<think, moveDestination, voteEnded>>
vars == <<gameState, map, success, save, file, think, moveDestination, voteEnded,
          connected, ready>>

SaveRecord == [position : Missions, complete : SUBSET Missions, count : 0..NumMissions - 1,
               skill : [Marines -> 0..SkillCap], spare : [Marines -> 0..MaxSpare],
               undoSkill : [Marines -> 0..SkillCap], undoSpare : [Marines -> 0..MaxSpare],
               dead : SUBSET Marines]

\* A campaign that is complete has no file.
NoFile == [deleted |-> TRUE]

CampaignMissionsLeft(s) == NumMissions - 1 - s.count

\* Mutant: the dead are written as they were before the mission.
SaveGameToFile_OldDead(s) ==
    IF CampaignMissionsLeft(s) <= 0 THEN NoFile ELSE [s EXCEPT !.dead = save.dead]

SaveGameToFile(s) == IF CampaignMissionsLeft(s) <= 0 THEN NoFile ELSE s

\* At the first mission the points are given on loading.
LoadGameFromFile(f) ==
    IF f.position = 1
    THEN [f EXCEPT !.spare = [m \in Marines |-> PointsPerMission],
                   !.undoSpare = [m \in Marines |-> PointsPerMission]]
    ELSE f

\* A campaign created with its first n missions behind it.
CreateNewSaveGame(n) ==
    LET points == [m \in Marines |-> 2 * n]
        none == [m \in Marines |-> 0]
    IN  [position |-> n + 1, complete |-> 1..n, count |-> n, skill |-> none,
         spare |-> points, undoSkill |-> none, undoSpare |-> points, dead |-> {}]

\* The last mission is not shown before it is the only one left.
IsMissionLinkedToACompleteMission(i) ==
    /\ i = NumMissions - 1 => CampaignMissionsLeft(save) <= 1
    /\ \E k \in Links[i] : k \in save.complete \/ k = Dropzone

Launchable == {i \in Completable \ save.complete : IsMissionLinkedToACompleteMission(i)}

\* Mutant: a mission that is played again counts again.
SetMissionComplete_Again(s, i) ==
    [s EXCEPT !.complete = @ \cup {i}, !.count = IF @ < NumMissions - 1 THEN @ + 1 ELSE @]

SetMissionComplete(s, i) ==
    IF i \in s.complete THEN s
    ELSE [s EXCEPT !.complete = @ \cup {i}, !.count = @ + 1]

-----------------------------------------------------------------------------
(* Levels *)

LevelInit(m, f) ==
    /\ gameState' = "BRIEFING" /\ map' = m /\ success' = FALSE
    /\ save' = LoadGameFromFile(f)
    /\ think' = "none" /\ moveDestination' = NoMission
    /\ voteEnded' = FALSE
    /\ ready' = {}

Init ==
    \E n \in 0..NumMissions - 2 :
        /\ gameState = "BRIEFING" /\ map = n + 1 /\ success = FALSE
        /\ file = CreateNewSaveGame(n)
        /\ save = LoadGameFromFile(file)
        /\ think = "none" /\ moveDestination = NoMission
        /\ voteEnded = FALSE
        /\ connected = {} /\ ready = {}

\* The server goes down at any moment, and the saved campaign is loaded again.
Resume ==
    /\ file # NoFile
    /\ LevelInit(Dropzone, file)
    /\ UNCHANGED <<file, connected>>

LaunchCampaignMap ==
    /\ gameState = "BRIEFING" /\ map = Dropzone
    /\ gameState' = "CAMPAIGNMAP"
    /\ UNCHANGED <<map, success, save, file, mapVars, connected, ready>>

StartMission ==
    /\ gameState = "BRIEFING" /\ map # Dropzone
    /\ gameState' = "INGAME"
    /\ file' = SaveGameToFile(save)
    /\ UNCHANGED <<map, success, save, mapVars, connected, ready>>

OnMarineKilled ==
    /\ gameState = "INGAME"
    /\ file' = SaveGameToFile(save)
    /\ UNCHANGED <<gameState, map, success, save, mapVars, connected, ready>>

MissionComplete ==
    /\ gameState = "INGAME"
    /\ gameState' = "DEBRIEF"
    /\ success' \in BOOLEAN
    /\ UNCHANGED <<map, save, file, mapVars, connected, ready>>

\* Mutant: a restart is allowed on the campaign map.
BeforeCampaignMap_Map == gameState # "OUTRO"

BeforeCampaignMap == gameState \in {"BRIEFING", "INGAME", "DEBRIEF"}

RestartMission ==
    /\ BeforeCampaignMap
    /\ file' = SaveGameToFile(save)
    /\ LevelInit(map, file')
    /\ UNCHANGED connected

-----------------------------------------------------------------------------
(* The end of a mission *)

AwardPoints(s) ==
    [s EXCEPT !.spare = [m \in Marines |-> IF m \in s.dead THEN s.spare[m]
                                           ELSE s.spare[m] + PointsPerMission]]

UpdateSkillUndoState(s) == [s EXCEPT !.undoSkill = s.skill, !.undoSpare = s.spare]

\* Of the marines who were on the mission the fallen are dead, if deaths count.
SetFates(s, crew, fallen) ==
    [s EXCEPT !.dead = (@ \ crew) \cup (IF asw_campaign_death THEN fallen ELSE {})]

\* What a won mission makes of the record.
Recorded(s, crew, fallen) ==
    SetFates(UpdateSkillUndoState(SetMissionComplete(AwardPoints(s), s.position)), crew, fallen)

ShowCampaignMap ==
    /\ gameState' = "CAMPAIGNMAP"
    /\ ready' = IF bReadyclicked THEN connected ELSE {}

CampaignSaveAndShowCampaignMap ==
    /\ gameState = "DEBRIEF" /\ success
    /\ \A m \in Marines : save.spare[m] + PointsPerMission <= MaxSpare
    /\ \E crew \in SUBSET (Marines \ save.dead) : \E fallen \in SUBSET crew :
          save' = Recorded(save, crew, fallen)
    /\ file' = SaveGameToFile(save')
    /\ IF CampaignMissionsLeft(save') <= 0
       THEN gameState' = "OUTRO" /\ UNCHANGED ready
       ELSE ShowCampaignMap
    /\ UNCHANGED <<map, success, think, moveDestination, voteEnded, connected>>

\* The leader forces the map, nothing is recorded (ASW_FR_CAMPAIGN_MAP).
ForceCampaignMap ==
    /\ gameState = "DEBRIEF"
    /\ UNCHANGED <<map, success, save, file, think, moveDestination, voteEnded, connected>>
    /\ ShowCampaignMap

-----------------------------------------------------------------------------
(* Skills *)

SpendSkill(m) ==
    /\ m \notin save.dead
    /\ save.skill[m] < SkillCap /\ save.spare[m] > 0
    /\ save' = [save EXCEPT !.skill[m] = @ + 1, !.spare[m] = @ - 1]
    /\ file' = SaveGameToFile(save')
    /\ UNCHANGED <<gameState, map, success, mapVars, connected, ready>>

SkillsUndo(m) ==
    /\ gameState = "BRIEFING"
    /\ m \notin save.dead
    /\ save' = [save EXCEPT !.skill[m] = save.undoSkill[m], !.spare[m] = save.undoSpare[m]]
    /\ file' = SaveGameToFile(save')
    /\ UNCHANGED <<gameState, map, success, mapVars, connected, ready>>

Revived(s) ==
    LET points == 2 * s.count + 2
        Set(f, v) == [m \in Marines |-> IF m \in s.dead THEN v ELSE f[m]]
    IN  [s EXCEPT !.skill = Set(@, 0), !.undoSkill = Set(@, 0),
                  !.spare = Set(@, points), !.undoSpare = Set(@, points), !.dead = {}]

ReviveDeadMarines ==
    /\ connected # {}
    /\ save' = Revived(save)
    /\ file' = SaveGameToFile(save')
    /\ UNCHANGED <<gameState, map, success, mapVars, connected, ready>>

-----------------------------------------------------------------------------
(* The campaign map *)

\* The destination and the think function after a move to i was asked for,
\* when the think function was rest before; the present destination is ignored.
RequestCampaignMove(i, rest) ==
    IF gameState = "CAMPAIGNMAP" /\ i \in Missions /\ i # moveDestination
    THEN moveDestination' = i /\ think' = "move"
    ELSE UNCHANGED moveDestination /\ think' = rest

\* The leader launches the mission he picked; any mission can be picked.
ForceLaunch(i) ==
    /\ connected # {}
    /\ RequestCampaignMove(i, think)
    /\ UNCHANGED <<gameState, map, success, save, file, voteEnded, connected, ready>>

\* The missions BuildCampaignRoute reaches from start without passing avoided.
Found(start, avoided) ==
    LET after[k \in 0..NumMissions] ==
            IF k = 0 THEN {start} \ {avoided}
            ELSE after[k - 1] \cup (UNION {Links[i] : i \in after[k - 1]} \ {avoided})
    IN  after[NumMissions]

\* Mutant: the route is searched the other way round.
NextSteps_Forward(start, end) == {i \in Missions \cap Found(end, start) : start \in Links[i]}

\* The search starts at the destination; the squad's next step is the mission
\* from which it came to the squad's position.
NextSteps(start, end) == {i \in Missions \cap Found(start, end) : end \in Links[i]}

MayLaunch(i) == gameState = "CAMPAIGNMAP" /\ i # Dropzone

RequestCampaignLaunchMission(i) ==
    /\ MayLaunch(i)
    /\ file' = SaveGameToFile(save)
    /\ LevelInit(i, file')
    /\ UNCHANGED connected

MoveThink ==
    /\ think = "move"
    /\ \/ /\ moveDestination = save.position
          /\ \/ RequestCampaignLaunchMission(save.position)
             \/ /\ ~MayLaunch(save.position)
                /\ think' = "none"
                /\ UNCHANGED <<gameState, map, success, save, file, moveDestination, voteEnded,
                               connected, ready>>
       \/ /\ moveDestination # save.position
          /\ LET steps == NextSteps(moveDestination, save.position)
             IN  IF steps = {}
                 THEN think' = "none" /\ UNCHANGED save
                 ELSE think' = "move" /\ \E i \in steps : save' = [save EXCEPT !.position = i]
          /\ UNCHANGED <<gameState, map, success, file, moveDestination, voteEnded,
                         connected, ready>>

\* Where no mission may be launched mission -1 is asked for, and refused.
VoteEnded(rest) ==
    /\ voteEnded' = TRUE
    /\ \E i \in IF Launchable = {} THEN {NoMission} ELSE Launchable :
          RequestCampaignMove(i, rest)

VoteEndThink ==
    /\ think = "vote"
    /\ VoteEnded("none")
    /\ UNCHANGED <<gameState, map, success, save, file, connected, ready>>

OthersReady(p) == connected \ {p} \subseteq ready

\* A player who is not the leader (there is another one) will only watch.
PlayerSpectating(p) ==
    /\ p \in connected /\ connected # {p}
    /\ gameState = "CAMPAIGNMAP" /\ ~voteEnded
    /\ ready' = ready \cup {p}
    /\ think' = IF OthersReady(p) THEN "vote" ELSE think
    /\ UNCHANGED <<gameState, map, success, save, file, moveDestination, voteEnded,
                   connected>>

ClientConnected(p) ==
    /\ p \notin connected
    /\ connected' = connected \cup {p}
    /\ ready' \in IF gameState = "CAMPAIGNMAP" \/ map = Dropzone
                 THEN {ready, ready \cup {p}} ELSE {ready}
    /\ UNCHANGED <<gameState, map, success, save, file, mapVars>>

PlayerDisconnected(p) ==
    /\ p \in connected
    /\ connected' = connected \ {p} /\ ready' = ready \ {p}
    /\ IF gameState = "CAMPAIGNMAP" /\ ~voteEnded /\ OthersReady(p)
       THEN VoteEnded(think)
       ELSE UNCHANGED <<voteEnded, moveDestination, think>>
    /\ UNCHANGED <<gameState, map, success, save, file>>

-----------------------------------------------------------------------------
Next ==
    \/ Resume \/ LaunchCampaignMap \/ StartMission \/ OnMarineKilled
    \/ MissionComplete \/ RestartMission
    \/ CampaignSaveAndShowCampaignMap \/ ForceCampaignMap
    \/ \E m \in Marines : SpendSkill(m) \/ SkillsUndo(m)
    \/ ReviveDeadMarines
    \/ \E i \in Missions : ForceLaunch(i)
    \/ MoveThink \/ VoteEndThink
    \/ \E p \in Players : PlayerSpectating(p) \/ ClientConnected(p) \/ PlayerDisconnected(p)

\* The engine calls the think functions in time.
Spec == Init /\ [][Next]_vars /\ WF_vars(MoveThink) /\ WF_vars(VoteEndThink)

-----------------------------------------------------------------------------
(* Properties *)

TypeOK ==
    /\ gameState \in {"BRIEFING", "INGAME", "DEBRIEF", "CAMPAIGNMAP", "OUTRO"}
    /\ map \in Missions /\ success \in BOOLEAN
    /\ save \in SaveRecord /\ file \in SaveRecord \cup {NoFile}
    /\ think \in {"none", "move", "vote"}
    /\ think # "none" => gameState = "CAMPAIGNMAP"
    /\ moveDestination \in Missions \cup {NoMission}
    /\ voteEnded \in BOOLEAN
    /\ connected \subseteq Players /\ ready \subseteq Players

\* The campaign ends, and its file is deleted, when every mission was won and
\* not before, however often missions are played again: the counter that
\* CampaignMissionsLeft reads is the number of missions marked complete.
FinaleEarned ==
    /\ save.count = Cardinality(save.complete)
    /\ gameState = "OUTRO" <=> save.complete = Completable
    /\ file = NoFile <=> gameState = "OUTRO"

\* What a crash at any moment leaves on disk is the whole progress: the same
\* missions and the same dead as in memory (the position alone runs ahead
\* while the squad walks, and points on loading the first mission).
ProgressOnDisk ==
    file # NoFile =>
        /\ file.complete = save.complete /\ file.count = save.count
        /\ file.dead = save.dead /\ file.skill = save.skill

\* The file records a mission as complete only when it was the one played and
\* won, although the record finds it by the position of the squad, and no
\* step takes a mission back.
RecordedWasPlayed ==
    [][file # NoFile /\ file' # NoFile =>
          /\ file.complete \subseteq file'.complete
          /\ file'.complete \ file.complete \subseteq IF success THEN {map} ELSE {}]_vars

\* A walk over the map ends where it was to end, unless another destination
\* or the end of a vote comes in between (MoveThink, BuildCampaignRoute).
WalkEnds ==
    \A i \in Missions :
        think = "move" /\ moveDestination = i ~> think # "move" \/ moveDestination # i

\* While the squad is not where it was sent, something moves it there.
MoveIsUnderWay ==
    /\ gameState = "CAMPAIGNMAP" /\ moveDestination \notin {NoMission, save.position}
    /\ NextSteps(moveDestination, save.position) # {}
    => think # "none"

\* Loading the save gives the points that were saved.
PointsSurvive ==
    file # NoFile =>
        LET loaded == LoadGameFromFile(file)
        IN  loaded.skill = save.skill /\ loaded.spare = save.spare
=============================================================================
