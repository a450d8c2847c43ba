--------------------------- MODULE CampaignProofs ---------------------------
(***************************************************************************)
(* Proofs about CampaignSave, for every campaign, every set of marines and *)
(* players.  CInv adds to the invariants that are checked what makes them  *)
(* inductive: on a mission the squad's position is that mission, so what   *)
(* is recorded is a mission that can be completed.                         *)
(***************************************************************************)
EXTENDS CampaignSave, FiniteSetTheorems, TLAPS

\* On a level of a mission the squad is at that mission; the intro or lobby
\* level has no mission to play.
AtTheMission ==
    /\ BeforeCampaignMap /\ map # Dropzone => save.position = map
    /\ gameState \in {"INGAME", "DEBRIEF"} => map # Dropzone
    /\ save.complete \subseteq Completable

CInv == TypeOK /\ AtTheMission /\ FinaleEarned /\ ProgressOnDisk

-----------------------------------------------------------------------------
(* Lemmas about the record and the file.                                    *)

\* No record is the deleted file.
LEMMA NotDeleted == \A s \in SaveRecord : s # NoFile
  <1> SUFFICES ASSUME NEW s \in SaveRecord, s = NoFile PROVE FALSE
    OBVIOUS
  <1>1. "position" \in DOMAIN s
    BY DEF SaveRecord
  <1>2. DOMAIN NoFile = {"deleted"}
    BY DEF NoFile
  <1> QED BY <1>1, <1>2

\* The missions that can be completed are NumMissions - 1, and a set of them
\* of that size is all of them.
LEMMA CompletableCount ==
    /\ IsFiniteSet(Completable) /\ Cardinality(Completable) = NumMissions - 1
    /\ \A S \in SUBSET Completable :
          /\ IsFiniteSet(S) /\ Cardinality(S) \in 0..NumMissions - 1
          /\ Cardinality(S) = NumMissions - 1 => S = Completable
  <1>1. NumMissions \in Nat /\ NumMissions >= 2
    BY CampaignAssumption
  <1>2. Completable = 1..NumMissions - 1
    BY <1>1 DEF Completable, Missions, Dropzone
  <1>3. IsFiniteSet(Completable) /\ Cardinality(Completable) = NumMissions - 1
    BY <1>1, <1>2, FS_Interval
  <1>4. ASSUME NEW S \in SUBSET Completable
        PROVE  /\ IsFiniteSet(S) /\ Cardinality(S) \in 0..NumMissions - 1
               /\ Cardinality(S) = NumMissions - 1 => S = Completable
    BY <1>1, <1>3, <1>4, FS_Subset, FS_CardinalityType
  <1> QED BY <1>3, <1>4

\* A record is sound when its counter counts the missions it has complete.
Sound(s) ==
    /\ s \in SaveRecord
    /\ s.complete \subseteq Completable
    /\ s.count = Cardinality(s.complete)

\* Saving a sound record deletes the file of a complete campaign and writes
\* the record otherwise.
LEMMA SaveSound ==
    ASSUME NEW s, Sound(s)
    PROVE  /\ s.complete = Completable => SaveGameToFile(s) = NoFile
           /\ s.complete # Completable => SaveGameToFile(s) = s
  <1>1. NumMissions \in Nat /\ s.count \in 0..NumMissions - 1
    BY CampaignAssumption DEF Sound, SaveRecord
  <1>2. s.complete = Completable <=> s.count = NumMissions - 1
    BY CompletableCount DEF Sound
  <1> QED BY <1>1, <1>2 DEF SaveGameToFile, CampaignMissionsLeft

\* Loading changes the spare points alone.
LEMMA LoadSound ==
    ASSUME NEW f \in SaveRecord
    PROVE  /\ LoadGameFromFile(f) \in SaveRecord
           /\ LoadGameFromFile(f).position = f.position
           /\ LoadGameFromFile(f).complete = f.complete
           /\ LoadGameFromFile(f).count = f.count
           /\ LoadGameFromFile(f).dead = f.dead
           /\ LoadGameFromFile(f).skill = f.skill
  <1>1. PointsPerMission \in 0..MaxSpare
    BY CampaignAssumption
  <1> QED BY <1>1 DEF LoadGameFromFile, SaveRecord

\* What recording a mission leaves in the record.
LEMMA RecordSound ==
    ASSUME NEW s, Sound(s), s.position \in Completable,
           \A m \in Marines : s.spare[m] + PointsPerMission <= MaxSpare,
           NEW crew \in SUBSET Marines, NEW fallen \in SUBSET crew
    PROVE  /\ Sound(Recorded(s, crew, fallen))
           /\ Recorded(s, crew, fallen).complete = s.complete \cup {s.position}
           /\ Recorded(s, crew, fallen).skill = s.skill
  <1> DEFINE a == AwardPoints(s)
             c == SetMissionComplete(a, s.position)
             u == UpdateSkillUndoState(c)
             r == SetFates(u, crew, fallen)
  <1>0. PointsPerMission \in Nat /\ MaxSpare \in Nat /\ NumMissions \in Nat
    BY CampaignAssumption
  <1>1. /\ a \in SaveRecord /\ a.complete = s.complete /\ a.count = s.count
        /\ a.skill = s.skill
    BY <1>0 DEF Sound, AwardPoints, SaveRecord
  <1>2. c \in SaveRecord /\ Sound(c) /\ c.complete = s.complete \cup {s.position}
        /\ c.skill = s.skill
    <2>1. CASE s.position \in s.complete
      BY <1>1, <2>1 DEF Sound, SetMissionComplete
    <2>2. CASE s.position \notin s.complete
      <3>1. s.complete \cup {s.position} \in SUBSET Completable
        BY DEF Sound
      <3>2. Cardinality(s.complete \cup {s.position}) = Cardinality(s.complete) + 1
        BY <2>2, CompletableCount, FS_AddElement DEF Sound
      <3>3. Cardinality(s.complete \cup {s.position}) \in 0..NumMissions - 1
        BY <3>1, CompletableCount
      <3>4. s.count + 1 = Cardinality(s.complete \cup {s.position})
        BY <3>2 DEF Sound
      <3>5. c = [a EXCEPT !.complete = @ \cup {s.position}, !.count = @ + 1]
        BY <1>1, <2>2 DEF SetMissionComplete
      <3>6. Completable \subseteq Missions
        BY DEF Completable
      <3> HIDE DEF a, c
      <3>7. c \in SaveRecord
        BY <1>1, <3>1, <3>3, <3>4, <3>5, <3>6 DEF SaveRecord
      <3>8. /\ c.complete = s.complete \cup {s.position} /\ c.count = s.count + 1
            /\ c.skill = s.skill
        BY <1>1, <3>5 DEF SaveRecord
      <3> QED BY <3>1, <3>4, <3>7, <3>8 DEF Sound
    <2> QED BY <2>1, <2>2
  <1>3. u \in SaveRecord /\ u.complete = c.complete /\ u.count = c.count /\ u.skill = c.skill
    BY <1>2 DEF UpdateSkillUndoState, SaveRecord
  <1>4. r \in SaveRecord /\ r.complete = c.complete /\ r.count = c.count /\ r.skill = c.skill
    <2>1. (u.dead \ crew) \cup (IF asw_campaign_death THEN fallen ELSE {}) \in SUBSET Marines
      BY <1>3 DEF SaveRecord
    <2> HIDE DEF u
    <2> QED BY <1>3, <2>1 DEF SetFates, SaveRecord
  <1> QED BY <1>2, <1>4 DEF Recorded, Sound

\* Sound holds of the record in memory in every state, and of the file.
LEMMA CInvSound ==
    ASSUME CInv
    PROVE  /\ Sound(save)
           /\ gameState # "OUTRO" => save.complete # Completable /\ file # NoFile
           /\ file # NoFile => Sound(file) /\ file.complete # Completable
  BY DEF CInv, TypeOK, AtTheMission, FinaleEarned, ProgressOnDisk, Sound

-----------------------------------------------------------------------------
(* The invariant.                                                           *)

\* A level that is loaded from a sound file of an unfinished campaign.
LEMMA LevelInv ==
    ASSUME NEW m \in Missions, NEW f, Sound(f), f.complete # Completable,
           m = f.position \/ m = Dropzone,
           LevelInit(m, f), file' = f, connected' \subseteq Players
    PROVE  CInv'
  <1>1. f \in SaveRecord
    BY DEF Sound
  <1>2. f # NoFile
    BY <1>1, NotDeleted
  <1>3. /\ save' \in SaveRecord /\ save'.position = f.position /\ save'.complete = f.complete
        /\ save'.count = f.count /\ save'.dead = f.dead /\ save'.skill = f.skill
    BY <1>1, LoadSound DEF LevelInit
  <1>4. TypeOK'
    BY <1>1, <1>3 DEF LevelInit, TypeOK
  <1>5. AtTheMission'
    BY <1>3 DEF LevelInit, AtTheMission, Sound
  <1>6. FinaleEarned'
    BY <1>2, <1>3 DEF LevelInit, FinaleEarned, Sound
  <1>7. ProgressOnDisk'
    BY <1>3 DEF ProgressOnDisk
  <1> QED BY <1>4, <1>5, <1>6, <1>7 DEF CInv

\* A save with the same missions, in a state of the same level.
LEMMA SaveInv ==
    ASSUME CInv, Sound(save'), save'.complete = save.complete, save'.position = save.position,
           file' = SaveGameToFile(save'),
           map' = map, connected' = connected,
           UNCHANGED <<success, think, moveDestination, voteEnded, ready>>,
           \/ gameState' = gameState
           \/ gameState = "BRIEFING" /\ map # Dropzone /\ gameState' = "INGAME" /\ think = "none"
    PROVE  CInv'
  <1>1. /\ save'.complete = Completable => file' = NoFile
        /\ save'.complete # Completable => file' = save'
    BY SaveSound
  <1>2. save' \in SaveRecord /\ save' # NoFile
    BY NotDeleted DEF Sound
  <1>3. TypeOK'
    BY <1>1, <1>2 DEF CInv, TypeOK
  <1>4. AtTheMission'
    BY DEF CInv, AtTheMission, BeforeCampaignMap, Sound
  <1>5. FinaleEarned'
    BY <1>1, <1>2 DEF CInv, FinaleEarned, Sound
  <1>6. ProgressOnDisk'
    BY <1>1 DEF ProgressOnDisk
  <1> QED BY <1>3, <1>4, <1>5, <1>6 DEF CInv

\* A step of the campaign map: the record may move, the file stays.
LEMMA MapInv ==
    ASSUME CInv, UNCHANGED <<gameState, map, success, file>>,
           \/ save' = save
           \/ gameState = "CAMPAIGNMAP" /\ \E i \in Missions : save' = [save EXCEPT !.position = i],
           think' \in {"none", "move", "vote"}, think' # "none" => gameState = "CAMPAIGNMAP",
           moveDestination' \in Missions \cup {NoMission}, voteEnded' \in BOOLEAN,
           connected' \subseteq Players, ready' \subseteq Players
    PROVE  CInv'
  <1>1. /\ save' \in SaveRecord /\ save'.complete = save.complete /\ save'.count = save.count
        /\ save'.dead = save.dead /\ save'.skill = save.skill
        /\ gameState # "CAMPAIGNMAP" => save'.position = save.position
    BY DEF CInv, TypeOK, SaveRecord
  <1>2. TypeOK'
    BY <1>1 DEF CInv, TypeOK
  <1>3. AtTheMission'
    BY <1>1 DEF CInv, AtTheMission, BeforeCampaignMap
  <1>4. FinaleEarned'
    BY <1>1 DEF CInv, FinaleEarned
  <1>5. ProgressOnDisk'
    BY <1>1 DEF CInv, ProgressOnDisk
  <1> QED BY <1>2, <1>3, <1>4, <1>5 DEF CInv

LEMMA InitInv == Init => CInv
  <1> SUFFICES ASSUME Init PROVE CInv
    OBVIOUS
  <1>1. PICK n \in 0..NumMissions - 2 :
           /\ gameState = "BRIEFING" /\ map = n + 1 /\ success = FALSE
           /\ file = CreateNewSaveGame(n) /\ save = LoadGameFromFile(file)
    BY DEF Init
  <1>2. /\ NumMissions \in Nat /\ SkillCap \in Nat /\ MaxSpare \in Nat
        /\ PointsPerMission \in Nat /\ MaxSpare >= 2 * NumMissions
    BY CampaignAssumption
  <1>3. /\ n + 1 \in Completable /\ n \in 0..NumMissions - 1 /\ 2 * n \in 0..MaxSpare
        /\ 0 \in 0..SkillCap
        /\ 1..n \subseteq Completable /\ n + 1 \notin 1..n
    BY <1>2 DEF Completable, Missions, Dropzone
  <1>4. Cardinality(1..n) = n
    BY <1>3, FS_Interval
  <1>5. /\ file \in SaveRecord /\ file.position = n + 1 /\ file.complete = 1..n
        /\ file.count = n
    BY <1>1, <1>3 DEF CreateNewSaveGame, SaveRecord, Completable
  <1>6. /\ save \in SaveRecord /\ save.position = n + 1 /\ save.complete = 1..n
        /\ save.count = n /\ save.dead = file.dead /\ save.skill = file.skill
    BY <1>1, <1>5, LoadSound
  <1>7. file # NoFile
    BY <1>5, NotDeleted
  <1>8. TypeOK
    BY <1>1, <1>3, <1>5, <1>6 DEF Init, TypeOK, Completable
  <1>9. AtTheMission
    BY <1>1, <1>3, <1>6 DEF AtTheMission
  <1>10. FinaleEarned
    BY <1>1, <1>3, <1>4, <1>6, <1>7 DEF FinaleEarned
  <1>11. ProgressOnDisk
    BY <1>5, <1>6 DEF ProgressOnDisk
  <1> QED BY <1>8, <1>9, <1>10, <1>11 DEF CInv

\* Loading the saved campaign again, and restarting the mission.
LEMMA ResumeInv == ASSUME CInv, Resume PROVE CInv'
  <1>1. Sound(file) /\ file.complete # Completable
    BY CInvSound DEF Resume
  <1>2. Dropzone \in Missions /\ connected \subseteq Players
    BY CampaignAssumption DEF CInv, TypeOK, Dropzone, Missions
  <1> QED BY <1>1, <1>2, LevelInv DEF Resume

LEMMA RestartInv == ASSUME CInv, RestartMission PROVE CInv'
  <1>1. Sound(save) /\ save.complete # Completable
    BY CInvSound DEF RestartMission, BeforeCampaignMap
  <1>2. file' = save
    BY <1>1, SaveSound DEF RestartMission
  <1>3. map \in Missions /\ (map = save.position \/ map = Dropzone) /\ connected' \subseteq Players
    BY DEF CInv, TypeOK, AtTheMission, RestartMission
  <1> QED BY <1>1, <1>2, <1>3, LevelInv DEF RestartMission

\* Starting a mission and the death of a marine write the record down.
LEMMA MissionInv ==
    ASSUME CInv, LaunchCampaignMap \/ StartMission \/ OnMarineKilled \/ MissionComplete
    PROVE  CInv'
  <1>1. Sound(save)
    BY CInvSound
  <1>2. ASSUME StartMission \/ OnMarineKilled PROVE CInv'
    <2>1. Sound(save') /\ save' = save
      BY <1>1, <1>2 DEF StartMission, OnMarineKilled
    <2>2. gameState = "BRIEFING" => think = "none"
      BY DEF CInv, TypeOK
    <2> QED BY <1>2, <2>1, <2>2, SaveInv DEF StartMission, OnMarineKilled, mapVars
  <1>3. ASSUME LaunchCampaignMap \/ MissionComplete PROVE CInv'
    <2>1. UNCHANGED <<map, save, file, mapVars, connected, ready>>
      BY <1>3 DEF LaunchCampaignMap, MissionComplete
    <2>2. /\ gameState \in {"BRIEFING", "INGAME"} /\ gameState' \in {"CAMPAIGNMAP", "DEBRIEF"}
          /\ success' \in BOOLEAN /\ (gameState' = "DEBRIEF" => gameState = "INGAME")
      BY <1>3 DEF LaunchCampaignMap, MissionComplete, CInv, TypeOK
    <2>3. TypeOK'
      BY <2>1, <2>2 DEF CInv, TypeOK, mapVars
    <2>4. AtTheMission'
      BY <2>1, <2>2 DEF CInv, AtTheMission, BeforeCampaignMap
    <2>5. FinaleEarned'
      BY <2>1, <2>2 DEF CInv, FinaleEarned
    <2>6. ProgressOnDisk'
      BY <2>1 DEF CInv, ProgressOnDisk
    <2> QED BY <2>3, <2>4, <2>5, <2>6 DEF CInv
  <1> QED BY <1>2, <1>3

\* A won mission is recorded and written down; the campaign goes on or ends.
LEMMA ContinueInv == ASSUME CInv, CampaignSaveAndShowCampaignMap PROVE CInv'
  <1>1. Sound(save) /\ gameState = "DEBRIEF" /\ success /\ map = save.position
        /\ save.position \in Completable
    BY CInvSound
       DEF CInv, TypeOK, AtTheMission, BeforeCampaignMap, CampaignSaveAndShowCampaignMap, Completable
  <1>2. Sound(save')
    <2>1. PICK crew \in SUBSET (Marines \ save.dead) :
             \E fallen \in SUBSET crew : save' = Recorded(save, crew, fallen)
      BY DEF CampaignSaveAndShowCampaignMap
    <2>2. PICK fallen \in SUBSET crew : save' = Recorded(save, crew, fallen)
      BY <2>1
    <2>3. \A m \in Marines : save.spare[m] + PointsPerMission <= MaxSpare
      BY DEF CampaignSaveAndShowCampaignMap
    <2>4. crew \in SUBSET Marines
      OBVIOUS
    <2>5. Sound(Recorded(save, crew, fallen))
      BY <1>1, <2>3, <2>4, RecordSound
    <2> QED BY <2>2, <2>5
  <1>3. /\ save'.complete = Completable => file' = NoFile
        /\ save'.complete # Completable => file' = save'
    BY <1>2, SaveSound DEF CampaignSaveAndShowCampaignMap
  <1>4. save' \in SaveRecord /\ save' # NoFile
    BY <1>2, NotDeleted DEF Sound
  <1>5. CampaignMissionsLeft(save') <= 0 <=> save'.complete = Completable
    <2>1. NumMissions \in Nat /\ save'.count \in 0..NumMissions - 1
      BY <1>4, CampaignAssumption DEF SaveRecord
    <2>2. save'.count = NumMissions - 1 <=> save'.complete = Completable
      BY <1>2, CompletableCount DEF Sound
    <2> QED BY <2>1, <2>2 DEF CampaignMissionsLeft
  <1>6. /\ gameState' = IF save'.complete = Completable THEN "OUTRO" ELSE "CAMPAIGNMAP"
        /\ ready' \in {ready, {}, connected}
        /\ UNCHANGED <<map, success, think, moveDestination, voteEnded, connected>>
    BY <1>5 DEF CampaignSaveAndShowCampaignMap, ShowCampaignMap
  <1>7. think = "none"
    BY <1>1 DEF CInv, TypeOK
  <1>8. TypeOK'
    BY <1>3, <1>4, <1>6, <1>7 DEF CInv, TypeOK
  <1>9. AtTheMission'
    BY <1>2, <1>6 DEF AtTheMission, BeforeCampaignMap, Sound
  <1>10. FinaleEarned'
    BY <1>2, <1>3, <1>4, <1>6 DEF FinaleEarned, Sound
  <1>11. ProgressOnDisk'
    BY <1>3 DEF ProgressOnDisk
  <1> QED BY <1>8, <1>9, <1>10, <1>11 DEF CInv

LEMMA ForceMapInv == ASSUME CInv, ForceCampaignMap PROVE CInv'
  <1>1. /\ gameState = "DEBRIEF" /\ gameState' = "CAMPAIGNMAP" /\ ready' \in {{}, connected}
        /\ UNCHANGED <<map, success, save, file, think, moveDestination, voteEnded, connected>>
    BY DEF ForceCampaignMap, ShowCampaignMap
  <1>2. TypeOK'
    BY <1>1 DEF CInv, TypeOK
  <1>3. AtTheMission'
    BY <1>1 DEF CInv, AtTheMission, BeforeCampaignMap
  <1>4. FinaleEarned'
    BY <1>1 DEF CInv, FinaleEarned
  <1>5. ProgressOnDisk'
    BY <1>1 DEF CInv, ProgressOnDisk
  <1> QED BY <1>2, <1>3, <1>4, <1>5 DEF CInv

\* Spending, undoing and reviving change the points of a marine and no mission.
LEMMA SkillInv ==
    ASSUME CInv, ReviveDeadMarines \/ (\E m \in Marines : SpendSkill(m) \/ SkillsUndo(m))
    PROVE  CInv'
  <1>0. /\ Sound(save) /\ save \in SaveRecord
        /\ SkillCap \in Nat /\ MaxSpare \in Nat /\ NumMissions \in Nat /\ NumMissions >= 2
        /\ MaxSpare >= 2 * NumMissions
    BY CInvSound, CampaignAssumption DEF CInv, TypeOK
  <1>1. /\ save' \in SaveRecord /\ save'.complete = save.complete /\ save'.count = save.count
        /\ save'.position = save.position
    <2>1. CASE ReviveDeadMarines
      <3>1. 2 * save.count + 2 \in 0..MaxSpare /\ 0 \in 0..SkillCap
        BY <1>0 DEF SaveRecord
      <3> QED BY <1>0, <2>1, <3>1 DEF ReviveDeadMarines, Revived, SaveRecord
    <2>2. ASSUME NEW m \in Marines, SpendSkill(m)
          PROVE  /\ save' \in SaveRecord /\ save'.complete = save.complete
                 /\ save'.count = save.count /\ save'.position = save.position
      <3>1. /\ save.skill[m] \in 0..SkillCap /\ save.skill[m] < SkillCap
            /\ save.spare[m] \in 0..MaxSpare /\ save.spare[m] > 0
            /\ save' = [save EXCEPT !.skill = [save.skill EXCEPT ![m] = save.skill[m] + 1],
                                   !.spare = [save.spare EXCEPT ![m] = save.spare[m] - 1]]
        BY <1>0, <2>2 DEF SpendSkill, SaveRecord
      <3>2. save.skill[m] + 1 \in 0..SkillCap /\ save.spare[m] - 1 \in 0..MaxSpare
        BY <1>0, <3>1
      <3> QED BY <1>0, <3>1, <3>2 DEF SaveRecord
    <2>3. ASSUME NEW m \in Marines, SkillsUndo(m)
          PROVE  /\ save' \in SaveRecord /\ save'.complete = save.complete
                 /\ save'.count = save.count /\ save'.position = save.position
      <3>1. /\ save.undoSkill[m] \in 0..SkillCap /\ save.undoSpare[m] \in 0..MaxSpare
            /\ save' = [save EXCEPT !.skill = [save.skill EXCEPT ![m] = save.undoSkill[m]],
                                   !.spare = [save.spare EXCEPT ![m] = save.undoSpare[m]]]
        BY <1>0, <2>3 DEF SkillsUndo, SaveRecord
      <3> QED BY <1>0, <3>1 DEF SaveRecord
    <2> QED BY <2>1, <2>2, <2>3
  <1>2. Sound(save')
    BY <1>0, <1>1 DEF Sound
  <1>3. /\ file' = SaveGameToFile(save')
        /\ UNCHANGED <<gameState, map, success, think, moveDestination, voteEnded, connected, ready>>
    BY DEF ReviveDeadMarines, SpendSkill, SkillsUndo, mapVars
  <1> QED BY <1>1, <1>2, <1>3, SaveInv

-----------------------------------------------------------------------------
(* The campaign map. *)

\* Launching from the map loads the level of the mission the squad is at.
LEMMA LaunchInv ==
    ASSUME CInv, RequestCampaignLaunchMission(save.position)
    PROVE  CInv'
  <1>1. Sound(save) /\ save.complete # Completable
    BY CInvSound DEF RequestCampaignLaunchMission, MayLaunch
  <1>2. file' = save
    BY <1>1, SaveSound DEF RequestCampaignLaunchMission
  <1>3. save.position \in Missions /\ connected' \subseteq Players
    BY <1>1 DEF CInv, TypeOK, Sound, SaveRecord, RequestCampaignLaunchMission
  <1> QED BY <1>1, <1>2, <1>3, LevelInv DEF RequestCampaignLaunchMission

\* A request to move leaves the think function and the destination typed.
LEMMA RequestTyped ==
    ASSUME CInv, NEW i, NEW rest \in {"none", "move", "vote"},
           rest # "none" => gameState = "CAMPAIGNMAP", RequestCampaignMove(i, rest)
    PROVE  /\ think' \in {"none", "move", "vote"}
           /\ think' # "none" => gameState = "CAMPAIGNMAP"
           /\ moveDestination' \in Missions \cup {NoMission}
  BY DEF CInv, TypeOK, RequestCampaignMove

LEMMA MoveInv == ASSUME CInv, MoveThink PROVE CInv'
  <1>1. CASE RequestCampaignLaunchMission(save.position)
    BY <1>1, LaunchInv
  <1>2. CASE /\ think' = "none"
             /\ UNCHANGED <<gameState, map, success, save, file, moveDestination, voteEnded,
                            connected, ready>>
    BY <1>2, MapInv DEF CInv, TypeOK
  <1>3. CASE /\ think' \in {"none", "move"}
             /\ save' = save \/ \E i \in Missions : save' = [save EXCEPT !.position = i]
             /\ UNCHANGED <<gameState, map, success, file, moveDestination, voteEnded,
                            connected, ready>>
    <2>1. gameState = "CAMPAIGNMAP"
      BY DEF CInv, TypeOK, MoveThink
    <2> QED BY <1>3, <2>1, MapInv DEF CInv, TypeOK
  <1>4. \A i \in NextSteps(moveDestination, save.position) : i \in Missions
    BY DEF NextSteps
  <1> QED BY <1>1, <1>2, <1>3, <1>4 DEF MoveThink

\* The players' part: a launch by the leader, the end of the vote, spectators,
\* and players who come and go.
LEMMA PlayersInv ==
    ASSUME CInv,
           \/ \E i \in Missions : ForceLaunch(i)
           \/ VoteEndThink
           \/ \E p \in Players : PlayerSpectating(p) \/ ClientConnected(p) \/ PlayerDisconnected(p)
    PROVE  CInv'
  <1>0. /\ think \in {"none", "move", "vote"} /\ (think # "none" => gameState = "CAMPAIGNMAP")
        /\ moveDestination \in Missions \cup {NoMission} /\ voteEnded \in BOOLEAN
        /\ connected \subseteq Players /\ ready \subseteq Players
    BY DEF CInv, TypeOK
  <1>1. ASSUME NEW i \in Missions, ForceLaunch(i) PROVE CInv'
    BY <1>0, <1>1, RequestTyped, MapInv DEF ForceLaunch
  <1>2. ASSUME VoteEndThink PROVE CInv'
    <2>1. PICK i : RequestCampaignMove(i, "none")
      BY <1>2 DEF VoteEndThink, VoteEnded
    <2> QED BY <1>0, <1>2, <2>1, RequestTyped, MapInv DEF VoteEndThink, VoteEnded
  <1>3. ASSUME NEW p \in Players, PlayerSpectating(p) PROVE CInv'
    BY <1>0, <1>3, MapInv DEF PlayerSpectating
  <1>4. ASSUME NEW p \in Players, ClientConnected(p) PROVE CInv'
    <2>1. connected' \subseteq Players /\ ready' \subseteq Players
      BY <1>0, <1>4 DEF ClientConnected
    <2>2. /\ UNCHANGED <<gameState, map, success, save, file, think, moveDestination, voteEnded>>
      BY <1>4 DEF ClientConnected, mapVars
    <2> QED BY <1>0, <2>1, <2>2, MapInv
  <1>5. ASSUME NEW p \in Players, PlayerDisconnected(p) PROVE CInv'
    <2>1. /\ think' \in {"none", "move", "vote"} /\ (think' # "none" => gameState = "CAMPAIGNMAP")
          /\ moveDestination' \in Missions \cup {NoMission} /\ voteEnded' \in BOOLEAN
      <3>1. CASE VoteEnded(think)
        BY <1>0, <3>1, RequestTyped DEF VoteEnded
      <3>2. CASE UNCHANGED <<voteEnded, moveDestination, think>>
        BY <1>0, <3>2
      <3> QED BY <1>5, <3>1, <3>2 DEF PlayerDisconnected
    <2>2. /\ UNCHANGED <<gameState, map, success, save, file>>
          /\ connected' \subseteq Players /\ ready' \subseteq Players
      BY <1>0, <1>5 DEF PlayerDisconnected
    <2> QED BY <2>1, <2>2, MapInv
  <1> QED BY <1>1, <1>2, <1>3, <1>4, <1>5

LEMMA StutterInv == ASSUME CInv, UNCHANGED vars PROVE CInv'
  <1>1. UNCHANGED <<gameState, map, success, save, file, think, moveDestination, voteEnded,
                    connected, ready>>
    BY DEF vars
  <1>2. TypeOK'
    BY <1>1 DEF CInv, TypeOK
  <1>3. AtTheMission' /\ FinaleEarned' /\ ProgressOnDisk'
    BY <1>1 DEF CInv, AtTheMission, BeforeCampaignMap, FinaleEarned, ProgressOnDisk
  <1> QED BY <1>2, <1>3 DEF CInv

LEMMA NextInv == ASSUME CInv, [Next]_vars PROVE CInv'
  <1>1. CASE Resume
    BY <1>1, ResumeInv
  <1>2. CASE LaunchCampaignMap \/ StartMission \/ OnMarineKilled \/ MissionComplete
    BY <1>2, MissionInv
  <1>3. CASE RestartMission
    BY <1>3, RestartInv
  <1>4. CASE CampaignSaveAndShowCampaignMap \/ ForceCampaignMap
    BY <1>4, ContinueInv, ForceMapInv
  <1>5. CASE ReviveDeadMarines \/ \E m \in Marines : SpendSkill(m) \/ SkillsUndo(m)
    BY <1>5, SkillInv
  <1>6. CASE MoveThink
    BY <1>6, MoveInv
  <1>7. CASE \/ \E i \in Missions : ForceLaunch(i)
             \/ VoteEndThink
             \/ \E p \in Players :
                   PlayerSpectating(p) \/ ClientConnected(p) \/ PlayerDisconnected(p)
    BY <1>7, PlayersInv
  <1>8. CASE UNCHANGED vars
    BY <1>8, StutterInv
  <1> QED BY <1>1, <1>2, <1>3, <1>4, <1>5, <1>6, <1>7, <1>8 DEF Next

\* CInv is an invariant of the campaign.
THEOREM CampaignInvariant == Spec => []CInv
  <1> QED BY InitInv, NextInv, PTL DEF Spec

\* The record and the file always have their types: no points are spent that
\* are not there, no skill exceeds its maximum (TypeOK).
THEOREM CampaignTypes == Spec => []TypeOK
  <1>1. CInv => TypeOK
    BY DEF CInv
  <1> QED BY <1>1, CampaignInvariant, PTL

\* The campaign ends, and its file goes, exactly when every mission was won.
THEOREM CampaignFinale == Spec => []FinaleEarned
  <1>1. CInv => FinaleEarned
    BY DEF CInv
  <1> QED BY <1>1, CampaignInvariant, PTL

\* What a crash leaves on disk is the whole progress.
THEOREM CampaignOnDisk == Spec => []ProgressOnDisk
  <1>1. CInv => ProgressOnDisk
    BY DEF CInv
  <1> QED BY <1>1, CampaignInvariant, PTL

-----------------------------------------------------------------------------
(* What is recorded was played.                                             *)

\* No step but the one after a won mission changes the missions complete.
LEMMA MissionsKept ==
    ASSUME CInv, [Next]_vars, ~CampaignSaveAndShowCampaignMap
    PROVE  save'.complete = save.complete
  <1>0. save \in SaveRecord /\ Sound(save)
    BY CInvSound DEF Sound
  <1>1. CASE Resume
    <2>1. file \in SaveRecord /\ file.complete = save.complete
      BY <1>1 DEF Resume, CInv, TypeOK, ProgressOnDisk
    <2> QED BY <1>1, <2>1, LoadSound DEF Resume, LevelInit
  <1>2. CASE RestartMission
    <2>1. file' = save
      BY <1>0, <1>2, CInvSound, SaveSound DEF RestartMission, BeforeCampaignMap
    <2> QED BY <1>0, <1>2, <2>1, LoadSound DEF RestartMission, LevelInit
  <1>3. CASE ReviveDeadMarines \/ \E m \in Marines : SpendSkill(m) \/ SkillsUndo(m)
    BY <1>0, <1>3 DEF ReviveDeadMarines, Revived, SpendSkill, SkillsUndo, SaveRecord
  <1>4. CASE MoveThink
    <2>1. CASE RequestCampaignLaunchMission(save.position)
      <3>1. file' = save
        BY <1>0, <2>1, CInvSound, SaveSound DEF RequestCampaignLaunchMission, MayLaunch
      <3> QED BY <1>0, <2>1, <3>1, LoadSound DEF RequestCampaignLaunchMission, LevelInit
    <2>2. CASE save' = save \/ \E i \in Missions : save' = [save EXCEPT !.position = i]
      BY <1>0, <2>2 DEF SaveRecord
    <2>3. \A i \in NextSteps(moveDestination, save.position) : i \in Missions
      BY DEF NextSteps
    <2> QED BY <1>4, <2>1, <2>2, <2>3 DEF MoveThink
  <1>5. CASE \/ LaunchCampaignMap \/ StartMission \/ OnMarineKilled \/ MissionComplete
             \/ ForceCampaignMap \/ VoteEndThink
             \/ \E i \in Missions : ForceLaunch(i)
             \/ \E p \in Players :
                   PlayerSpectating(p) \/ ClientConnected(p) \/ PlayerDisconnected(p)
             \/ UNCHANGED vars
    BY <1>5 DEF LaunchCampaignMap, StartMission, OnMarineKilled, MissionComplete,
                ForceCampaignMap, VoteEndThink, ForceLaunch, PlayerSpectating,
                ClientConnected, PlayerDisconnected, vars
  <1> QED BY <1>1, <1>2, <1>3, <1>4, <1>5 DEF Next

\* A mission is recorded only when it was played and won, and never taken back.
THEOREM CampaignRecord == Spec => RecordedWasPlayed
  <1>1. ASSUME CInv, [Next]_vars, CInv', file # NoFile, file' # NoFile
        PROVE  /\ file.complete \subseteq file'.complete
               /\ file'.complete \ file.complete \subseteq IF success THEN {map} ELSE {}
    <2>1. file.complete = save.complete /\ file'.complete = save'.complete
      BY <1>1 DEF CInv, ProgressOnDisk
    <2>2. CASE ~CampaignSaveAndShowCampaignMap
      BY <1>1, <2>1, <2>2, MissionsKept
    <2>3. CASE CampaignSaveAndShowCampaignMap
      <3>1. Sound(save) /\ success /\ map = save.position /\ save.position \in Completable
        BY <1>1, <2>3, CInvSound
           DEF CInv, TypeOK, AtTheMission, BeforeCampaignMap, CampaignSaveAndShowCampaignMap,
               Completable
      <3>2. PICK crew \in SUBSET (Marines \ save.dead) :
               \E fallen \in SUBSET crew : save' = Recorded(save, crew, fallen)
        BY <2>3 DEF CampaignSaveAndShowCampaignMap
      <3>3. crew \in SUBSET Marines
            /\ \A m \in Marines : save.spare[m] + PointsPerMission <= MaxSpare
        BY <2>3 DEF CampaignSaveAndShowCampaignMap
      <3>4. save'.complete = save.complete \cup {map}
        BY <3>1, <3>2, <3>3, RecordSound
      <3> QED BY <2>1, <3>1, <3>4
    <2> QED BY <2>2, <2>3
  <1>2. CInv /\ [Next]_vars /\ CInv' =>
           [file # NoFile /\ file' # NoFile =>
              /\ file.complete \subseteq file'.complete
              /\ file'.complete \ file.complete \subseteq IF success THEN {map} ELSE {}]_vars
    BY <1>1
  <1> QED BY <1>2, CampaignInvariant, PTL DEF Spec, RecordedWasPlayed

=============================================================================
