----------------------------- MODULE MissionProofs -----------------------------
(***************************************************************************)
(* Proofs about MissionFlow, for every set of marines and objectives, every *)
(* kind of objective and every setting of the console variables.            *)
(*                                                                          *)
(* The invariant MInv says besides the types when a mission is decided:     *)
(* exactly from the debriefing on, one way or the other, and that a failed  *)
(* objective does not outlive the game in progress.  Without the first the  *)
(* second report of an end could overwrite the first, without the second a  *)
(* failure could have been set long before the step that reads it.          *)
(***************************************************************************)
EXTENDS MissionFlow, TLAPS

\* The outcome stands exactly while the mission is over.
Decided ==
    /\ gameState \in Over => missionSuccess # missionFailed
    /\ gameState \notin Over => ~missionSuccess /\ ~missionFailed

\* A failed objective has ended the mission, unless failures restart it.
FailureEnds == failed # {} => gameState \in Over \/ InstantRestart

MInv == TypeOK /\ Decided /\ FailureEnds

\* What a report may do to the progress of the mission.
Wins ==
    /\ gameState \notin Over /\ gameState' = "DEBRIEF"
    /\ missionSuccess' = TRUE /\ missionFailed' = FALSE /\ UNCHANGED levelChange
Loses ==
    /\ gameState \notin Over /\ gameState' = "DEBRIEF" /\ ~InstantRestart
    /\ missionSuccess' = FALSE /\ missionFailed' = TRUE /\ UNCHANGED levelChange
Stays ==
    /\ UNCHANGED <<gameState, missionSuccess, missionFailed>>
    /\ levelChange' \in BOOLEAN

-----------------------------------------------------------------------------
(* What the operators that end a mission do.                                *)

\* MissionComplete(TRUE) wins a mission that is not over.
LEMMA CompleteWon ==
    ASSUME MInv, MissionComplete(TRUE)
    PROVE  Wins \/ (Stays /\ gameState \in Over)
  <1>1. levelChange \in BOOLEAN
    BY DEF MInv, TypeOK
  <1>2. CASE gameState \notin Over
    <2>1. missionSuccess = FALSE /\ missionFailed = FALSE
      BY <1>2 DEF MInv, Decided, TypeOK
    <2> QED BY <1>2, <2>1 DEF MissionComplete, Wins
  <1>3. CASE gameState \in Over
    <2>1. UNCHANGED progress
      BY <1>3 DEF MissionComplete, Over
    <2> QED BY <1>1, <1>3, <2>1 DEF Stays, progress
  <1> QED BY <1>2, <1>3

\* MissionComplete(FALSE) loses it, unless failures restart the level.
LEMMA CompleteLost ==
    ASSUME MInv, MissionComplete(FALSE)
    PROVE  Loses \/ (Stays /\ (gameState \in Over \/ InstantRestart))
  <1>1. levelChange \in BOOLEAN /\ InstantRestart \in BOOLEAN
    BY MissionConstants DEF MInv, TypeOK
  <1>2. CASE gameState \notin Over /\ ~InstantRestart
    <2>1. missionSuccess = FALSE /\ missionFailed = FALSE
      BY <1>2 DEF MInv, Decided, TypeOK
    <2> QED BY <1>2, <2>1 DEF MissionComplete, Loses
  <1>3. CASE gameState \in Over \/ InstantRestart
    <2>1. UNCHANGED progress \/ ChangeLevelRequested
      BY <1>3 DEF MissionComplete, Over
    <2> QED BY <1>1, <1>3, <2>1 DEF Stays, progress, ChangeLevelRequested
  <1> QED BY <1>1, <1>2, <1>3

\* What the check of the mission manager does to the progress.
CheckOutcome(failures) ==
    /\ allDead' \in BOOLEAN
    /\ \/ Wins /\ ObjectivesDone'
       \/ Loses /\ (failures # {} \/ (gameState = "INGAME" /\ alive' = {}))
       \/ Stays /\ (failures # {} => gameState \in Over \/ InstantRestart)

LEMMA CheckStep ==
    ASSUME MInv, NEW F, CheckMissionComplete(F)
    PROVE  CheckOutcome(F)
  <1>1. allDead' = (alive' = {} /\ gameState \notin {"BRIEFING", "LAUNCHING"})
    BY DEF CheckMissionComplete
  <1>2. CASE ObjectivesDone' /\ MissionComplete(TRUE)
    BY <1>1, <1>2, CompleteWon DEF CheckOutcome
  <1>3. CASE (F # {} \/ allDead') /\ MissionComplete(FALSE)
    <2>1. CASE Stays /\ (gameState \in Over \/ InstantRestart)
      BY <1>1, <2>1 DEF CheckOutcome
    <2>2. CASE Loses
      <3>1. gameState \in States \ Over
        BY <2>2 DEF Loses, MInv, TypeOK
      <3>2. allDead' => gameState = "INGAME" /\ alive' = {}
        BY <1>1, <3>1 DEF States, Over
      <3> QED BY <1>1, <1>3, <2>2, <3>2 DEF CheckOutcome
    <2> QED BY <1>3, <2>1, <2>2, CompleteLost
  <1>4. CASE F = {} /\ UNCHANGED progress
    BY <1>1, <1>4 DEF CheckOutcome, Stays, progress, MInv, TypeOK
  <1> QED BY <1>2, <1>3, <1>4 DEF CheckMissionComplete

\* A restart fails a game that was played for a while, or asks for the level.
LEMMA RestartStep ==
    ASSUME MInv, RestartMission
    PROVE  (Loses /\ gameState = "INGAME" /\ longPlayed) \/ Stays
  <1>1. CASE gameState = "INGAME" /\ longPlayed /\ MissionComplete(FALSE)
    BY <1>1, CompleteLost
  <1>2. CASE ChangeLevelRequested
    BY <1>2 DEF ChangeLevelRequested, Stays
  <1> QED BY <1>1, <1>2 DEF RestartMission

-----------------------------------------------------------------------------
(* The ways a step can change the progress of the mission.                  *)

Win == Wins /\ ObjectivesDone' /\ UNCHANGED recorded

Lose ==
    /\ Loses /\ UNCHANGED recorded
    /\ \/ gameState = "INGAME" /\ (alive' = {} \/ longPlayed)
       \/ failed' # {}
       \/ countdown = "exploding"

Quiet == Stays /\ UNCHANGED recorded /\ FailureEnds'

Launch ==
    /\ gameState = "BRIEFING" /\ gameState' = "LAUNCHING" /\ RequirementsMet
    /\ UNCHANGED <<missionSuccess, missionFailed, levelChange, failed, recorded>>

Begin ==
    /\ gameState = "LAUNCHING" /\ gameState' = "INGAME"
    /\ UNCHANGED <<missionSuccess, missionFailed, levelChange, failed, recorded>>

Proceed ==
    /\ gameState = "DEBRIEF"
    /\ \/ missionSuccess /\ recorded' = TRUE /\ gameState' \in {"CAMPAIGNMAP", "OUTRO"}
       \/ gameState' = "CAMPAIGNMAP" /\ UNCHANGED recorded
    /\ UNCHANGED <<missionSuccess, missionFailed, levelChange>>

Reload ==
    /\ gameState' = "BRIEFING" /\ missionSuccess' = FALSE /\ missionFailed' = FALSE
    /\ levelChange' = FALSE /\ failed' = {} /\ recorded' = FALSE

Outcome == Win \/ Lose \/ Quiet \/ Launch \/ Begin \/ Proceed \/ Reload

\* A check with the failures as they are now, or as they were before some of
\* them were taken back.
LEMMA CheckedOutcome ==
    ASSUME MInv, NEW F, CheckMissionComplete(F), UNCHANGED recorded,
           F = failed' \/ (F = failed /\ failed' \subseteq failed)
    PROVE  Outcome
  <1>1. CheckOutcome(F)
    BY CheckStep
  <1>2. CASE Wins /\ ObjectivesDone'
    BY <1>2 DEF Outcome, Win
  <1>3. CASE Loses /\ (F # {} \/ (gameState = "INGAME" /\ alive' = {}))
    <2>1. F = failed => F = {}
      BY <1>3 DEF Loses, MInv, FailureEnds
    <2>2. CASE F = failed'
      BY <1>3, <2>2 DEF Outcome, Lose
    <2>3. CASE F = {}
      BY <1>3, <2>3 DEF Outcome, Lose
    <2> QED BY <2>1, <2>2, <2>3
  <1>4. CASE Stays /\ (F # {} => gameState \in Over \/ InstantRestart)
    <2>1. FailureEnds'
      BY <1>4 DEF MInv, FailureEnds, Stays
    <2> QED BY <1>4, <2>1 DEF Outcome, Quiet
  <1> QED BY <1>1, <1>2, <1>3, <1>4 DEF CheckOutcome

\* Steps that leave the progress and the failures alone.
LEMMA QuietOutcome ==
    ASSUME MInv, UNCHANGED <<progress, failed, recorded>>
    PROVE  Outcome
  BY DEF MInv, TypeOK, FailureEnds, progress, Outcome, Quiet, Stays

\* Steps that ask for another level.
LEMMA AskedOutcome ==
    ASSUME MInv, Stays, UNCHANGED <<failed, recorded>>
    PROVE  Outcome
  BY DEF MInv, FailureEnds, Outcome, Quiet, Stays

\* Restarts, by whatever asks for them.
LEMMA RestartOutcome ==
    ASSUME MInv, RestartMission, UNCHANGED <<failed, recorded>>
    PROVE  Outcome
  <1>1. CASE Loses /\ gameState = "INGAME" /\ longPlayed
    BY <1>1 DEF Outcome, Lose
  <1> QED BY <1>1, RestartStep, AskedOutcome

\* What the rest of SetComplete does.
LEMMA AfterOutcome ==
    ASSUME MInv, AfterSetComplete, UNCHANGED <<failed, recorded>>
    PROVE  Outcome
  BY CheckedOutcome, QuietOutcome DEF AfterSetComplete

\* The explosion fails a game in progress before the marines die.
LEMMA ExplodedOutcome ==
    ASSUME MInv, ExplodedLevel
    PROVE  Outcome
  <1>1. countdown = "exploding" /\ UNCHANGED recorded
    BY DEF ExplodedLevel
  <1>2. CASE gameState # "INGAME"
    BY <1>2, QuietOutcome DEF ExplodedLevel
  <1>3. CASE gameState = "INGAME" /\ MissionComplete(FALSE)
    <2>1. CASE Loses
      BY <1>1, <2>1 DEF Outcome, Lose
    <2>2. CASE Stays /\ (gameState \in Over \/ InstantRestart)
      BY <1>1, <2>2 DEF Outcome, Quiet, FailureEnds, Stays
    <2> QED BY <1>3, <2>1, <2>2, CompleteLost
  <1> QED BY <1>2, <1>3 DEF ExplodedLevel

\* The three things Think does.
LEMMA ThinkOutcome ==
    ASSUME MInv, Think
    PROVE  Outcome
  <1>1. UNCHANGED <<failed, recorded>>
    BY DEF Think, objectives
  <1>2. CASE gameState = "BRIEFING" /\ StartMission
    BY <1>1, <1>2, QuietOutcome DEF StartMission, Outcome, Launch
  <1>3. CASE gameState = "LAUNCHING" /\ UpdateLaunching
    <2>1. CASE UNCHANGED gameState
      BY <1>1, <1>3, <2>1, QuietOutcome DEF UpdateLaunching, progress
    <2>2. CASE gameState' = "INGAME"
      BY <1>1, <1>3, <2>2 DEF UpdateLaunching, Outcome, Begin
    <2> QED BY <1>3, <2>1, <2>2 DEF UpdateLaunching
  <1>4. CASE CheckTechFailure
    BY <1>1, <1>4, RestartOutcome DEF CheckTechFailure
  <1> QED BY <1>2, <1>3, <1>4 DEF Think

LEMMA StepOutcome ==
    ASSUME MInv, [Next]_vars
    PROVE  Outcome
  <1>1. CASE ManagerThink
    BY <1>1, CheckedOutcome DEF ManagerThink, objectives
  <1>2. CASE SetComplete
    BY <1>2, AfterOutcome DEF SetComplete
  <1>3. CASE SetFailed
    BY <1>3, CheckedOutcome DEF SetFailed
  <1>4. CASE SetIncomplete
    <2>1. failed' \subseteq failed /\ UNCHANGED recorded
      BY <1>4 DEF SetIncomplete
    <2>2. CASE gameState = "INGAME"
      BY <1>4, <2>1, <2>2, CheckedOutcome DEF SetIncomplete
    <2>3. CASE gameState # "INGAME"
      BY <1>4, <2>1, <2>3, CheckedOutcome DEF SetIncomplete
    <2> QED BY <2>2, <2>3
  <1>5. CASE StartCountdown \/ ExplodeLevel \/ SelectMarines \/ RequestStart \/ TimePasses
    BY <1>5, QuietOutcome DEF StartCountdown, ExplodeLevel, SelectMarines, RequestStart,
                              TimePasses, objectives
  <1>6. CASE CancelCountdown
    BY <1>6, AfterOutcome DEF CancelCountdown
  <1>7. CASE ExplodedLevel
    BY <1>7, ExplodedOutcome
  <1>8. CASE MarineDies
    BY <1>8, CheckedOutcome DEF MarineDies
  <1>9. CASE RequestRestart
    BY <1>9, RestartOutcome DEF RequestRestart, objectives
  <1>10. CASE CampaignSaveAndShowCampaignMap
    BY <1>10 DEF CampaignSaveAndShowCampaignMap, Outcome, Proceed
  <1>11. CASE ShowCampaignMap
    BY <1>11 DEF ShowCampaignMap, Outcome, Proceed
  <1>12. CASE LaunchCampaignMission \/ OtherLevelChange
    BY <1>12, AskedOutcome DEF LaunchCampaignMission, OtherLevelChange, ChangeLevelRequested,
                               Stays, objectives
  <1>13. CASE Think
    BY <1>13, ThinkOutcome
  <1>14. CASE ChangeLevel
    BY <1>14 DEF ChangeLevel, Outcome, Reload
  <1>15. CASE UNCHANGED vars
    BY <1>15, QuietOutcome DEF vars, objectives
  <1> QED BY <1>1, <1>2, <1>3, <1>4, <1>5, <1>6, <1>7, <1>8, <1>9, <1>10, <1>11, <1>12,
             <1>13, <1>14, <1>15 DEF Next

-----------------------------------------------------------------------------
(* The invariant is kept.                                                   *)

LEMMA InitInv == Init => MInv
  BY DEF Init, MInv, TypeOK, Decided, FailureEnds, States, Over

\* The progress of the mission keeps its type and stays decided.
LEMMA OutcomeKept ==
    ASSUME MInv, Outcome
    PROVE  /\ gameState' \in States /\ levelChange' \in BOOLEAN /\ recorded' \in BOOLEAN
           /\ missionSuccess' \in BOOLEAN /\ missionFailed' \in BOOLEAN
           /\ Decided' /\ FailureEnds'
  <1> USE DEF MInv, TypeOK, Decided, FailureEnds, States, Over
  <1>1. CASE Win
    BY <1>1 DEF Win, Wins
  <1>2. CASE Lose
    BY <1>2 DEF Lose, Loses
  <1>3. CASE Quiet
    BY <1>3 DEF Quiet, Stays
  <1>4. CASE Launch
    BY <1>4 DEF Launch
  <1>5. CASE Begin
    BY <1>5 DEF Begin
  <1>6. CASE Proceed
    BY <1>6 DEF Proceed
  <1>7. CASE Reload
    BY <1>7 DEF Reload
  <1> QED BY <1>1, <1>2, <1>3, <1>4, <1>5, <1>6, <1>7 DEF Outcome

\* What TypeOK says besides the progress.
RestOK ==
    /\ shouldStart \in BOOLEAN
    /\ roster \subseteq Marines /\ alive \subseteq roster
    /\ equipped \in BOOLEAN /\ landed \in BOOLEAN
    /\ complete \subseteq Objectives /\ failed \subseteq Objectives
    /\ countdown \in {"idle", "running", "exploding", "over"}
    /\ allDead \in BOOLEAN /\ recentDeath \in BOOLEAN
    /\ techRestart \in {"unset", "set", "passed"}
    /\ longPlayed \in BOOLEAN

\* No marine lives in the briefing, the one time the roster changes.
NobodyLanded == gameState = "BRIEFING" => alive = {}

LEMMA CheckDead ==
    ASSUME NEW F, CheckMissionComplete(F)
    PROVE  allDead' \in BOOLEAN
  BY DEF CheckMissionComplete

LEMMA StepRest ==
    ASSUME MInv, NobodyLanded, [Next]_vars
    PROVE  RestOK'
  <1>0. RestOK
    BY DEF MInv, TypeOK, RestOK
  <1>1. CASE ManagerThink
    BY <1>0, <1>1, CheckDead DEF ManagerThink, RestOK, briefing, objectives, clocks
  <1>2. CASE SetComplete
    <2>1. allDead' \in BOOLEAN
      BY <1>0, <1>2, CheckDead DEF SetComplete, AfterSetComplete, RestOK
    <2> QED BY <1>0, <1>2, <2>1 DEF SetComplete, RestOK, briefing, clocks
  <1>3. CASE SetFailed
    BY <1>0, <1>3, CheckDead DEF SetFailed, RestOK, briefing, clocks
  <1>4. CASE SetIncomplete
    <2>1. allDead' \in BOOLEAN
      BY <1>4, CheckDead DEF SetIncomplete
    <2> QED BY <1>0, <1>4, <2>1 DEF SetIncomplete, RestOK, briefing, clocks
  <1>5. CASE StartCountdown \/ ExplodeLevel \/ RequestStart
    BY <1>0, <1>5 DEF StartCountdown, ExplodeLevel, RequestStart, RestOK, briefing, clocks,
                      objectives
  <1>6. CASE CancelCountdown
    <2>1. allDead' \in BOOLEAN
      BY <1>0, <1>6, CheckDead DEF CancelCountdown, AfterSetComplete, RestOK
    <2> QED BY <1>0, <1>6, <2>1 DEF CancelCountdown, RestOK, briefing, clocks
  <1>7. CASE ExplodedLevel
    <2>1. UNCHANGED <<shouldStart, roster, equipped, landed, complete, longPlayed>>
          /\ countdown' = "over"
      BY <1>7 DEF ExplodedLevel, briefing
    <2>2. CASE gameState # "INGAME"
      BY <1>0, <1>7, <2>1, <2>2 DEF ExplodedLevel, RestOK
    <2>3. CASE gameState = "INGAME"
      <3>1. alive' = {} /\ allDead' \in BOOLEAN /\ recentDeath' \in BOOLEAN
        BY <1>0, <1>7, <2>3 DEF ExplodedLevel, RestOK
      <3>2. failed' \subseteq Objectives
        BY <1>0, <1>7, <2>3 DEF ExplodedLevel, RestOK, Survival
      <3>3. techRestart' \in {"unset", "set", "passed"}
        BY <1>0, <1>7, <2>3 DEF ExplodedLevel, RestOK
      <3> QED BY <1>0, <2>1, <3>1, <3>2, <3>3 DEF RestOK
    <2> QED BY <2>2, <2>3
  <1>8. CASE MarineDies
    <2>1. allDead' \in BOOLEAN
      BY <1>8, CheckDead DEF MarineDies
    <2>2. alive' \subseteq alive /\ failed' \subseteq Objectives /\ recentDeath' = TRUE
      BY <1>0, <1>8 DEF MarineDies, RestOK, Survival
    <2>3. techRestart' \in {"unset", "set", "passed"}
      BY <1>0, <1>8 DEF MarineDies, RestOK
    <2> QED BY <1>0, <1>8, <2>1, <2>2, <2>3 DEF MarineDies, RestOK, briefing
  <1>9. CASE SelectMarines
    <2>1. alive' = {}
      BY <1>9 DEF SelectMarines, NobodyLanded
    <2> QED BY <1>0, <1>9, <2>1 DEF SelectMarines, RestOK, objectives, clocks
  <1>10. CASE \/ RequestRestart \/ CampaignSaveAndShowCampaignMap \/ ShowCampaignMap
              \/ LaunchCampaignMission \/ OtherLevelChange
    BY <1>0, <1>10 DEF RequestRestart, CampaignSaveAndShowCampaignMap, ShowCampaignMap,
                       LaunchCampaignMission, OtherLevelChange, RestOK, briefing, objectives,
                       clocks
  <1>11. CASE Think
    <2>1. UNCHANGED <<shouldStart, roster, equipped, complete, failed, countdown, allDead,
                      recentDeath>>
      BY <1>11 DEF Think, briefing, objectives
    <2>2. CASE StartMission
      BY <1>0, <2>1, <2>2 DEF StartMission, RestOK, clocks
    <2>3. CASE UpdateLaunching
      BY <1>0, <2>1, <2>3 DEF UpdateLaunching, RestOK
    <2>4. CASE CheckTechFailure
      BY <1>0, <2>1, <2>4 DEF CheckTechFailure, RestOK
    <2> QED BY <1>11, <2>2, <2>3, <2>4 DEF Think
  <1>12. CASE TimePasses
    BY <1>0, <1>12 DEF TimePasses, RestOK, briefing, objectives
  <1>13. CASE ChangeLevel
    BY <1>13 DEF ChangeLevel, RestOK
  <1>14. CASE UNCHANGED vars
    BY <1>0, <1>14 DEF vars, RestOK, briefing, objectives, clocks
  <1> QED BY <1>1, <1>2, <1>3, <1>4, <1>5, <1>6, <1>7, <1>8, <1>9, <1>10, <1>11, <1>12,
             <1>13, <1>14 DEF Next

LEMMA StepNobody ==
    ASSUME MInv, NobodyLanded, [Next]_vars
    PROVE  NobodyLanded'
  <1>1. gameState' = "BRIEFING" => gameState = "BRIEFING" \/ ChangeLevel
    <2> SUFFICES ASSUME gameState' = "BRIEFING", gameState # "BRIEFING" PROVE ChangeLevel
      OBVIOUS
    <2>1. Outcome
      BY StepOutcome
    <2>2. Reload
      BY <2>1 DEF Outcome, Win, Wins, Lose, Loses, Quiet, Stays, Launch, Begin, Proceed
    <2>3. gameState' # gameState
      OBVIOUS
    <2>4. ~(\/ StartCountdown \/ ExplodeLevel \/ SelectMarines \/ RequestStart \/ TimePasses
            \/ LaunchCampaignMission \/ OtherLevelChange \/ CampaignSaveAndShowCampaignMap
            \/ ShowCampaignMap \/ UNCHANGED vars)
      BY <2>3 DEF StartCountdown, ExplodeLevel, SelectMarines, RequestStart, TimePasses,
                  LaunchCampaignMission, OtherLevelChange, ChangeLevelRequested, progress,
                  CampaignSaveAndShowCampaignMap, ShowCampaignMap, vars
    <2>5. ASSUME NEW F, CheckMissionComplete(F) PROVE FALSE
      BY <2>3, <2>5, CheckStep DEF CheckOutcome, Wins, Loses, Stays
    <2>6. ~RestartMission
      BY <2>3, RestartStep DEF Loses, Stays
    <2>7. ~(ManagerThink \/ SetComplete \/ SetFailed \/ SetIncomplete \/ CancelCountdown \/ MarineDies)
      BY <2>3, <2>5 DEF ManagerThink, SetComplete, SetFailed, SetIncomplete, CancelCountdown,
                        MarineDies, AfterSetComplete, progress
    <2>8. ~(ExplodedLevel \/ RequestRestart)
      <3>1. ~MissionComplete(FALSE)
        BY <2>3, CompleteLost DEF Loses, Stays
      <3> QED BY <2>3, <2>6, <3>1 DEF ExplodedLevel, RequestRestart, progress
    <2>9. ~Think
      BY <2>3, <2>6 DEF Think, StartMission, UpdateLaunching, CheckTechFailure, progress
    <2> QED BY <2>4, <2>7, <2>8, <2>9 DEF Next
  <1>2. CASE ChangeLevel
    BY <1>2 DEF ChangeLevel, NobodyLanded
  <1>3. CASE gameState = "BRIEFING" /\ gameState' = "BRIEFING"
    <2>1. alive = {}
      BY <1>3 DEF NobodyLanded
    <2>2. alive' = alive \/ alive' = {} \/ MarineDies
      BY <1>3 DEF Next, ManagerThink, SetComplete, SetFailed, SetIncomplete, StartCountdown,
                  CancelCountdown, ExplodeLevel, ExplodedLevel, SelectMarines, RequestStart,
                  RequestRestart, CampaignSaveAndShowCampaignMap, ShowCampaignMap,
                  LaunchCampaignMission, Think, StartMission, TimePasses, OtherLevelChange,
                  ChangeLevel, vars
    <2>3. ~MarineDies
      BY <2>1 DEF MarineDies
    <2> QED BY <2>1, <2>2, <2>3 DEF NobodyLanded
  <1>4. CASE gameState' # "BRIEFING"
    BY <1>4 DEF NobodyLanded
  <1> QED BY <1>1, <1>2, <1>3, <1>4

LEMMA StepInv ==
    ASSUME MInv, NobodyLanded, [Next]_vars
    PROVE  MInv' /\ NobodyLanded'
  <1>1. NobodyLanded'
    BY StepNobody
  <1>2. Outcome
    BY StepOutcome
  <1>3. RestOK'
    BY StepRest
  <1> QED BY <1>1, <1>2, <1>3, OutcomeKept DEF MInv, TypeOK, RestOK

LEMMA MInvariant == Spec => [](MInv /\ NobodyLanded)
  <1>1. Init => MInv /\ NobodyLanded
    BY InitInv DEF Init, NobodyLanded
  <1>2. MInv /\ NobodyLanded /\ [Next]_vars => MInv' /\ NobodyLanded'
    BY StepInv
  <1> QED BY <1>1, <1>2, PTL DEF Spec

-----------------------------------------------------------------------------
(* Theorems.                                                                *)

\* The variables keep their types and only marines of the roster live.
THEOREM TypeCorrect == Spec => []TypeOK
  <1>1. MInv => TypeOK
    BY DEF MInv
  <1> QED BY <1>1, MInvariant, PTL

\* A mission is won by a step that leaves every required objective complete,
\* whatever kinds of objectives the map has (CheckMissionComplete).
THEOREM SuccessIsEarned == Spec => SuccessEarned
  <1>1. MInv /\ [Next]_vars =>
          (~missionSuccess /\ missionSuccess' =>
             \A o \in Objectives :
                \/ o \in complete' \cup Optional
                \/ Kind[o] = "survive"
                \/ Kind[o] = "countdown" /\ countdown' = "idle")
    <2> SUFFICES ASSUME MInv, [Next]_vars, ~missionSuccess, missionSuccess',
                        NEW o \in Objectives
                 PROVE  \/ o \in complete' \cup Optional
                        \/ Kind[o] = "survive"
                        \/ Kind[o] = "countdown" /\ countdown' = "idle"
      OBVIOUS
    <2>1. Win
      BY StepOutcome DEF Outcome, Lose, Loses, Quiet, Stays, Launch, Begin, Proceed, Reload
    <2> QED BY <2>1 DEF Win, ObjectivesDone, IsRequired
  <1> QED BY <1>1, MInvariant, PTL DEF Spec, SuccessEarned

\* A mission is lost for a reason that holds in the very step, although several
\* handlers may lose it and some act on what others left behind.
THEOREM FailureHasItsCause == Spec => FailureHasCause
  <1>1. MInv /\ [Next]_vars =>
          (~missionFailed /\ missionFailed' =>
             \/ gameState = "INGAME" /\ (alive' = {} \/ longPlayed)
             \/ failed' # {}
             \/ countdown = "exploding")
    <2> SUFFICES ASSUME MInv, [Next]_vars, ~missionFailed, missionFailed' PROVE Lose
      BY DEF Lose
    <2> QED BY StepOutcome DEF Outcome, Win, Wins, Quiet, Stays, Launch, Begin, Proceed, Reload
  <1> QED BY <1>1, MInvariant, PTL DEF Spec, FailureHasCause

\* Nothing but StartMission leads out of the briefing into the launch, and it
\* looks at the roster of that moment.
THEOREM LaunchHasRequirements == Spec => LaunchMeetsRequirements
  <1>1. MInv /\ [Next]_vars =>
          (gameState = "BRIEFING" /\ gameState' = "LAUNCHING" =>
             /\ roster # {} /\ equipped
             /\ RequiresTech => roster \cap Techs # {})
    <2> SUFFICES ASSUME MInv, [Next]_vars, gameState = "BRIEFING", gameState' = "LAUNCHING"
                 PROVE  Launch
      BY DEF Launch, RequirementsMet
    <2> QED BY StepOutcome DEF Outcome, Win, Wins, Lose, Loses, Quiet, Stays, Begin, Proceed, Reload
  <1> QED BY <1>1, MInvariant, PTL DEF Spec, LaunchMeetsRequirements

\* MissionFlow implements MissionPhases: a mission is decided once and one way,
\* and the campaign records only a mission that was won.
THEOREM ImplementsPhases == Spec => FollowsPhases
  <1> DEFINE outcome == IF missionSuccess /\ missionFailed THEN "both"
                        ELSE IF missionSuccess THEN "won"
                        ELSE IF missionFailed THEN "lost" ELSE "open"
  <1>1. Init => Phases!Init
    BY DEF Init, Phases!Init
  <1>2. MInv /\ [Next]_vars => [Phases!Next]_(Phases!vars)
    <2> SUFFICES ASSUME MInv, [Next]_vars PROVE [Phases!Next]_(Phases!vars)
      OBVIOUS
    <2>0. Outcome /\ missionSuccess \in BOOLEAN /\ missionFailed \in BOOLEAN
      BY StepOutcome DEF MInv, TypeOK
    <2>1. CASE Win
      <3>1. ~missionSuccess /\ ~missionFailed /\ gameState \in {"BRIEFING", "LAUNCHING", "INGAME"}
        BY <2>1 DEF Win, Wins, MInv, TypeOK, Decided, States, Over
      <3> QED BY <2>1, <3>1 DEF Win, Wins, Phases!Next, Phases!Decide
    <2>2. CASE Lose
      <3>1. ~missionSuccess /\ ~missionFailed /\ gameState \in {"BRIEFING", "LAUNCHING", "INGAME"}
        BY <2>2 DEF Lose, Loses, MInv, TypeOK, Decided, States, Over
      <3> QED BY <2>2, <3>1 DEF Lose, Loses, Phases!Next, Phases!Decide
    <2>3. CASE Quiet
      BY <2>3 DEF Quiet, Stays, Phases!vars
    <2>4. CASE Launch
      BY <2>4 DEF Launch, Phases!Next, Phases!Launch
    <2>5. CASE Begin
      BY <2>5 DEF Begin, Phases!Next, Phases!Begin
    <2>6. CASE Proceed
      <3>1. missionSuccess => ~missionFailed
        BY <2>6 DEF Proceed, MInv, Decided, Over
      <3> QED BY <2>6, <3>1 DEF Proceed, Phases!Next, Phases!Proceed
    <2>7. CASE Reload
      BY <2>7 DEF Reload, Phases!Next, Phases!Reload
    <2> QED BY <2>0, <2>1, <2>2, <2>3, <2>4, <2>5, <2>6, <2>7 DEF Outcome
  <1> QED BY <1>1, <1>2, MInvariant, PTL DEF Spec, FollowsPhases, Phases!Spec
=============================================================================
