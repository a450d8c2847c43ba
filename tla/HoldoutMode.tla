------------------------------ MODULE HoldoutMode ------------------------------
(***************************************************************************)
(* CASW_Holdout_Mode (game/shared/swarm/asw_holdout_mode.cpp): the entity   *)
(* that drives a holdout mission.  It owns a vector of timed events,        *)
(* m_Events, and each think handles the events whose time has come: state   *)
(* changes, the start of a wave's entries and single spawns.  Killed        *)
(* aliens are counted; the kill that reaches the wave's total schedules the *)
(* score screen, and the score screen schedules what follows.               *)
(*                                                                          *)
(* Time is counted in ticks.  An event keeps the ticks left until it is     *)
(* due; Tick takes one off all of them and waits while an event is due.     *)
(* m_Events is split by the type of event; events due at the same time are  *)
(* handled in any order (CUtlSortVector::Insert puts a new event next to    *)
(* whichever equal element its binary search meets first).                  *)
(***************************************************************************)
EXTENDS Integers, Sequences, FiniteSets, SequencesExt

CONSTANTS
    NumWaves,           \* m_Waves.Count()
    Waves,              \* [0..NumWaves-1 -> [entries |-> Seq(entry), resupply |-> BOOLEAN]]
    Marines,            \* the marines taken into the mission
    StartDelay,         \* 3.0f of OnMissionStart
    AnnounceTime,       \* asw_holdout_announce_time
    ScoreTime,          \* asw_holdout_wave_score_time
    ResupplyTime,       \* asw_holdout_resupply_time
    KillDelay,          \* 2.0f of OnAlienKilled
    RetryDelay,         \* 1.0f (+ 0.1f * i) of SpawnAliens
    Pruning,            \* asw_alien_prune
    MaxFailures,        \* bound: failed spawn attempts
    MaxUnlocks,         \* bound: unlocked resupplies held at once
    MaxConsoleStarts    \* bound: uses of the console command asw_holdout_start_wave

(***************************************************************************)
(* An entry of a wave as its keyvalues give it.  group: its spawn group     *)
(* exists in the map; counted: OnAlienKilled recognises its alien class     *)
(* (IsAlienClass, or a buzzer); prunable: the pruning of distant aliens     *)
(* applies to its class.                                                    *)
(***************************************************************************)
EntryType == [delay : Nat, quantity : Nat, duration : Nat,
              group : BOOLEAN, counted : BOOLEAN, prunable : BOOLEAN]

ASSUME ConstantsAssumption ==
    /\ NumWaves \in Nat \ {0}
    /\ Waves \in [0..(NumWaves - 1) -> [entries : Seq(EntryType), resupply : BOOLEAN]]
    /\ IsFiniteSet(Marines)
    /\ {StartDelay, AnnounceTime, ScoreTime, ResupplyTime, KillDelay, RetryDelay} \subseteq Nat
    /\ Pruning \in BOOLEAN
    /\ {MaxFailures, MaxUnlocks, MaxConsoleStarts} \subseteq Nat

States == {"BRIEFING", "ANNOUNCE_NEW_WAVE", "WAVE_IN_PROGRESS",
           "SHOWING_WAVE_SCORE", "RESUPPLY", "COMPLETE"}

WaveIndex == 0..(NumWaves - 1)

\* The entries of a wave, and the aliens those entries stand for: <<wave, entry, k>>.
Entries(w) == {<<w, i>> : i \in DOMAIN Waves[w].entries}
EntryOf(e) == Waves[e[1]].entries[e[2]]
AliensOf(e) == {<<e[1], e[2], k>> : k \in 1..EntryOf(e).quantity}
WaveAliens(w) == UNION {AliensOf(e) : e \in Entries(w)}
AllEntries == UNION {Entries(w) : w \in WaveIndex}
AllAliens == UNION {WaveAliens(w) : w \in WaveIndex}

\* The quantities are ints and the waves a vector: there are finitely many aliens.
ASSUME AliensAssumption == IsFiniteSet(AllAliens)

\* Faulty variant: the total is that of the last entry read, not the sum.
GetTotalAliens_LastEntry(w) == Cardinality(AliensOf(<<w, Len(Waves[w].entries)>>))

\* m_nTotalAliens: the sum of the quantities of the wave's entries.
GetTotalAliens(w) == Cardinality(WaveAliens(w))

VARIABLES
    holdoutState,       \* m_nHoldoutState
    currentWave,        \* m_nCurrentWave
    aliensKilled,       \* m_nAliensKilledThisWave
    unlockedResupply,   \* m_nUnlockedResupply
    resurrecting,       \* m_bResurrectingMarines
    stateEvents,        \* m_Events of type STATE_CHANGE: a bag, kept as a sequence
    entryEvents,        \* m_Events of type START_WAVE_ENTRY: entry -> ticks left
    spawnEvents,        \* m_Events of type SINGLE_SPAWN: alien -> ticks left
    thinking,           \* HoldoutThink is inside its event loop
    started,            \* OnMissionStart was called
    alive,              \* live holdout aliens spawned since the last StartWave
    strays,             \* live counted holdout aliens spawned before it
    dead,               \* dead marines
    failures,           \* failed spawn attempts so far
    consoleStarts       \* uses of asw_holdout_start_wave so far

events == <<stateEvents, entryEvents, spawnEvents>>
world == <<alive, strays, dead>>
budget == <<failures, consoleStarts>>
vars == <<holdoutState, currentWave, aliensKilled, unlockedResupply, resurrecting,
          events, thinking, started, world, budget>>

-----------------------------------------------------------------------------
(* The event vector.                                                        *)

NoEvents == [x \in {} |-> 0]

StateEvent(new, delay) == [new |-> new, due |-> delay]

\* AddEvent of a state change to what is left of the vector.
AddStateEvent(rest, new, delay) == stateEvents' = Append(rest, StateEvent(new, delay))

NothingDue ==
    /\ \A i \in DOMAIN stateEvents : stateEvents[i].due > 0
    /\ \A e \in DOMAIN entryEvents : entryEvents[e] > 0
    /\ \A a \in DOMAIN spawnEvents : spawnEvents[a] > 0

-----------------------------------------------------------------------------
(* Spawning.                                                                *)

\* Faulty variants: every wanted alien is tried again; no failure is.
SpawnAliens_RetryAll(wanted, kept) ==
    \E spawned \in SUBSET wanted :
        /\ failures + Cardinality(wanted \ spawned) <= MaxFailures
        /\ failures' = failures + Cardinality(wanted \ spawned)
        /\ alive' = alive \cup spawned
        /\ spawnEvents' = [a \in DOMAIN kept \cup wanted |->
                              IF a \in wanted THEN RetryDelay ELSE kept[a]]

SpawnAliens_NoRetry(wanted, kept) ==
    \E spawned \in SUBSET wanted :
        /\ failures + Cardinality(wanted \ spawned) <= MaxFailures
        /\ failures' = failures + Cardinality(wanted \ spawned)
        /\ alive' = alive \cup spawned
        /\ spawnEvents' = kept

\* SpawnAliens of the aliens in wanted: any of them may fail, for want of a
\* free spawner or of room, and each failure is tried again after RetryDelay.
\* kept are the other single spawns of the vector.
SpawnAliens(wanted, kept) ==
    \E spawned \in SUBSET wanted :
        LET failed == wanted \ spawned IN
        /\ failures + Cardinality(failed) <= MaxFailures
        /\ failures' = failures + Cardinality(failed)
        /\ alive' = alive \cup spawned
        /\ spawnEvents' = [a \in DOMAIN kept \cup failed |->
                              IF a \in failed THEN RetryDelay ELSE kept[a]]

\* How many aliens of an entry spawn at once: all of them, or the first one.
SpawnNow(e) ==
    {a \in AliensOf(e) : EntryOf(e).duration = 0 \/ a[3] = 1}

\* The remaining aliens are spread evenly over the entry's duration.
LaterDue(e, a) == (EntryOf(e).duration * (a[3] - 1)) \div (EntryOf(e).quantity - 1)

SpawnLater(e) ==
    [a \in AliensOf(e) \ SpawnNow(e) |-> LaterDue(e, a)]

\* Two functions with disjoint domains side by side.
Join(f, g) == [x \in DOMAIN f \cup DOMAIN g |-> IF x \in DOMAIN f THEN f[x] ELSE g[x]]

\* ProcessEvent, HOLDOUT_EVENT_START_WAVE_ENTRY.
StartWaveEntry(e) ==
    /\ e \in DOMAIN entryEvents /\ entryEvents[e] = 0
    /\ entryEvents' = Restrict(entryEvents, DOMAIN entryEvents \ {e})
    /\ \/ /\ ~EntryOf(e).group
          /\ UNCHANGED <<spawnEvents, alive, failures>>
       \/ /\ EntryOf(e).group
          /\ SpawnAliens(SpawnNow(e), Join(spawnEvents, SpawnLater(e)))
    /\ UNCHANGED <<holdoutState, currentWave, aliensKilled, unlockedResupply,
                   resurrecting, stateEvents>>

\* ProcessEvent, HOLDOUT_EVENT_SINGLE_SPAWN (its spawn group exists: the entry
\* would not have posted the event otherwise).
SingleSpawn(a) ==
    /\ a \in DOMAIN spawnEvents /\ spawnEvents[a] = 0
    /\ SpawnAliens({a}, Restrict(spawnEvents, DOMAIN spawnEvents \ {a}))
    /\ UNCHANGED <<holdoutState, currentWave, aliensKilled, unlockedResupply,
                   resurrecting, stateEvents, entryEvents>>

-----------------------------------------------------------------------------
(* ChangeHoldoutState, one operator per state entered.  rest is the vector  *)
(* without the state change that is being handled.                          *)

\* Faulty variant: marines still come back while the next wave is announced.
EnterAnnounce_KeepResurrecting(rest) ==
    /\ holdoutState' = "ANNOUNCE_NEW_WAVE"
    /\ currentWave' = currentWave + 1
    /\ AddStateEvent(rest, "WAVE_IN_PROGRESS", AnnounceTime)
    /\ UNCHANGED <<aliensKilled, unlockedResupply, resurrecting, entryEvents, spawnEvents,
                   alive, strays>>

EnterAnnounce(rest) ==
    /\ holdoutState' = "ANNOUNCE_NEW_WAVE"
    /\ currentWave' = currentWave + 1
    /\ resurrecting' = FALSE
    /\ AddStateEvent(rest, "WAVE_IN_PROGRESS", AnnounceTime)
    /\ UNCHANGED <<aliensKilled, unlockedResupply, entryEvents, spawnEvents, alive, strays>>

\* StartWave: the whole event vector is purged before the wave is looked up.
StartWave(n) ==
    /\ stateEvents' = <<>>
    /\ spawnEvents' = NoEvents
    /\ resurrecting' = FALSE
    /\ \/ /\ n \notin WaveIndex
          /\ entryEvents' = NoEvents
          /\ UNCHANGED <<currentWave, aliensKilled, alive, strays>>
       \/ /\ n \in WaveIndex
          /\ currentWave' = n
          /\ aliensKilled' = 0
          /\ entryEvents' = [e \in Entries(n) |-> EntryOf(e).delay]
          /\ strays' = strays + Cardinality({a \in alive : EntryOf(a).counted})
          /\ alive' = {}

EnterWave ==
    /\ holdoutState' = "WAVE_IN_PROGRESS"
    /\ StartWave(currentWave)
    /\ UNCHANGED unlockedResupply

\* Faulty variant: the last wave is not recognised.
AfterScore_OffByOne ==
    IF currentWave >= NumWaves THEN "COMPLETE"
    ELSE IF unlockedResupply > 0 \/ Waves[currentWave].resupply THEN "RESUPPLY"
    ELSE "ANNOUNCE_NEW_WAVE"

\* What the score screen leads to; decided when the screen is shown.
AfterScore ==
    IF currentWave >= NumWaves - 1 THEN "COMPLETE"
    ELSE IF unlockedResupply > 0 \/ Waves[currentWave].resupply THEN "RESUPPLY"
    ELSE "ANNOUNCE_NEW_WAVE"

EnterScore(rest) ==
    /\ holdoutState' = "SHOWING_WAVE_SCORE"
    /\ AddStateEvent(rest, AfterScore, ScoreTime)
    /\ resurrecting' = TRUE
    /\ UNCHANGED <<currentWave, aliensKilled, unlockedResupply, entryEvents, spawnEvents,
                   alive, strays>>

\* Faulty variant: no wave follows.
EnterResupply_NoSuccessor(rest) ==
    /\ holdoutState' = "RESUPPLY"
    /\ unlockedResupply' = IF unlockedResupply > 0 THEN unlockedResupply - 1 ELSE 0
    /\ stateEvents' = rest
    /\ UNCHANGED <<currentWave, aliensKilled, resurrecting, entryEvents, spawnEvents,
                   alive, strays>>

\* A resupply uses up an unlocked one if there is any (a wave's own resupply
\* flag gives one without; the code only warns).
EnterResupply(rest) ==
    /\ holdoutState' = "RESUPPLY"
    /\ \/ /\ currentWave < NumWaves - 1
          /\ unlockedResupply' = IF unlockedResupply > 0 THEN unlockedResupply - 1 ELSE 0
          /\ AddStateEvent(rest, "ANNOUNCE_NEW_WAVE", ResupplyTime)
       \/ /\ currentWave >= NumWaves - 1
          /\ stateEvents' = rest
          /\ UNCHANGED unlockedResupply
    /\ UNCHANGED <<currentWave, aliensKilled, resurrecting, entryEvents, spawnEvents,
                   alive, strays>>

EnterComplete(rest) ==
    /\ holdoutState' = "COMPLETE"
    /\ stateEvents' = rest
    /\ UNCHANGED <<currentWave, aliensKilled, unlockedResupply, resurrecting, entryEvents,
                   spawnEvents, alive, strays>>

ChangeHoldoutState(new, rest) ==
    \/ new = "ANNOUNCE_NEW_WAVE" /\ EnterAnnounce(rest)
    \/ new = "WAVE_IN_PROGRESS" /\ EnterWave
    \/ new = "SHOWING_WAVE_SCORE" /\ EnterScore(rest)
    \/ new = "RESUPPLY" /\ EnterResupply(rest)
    \/ new = "COMPLETE" /\ EnterComplete(rest)

\* ProcessEvent, HOLDOUT_EVENT_STATE_CHANGE.
StateChange(i) ==
    /\ i \in DOMAIN stateEvents /\ stateEvents[i].due = 0
    /\ ChangeHoldoutState(stateEvents[i].new, RemoveAt(stateEvents, i))
    /\ UNCHANGED failures

-----------------------------------------------------------------------------
(* HoldoutThink: the loop over the due events, then one resurrection.       *)
(* Nothing else runs between the events of one think.                       *)

ProcessEvent ==
    /\ \/ /\ \E e \in AllEntries : StartWaveEntry(e)
          /\ UNCHANGED strays
       \/ /\ \E a \in AllAliens : SingleSpawn(a)
          /\ UNCHANGED strays
       \/ \E i \in DOMAIN stateEvents : StateChange(i)
    /\ thinking' = TRUE
    /\ UNCHANGED <<started, dead, consoleStarts>>

\* ResurrectDeadMarines: one marine a think, next to a marine who lives.
ResurrectDeadMarines ==
    \/ \E m \in dead : /\ dead # Marines
                       /\ dead' = dead \ {m}
    \/ UNCHANGED dead       \* nobody dead, nobody alive, or no route to a spawn node

FinishThink ==
    /\ NothingDue
    /\ thinking \/ resurrecting
    /\ thinking' = FALSE
    /\ \/ resurrecting /\ ResurrectDeadMarines
       \/ ~resurrecting /\ UNCHANGED dead
    /\ UNCHANGED <<holdoutState, currentWave, aliensKilled, unlockedResupply, resurrecting,
                   events, started, alive, strays, budget>>

HoldoutThink == ProcessEvent \/ FinishThink

-----------------------------------------------------------------------------
(* The rest of the game, between thinks.                                    *)

Tick ==
    /\ ~thinking /\ NothingDue
    /\ \/ stateEvents # <<>>
       \/ DOMAIN entryEvents # {}
       \/ DOMAIN spawnEvents # {}
    /\ stateEvents' = [i \in DOMAIN stateEvents |->
                          [stateEvents[i] EXCEPT !.due = @ - 1]]
    /\ entryEvents' = [e \in DOMAIN entryEvents |-> entryEvents[e] - 1]
    /\ spawnEvents' = [a \in DOMAIN spawnEvents |-> spawnEvents[a] - 1]
    /\ UNCHANGED <<holdoutState, currentWave, aliensKilled, unlockedResupply, resurrecting,
                   thinking, started, world, budget>>

OnMissionStart ==
    /\ ~thinking /\ ~started
    /\ started' = TRUE
    /\ AddStateEvent(stateEvents, "ANNOUNCE_NEW_WAVE", StartDelay)
    /\ UNCHANGED <<holdoutState, currentWave, aliensKilled, unlockedResupply, resurrecting,
                   entryEvents, spawnEvents, thinking, world, budget>>

\* Faulty variants: the score is scheduled one kill early; one kill late.
OnAlienKilled_Early ==
    /\ aliensKilled' = aliensKilled + 1
    /\ \E reached \in BOOLEAN :
          /\ currentWave \in WaveIndex => (reached <=> aliensKilled' >= GetTotalAliens(currentWave) - 1)
          /\ IF reached THEN AddStateEvent(stateEvents, "SHOWING_WAVE_SCORE", KillDelay)
                        ELSE UNCHANGED stateEvents

OnAlienKilled_Late ==
    /\ aliensKilled' = aliensKilled + 1
    /\ \E reached \in BOOLEAN :
          /\ currentWave \in WaveIndex => (reached <=> aliensKilled' > GetTotalAliens(currentWave))
          /\ IF reached THEN AddStateEvent(stateEvents, "SHOWING_WAVE_SCORE", KillDelay)
                        ELSE UNCHANGED stateEvents

\* OnAlienKilled for an alien that counts.  With m_nCurrentWave outside the
\* vector of waves, what the comparison reads is anything.
OnAlienKilled ==
    /\ aliensKilled' = aliensKilled + 1
    /\ \E reached \in BOOLEAN :
          /\ currentWave \in WaveIndex =>
                (reached <=> aliensKilled' >= GetTotalAliens(currentWave))
          /\ IF reached THEN AddStateEvent(stateEvents, "SHOWING_WAVE_SCORE", KillDelay)
                        ELSE UNCHANGED stateEvents

KillAlien ==
    /\ ~thinking
    /\ \/ \E a \in alive :
             /\ alive' = alive \ {a}
             /\ \/ EntryOf(a).counted /\ OnAlienKilled
                \/ ~EntryOf(a).counted /\ UNCHANGED <<aliensKilled, stateEvents>>
             /\ UNCHANGED strays
       \/ /\ strays > 0
          /\ strays' = strays - 1
          /\ OnAlienKilled
          /\ UNCHANGED alive
    /\ UNCHANGED <<holdoutState, currentWave, unlockedResupply, resurrecting, entryEvents,
                   spawnEvents, thinking, started, dead, budget>>

\* CASW_Alien::NPCThink removes an alien that no marine is near, without a kill.
PruneAlien ==
    /\ ~thinking /\ Pruning /\ dead # Marines
    /\ \E a \in alive : EntryOf(a).prunable /\ alive' = alive \ {a}
    /\ UNCHANGED <<holdoutState, currentWave, aliensKilled, unlockedResupply, resurrecting,
                   events, thinking, started, strays, dead, budget>>

MarineDies ==
    /\ ~thinking /\ started
    /\ \E m \in Marines \ dead : dead' = dead \cup {m}
    /\ UNCHANGED <<holdoutState, currentWave, aliensKilled, unlockedResupply, resurrecting,
                   events, thinking, started, alive, strays, budget>>

InputUnlockResupply ==
    /\ ~thinking /\ unlockedResupply < MaxUnlocks
    /\ unlockedResupply' = unlockedResupply + 1
    /\ UNCHANGED <<holdoutState, currentWave, aliensKilled, resurrecting, events, thinking,
                   started, world, budget>>

\* The console command asw_holdout_start_wave, in range or not.
ConsoleStartWave ==
    /\ ~thinking /\ consoleStarts < MaxConsoleStarts
    /\ consoleStarts' = consoleStarts + 1
    /\ \E n \in -1..NumWaves : StartWave(n)
    /\ UNCHANGED <<holdoutState, unlockedResupply, thinking, started, dead, failures>>

-----------------------------------------------------------------------------
Init ==
    /\ holdoutState = "BRIEFING"
    /\ currentWave = -1
    /\ aliensKilled = 0
    /\ unlockedResupply = 0
    /\ resurrecting = FALSE
    /\ stateEvents = <<>> /\ entryEvents = NoEvents /\ spawnEvents = NoEvents
    /\ thinking = FALSE
    /\ started = FALSE
    /\ alive = {} /\ strays = 0 /\ dead = {}
    /\ failures = 0 /\ consoleStarts = 0

Next ==
    \/ HoldoutThink
    \/ Tick
    \/ OnMissionStart
    \/ KillAlien
    \/ PruneAlien
    \/ MarineDies
    \/ InputUnlockResupply
    \/ ConsoleStartWave

Spec == Init /\ [][Next]_vars

\* The server calls the think function when its time has come, and time passes.
ServerRuns == WF_vars(HoldoutThink) /\ WF_vars(Tick)

\* In addition the mission is started and live aliens are killed in the end.
PlayersFight == WF_vars(OnMissionStart) /\ WF_vars(KillAlien)

FairSpec == Spec /\ ServerRuns
PlayedSpec == FairSpec /\ PlayersFight

-----------------------------------------------------------------------------
(* Properties.                                                              *)

\* Every variable keeps the shape the code gives it; the vector only holds
\* events of the wave being fought and delays that AddEvent can be given.
TypeOK ==
    /\ holdoutState \in States
    /\ currentWave \in Int /\ aliensKilled \in Nat /\ unlockedResupply \in Nat
    /\ resurrecting \in BOOLEAN /\ thinking \in BOOLEAN /\ started \in BOOLEAN
    /\ stateEvents \in Seq([new : States, due : Nat])
    /\ DOMAIN entryEvents \subseteq AllEntries /\ entryEvents \in [DOMAIN entryEvents -> Nat]
    /\ DOMAIN spawnEvents \subseteq AllAliens /\ spawnEvents \in [DOMAIN spawnEvents -> Nat]
    /\ alive \subseteq AllAliens /\ strays \in Nat
    /\ dead \subseteq Marines
    /\ failures \in 0..MaxFailures /\ consoleStarts \in 0..MaxConsoleStarts

\* The aliens of the wave that still have to be killed: alive, about to be
\* spawned, or in an entry that has not started.
Outstanding == alive \cup DOMAIN spawnEvents \cup UNION {AliensOf(e) : e \in DOMAIN entryEvents}

WithinTotal ==
    holdoutState = "WAVE_IN_PROGRESS" =>
        aliensKilled + Cardinality(Outstanding) <= GetTotalAliens(currentWave)

\* Each alien of a wave is counted once at most: what was killed and what is
\* outstanding never exceed the total that OnAlienKilled waits for.  (This and
\* the next two hold until the console command is used.)
KillsAccountedFor == consoleStarts = 0 => WithinTotal

\* However spawns fail and are tried again, no alien of a wave is forgotten,
\* so the total can be reached (waves whose groups exist and whose classes
\* count, pruning off).
NoAlienForgotten ==
    holdoutState = "WAVE_IN_PROGRESS" =>
        aliensKilled + Cardinality(Outstanding) = GetTotalAliens(currentWave)

\* The vector never holds two state changes: the kill that ends a wave
\* schedules the score screen once, and each state schedules one successor.
OneStateChange == consoleStarts = 0 => Len(stateEvents) <= 1

\* Outside a wave in progress (score, resupply, announcement, end) no holdout
\* alien is alive or waiting to be spawned: a wave is never left half fought.
ScoreOnlyWhenCleared ==
    consoleStarts = 0 /\ holdoutState # "WAVE_IN_PROGRESS" => Outstanding = {} /\ strays = 0

\* Dead marines come back after a wave, never while one is announced or fought.
ResurrectionOutsideCombat ==
    [][dead' \subseteq dead /\ dead' # dead =>
          holdoutState \in {"SHOWING_WAVE_SCORE", "RESUPPLY", "COMPLETE"}]_vars

\* A resupply is only given for an unlocked one or by the wave's own flag,
\* although the decision is made a score screen earlier.
ResupplyIsEarned ==
    [][holdoutState # "RESUPPLY" /\ holdoutState' = "RESUPPLY" =>
          /\ currentWave \in WaveIndex
          /\ unlockedResupply > 0 \/ Waves[currentWave].resupply]_vars

\* The phases and the wave counter follow the cycle a holdout promises.
Cycle == INSTANCE HoldoutCycle WITH phase <- holdoutState, wave <- currentWave
FollowsCycle == Cycle!Spec

WaveCleared == Outstanding = {} /\ strays = 0

\* OnAlienKilled, "all aliens have been killed - show the wave scores after a
\* short delay": the kill that schedules the score leaves nothing to kill.
ScoreScheduledWhenCleared ==
    [][Len(stateEvents') > Len(stateEvents) /\ Last(stateEvents').new = "SHOWING_WAVE_SCORE"
          => WaveCleared']_vars

\* Once nothing of a wave is left to kill, its score is shown.
ClearedWaveIsScored ==
    (holdoutState = "WAVE_IN_PROGRESS" /\ WaveCleared) ~> holdoutState = "SHOWING_WAVE_SCORE"

\* A mission whose aliens are all fought reaches the end of its last wave.
HoldoutCompletes == <>(holdoutState = "COMPLETE" /\ currentWave = NumWaves - 1)

\* InputUnlockResupply tells the players, in a wave, that they will resupply
\* at the end of this round.
PromisedResupply ==
    (holdoutState = "WAVE_IN_PROGRESS" /\ unlockedResupply > 0) ~> holdoutState = "RESUPPLY"
=============================================================================
