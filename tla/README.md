# Ch1ckensCoop server: specifications and proofs

Ch1ckensCoop is a modified dedicated server of Alien Swarm (Source engine, C++).
This directory holds TLA+ modules of its own mission logic, the TLC
configurations that check them on small instances and TLAPS proofs about them.
Paths below are relative to `src/server_src/game/`; `GR` is
`shared/swarm/asw_gamerules.cpp`.

Contents: [the system](#the-system) · [modules](#modules-and-the-code-they-model) ·
[runs](#runs) · [proofs](#proofs) · [findings](#findings) ·
[not modelled](#what-is-not-modelled) · [plan](#plan)

## The system

The engine calls one thread of game code. Everything happens in frames: the
rules and every entity with a due think function are called, commands of the
players and of the console are executed, entities fire inputs at each other.
There are no locks and no races of memory; what is hard is the *order* of
callbacks over many frames, state that is kept while players come and go, and
requests that are only carried out later: by another entity's think function,
by the engine's command buffer (`engine->ChangeLevel`, `kickid`), or after a
delay.

| component | state | operations | properties that make it correct |
| --- | --- | --- | --- |
| **Holdout mode** `shared/swarm/asw_holdout_mode.cpp`, `asw_holdout_wave.cpp`, `server/swarm/asw_spawn_group.cpp` | state, wave, kills of the wave, sorted vector of timed events, unlocked resupplies | think, start of the mission, kills, resupply input, console command | every alien of a wave is spawned and counted once; the wave ends when they are dead; phases in order; resurrection between waves only |
| **Map vote** (`GR`: StartVote, CastVote, RemoveVote, UpdateVote) | type, tallies, end time, network IDs that voted, each player's vote | start, cast, leave, join, think | tallies are the votes of who is there; only enough voters change the level; a vote ends |
| **Leader and kick votes** (`GR`, `server/swarm/asw_player.cpp`, `asw_game_resource.cpp`) | leader, remembered leader, each slot's two votes, totals per slot | vote, withdraw, elect, kick, hand over, join, leave, spectate | one leader, a player; totals are votes; a slot's votes do not outlive its player |
| **Mission flow** (`GR`, `server/swarm/asw_mission_manager.cpp`, `asw_objective*.cpp`) | game state, outcome, request to start, objectives, delays | start, launch, deaths, objectives, countdown, restarts, debriefing, campaign map | decided once, for a reason; launched with what it requires; a lost mission ends; only wins are recorded |
| **Roster and lobby** (`GR`, `asw_game_resource.cpp`, `asw_player.cpp`) | selected and reserved profiles, slots, readiness, the maximum | reserve, select, swap, deselect, ready, spectate, join, leave, launch | the three tables agree; limits; nobody loses his last marine to others; everybody selected lands |
| **Director and spawn manager** (`server/swarm/asw_director*.cpp`, `asw_spawn_manager.cpp`) | pace, timers, the horde in progress and its place, the stock of wanderers | per-frame update, kills and damage, inputs, change of level | a horde always has a place and an end; bounds on the stock; fights and breathers alternate |
| **Horde mode** (`server/ASW_Horde_Mode.cpp`) | console variables of the server: class, sizes, beta models, health | a horde has finished, the clock, the switch | settings match the class chosen; off means off |
| **Campaign save and map** (`server/swarm/asw_campaign_save.cpp`, `GR`) | missions complete, position, points and their undo, the dead; the file; one think function | save, load, record a win, spend, undo, revive, move, vote | the file has the whole progress; only wins are recorded; the end is earned; a walk arrives |
| **Hacking, computers, button areas** (`server/swarm/asw_computer_area.cpp`, `asw_button_area.cpp`, `asw_hack*.cpp`, `asw_marine.cpp`, `asw_marine_schedule.cpp`) | who uses which area, progress, hack objects and their pages, orders to techs | use, hack by waiting or by puzzle, orders, switching, death, inputs | handles agree; a lock opens by hacking only; a tech gets done |
| **Doors and the welder** `server/swarm/asw_door.cpp`, `asw_door_area.cpp`, `server/props.cpp` (`CBasePropDoor`), `shared/swarm/asw_weapon_welder_shared.cpp` | state, place and goal of each leaf, who is in its way, lock, dents, health, seal; what the welder is doing | inputs, use, area, button, blows, sealing and cutting, the frames of the push physics | linked leaves come to rest; a door falls as it is shown to; a one-sided attack gets through; a seal gets done |
| Spawners, eggs; sentries | local state machines | inputs, use, damage | limits; interrupted work is kept or undone |
| Health regeneration, respawn, pruning; client effects (`server/ASW_*.cpp`, `asw_prune_aliens.cpp`) | timers, a borrowed setting, a table of players | per-frame update, commands | settings restored; table follows the players |
| Medals, debriefing, statistics; weapons, movement, AI; missions to vote for; lag compensation; SDK | | | see [below](#what-is-not-modelled) |

How they interact: players' commands reach the rules through `CASW_Player`;
`CASW_Marine::Event_Killed` calls the rules and then the mission manager, which
tells the objectives, which call the mission manager back; the manager calls
`MissionComplete` of the rules. Downloads and hacked panels fire outputs that
complete objectives. Objectives are also driven by the map at any
time, briefing included. The rules' `Think` starts, launches and restarts
missions and updates the map vote. `StartMission` starts the holdout. A killed
alien is reported to the director and to the holdout mode; a horde that has
finished spawning to the director and by it to horde mode. What a won mission
changes is written by the campaign save, whose entity then walks the squad over
the campaign map and asks the rules for the next level. A player who leaves
is taken out of both kinds of votes, of the leadership and of the roster. A map
vote, a restart and the campaign map all end in `engine->ChangeLevel`, which
the engine carries out after the frame: the game runs on until then, and the
new level constructs the rules anew.

## Modules and the code they model

| module | role |
| --- | --- |
| `HoldoutMode` | the holdout entity, its events, the aliens it spawned |
| `HoldoutCycle` | abstract: the cycle of phases and waves |
| `MCHoldout` | the waves of the runs |
| `HoldoutProofs` | theorems about `HoldoutMode` |
| `MapVote` | the vote on a mission, campaign or saved campaign |
| `MapVoteProofs` | theorems about `MapVote` |
| `LeaderKickVote` | leadership and the standing votes on leader and kicks |
| `LeaderKickProofs` | theorems about `LeaderKickVote` |
| `MissionFlow` | briefing, launch, game, end and debriefing of a mission |
| `MissionPhases` | abstract: a mission is decided once, and what follows |
| `MCMissionFlow` | the objectives of the runs |
| `MissionProofs` | theorems about `MissionFlow` |
| `Lobby` | who commands which marine, from the briefing to the landing |
| `MarineCommand` | abstract: a marine has one commander, who is there |
| `MCLobby` | the save the lobby's run starts from |
| `LobbyProofs` | theorems about `Lobby` |
| `HordeMode` | the settings of hordes |
| `Director` | director and spawn manager, extends `HordeMode` |
| `MCDirector` | the table of aliens of the runs |
| `DirectorProofs` | theorems about `Director` |
| `CampaignSave` | the campaign's record, its file, the campaign map |
| `MCCampaign` | the campaign of the runs |
| `CampaignProofs` | theorems about `CampaignSave` |
| `Hacking` | areas, hack objects, and who uses them |
| `MCHacking` | the marines, areas and levels of the runs |
| `Door` | two leaves, linked or not, and a marine with a welder |
| `MCDoor` | the two situations of the run: linked and disturbed, or alone and welded |
| `UsableProofs` | theorems about `Hacking` and `Door` |

An operator is named after the function it models, a variable is commented
with the member it stands for, and `PROJECT.json` gives the lines of every
definition. Operators with an underscore in their name
(`MayTake_OneMore`) are faulty variants: for every property of a passing run
there is one under which TLC finds that property violated.

**HoldoutMode.** `HoldoutThink` is split in two: one step per event handled
(`ProcessEvent`) and `FinishThink`, because handling an event can insert others
that are due in the same think; no other action runs between them (`thinking`),
except that the code calls `OnAlienKilled` only from the rest of the frame.
The vector is sorted by time only, so events due together are handled in any
order. It is kept as three parts, by type. Time is counted in ticks, an event
holding the ticks left. An alien is `<<wave, entry, number>>`; `alive` holds
those of the wave fought, `strays` counts what an earlier start of a wave left
over. A spawn may fail (`MaxFailures`) and is tried again as the code does.
`ConsoleStartWave` is the command `asw_holdout_start_wave`, which bypasses the
cycle.

**MapVote.** A person is known by a network ID: the Steam ID once Steam has
validated it, the address before (`GetASWNetworkID`). `StartVote` resets the
votes of the players who are there, remembers who started it and counts his
vote; casting, leaving and `Think` compare the tallies with the players
connected at that moment. Acceptance of a campaign needs a new saved game,
which may fail.

**LeaderKickVote.** Slots are entity indices from 1, the totals arrays from 0.
A vote is aimed at a slot, at nobody (-1) or at index 0 (`Targets`: what
`cl_leadervote` and `cl_kickvote` clamp to), where nobody ever is. The tests of
the arrays' bounds are the code's, four different ones: a leader vote for 0 that
is withdrawn (`GR:5766`) and a kick vote for 0 that is cast (`GR:5884`) pass and
are counted at element -1. Before `m_iLeaderVotes` lies `m_iKickVotes`
(`asw_game_resource.h:117`), so `Overrun` writes the count into its last element;
before `m_iKickVotes` lies the last of `m_iszPlayerMedals`, kept as element 0 of
`kickVotes`, since nothing modelled reads it.
The slot of a player who left can be taken by another before anybody votes
again. After the disconnect the engine has freed the entity, so an empty slot
has none. `kickid` is only queued; the player stays until the engine executes
it. The leader's ID is remembered over changes of level.

**MissionFlow.** `MissionComplete`, `RestartMission` and `CheckMissionComplete`
are operators on the new values of objectives and marines; each handler that
calls one of them contains the call. The players' selections, their requests
and whether the others are ready are the environment's choice, and so are the
inputs the map sends to objectives. Deaths are possible in the game; with
`LaunchDeaths` also while the marines are being spawned. Delays (the time after
the last death, the 1.5 s after the loss of the last tech, the 30 s after which
a restart is a failure) are flags that `TimePasses` flips. Assumed of maps: at
most one countdown, and a spawn point for each marine.

**Lobby.** The three tables of the game resource are one variable, `squad`,
because every handler changes them one after another: `roster` (which profiles
are selected or reserved), `slots` (which marine resource stands where), the
count, the limit and whether fair rules are on. `RosterSelect`,
`SetMaxMarines`, `ReassignMarines` and the others are operators on it, and each
command or arrival is the composition the code makes, in its order: who joins
gets his old marines back *before* the limit is computed anew, and who leaves
lets it be computed twice, with him and without. Loops over slots are recursive
functions. Slots move down when one is deleted, gaps included. Elections are
the environment's choice (they are in `LeaderKickVote`); neither a tech nor
equipment is required (that is in `MissionFlow`). Who joins or becomes leader is
ready if `asw_marine_lobby_ready` is 2 (`AllReady`); the runs have the default, the
same run passes with 2, and the proofs are for both.

**HordeMode and Director.** The settings are console variables, so they
survive the level. `chosen` is the row of the table that the class and the
sizes were set from; `healthFrom` says by whose limits each health variable was
drawn, since rows share variables. `betaModel` says which model each beta variable
asks for: the other one ("off"), the beta ("on", whichever number that is for the
variable) or both at random ("mixed", the value 2). An administrator sets these
variables at any time, `SetBetaVariable`, and they start as the server's
configuration has them; `UpdateHordeMode` overwrites them, but leaves one that is
mixed alone (`AskFor`, `ASW_Horde_Mode.cpp:217`, 252, 260). `configured` is a
history variable, what the administrator last set. `DirectorFrame` is one frame: spawn manager,
hordes, pace, wanderers, and horde mode if a horde has finished. A timer is off,
running or elapsed. What depends on the map and on positions (how many of a
batch find room, whether another place is found, how many drones are awake) is
any outcome.

**CampaignSave.** `save` is the entity, `file` what is on disk. Each handler
writes where the code does, and a crash or a level change replaces the record
by what `LoadGameFromFile` makes of the file. The entity's single think function
is `think`; `MoveThink` and `VoteEndThink` share it. Skill points are the
custom ones and each marine has one skill. The route search (A*) is any next
step of a route it can find, the search running from the destination as in the
code. The mission the leader picks (`m_iNextCampaignMission`) is the parameter
of `ForceLaunch`. Dead code without a caller (`PlayerVote`,
`StartingCampaignVote`, `ForceNextMissionLaunch`) is left out, so nobody has
votes when the vote ends.

**Hacking.** `world` holds the marines, areas and hack objects; handlers are
operators on it, named after the functions, so that a call chain through five
classes is a composition of them; a function with several jobs is divided
(`StopUsing` into `LeaveArea` and `LeaveHack`, the computer's `MarineUsing` into
`WaitAtComputer`, `DownloadFiles` and `CloseWhenDone`, a marine's think into
`UseArea` and `TickHack`). A hack object is named by its area. A frame of
a marine gives his position (the set of areas he lies in) and does what
`ASWThinkEffects` does; the hack of an inhabited marine is ticked by his player's
command. The solution of a puzzle is the environment's choice, and so is when it
opens unasked. `AskTech` is the order a marine who cannot hack gives; a tech
obeys when he is there. Settings are the defaults (`asw_simple_hacking`, hacking
by others off).

**Door.** `leaf` holds what moves of each door: its state, its place, its goal
(`m_vecGoal`, unset until the first move), the timer that `m_flMoveDoneTime`
and the return delay share, and `m_bFirstBlocked`. A place is in the frame,
within a hair of it (`IsOpen` still says no), half-way, or in the wall. `Slide`,
`Arrive`, `Bump` and `Freed` are what a frame of the push physics does to one
leaf; a leaf at rest gets no frames, so what it hit last stays recorded. The
chain from a blocked slave through its master to all slaves is a composition of
`OnStartBlocked` on the record of all leaves. A body's health, dents and counters
follow `OnTakeDamage`; a marine's kick is a blow of no damage. `WelderFrame` is
one `ItemPostFrame`: weld with what was set before, look whether the automatic
welding has come to its end, attack again. The dead code between the comments of
`OnTakeDamage` is left out. `since` is a history variable of the properties.

## Runs

Passing runs:

| run | configuration | what it shows |
| --- | --- | --- |
| `holdout_safety` | two waves with everything that can be wrong with an entry (missing spawn group, uncounted class, none at all), a failed spawn, pruning, one use of the console command | whatever the waves are, and until the command is used, no alien is counted twice (`KillsAccountedFor`), one change of state is pending, no wave is scored while its aliens live; even with the command the dead only come back outside combat |
| `holdout_live` | three sound waves (at once, spread over time, two overlapping entries), two failed spawns | no alien is forgotten; a cleared wave is scored; the mission completes; `HoldoutMode` implements `HoldoutCycle` |
| `map_vote` | three persons, 60 %, late validation, saves that fail | tallies are right, enough voters, no early rejection, every vote is decided |
| `leader_kick` | three slots and one place more, 75 %, one of the two votes at a time, one vote for index 0 | a leader always, totals right, newcomers start clean, kicks need enough votes |
| `mission_flow` | two marines, one tech; a plain objective, an escape, a countdown; campaign | causes of win and loss; a lost squad or lost techs end the mission; `MissionFlow` implements `MissionPhases` |
| `lobby` | three places, one player who returns, fair rules from two active players on, three reservations | the three tables agree; the limit is kept while it changes; reservations bind; all land; `Lobby` implements `MarineCommand`: nobody takes another's marine or loses his last one to others |
| `director` | four kinds of aliens, hordes of up to two in batches of one, horde mode switched and beta variables set at will, levels changed | a horde has a place and stays within its kind's maximum; each beta variable is as it was configured or as the kind chosen last asks, and a mix is left alone; every peak ends in a breather and every breather in a fight |
| `campaign` | two missions, begun at either, one marine, two players, crashes at any moment | the campaign ends exactly when all is won; the disk has the whole progress; only what was played and won is recorded; a walk ends where it was to end |
| `hacking` | two techs of one player, a marine of another; a computer, a panel, one who walks between the two | marines, areas and hack objects agree on who uses what; a lock opens by hacking only; a tech left to hack alone gets done |
| `door` | two leaves: linked, with two obstacles or inputs and any number of blows; or alone, with a marine who seals and cuts | a door falls only as its model faces and after a grace; leaves that stopped for each other go on; a one-sided attack fells any door; an order to seal an open door is carried out |

Runs that find a violation are listed under [findings](#findings). Further
configurations are kept beside them. These pass: `BothPolls` (both votes at once,
two slots) and `MissionInstantRestart` (`asw_instant_restart`). Every module also
states its type invariant, `TypeOK` (`DoorTypeOK` in `Door`), which can be added to
any configuration; it is proved for all of them (see below). The other configurations show what the code
does in corner cases. Each of them is violated; one that lists several
properties is to be run with one at a time:

| configuration | property | what the code does |
| --- | --- | --- |
| `HoldoutPruned` | `ClearedWaveIsScored` | aliens removed by `asw_alien_prune` are not killed, so a wave waits for them for ever |
| `HoldoutStrays` | `ScoreScheduledWhenCleared` | after the console command, kills of the old wave's aliens count for the new one, whose score comes too early |
| `HoldoutUber` | `ClearedWaveIsScored` | an uber drone has a class of its own, unknown to the filter of counted aliens: a wave with one is never cleared |
| `HoldoutPromise` | `PromisedResupply` | a resupply promised for the end of the round does not come after the last wave |
| `MapVoteRejoin` | `OnlyVotersTurnedAway` | who voted, left and came back cannot vote again in that vote, although his vote was taken back |
| `MapVoteLate` | `OneVoteEach` | who voted under his address may vote again once Steam has validated him (`map_vote` excludes such voters: `LateVoter`) |
| `MapVoteNoSave` | `EveryVoteEnds` | when no saved game can be created for the campaign that was voted for, the vote stays open past its time |
| `LastSlot` | `NewcomerIsNotAccused` | with as many slots as places (the default of eight) `ClearLeaderKickVotes` (`GR:5704`) returns for the last slot: votes against its player stay for whoever comes next, although the declaration says it "clears out any kick/leader votes aimed at this player" |
| `LastSlot` | `TallyMatchesVotes` | with as many slots as places the totals of the last slot are wrong: SetKickVote does not show a kick vote against it, nor SetLeaderVote take back a leader vote for it, and a withdrawn leader vote for index 0 is counted into its kick votes |
| `MissionFindings` | `LostMissionEnds` | with everybody dead before the game state is `INGAME` the manager's flag is never set and the mission does not end |
| `MissionFindings` | `RequestIsAnswered` | a start forced without a required tech stays flagged; the mission starts unasked when somebody later selects one |
| `LobbyGaps` | `LimitKept` | an empty slot that a client asks for counts as a swap: at the limit one more is selected |
| `DirectorFindings` | `BreatherIsQuiet` | wanderers that are queued come in the breather too: `asw_spawn_manager.cpp:284` never asks `m_bSpawningAliens` |
| `DirectorFindings` | `HealthOfItsKind` | drone and beta drone share a health variable: the row drawn last decides |
| `HordeTimed` | `TimedHordeWithinLimit` | an update by the clock changes the class in the middle of a horde, whose rest may exceed the new maximum |
| `CampaignPoints` | `PointsSurvive` | each load at the first mission resets its skill points |
| `HackingOverlap` | `HandlesAgree` | a tech sent to a second area while he is in the first leaves the first in use for ever, if the areas overlap |
| `HackingFindings` | `DoneStaysDone` | after the panel is hacked a tile can still be turned: the progress falls and the hack completes again |
| `HackingFindings` | `TechLeaves` | a tech who is on his own stays at an area that the map unlocked, and at a computer with nothing to hack |
| `DoorFindings` | `DentedStaysShut` | "very dented, unable to open" (`asw_door.h:23`) is asked of the group only when an input arrives: a closing master that meets an NPC turns back and takes its dented slave along |
| `DoorFindings` | `KickNeverFells` | kicks do no damage (`asw_door.cpp:1201`), but a kick at a door without health whose grace is used up fells it |
| `DoorFindings` | `WeldsOnlyShut` | "if the door is shut, we can weld" (`asw_weapon_welder_shared.cpp:291`): the welding of a shot goes on although the door has been opened |
| `DoorFindings` | `CutOpensAutoDoor` | a door that opens by itself is told to open when it is fully cut, but before its seal is zero, so it counts as locked and stays shut (`asw_door.cpp:985`) |
| `DoorFindings` | `ArrivesOnce` | a leaf at its goal is resumed too and arrives again: the assertion of `props.cpp:4568` or `4690` fails |
| `DoorFindings` | `ResumesOnlyPaused` | a slave that was addressed alone is blocked and freed: its master, which never moved, is sent to a goal that was never set |

### Bounds

- Waves: a wave spread over time, one at once and overlapping entries reach all
  branches of `ProcessEvent`; three waves reach first, middle and last. Two
  failures reach a retry of a retry. One unlocked resupply reaches both reasons
  for a resupply. One console start reaches every state in which it can come.
- Three persons: one for, one against, one who leaves or rejoins; a majority of
  60 % is then two. Two ticks of vote: before the end, at the end.
- Three slots: leader, voter and accused; a fourth place separates the number
  of slots from the size of the arrays. Both votes multiply the states without
  sharing any but the players, so `leader_kick` has one of them in use at a
  time and `BothPolls` both on two slots. One vote for index 0 stands at a time
  (`StraysAtOnce`) and one player waits to be kicked (`KicksAtOnce`); `BothPolls`
  has no such bound, since it has two players.
- Two marines, one tech: the last tech can die first or last. One objective of
  each kind that behaves in its own way. All else in `MissionFlow` is finite.

- Lobby: persons `ann`, `bob`, `cho` for three places; two of them take one
  place in turn, so a reservation meets its person and somebody else. Three
  profiles and slots with a squad of two and three spawn points: the limit is
  two, grows to three, and fair rules switch on and off. `FairRules` with
  `SquadSize` 2 stands for the code's limit of four: the rules begin with as many
  active players.
- Director: hordes of two in batches of one are placed, moved, cut short and
  given up in the middle. The table has one row of each sort: plain, without
  beta model, beta, and one that the limits exclude. No wanderers are kept in
  stock beyond the one the code adds (`WandererMax` 0). The administrator sets
  the beta variable off or to the mix (`GivenModels`); one that he sets on differs
  from one the mode has set on only in `configured`, and the proof is for all values.
- Campaign: two missions beside the dropzone, which both lead out of it, so that
  a walk takes two steps; skills up to 2, one point per mission, no award beyond
  7 spare points (`MaxSpare`): more than winning both missions gives, so that a
  mission can be replayed and points spent and revived in between.
- Hacking: `Full` is 2, so a hack is begun, half done and done, and a puzzle
  has two wires. `Levels` restricts who gets where: all three marines at the
  computer, all at the panel, or one who walks between the two. Inputs reach
  areas somebody can reach, and those die who can get to an area.
- Door: two leaves, since the code links pairs (`DoorConstants`). Strength 4 has
  all three degrees of dents; two units turn a door (`NeededFlipDamage`) and two
  make a seal, so that both are reached in steps. Two disturbances (an obstacle,
  an input, an order to the marine or a walk of his) block one leaf while the
  other is blocked already, or call a marine off; blows are not counted. A pair is
  not welded and a welded door is alone, since a seal does not act on the motion
  of leaves other than by the lock.

Deadlock checking is off where the system really may stop: in a holdout
(`COMPLETE` is the last state, and a wave that cannot be cleared waits for ever),
in the lobby (an empty server with its mission under way) and in the hacking
runs (everybody dead).

### Fairness

- `ServerRuns` (holdout), `Think` and `Tick` (map vote), `Think`,
  `ManagerThink` and `TimePasses` (mission): the engine calls due think
  functions in every frame and its clock advances.
- `PlayersFight` (holdout only, for the two liveness properties): the mission
  is started and a live alien is killed in the end. This is an assumption on
  the players; without it no wave need end.
- `DirectorFrame` and `SustainTimeUp` (director): the frame and the clock. The
  second half of `PeakEndsInBreather` supposes that the marines leave the peak
  some day and that levels stop changing.
- `MoveThink`, `VoteEndThink` (campaign): due think functions.
- `Slide` or `Arrive` of each leaf (door): the engine simulates what moves and
  nothing blocks. `WelderFrame` of a marine who welds by himself, facing the door
  and with no other weapon fired: his weapon's frame. No input, blow or visitor
  has to come: `OneSidedAttackFells` has the blows as its premise.
- `MarineFrame` where the marine stays (hacking): nobody has to move, to press
  a key or to solve a puzzle.
- No fairness is assumed of votes, selections, requests, the map's inputs or
  changes of level. `LostMissionEnds` and `TechLossEnds` hold although nobody
  does anything after the deaths.

## Proofs

All theorems are checked by TLAPS down to their leaves, for every value of the
constants that the named assumptions allow.

**HoldoutProofs.** `TypeCorrect` and `ResurrectionBetweenWaves` hold with any
use of the console command. `KillsAccounted`, `SingleStateChange`,
`ScoreWhenCleared`, `ResupplyEarned` and `ImplementsCycle` are about missions
without it (`MaxConsoleStarts = 0`; `HoldoutStrays` shows why). They follow from
`HInv == TypeOK /\ Apart /\ PhaseInv /\ WaveInv`: what the vector may hold in
each state, and that kills and outstanding aliens do not exceed the total.
That sum is not inductive alone. `Apart` says that no alien is at once alive,
waiting to be spawned, or in an entry that has not started: otherwise one kill
could be followed by the same alien's spawn. `NoneForgotten` turns the inequality
into the equation of `NoAlienForgotten` where every entry is sound
(`WavesAreSound`: its group exists and its class counts) and nothing is pruned;
that equation is inductive beside `HInv`. Assumed: the waves are sequences of
entries with natural numbers, and finitely many aliens (`AliensAssumption`).

**MapVoteProofs.** `MapVoteTypes`, `TalliesMatch`, `LevelChangesAreVoted` and
`RejectionsAreHopeless`, for every finite set of persons, every fraction and
duration. The tallies are numbers that handlers add to and take from, so `MInv`
relates them to the votes that stand (`Ballots`). With late validation they may be
too high, for who is remembered under two IDs, but are never too low; that weaker
half is needed for the types, because a vote taken back must find a tally to take
it from. `RejectionsAreHopeless` supposes that more than half of the votes are
needed: with a fraction of a half or less the code rejects a vote that could
still pass.

**LeaderKickProofs.** `LeaderKickTypes`, `LeaderPresent` and `KicksAreVoted` for
every number of slots; `TalliesMatch` and `NewcomersNotAccused` where there are
fewer slots than `ASW_MAX_READY_PLAYERS` (`MaxClients < MaxReady`; `LastSlot` shows
what happens otherwise), with both votes at once and votes for index 0. What is
counted before an array lands in the medals or in the kick votes of a slot that
such a server does not have (`OverrunKept`). `LInv` says that the totals are
exact for the slots that the tests against the array bounds let through
(`Exact`), which is inductive whatever the number of slots. `KicksAreVoted` also
holds for the last slot, since the code counts the votes anew when it decides.

**LobbyProofs.** `LobbyTypes`, `TablesAlwaysAgree` and `ReservationsHold` without
further assumptions; `LimitIsKept` and `MarinesLand` where nobody asks for an empty
slot (`~EmptySlotsPreferred`; `LobbyGaps` shows why); `LobbyImplementsCommand` where
the map has a place for each player (`MaxClients <= PlayerStarts`: with fewer places
than players who have marines, the limit takes somebody's last one). All hold for
every number of players, profiles, slots and places and every save. The work is in
the loops over slots. A loop is a recursive function, `f[n]` being the squad after
n passes; `Passes` proves a property of the last pass from one of each, and
`RunExists` that there is such a function at all, both by induction over the natural
numbers, which is derived from their well-foundedness (`LeastNatural`). The squads
after each loop are described by a few relations to the one before: `Taken` (some of its
marines are gone, and nothing else), `Grown` (a player has got some that he may have),
`Spares` (nobody has lost his last), `HisOnly` (only his own and free ones have
changed hands). That the loop of `SetMaxMarines` comes to an end below the
limit is a counting argument: each pass takes one, and there are as many passes as
slots. That it spares everybody's last marine follows because it takes from one who
has most, and the limit is never below the number of players who have some (`Heads`).
`LobbyInv` adds to `Sound` (the tables agree) that in the briefing commanders
are connected (`Ordered`) and that all have landed once one has.

**DirectorProofs.** `DirectorTypes`, `HordesWithinLimit` and `BetaFollowsChoice`, for every
table of aliens from which something can be chosen, every batch size and
all settings, whatever the administrator sets the beta variables to and whenever.
`BetaFollowsChoice` says of each variable that it holds what he set or what the kind
chosen last asks for, and that a mix stays. The three are only inductive together (`DInv`): a horde is within the
limit of the kind chosen, which is a row of the table only by the types. That there
is a largest horde and a row drawn last are maxima of bounded sets, proved from the
well-foundedness of the natural numbers.

**MissionProofs.** `TypeCorrect`, `SuccessIsEarned`, `FailureHasItsCause`,
`LaunchHasRequirements` and `ImplementsPhases`, for every set of marines and
objectives, optional or not, with or without a campaign, `asw_instant_restart`
and deaths during the launch. `MInv` adds to the types that the outcome stands
exactly from the debriefing on (`Decided`), and that a failed objective does
not survive in a game in progress unless failures restart it (`FailureEnds`):
without the latter `SetIncomplete`, which checks with the failure still set,
could lose a mission none of whose objectives is failed any more. Each step is
first classified (`StepOutcome`: win, loss, quiet, launch, begin, proceed,
reload); the theorems read their claim off the class. `NobodyLanded` is needed
for "only marines of the roster live".

**CampaignProofs.** `CampaignTypes`, `CampaignFinale`, `CampaignOnDisk` and
`CampaignRecord`, for every number of missions and every graph of links, every
set of marines and players, with or without deaths that count. They follow from
`CInv == TypeOK /\ AtTheMission /\ FinaleEarned /\ ProgressOnDisk`.
`AtTheMission` is what the code relies on without checking it: a won mission is
recorded by the squad's *position* on the map, so on the level of a mission that
position must be this mission, whatever was walked, saved and loaded before.
Without it `FinaleEarned` is not inductive: the dropzone could be recorded and
counted. Lemmas say what saving, loading, recording and spending do to a sound
record (`Sound`, `SaveSound`), each step is then one application of them. That
the counter reaches its maximum only with all missions complete is a fact about
cardinalities (`CompletableCount`). `MaxSpare`, the bound of the runs, is a
parameter of the theorems like the others.

**UsableProofs, hacking.** `HackingTypes`, `LocksHold` and `HandlesStayAgreed`, for
every number of marines, players and areas. An action of `Hacking` is a chain of
operations on the world, so the proof goes operation by operation: each one is shown
to keep what a few relations between the world before and after name (`Keeps`: types,
handles, and the locks of a set of areas; `Guards`: the same but for the handles;
`Carries`: the same but for where the marines are), and the relations compose. What
an operation may leave broken for the next to mend is visible in them: while a
download or a hack ends, the lock of that one area is outside the set. `LockHolds` is
not inductive: that nothing is downloaded from a locked computer needs that its page
is the menu or the puzzle, and that progress below the maximum goes with the lock; and
that only techs are at a locked area needs it of panels locked or not, since the map
can lock a panel again (`LockAt`). `HandlesAgree` needs no strengthening of the handles
themselves (`Handles`) but where the marines are: who uses an area lies in it
(`PresentIn`), so that a tech who is sent to another area cannot open it while he is in
the first, because no place lies in two areas (`AreasApart`). That hypothesis is needed:
without it the code breaks the property (`HackingOverlap`). `LocksHold` needs none.

**UsableProofs, doors.** `DoorTypes` and `DoorsFallAsAnimated`, for any strength of
doors, any blows and any number needed to turn one. The types follow the chain from a
blocked slave through its master to all slaves, each operator taking the motion of
all leaves to another such (`Motions`). That a door has taken `NeededFlipDamage` since it was
turned when it falls is not inductive; `BodiesGraced` is: as long as that much has
not been dealt, the counter is below zero by at least what is missing, and
`Event_Killed` is reached only from a counter that is not. The direction of the
fall follows from `NeedsFlip` in the step itself. `Door` calls its initial predicate
`DoorInit` and so on, because the module extends `Hacking` too.

Checked by TLC only: liveness, since fairness and ENABLED are beyond the prover
(`ClearedWaveIsScored`, `HoldoutCompletes`, `EveryVoteIsDecided`, `LostMissionEnds`,
`TechLossEnds`, `PeakEndsInBreather`, `WalkEnds`, `TechFinishes`, and all of `Door` but
`FallsAsAnimated`). All other properties of the passing runs, that is every invariant
and every action property, are theorems.

## Findings

| run | code | what happens |
| --- | --- | --- |
| `horde_mode_off` | `server/ASW_Horde_Mode.cpp:182` | with horde mode off, the first horde that has finished spawning still changes the server's horde settings, and nothing restores them |
| `campaign_stuck` | `server/swarm/asw_campaign_save.cpp:686` | the end of the vote takes the place of a walk in progress and then asks for the mission that is already the destination, which is ignored: the squad stands still |

Met while modelling, outside what is checked:

- Lobby: `cl_selectsinglem` may leave a player two marines, because its loop goes
  on while the slots move down; when a spectator who is ready selects a marine,
  the limit is not recomputed.
- Map vote: with a fraction of a half or less a vote is rejected as soon as that many
  are against, although enough may still vote for it.
- Director: the wanderer queue holds one more than `asw_wanderer_max`;
  `asw_wanderer_awake_limit` is unused; `GetRandomValidAlien` never returns if
  no alien is allowed; the clock of the timed update is stale after a change of
  level; `AddHorde` overwrites the rest of a horde; mode 2, which the text
  documents, is unhandled in `HordeFinishedSpawning`.
- Campaign: the commands that pick and launch the next mission accept any
  mission; the vote ends once per level only; the forced campaign map uses the
  save without a test that there is one; a revived marine has more points than
  a survivor.
- Hacking: `StopUsing` clears orders given meanwhile (the FIXME at
  `asw_marine.cpp:3013`); the Use key presses an unlocked button instead of
  leaving it; the tumblers turn unseen and may align by chance, which changes
  the page that is shown; a tech left in the middle of a wire puzzle gets no
  further than the wires that are lit.

## What is not modelled

- Of the modelled parts: score and ammunition of a holdout, the weapon chosen in
  a resupply, errors of files; the list of missions to vote for; the ban after
  a kick; intro, outro and tutorial maps, cheats, medals and experience.
  Resurrection is part of `HoldoutMode` but not of `MissionFlow`. The intensity of
  the director as a number (it is at its peak or below) and the distances of
  spawning. In a campaign: retries, deaths in numbers, wounds, medals, and the
  default for the next mission. In hacking: areas that need several marines,
  disabled areas (as if the marine had left), mail, cameras, outputs of areas
  when used, cheats that hack by themselves, distances. In doors: crushing and
  padding, what damage a weapon does and how a seal lessens it, chatter, NPCs that
  open doors by themselves, groups of three doors or more (the code makes a
  chain of masters of them).
- Spawners and eggs, sentries: each is a state machine driven by damage
  and geometry, with little protocol between entities. What the other parts need
  of them is in `HoldoutMode` (a spawn may fail) and `Hacking` (a panel opens).
- Health regeneration, respawn, pruning, client effects, the sorted vector:
  small; pruning is in `HoldoutMode` as far as a wave sees it.
- Movement, weapons, damage, AI schedules, lag compensation: continuous data and
  geometry.
- Marine resources, medals, debriefing: counters for display.
- Missions to vote for: pages of a list from a closed library.
- The SourceMod interface forwards commands. The SDK, the engine's interfaces
  and the server skeleton are third-party code or configuration.

## Plan

1. *Done:* `HoldoutMode` with `HoldoutCycle` and proofs; `MapVote`;
   `LeaderKickVote`; `MissionFlow` with `MissionPhases` and proofs.
2. *Done:* `Lobby` with `MarineCommand`; `HordeMode` and `Director`;
   `CampaignSave` with proofs; `Hacking`; `Door` with a proof.
3. *Done:* proofs of `Lobby` with its refinement, `Director`, `MapVote`,
   `LeaderKickVote`, `Hacking`, and of `NoAlienForgotten` for sound waves.
4. Compositions: `Lobby`, `LeaderKickVote` and `MissionFlow` on players who leave,
   which replaces the environment's choice of roster, readiness and heirs;
   `HoldoutMode` and `MissionFlow` on deaths and resurrection; `MissionFlow` and
   `CampaignSave` on what a win records.
5. Spawners, sentries and client effects, as far as their protocols go;
   the sorted vector as a pure algorithm against its reference.
