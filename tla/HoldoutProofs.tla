------------------------------ MODULE HoldoutProofs ------------------------------
(***************************************************************************)
(* Proofs about HoldoutMode, for every set of waves, marines and delays.    *)
(*                                                                          *)
(* TypeCorrect and ResurrectionBetweenWaves hold with any use of the        *)
(* console.  The three other invariants hold until it is used, and the two  *)
(* action properties where it never is (MaxConsoleStarts = 0); they follow  *)
(* from HInv: what the event vector holds in each state, and that kills and *)
(* outstanding aliens never exceed the wave's total.  HInv has to know that *)
(* no alien is in two places, or else one kill could be followed by the     *)
(* same alien's spawn.                                                      *)
(***************************************************************************)
EXTENDS HoldoutMode, FiniteSetTheorems, TLAPS

-----------------------------------------------------------------------------
(* Lemmas about the waves and the vector.                                   *)

\* What is left of a vector of one state change once that is handled.
LEMMA RemoveOnly ==
    ASSUME NEW S, NEW s \in Seq(S), NEW i \in DOMAIN s, Len(s) <= 1
    PROVE  i = 1 /\ Len(s) = 1 /\ RemoveAt(s, i) = <<>>
  <1>0. DOMAIN s = 1..Len(s) /\ Len(s) \in Nat
    OBVIOUS
  <1>1. i = 1 /\ Len(s) = 1
    BY <1>0
  <1>2. SubSeq(s, 1, 0) = <<>> /\ SubSeq(s, 2, 1) = <<>>
    OBVIOUS
  <1> QED BY <1>1, <1>2 DEF RemoveAt

\* Removing an event keeps a sequence of events one.
LEMMA RemoveType ==
    ASSUME NEW S, NEW s \in Seq(S), NEW i \in DOMAIN s
    PROVE  RemoveAt(s, i) \in Seq(S)
  BY DEF RemoveAt

\* An element of a sequence is one of its set, at an index within its length.
LEMMA ElementType ==
    ASSUME NEW S, NEW s \in Seq(S), NEW i \in DOMAIN s
    PROVE  s[i] \in S /\ i \in 1..Len(s)
  OBVIOUS

\* An alien belongs to one entry.
LEMMA EntriesDisjoint ==
    ASSUME NEW e \in AllEntries, NEW f \in AllEntries, NEW a \in AliensOf(e), a \in AliensOf(f)
    PROVE  e = f
  <1>1. PICK we, ie : e = <<we, ie>>
    BY DEF AllEntries, Entries
  <1>2. PICK wf, jf : f = <<wf, jf>>
    BY DEF AllEntries, Entries
  <1>3. \E k : a = <<we, ie, k>>
    BY <1>1 DEF AliensOf
  <1>4. \E k : a = <<wf, jf, k>>
    BY <1>2 DEF AliensOf
  <1> QED BY <1>1, <1>2, <1>3, <1>4

\* The aliens of an entry are aliens of its wave.
LEMMA AliensOfType ==
    ASSUME NEW w \in WaveIndex, NEW e \in Entries(w)
    PROVE  AliensOf(e) \subseteq WaveAliens(w) /\ e \in AllEntries /\ AliensOf(e) \subseteq AllAliens
  BY DEF WaveAliens, AllEntries, AllAliens

\* The aliens of an entry are among those of the mission.
LEMMA EntryAliens ==
    ASSUME NEW e \in AllEntries
    PROVE  AliensOf(e) \subseteq AllAliens
  BY AliensOfType DEF AllEntries

\* An entry's delay, quantity and duration are natural numbers.
LEMMA EntryData ==
    ASSUME NEW e \in AllEntries
    PROVE  EntryOf(e) \in EntryType
  <1>1. PICK w \in WaveIndex : e \in Entries(w)
    BY DEF AllEntries
  <1>2. PICK i \in DOMAIN Waves[w].entries : e = <<w, i>>
    BY <1>1 DEF Entries
  <1>3. Waves[w].entries \in Seq(EntryType)
    BY ConstantsAssumption DEF WaveIndex
  <1> QED BY <1>2, <1>3 DEF EntryOf

\* The aliens spawned at once and those spawned later make up the entry.
LEMMA SpawnSplit ==
    ASSUME NEW e \in AllEntries
    PROVE  /\ SpawnNow(e) \subseteq AliensOf(e)
           /\ DOMAIN SpawnLater(e) = AliensOf(e) \ SpawnNow(e)
  BY DEF SpawnNow, SpawnLater

\* Spawns spread over a duration get a delay: at least two aliens share it.
LEMMA LaterType ==
    ASSUME NEW e \in AllEntries
    PROVE  SpawnLater(e) \in [DOMAIN SpawnLater(e) -> Nat]
  <1> SUFFICES ASSUME NEW a \in AliensOf(e) \ SpawnNow(e)
               PROVE  LaterDue(e, a) \in Nat
    BY DEF SpawnLater
  <1>1. PICK k \in 1..EntryOf(e).quantity : a = <<e[1], e[2], k>>
    BY DEF AliensOf
  <1>2. EntryOf(e).quantity \in Nat /\ EntryOf(e).duration \in Nat
    BY EntryData DEF EntryType
  <1>3. a[3] = k /\ k # 1
    BY <1>1 DEF SpawnNow
  <1> DEFINE d == EntryOf(e).duration
             q == EntryOf(e).quantity
  <1>4. q - 1 \in Nat /\ q - 1 > 0 /\ k - 1 \in Nat
    BY <1>2, <1>3
  <1>5. d * (k - 1) \in Nat
    BY <1>2, <1>4
  <1>6. ASSUME NEW x \in Nat, NEW y \in Nat, y > 0 PROVE x \div y \in Nat
    BY <1>6
  <1> QED BY <1>3, <1>4, <1>5, <1>6 DEF LaterDue

-----------------------------------------------------------------------------
(* The effect of SpawnAliens.                                               *)

\* The wanted aliens end up alive or waiting for another try, each in one place.
LEMMA SpawnEffect ==
    ASSUME TypeOK, NEW wanted \in SUBSET AllAliens,
           NEW kept, kept \in [DOMAIN kept -> Nat], DOMAIN kept \subseteq AllAliens,
           SpawnAliens(wanted, kept)
    PROVE  /\ DOMAIN spawnEvents' \subseteq AllAliens
           /\ spawnEvents' \in [DOMAIN spawnEvents' -> Nat]
           /\ alive' \subseteq AllAliens
           /\ failures' \in 0..MaxFailures
           /\ alive' \cup DOMAIN spawnEvents' = alive \cup DOMAIN kept \cup wanted
           /\ (alive \cap DOMAIN kept = {} /\ alive \cap wanted = {} /\ wanted \cap DOMAIN kept = {})
                => alive' \cap DOMAIN spawnEvents' = {}
  <1>1. PICK spawned \in SUBSET wanted :
            /\ failures + Cardinality(wanted \ spawned) <= MaxFailures
            /\ failures' = failures + Cardinality(wanted \ spawned)
            /\ alive' = alive \cup spawned
            /\ spawnEvents' = [a \in DOMAIN kept \cup (wanted \ spawned) |->
                                  IF a \in wanted \ spawned THEN RetryDelay ELSE kept[a]]
    BY DEF SpawnAliens
  <1>2. DOMAIN spawnEvents' = DOMAIN kept \cup (wanted \ spawned)
    BY <1>1
  <1>3. RetryDelay \in Nat /\ MaxFailures \in Nat
    BY ConstantsAssumption
  <1>4. Cardinality(wanted \ spawned) \in Nat
    <2>1. IsFiniteSet(wanted \ spawned)
      BY AliensAssumption, FS_Subset
    <2> QED BY <2>1, FS_CardinalityType
  <1>5. failures' \in 0..MaxFailures
    BY <1>1, <1>3, <1>4 DEF TypeOK
  <1>6. spawnEvents' \in [DOMAIN spawnEvents' -> Nat]
    BY <1>1, <1>2, <1>3
  <1>7. alive \subseteq AllAliens
    BY DEF TypeOK
  <1> QED BY <1>1, <1>2, <1>5, <1>6, <1>7

\* Both ways ProcessEvent spawns: the types it keeps, and the aliens that are
\* alive or waiting afterwards are those of before.
LEMMA EntryEffect ==
    ASSUME TypeOK, NEW e \in AllEntries, StartWaveEntry(e)
    PROVE  /\ DOMAIN spawnEvents' \subseteq AllAliens
           /\ spawnEvents' \in [DOMAIN spawnEvents' -> Nat]
           /\ alive' \subseteq AllAliens
           /\ failures' \in 0..MaxFailures
           /\ entryEvents' = Restrict(entryEvents, DOMAIN entryEvents \ {e})
           /\ e \in DOMAIN entryEvents
           /\ alive' \cup DOMAIN spawnEvents' \subseteq alive \cup DOMAIN spawnEvents \cup AliensOf(e)
           /\ (alive \cap DOMAIN spawnEvents = {} /\ AliensOf(e) \cap (alive \cup DOMAIN spawnEvents) = {})
                => alive' \cap DOMAIN spawnEvents' = {}
  <1>1. CASE UNCHANGED <<spawnEvents, alive, failures>>
    BY <1>1 DEF TypeOK, StartWaveEntry
  <1>2. CASE SpawnAliens(SpawnNow(e), Join(spawnEvents, SpawnLater(e)))
    <2> DEFINE kept == Join(spawnEvents, SpawnLater(e))
    <2>1. DOMAIN kept = DOMAIN spawnEvents \cup (AliensOf(e) \ SpawnNow(e))
      BY SpawnSplit DEF Join
    <2>2. SpawnNow(e) \in SUBSET AllAliens /\ DOMAIN kept \subseteq AllAliens
      BY <2>1, SpawnSplit, EntryAliens DEF TypeOK
    <2>3. kept \in [DOMAIN kept -> Nat]
      BY LaterType DEF Join, TypeOK
    <2> HIDE DEF kept
    <2>4. SpawnAliens(SpawnNow(e), kept)
      BY <1>2 DEF kept
    <2>5. SpawnNow(e) \subseteq AliensOf(e)
      BY SpawnSplit
    <2>6. /\ DOMAIN spawnEvents' \subseteq AllAliens
          /\ spawnEvents' \in [DOMAIN spawnEvents' -> Nat]
          /\ alive' \subseteq AllAliens
          /\ failures' \in 0..MaxFailures
          /\ alive' \cup DOMAIN spawnEvents' = alive \cup DOMAIN kept \cup SpawnNow(e)
          /\ (alive \cap DOMAIN kept = {} /\ alive \cap SpawnNow(e) = {}
                 /\ SpawnNow(e) \cap DOMAIN kept = {})
               => alive' \cap DOMAIN spawnEvents' = {}
      BY <2>2, <2>3, <2>4, SpawnEffect
    <2>7. entryEvents' = Restrict(entryEvents, DOMAIN entryEvents \ {e}) /\ e \in DOMAIN entryEvents
      BY DEF StartWaveEntry
    <2>8. alive' \cup DOMAIN spawnEvents' \subseteq alive \cup DOMAIN spawnEvents \cup AliensOf(e)
      BY <2>1, <2>5, <2>6
    <2>9. (alive \cap DOMAIN spawnEvents = {} /\ AliensOf(e) \cap (alive \cup DOMAIN spawnEvents) = {})
            => alive' \cap DOMAIN spawnEvents' = {}
      BY <2>1, <2>5, <2>6
    <2> QED BY <2>6, <2>7, <2>8, <2>9
  <1> QED BY <1>1, <1>2 DEF StartWaveEntry

\* A single spawn: the alien it was posted for ends up alive or waiting again.
LEMMA SingleEffect ==
    ASSUME TypeOK, NEW a \in AllAliens, SingleSpawn(a)
    PROVE  /\ DOMAIN spawnEvents' \subseteq AllAliens
           /\ spawnEvents' \in [DOMAIN spawnEvents' -> Nat]
           /\ alive' \subseteq AllAliens
           /\ failures' \in 0..MaxFailures
           /\ alive' \cup DOMAIN spawnEvents' = alive \cup DOMAIN spawnEvents
           /\ alive \cap DOMAIN spawnEvents = {} => alive' \cap DOMAIN spawnEvents' = {}
  <1> DEFINE kept == Restrict(spawnEvents, DOMAIN spawnEvents \ {a})
  <1>1. DOMAIN kept = DOMAIN spawnEvents \ {a} /\ a \in DOMAIN spawnEvents
    BY DEF Restrict, SingleSpawn
  <1>2. kept \in [DOMAIN kept -> Nat] /\ DOMAIN kept \subseteq AllAliens
    BY <1>1 DEF Restrict, TypeOK
  <1> HIDE DEF kept
  <1>3. SpawnAliens({a}, kept)
    BY DEF kept, SingleSpawn
  <1>4. {a} \in SUBSET AllAliens
    OBVIOUS
  <1>5. /\ DOMAIN spawnEvents' \subseteq AllAliens
        /\ spawnEvents' \in [DOMAIN spawnEvents' -> Nat]
        /\ alive' \subseteq AllAliens
        /\ failures' \in 0..MaxFailures
        /\ alive' \cup DOMAIN spawnEvents' = alive \cup DOMAIN kept \cup {a}
        /\ (alive \cap DOMAIN kept = {} /\ alive \cap {a} = {} /\ {a} \cap DOMAIN kept = {})
             => alive' \cap DOMAIN spawnEvents' = {}
    BY <1>2, <1>3, <1>4, SpawnEffect
  <1> QED BY <1>1, <1>5

-----------------------------------------------------------------------------
(* Type correctness.                                                        *)

\* The entity's constructor sets every field to a value of its type.
LEMMA InitType == Init => TypeOK
  <1>1. DOMAIN NoEvents = {} /\ NoEvents \in [{} -> Nat]
    BY DEF NoEvents
  <1>2. MaxFailures \in Nat /\ MaxConsoleStarts \in Nat
    BY ConstantsAssumption
  <1> SUFFICES ASSUME Init PROVE TypeOK
    OBVIOUS
  <1>3. /\ DOMAIN entryEvents = {} /\ entryEvents \in [DOMAIN entryEvents -> Nat]
        /\ DOMAIN spawnEvents = {} /\ spawnEvents \in [DOMAIN spawnEvents -> Nat]
    BY <1>1 DEF Init
  <1>4. stateEvents \in Seq([new : States, due : Nat])
    BY DEF Init
  <1>5. failures \in 0..MaxFailures /\ consoleStarts \in 0..MaxConsoleStarts
    BY <1>2 DEF Init
  <1>6. resurrecting \in BOOLEAN /\ thinking \in BOOLEAN /\ started \in BOOLEAN
    BY DEF Init
  <1>7. /\ holdoutState \in States /\ currentWave \in Int /\ aliensKilled \in Nat
        /\ unlockedResupply \in Nat /\ alive \subseteq AllAliens /\ strays \in Nat
        /\ dead \subseteq Marines
    BY DEF Init, States
  <1>8. DOMAIN entryEvents \subseteq AllEntries /\ DOMAIN spawnEvents \subseteq AllAliens
    BY <1>3
  <1> QED BY <1>3, <1>4, <1>5, <1>6, <1>7, <1>8 DEF TypeOK

\* Appending a state change to a vector of state changes.
LEMMA AddType ==
    ASSUME NEW rest \in Seq([new : States, due : Nat]), NEW s \in States, NEW d \in Nat,
           AddStateEvent(rest, s, d)
    PROVE  /\ stateEvents' \in Seq([new : States, due : Nat])
           /\ Len(stateEvents') = Len(rest) + 1
           /\ stateEvents'[Len(rest) + 1].new = s
           /\ rest = <<>> => stateEvents'[1].new = s
  BY DEF AddStateEvent, StateEvent

\* StartWave, from a state change or from the console.
LEMMA StartWaveType ==
    ASSUME TypeOK, NEW n \in Int, StartWave(n)
    PROVE  /\ currentWave' \in Int /\ aliensKilled' \in Nat /\ resurrecting' \in BOOLEAN
           /\ stateEvents' \in Seq([new : States, due : Nat])
           /\ DOMAIN entryEvents' \subseteq AllEntries /\ entryEvents' \in [DOMAIN entryEvents' -> Nat]
           /\ DOMAIN spawnEvents' \subseteq AllAliens /\ spawnEvents' \in [DOMAIN spawnEvents' -> Nat]
           /\ alive' \subseteq AllAliens /\ strays' \in Nat
  <1>1. stateEvents' = <<>> /\ spawnEvents' = NoEvents /\ resurrecting' = FALSE
    BY DEF StartWave
  <1>2. DOMAIN spawnEvents' = {} /\ spawnEvents' \in [DOMAIN spawnEvents' -> Nat]
    BY <1>1 DEF NoEvents
  <1>6. resurrecting' \in BOOLEAN
    BY <1>1
  <1>7. stateEvents' \in Seq([new : States, due : Nat])
    BY <1>1
  <1>5. resurrecting' \in BOOLEAN /\ stateEvents' \in Seq([new : States, due : Nat])
    BY <1>6, <1>7
  <1>3. CASE n \notin WaveIndex
    <2>1. entryEvents' = NoEvents /\ UNCHANGED <<currentWave, aliensKilled, alive, strays>>
      BY <1>3 DEF StartWave
    <2>2. DOMAIN entryEvents' = {} /\ entryEvents' \in [DOMAIN entryEvents' -> Nat]
      BY <2>1 DEF NoEvents
    <2> QED BY <1>2, <1>5, <2>1, <2>2 DEF TypeOK
  <1>4. CASE n \in WaveIndex
    <2>1. entryEvents' = [e \in Entries(n) |-> EntryOf(e).delay]
      BY <1>4 DEF StartWave
    <2>2. DOMAIN entryEvents' = Entries(n)
      BY <2>1
    <2>3. \A e \in Entries(n) : e \in AllEntries /\ EntryOf(e).delay \in Nat
      BY <1>4, AliensOfType, EntryData DEF EntryType
    <2>4. Cardinality({a \in alive : EntryOf(a).counted}) \in Nat
      <3>1. IsFiniteSet({a \in alive : EntryOf(a).counted})
        BY AliensAssumption, FS_Subset DEF TypeOK
      <3> QED BY <3>1, FS_CardinalityType
    <2>5. strays' \in Nat
      BY <1>4, <2>4 DEF StartWave, TypeOK
    <2>6. entryEvents' \in [DOMAIN entryEvents' -> Nat]
      BY <2>1, <2>2, <2>3
    <2>7. currentWave' = n /\ aliensKilled' = 0 /\ alive' = {}
      BY <1>4 DEF StartWave
    <2>8. currentWave' \in Int /\ aliensKilled' \in Nat /\ alive' \subseteq AllAliens
      BY <2>7
    <2>9. DOMAIN entryEvents' \subseteq AllEntries
      BY <2>2, <2>3
    <2> QED BY <1>2, <1>5, <2>5, <2>6, <2>8, <2>9
  <1> QED BY <1>3, <1>4

\* Entering each state, given what is left of the vector.
LEMMA ChangeType ==
    ASSUME TypeOK, NEW new \in States, NEW rest \in Seq([new : States, due : Nat]),
           ChangeHoldoutState(new, rest)
    PROVE  /\ holdoutState' \in States
           /\ currentWave' \in Int /\ aliensKilled' \in Nat /\ unlockedResupply' \in Nat
           /\ resurrecting' \in BOOLEAN
           /\ stateEvents' \in Seq([new : States, due : Nat])
           /\ DOMAIN entryEvents' \subseteq AllEntries /\ entryEvents' \in [DOMAIN entryEvents' -> Nat]
           /\ DOMAIN spawnEvents' \subseteq AllAliens /\ spawnEvents' \in [DOMAIN spawnEvents' -> Nat]
           /\ alive' \subseteq AllAliens /\ strays' \in Nat
  <1>1. /\ AnnounceTime \in Nat /\ ScoreTime \in Nat /\ ResupplyTime \in Nat
    BY ConstantsAssumption
  <1>2. AfterScore \in States
    BY DEF AfterScore, States
  <1>3. CASE EnterAnnounce(rest)
    <2>1. stateEvents' \in Seq([new : States, due : Nat])
      BY <1>1, <1>3, AddType DEF EnterAnnounce, States
    <2>2. resurrecting' \in BOOLEAN
      BY <1>3 DEF EnterAnnounce
    <2> QED BY <1>3, <2>1, <2>2 DEF EnterAnnounce, TypeOK, States
  <1>4. CASE EnterWave
    <2>1. StartWave(currentWave) /\ currentWave \in Int
      BY <1>4 DEF EnterWave, TypeOK
    <2>2. holdoutState' \in States /\ unlockedResupply' \in Nat
      BY <1>4 DEF EnterWave, TypeOK, States
    <2> QED BY <2>1, <2>2, StartWaveType
  <1>5. CASE EnterScore(rest)
    <2>1. stateEvents' \in Seq([new : States, due : Nat])
      BY <1>1, <1>2, <1>5, AddType DEF EnterScore
    <2>2. resurrecting' \in BOOLEAN
      BY <1>5 DEF EnterScore
    <2> QED BY <1>5, <2>1, <2>2 DEF EnterScore, TypeOK, States
  <1>6. CASE EnterResupply(rest)
    <2>1. stateEvents' \in Seq([new : States, due : Nat])
      BY <1>1, <1>6, AddType DEF EnterResupply, States
    <2>2. unlockedResupply' \in Nat
      BY <1>6 DEF EnterResupply, TypeOK
    <2> QED BY <1>6, <2>1, <2>2 DEF EnterResupply, TypeOK, States
  <1>7. CASE EnterComplete(rest)
    BY <1>7 DEF EnterComplete, TypeOK, States
  <1> QED BY <1>3, <1>4, <1>5, <1>6, <1>7 DEF ChangeHoldoutState

\* No operation, and no console command, gives a field a value outside its type.
LEMMA StepType == TypeOK /\ [Next]_vars => TypeOK'
  <1> SUFFICES ASSUME TypeOK, [Next]_vars PROVE TypeOK'
    OBVIOUS
  <1>1. ASSUME ProcessEvent PROVE TypeOK'
    <2>1. thinking' \in BOOLEAN
      BY <1>1 DEF ProcessEvent
    <2>2. started' \in BOOLEAN /\ dead' \subseteq Marines /\ consoleStarts' \in 0..MaxConsoleStarts
      BY <1>1 DEF ProcessEvent, TypeOK
    <2>3. ASSUME NEW e \in AllEntries, StartWaveEntry(e), UNCHANGED strays PROVE TypeOK'
      <3>1. UNCHANGED <<holdoutState, currentWave, aliensKilled, unlockedResupply,
                        resurrecting, stateEvents>>
        BY <2>3 DEF StartWaveEntry
      <3>2. DOMAIN entryEvents' \subseteq AllEntries /\ entryEvents' \in [DOMAIN entryEvents' -> Nat]
        BY <2>3, EntryEffect DEF Restrict, TypeOK
      <3>3. /\ DOMAIN spawnEvents' \subseteq AllAliens
            /\ spawnEvents' \in [DOMAIN spawnEvents' -> Nat]
            /\ alive' \subseteq AllAliens
            /\ failures' \in 0..MaxFailures
        BY <2>3, EntryEffect
      <3> QED BY <2>1, <2>2, <2>3, <3>1, <3>2, <3>3 DEF TypeOK
    <2>4. ASSUME NEW a \in AllAliens, SingleSpawn(a), UNCHANGED strays PROVE TypeOK'
      <3>1. UNCHANGED <<holdoutState, currentWave, aliensKilled, unlockedResupply,
                        resurrecting, stateEvents, entryEvents>>
        BY <2>4 DEF SingleSpawn
      <3>2. /\ DOMAIN spawnEvents' \subseteq AllAliens
            /\ spawnEvents' \in [DOMAIN spawnEvents' -> Nat]
            /\ alive' \subseteq AllAliens
            /\ failures' \in 0..MaxFailures
        BY <2>4, SingleEffect
      <3> QED BY <2>1, <2>2, <2>4, <3>1, <3>2 DEF TypeOK
    <2>5. ASSUME NEW i \in DOMAIN stateEvents, StateChange(i) PROVE TypeOK'
      <3>0. stateEvents \in Seq([new : States, due : Nat])
        BY DEF TypeOK
      <3>1. stateEvents[i].new \in States
        <4>1. stateEvents[i] \in [new : States, due : Nat]
          BY <3>0, ElementType
        <4> QED BY <4>1
      <3>2. RemoveAt(stateEvents, i) \in Seq([new : States, due : Nat])
        BY RemoveType DEF TypeOK
      <3>3. ChangeHoldoutState(stateEvents[i].new, RemoveAt(stateEvents, i)) /\ UNCHANGED failures
        BY <2>5 DEF StateChange
      <3> HIDE DEF ChangeHoldoutState
      <3>4. /\ holdoutState' \in States
            /\ currentWave' \in Int /\ aliensKilled' \in Nat /\ unlockedResupply' \in Nat
            /\ resurrecting' \in BOOLEAN
            /\ stateEvents' \in Seq([new : States, due : Nat])
            /\ DOMAIN entryEvents' \subseteq AllEntries /\ entryEvents' \in [DOMAIN entryEvents' -> Nat]
            /\ DOMAIN spawnEvents' \subseteq AllAliens /\ spawnEvents' \in [DOMAIN spawnEvents' -> Nat]
            /\ alive' \subseteq AllAliens /\ strays' \in Nat
        BY <3>1, <3>2, <3>3, ChangeType
      <3> QED BY <2>1, <2>2, <3>3, <3>4 DEF TypeOK
    <2> QED BY <1>1, <2>3, <2>4, <2>5 DEF ProcessEvent
  <1>2. ASSUME FinishThink PROVE TypeOK'
    <2>1. thinking' \in BOOLEAN
      BY <1>2 DEF FinishThink
    <2>2. dead' \subseteq Marines
      BY <1>2 DEF FinishThink, ResurrectDeadMarines, TypeOK
    <2> QED BY <1>2, <2>1, <2>2 DEF FinishThink, events, budget, TypeOK
  <1>3. ASSUME Tick PROVE TypeOK'
    <2>1. stateEvents' \in Seq([new : States, due : Nat])
      <3>1. stateEvents \in Seq([new : States, due : Nat])
        BY DEF TypeOK
      <3>2. DOMAIN stateEvents = 1..Len(stateEvents) /\ Len(stateEvents) \in Nat
        BY <3>1
      <3>3. \A i \in DOMAIN stateEvents :
                [stateEvents[i] EXCEPT !.due = @ - 1] \in [new : States, due : Nat]
        <4> TAKE i \in DOMAIN stateEvents
        <4>1. stateEvents[i] \in [new : States, due : Nat]
          BY <3>1, ElementType
        <4>2. stateEvents[i].due > 0
          BY <1>3 DEF Tick, NothingDue
        <4> QED BY <4>1, <4>2
      <3>4. stateEvents' = [i \in 1..Len(stateEvents) |-> [stateEvents[i] EXCEPT !.due = @ - 1]]
        BY <1>3, <3>2 DEF Tick
      <3> QED BY <3>2, <3>3, <3>4
    <2>2. DOMAIN entryEvents' \subseteq AllEntries /\ entryEvents' \in [DOMAIN entryEvents' -> Nat]
      BY <1>3 DEF Tick, NothingDue, TypeOK
    <2>3. DOMAIN spawnEvents' \subseteq AllAliens /\ spawnEvents' \in [DOMAIN spawnEvents' -> Nat]
      BY <1>3 DEF Tick, NothingDue, TypeOK
    <2> QED BY <1>3, <2>1, <2>2, <2>3 DEF Tick, world, budget, TypeOK
  <1>4. ASSUME OnMissionStart PROVE TypeOK'
    <2>1. stateEvents' \in Seq([new : States, due : Nat])
      BY <1>4, AddType, ConstantsAssumption DEF OnMissionStart, TypeOK, States
    <2>2. started' \in BOOLEAN
      BY <1>4 DEF OnMissionStart
    <2> QED BY <1>4, <2>1, <2>2 DEF OnMissionStart, world, budget, TypeOK
  <1>5. ASSUME KillAlien PROVE TypeOK'
    <2>1. OnAlienKilled => aliensKilled' \in Nat /\ stateEvents' \in Seq([new : States, due : Nat])
      <3>1. KillDelay \in Nat /\ "SHOWING_WAVE_SCORE" \in States
        BY ConstantsAssumption DEF States
      <3>2. SUFFICES ASSUME OnAlienKilled
                     PROVE  aliensKilled' \in Nat /\ stateEvents' \in Seq([new : States, due : Nat])
        OBVIOUS
      <3>3. stateEvents \in Seq([new : States, due : Nat]) /\ aliensKilled' \in Nat
        BY <3>2 DEF OnAlienKilled, TypeOK
      <3>4. UNCHANGED stateEvents \/ AddStateEvent(stateEvents, "SHOWING_WAVE_SCORE", KillDelay)
        BY <3>2 DEF OnAlienKilled
      <3> QED BY <3>1, <3>3, <3>4, AddType
    <2>2. aliensKilled' \in Nat /\ stateEvents' \in Seq([new : States, due : Nat])
      BY <1>5, <2>1 DEF KillAlien, TypeOK
    <2>3. alive' \subseteq AllAliens /\ strays' \in Nat
      BY <1>5 DEF KillAlien, TypeOK
    <2> QED BY <1>5, <2>2, <2>3 DEF KillAlien, budget, TypeOK
  <1>6. ASSUME PruneAlien PROVE TypeOK'
    BY <1>6 DEF PruneAlien, events, budget, TypeOK
  <1>7. ASSUME MarineDies PROVE TypeOK'
    BY <1>7 DEF MarineDies, events, budget, TypeOK
  <1>8. ASSUME InputUnlockResupply PROVE TypeOK'
    BY <1>8 DEF InputUnlockResupply, events, world, budget, TypeOK
  <1>9. ASSUME ConsoleStartWave PROVE TypeOK'
    <2>1. PICK n \in -1..NumWaves : StartWave(n)
      BY <1>9 DEF ConsoleStartWave
    <2>2. n \in Int
      BY ConstantsAssumption
    <2>3. /\ currentWave' \in Int /\ aliensKilled' \in Nat /\ resurrecting' \in BOOLEAN
          /\ stateEvents' \in Seq([new : States, due : Nat])
          /\ DOMAIN entryEvents' \subseteq AllEntries /\ entryEvents' \in [DOMAIN entryEvents' -> Nat]
          /\ DOMAIN spawnEvents' \subseteq AllAliens /\ spawnEvents' \in [DOMAIN spawnEvents' -> Nat]
          /\ alive' \subseteq AllAliens /\ strays' \in Nat
      BY <2>1, <2>2, StartWaveType
    <2>4. consoleStarts' \in 0..MaxConsoleStarts
      <3>1. MaxConsoleStarts \in Nat
        BY ConstantsAssumption
      <3> QED BY <1>9, <3>1 DEF ConsoleStartWave, TypeOK
    <2>5. UNCHANGED <<holdoutState, unlockedResupply, thinking, started, dead, failures>>
      BY <1>9 DEF ConsoleStartWave
    <2> QED BY <2>3, <2>4, <2>5 DEF TypeOK
  <1>10. ASSUME UNCHANGED vars PROVE TypeOK'
    BY <1>10 DEF vars, events, world, budget, TypeOK
  <1> QED BY <1>1, <1>2, <1>3, <1>4, <1>5, <1>6, <1>7, <1>8, <1>9, <1>10 DEF Next, HoldoutThink

\* In every run of the entity, with the console or without, the wave counters,
\* the event vector and the aliens keep the shape the code gives them.
THEOREM TypeCorrect == Spec => []TypeOK
  <1> QED BY InitType, StepType, PTL DEF Spec

-----------------------------------------------------------------------------
(* The inductive invariant of a mission without the console command.        *)

Pending(new) == Len(stateEvents) = 1 /\ stateEvents[1].new \in new

\* No alien is in two places.
Apart ==
    /\ alive \cap DOMAIN spawnEvents = {}
    /\ \A e \in DOMAIN entryEvents : AliensOf(e) \cap (alive \cup DOMAIN spawnEvents) = {}

\* What each state leaves in the vector, and what it says about the wave.
PhaseInv ==
    /\ holdoutState = "BRIEFING" =>
          /\ currentWave = -1
          /\ started => Pending({"ANNOUNCE_NEW_WAVE"})
          /\ ~started => stateEvents = <<>>
    /\ holdoutState # "BRIEFING" => started /\ currentWave \in WaveIndex
    /\ holdoutState = "ANNOUNCE_NEW_WAVE" => Pending({"WAVE_IN_PROGRESS"})
    /\ holdoutState = "WAVE_IN_PROGRESS" =>
          stateEvents = <<>> \/ (Pending({"SHOWING_WAVE_SCORE"}) /\ Outstanding = {})
    /\ holdoutState = "SHOWING_WAVE_SCORE" =>
          /\ Pending({"ANNOUNCE_NEW_WAVE", "RESUPPLY", "COMPLETE"})
          /\ stateEvents[1].new = "COMPLETE" <=> currentWave = NumWaves - 1
          /\ stateEvents[1].new = "RESUPPLY" =>
                unlockedResupply > 0 \/ Waves[currentWave].resupply
    /\ holdoutState = "RESUPPLY" =>
          Pending({"ANNOUNCE_NEW_WAVE"}) /\ currentWave < NumWaves - 1
    /\ holdoutState = "COMPLETE" => stateEvents = <<>> /\ currentWave = NumWaves - 1

WaveInv ==
    /\ strays = 0
    /\ holdoutState # "WAVE_IN_PROGRESS" => Outstanding = {}
    /\ holdoutState = "WAVE_IN_PROGRESS" => Outstanding \subseteq WaveAliens(currentWave)
    /\ WithinTotal

HInv == TypeOK /\ Apart /\ PhaseInv /\ WaveInv

\* What is outstanding is a finite set of the mission's aliens.
LEMMA OutstandingFinite ==
    ASSUME TypeOK
    PROVE  /\ Outstanding \subseteq AllAliens
           /\ IsFiniteSet(Outstanding) /\ Cardinality(Outstanding) \in Nat
  <1>1. Outstanding \subseteq AllAliens
    BY EntryAliens DEF Outstanding, TypeOK
  <1> QED BY <1>1, AliensAssumption, FS_Subset, FS_CardinalityType

\* A wave's total is a natural number: m_nTotalAliens is a sum of quantities.
LEMMA TotalNat ==
    ASSUME NEW w \in WaveIndex
    PROVE  IsFiniteSet(WaveAliens(w)) /\ GetTotalAliens(w) \in Nat
  <1>1. WaveAliens(w) \subseteq AllAliens
    BY DEF AllAliens
  <1> QED BY <1>1, AliensAssumption, FS_Subset, FS_CardinalityType DEF GetTotalAliens

\* A step that neither changes the state nor kills may lose aliens, not add any.
LEMMA WaveKept ==
    ASSUME HInv, holdoutState' = holdoutState, currentWave' = currentWave,
           aliensKilled' = aliensKilled, strays' = strays, Outstanding' \subseteq Outstanding
    PROVE  WaveInv'
  <1>1. strays' = 0
    BY DEF HInv, WaveInv
  <1>2. holdoutState' # "WAVE_IN_PROGRESS" => Outstanding' = {}
    BY DEF HInv, WaveInv
  <1>3. WaveAliens(currentWave)' = WaveAliens(currentWave)
        /\ GetTotalAliens(currentWave)' = GetTotalAliens(currentWave)
    BY DEF WaveAliens, Entries, AliensOf, EntryOf, GetTotalAliens
  <1>4. holdoutState' = "WAVE_IN_PROGRESS" => Outstanding' \subseteq WaveAliens(currentWave)'
    BY <1>3 DEF HInv, WaveInv
  <1>5. WithinTotal'
    <2>1. Cardinality(Outstanding') <= Cardinality(Outstanding) /\ Cardinality(Outstanding') \in Nat
          /\ Cardinality(Outstanding) \in Nat
      BY OutstandingFinite, FS_Subset, FS_CardinalityType DEF HInv
    <2>2. SUFFICES ASSUME holdoutState = "WAVE_IN_PROGRESS"
                   PROVE  aliensKilled + Cardinality(Outstanding') <= GetTotalAliens(currentWave)
      BY <1>3 DEF WithinTotal
    <2>3. aliensKilled + Cardinality(Outstanding) <= GetTotalAliens(currentWave)
      BY <2>2 DEF HInv, WaveInv, WithinTotal
    <2>4. GetTotalAliens(currentWave) \in Nat
      BY <2>2, TotalNat DEF HInv, PhaseInv
    <2> QED BY <2>1, <2>3, <2>4 DEF HInv, TypeOK
  <1> QED BY <1>1, <1>2, <1>4, <1>5 DEF WaveInv

\* Nor does it change what the vector is waiting for.
LEMMA PhaseKept ==
    ASSUME HInv, holdoutState' = holdoutState, currentWave' = currentWave, started' = started,
           Outstanding' \subseteq Outstanding,
           unlockedResupply' >= unlockedResupply, unlockedResupply' \in Nat,
           stateEvents = <<>> => stateEvents' = <<>>,
           Len(stateEvents) = 1 => Len(stateEvents') = 1 /\ stateEvents'[1].new = stateEvents[1].new
    PROVE  PhaseInv'
  <1>1. \A S : Pending(S) => Pending(S)'
    BY DEF Pending
  <1>2. Outstanding = {} => Outstanding' = {}
    OBVIOUS
  <1>3. unlockedResupply > 0 => unlockedResupply' > 0
    BY DEF HInv, TypeOK
  <1>4. Waves[currentWave]' = Waves[currentWave]
    OBVIOUS
  <1> QED BY <1>1, <1>2, <1>3, <1>4 DEF HInv, PhaseInv, Pending

\* In each state the vector holds one state change or none.
LEMMA AtMostOne ==
    ASSUME HInv
    PROVE  (stateEvents = <<>> \/ Len(stateEvents) = 1) /\ Len(stateEvents) <= 1
  <1>1. holdoutState \in States
    BY DEF HInv, TypeOK
  <1>2. stateEvents = <<>> \/ Len(stateEvents) = 1
    BY <1>1, Zenon DEF HInv, PhaseInv, Pending, States
  <1> QED BY <1>2

\* The five changes of state, and what is known at each of them.
LEMMA Transition ==
    ASSUME HInv, NEW i \in DOMAIN stateEvents, StateChange(i)
    PROVE  \/ /\ holdoutState \in {"BRIEFING", "SHOWING_WAVE_SCORE", "RESUPPLY"}
              /\ currentWave + 1 \in WaveIndex
              /\ EnterAnnounce(<<>>)
           \/ holdoutState = "ANNOUNCE_NEW_WAVE" /\ currentWave \in WaveIndex /\ EnterWave
           \/ /\ holdoutState = "WAVE_IN_PROGRESS" /\ Outstanding = {} /\ currentWave \in WaveIndex
              /\ EnterScore(<<>>)
           \/ /\ holdoutState = "SHOWING_WAVE_SCORE" /\ currentWave \in WaveIndex
              /\ currentWave < NumWaves - 1
              /\ unlockedResupply > 0 \/ Waves[currentWave].resupply
              /\ EnterResupply(<<>>)
           \/ /\ holdoutState = "SHOWING_WAVE_SCORE" /\ currentWave = NumWaves - 1
              /\ EnterComplete(<<>>)
  <1> DEFINE new == stateEvents[1].new
  <1>1. stateEvents \in Seq([new : States, due : Nat]) /\ holdoutState \in States
    BY DEF HInv, TypeOK
  <1>2. stateEvents # <<>>
    BY <1>1
  <1>3. Len(stateEvents) <= 1
    BY AtMostOne
  <1>4. i = 1 /\ RemoveAt(stateEvents, i) = <<>>
    BY <1>1, <1>3, RemoveOnly
  <1>5. ChangeHoldoutState(new, <<>>)
    BY <1>4 DEF StateChange
  <1>6. NumWaves \in Nat \ {0}
    BY ConstantsAssumption
  <1> HIDE DEF new
  <1>7. CASE holdoutState = "BRIEFING"
    <2>1. new = "ANNOUNCE_NEW_WAVE" /\ currentWave = -1
      BY <1>2, <1>7 DEF HInv, PhaseInv, Pending, new
    <2> QED BY <1>5, <1>6, <1>7, <2>1 DEF ChangeHoldoutState, WaveIndex
  <1>8. CASE holdoutState = "ANNOUNCE_NEW_WAVE"
    <2>1. new = "WAVE_IN_PROGRESS" /\ currentWave \in WaveIndex
      BY <1>8 DEF HInv, PhaseInv, Pending, new
    <2> QED BY <1>5, <1>8, <2>1 DEF ChangeHoldoutState
  <1>9. CASE holdoutState = "WAVE_IN_PROGRESS"
    <2>1. new = "SHOWING_WAVE_SCORE" /\ Outstanding = {} /\ currentWave \in WaveIndex
      BY <1>2, <1>9 DEF HInv, PhaseInv, Pending, new
    <2> QED BY <1>5, <1>9, <2>1 DEF ChangeHoldoutState
  <1>10. CASE holdoutState = "SHOWING_WAVE_SCORE"
    <2>1. /\ new \in {"ANNOUNCE_NEW_WAVE", "RESUPPLY", "COMPLETE"}
          /\ new = "COMPLETE" <=> currentWave = NumWaves - 1
          /\ new = "RESUPPLY" => unlockedResupply > 0 \/ Waves[currentWave].resupply
          /\ currentWave \in WaveIndex
      BY <1>10 DEF HInv, PhaseInv, Pending, new
    <2>2. currentWave # NumWaves - 1 => currentWave + 1 \in WaveIndex /\ currentWave < NumWaves - 1
      BY <1>6, <2>1 DEF WaveIndex
    <2> QED BY <1>5, <1>10, <2>1, <2>2 DEF ChangeHoldoutState
  <1>11. CASE holdoutState = "RESUPPLY"
    <2>1. new = "ANNOUNCE_NEW_WAVE" /\ currentWave \in WaveIndex /\ currentWave < NumWaves - 1
      BY <1>11 DEF HInv, PhaseInv, Pending, new
    <2>2. currentWave + 1 \in WaveIndex
      BY <1>6, <2>1 DEF WaveIndex
    <2> QED BY <1>5, <1>11, <2>1, <2>2 DEF ChangeHoldoutState
  <1>12. CASE holdoutState = "COMPLETE"
    BY <1>2, <1>12 DEF HInv, PhaseInv
  <1> QED BY <1>1, <1>7, <1>8, <1>9, <1>10, <1>11, <1>12 DEF States

-----------------------------------------------------------------------------
(* The invariant is inductive.                                              *)

\* The invariant holds when the entity is constructed.
LEMMA HInit == Init => HInv
  <1> SUFFICES ASSUME Init PROVE HInv
    OBVIOUS
  <1>1. DOMAIN entryEvents = {} /\ DOMAIN spawnEvents = {} /\ alive = {}
    BY DEF Init, NoEvents
  <1>2. Outstanding = {}
    BY <1>1 DEF Outstanding
  <1>3. Apart
    BY <1>1 DEF Apart
  <1>4. PhaseInv
    BY DEF Init, PhaseInv
  <1>5. WaveInv
    BY <1>2 DEF Init, WaveInv, WithinTotal
  <1> QED BY InitType, <1>3, <1>4, <1>5 DEF HInv

\* Steps that handle a spawn keep the aliens apart and add none.
LEMMA EntryKept ==
    ASSUME HInv, NEW e \in AllEntries, StartWaveEntry(e)
    PROVE  Apart' /\ Outstanding' \subseteq Outstanding
  <1>1. /\ DOMAIN entryEvents' = DOMAIN entryEvents \ {e} /\ e \in DOMAIN entryEvents
        /\ alive' \cup DOMAIN spawnEvents' \subseteq alive \cup DOMAIN spawnEvents \cup AliensOf(e)
        /\ alive' \cap DOMAIN spawnEvents' = {}
    BY EntryEffect DEF HInv, Apart, Restrict
  <1>2. Outstanding' = alive' \cup DOMAIN spawnEvents' \cup UNION {AliensOf(f) : f \in DOMAIN entryEvents'}
    BY DEF Outstanding, AliensOf, EntryOf
  <1>3. Outstanding' \subseteq Outstanding
    BY <1>1, <1>2 DEF Outstanding
  <1>4. ASSUME NEW f \in DOMAIN entryEvents', NEW a \in AliensOf(f), a \in alive' \cup DOMAIN spawnEvents'
        PROVE  FALSE
    <2>1. f \in DOMAIN entryEvents /\ f # e /\ f \in AllEntries
      BY <1>1 DEF HInv, TypeOK
    <2>2. a \notin alive \cup DOMAIN spawnEvents
      BY <1>4, <2>1 DEF HInv, Apart
    <2>3. a \in AliensOf(e)
      BY <1>1, <1>4, <2>2
    <2> QED BY <1>4, <2>1, <2>3, EntriesDisjoint
  <1>5. \A f : AliensOf(f)' = AliensOf(f)
    BY DEF AliensOf, EntryOf
  <1> QED BY <1>1, <1>3, <1>4, <1>5 DEF Apart

\* A single spawn keeps every alien in one place and adds none.
LEMMA SingleKept ==
    ASSUME HInv, NEW a \in AllAliens, SingleSpawn(a)
    PROVE  Apart' /\ Outstanding' \subseteq Outstanding
  <1>1. /\ alive' \cup DOMAIN spawnEvents' = alive \cup DOMAIN spawnEvents
        /\ alive' \cap DOMAIN spawnEvents' = {}
        /\ entryEvents' = entryEvents
    BY SingleEffect DEF HInv, Apart, SingleSpawn
  <1>2. \A f : AliensOf(f)' = AliensOf(f)
    BY DEF AliensOf, EntryOf
  <1> QED BY <1>1, <1>2 DEF HInv, Apart, Outstanding

\* Aliens that die or are removed.
LEMMA AliveShrinks ==
    ASSUME HInv, alive' \subseteq alive, DOMAIN spawnEvents' = DOMAIN spawnEvents,
           DOMAIN entryEvents' = DOMAIN entryEvents
    PROVE  Apart' /\ Outstanding' \subseteq Outstanding
  <1>1. \A f : AliensOf(f)' = AliensOf(f)
    BY DEF AliensOf, EntryOf
  <1> QED BY <1>1 DEF HInv, Apart, Outstanding

\* The death of an alien that counts: the total is reached by the last one only.
LEMMA CountedKill ==
    ASSUME HInv, NEW a \in alive, alive' = alive \ {a}, OnAlienKilled,
           UNCHANGED <<holdoutState, currentWave, unlockedResupply, started, strays,
                       entryEvents, spawnEvents>>
    PROVE  PhaseInv' /\ WaveInv'
  <1>1. Apart' /\ Outstanding' \subseteq Outstanding
    BY AliveShrinks
  <1>2. a \in Outstanding /\ Outstanding' = Outstanding \ {a}
    <2>1. Outstanding' = alive' \cup DOMAIN spawnEvents \cup UNION {AliensOf(f) : f \in DOMAIN entryEvents}
      BY DEF Outstanding, AliensOf, EntryOf
    <2>2. a \notin DOMAIN spawnEvents /\ a \notin UNION {AliensOf(f) : f \in DOMAIN entryEvents}
      BY DEF HInv, Apart
    <2> QED BY <2>1, <2>2 DEF Outstanding
  <1>3. holdoutState = "WAVE_IN_PROGRESS" /\ currentWave \in WaveIndex /\ stateEvents = <<>>
    BY <1>2 DEF HInv, WaveInv, PhaseInv
  <1>4. aliensKilled \in Nat /\ GetTotalAliens(currentWave) \in Nat
    BY <1>3, TotalNat DEF HInv, TypeOK
  <1>5. IsFiniteSet(Outstanding) /\ Cardinality(Outstanding) \in Nat
    BY OutstandingFinite DEF HInv
  <1>6. Cardinality(Outstanding') = Cardinality(Outstanding) - 1 /\ IsFiniteSet(Outstanding')
    BY <1>2, <1>5, FS_RemoveElement
  <1>7. Cardinality(Outstanding') \in Nat
    BY <1>6, FS_CardinalityType
  <1>8. aliensKilled + Cardinality(Outstanding) <= GetTotalAliens(currentWave)
    BY <1>3 DEF HInv, WaveInv, WithinTotal
  <1>9. aliensKilled' = aliensKilled + 1
    BY DEF OnAlienKilled
  <1>10. GetTotalAliens(currentWave)' = GetTotalAliens(currentWave)
         /\ WaveAliens(currentWave)' = WaveAliens(currentWave)
    BY DEF GetTotalAliens, WaveAliens, Entries, AliensOf, EntryOf
  <1>11. WaveInv'
    <2>1. WithinTotal'
      BY <1>4, <1>5, <1>6, <1>8, <1>9, <1>10 DEF WithinTotal
    <2> QED BY <1>1, <1>3, <1>10, <2>1 DEF HInv, WaveInv
  <1>12. \/ aliensKilled' >= GetTotalAliens(currentWave)
              /\ AddStateEvent(stateEvents, "SHOWING_WAVE_SCORE", KillDelay)
         \/ UNCHANGED stateEvents
    BY <1>3 DEF OnAlienKilled
  <1>13. CASE /\ aliensKilled' >= GetTotalAliens(currentWave)
              /\ AddStateEvent(stateEvents, "SHOWING_WAVE_SCORE", KillDelay)
    <2>1. Cardinality(Outstanding') = 0
      BY <1>4, <1>5, <1>6, <1>7, <1>8, <1>9, <1>13
    <2>2. Outstanding' = {}
      BY <1>6, <2>1, FS_EmptySet
    <2>3. Len(stateEvents') = 1 /\ stateEvents'[1].new = "SHOWING_WAVE_SCORE"
      BY <1>3, <1>13 DEF AddStateEvent, StateEvent
    <2> QED BY <1>3, <1>11, <2>2, <2>3 DEF HInv, PhaseInv, Pending
  <1>14. CASE UNCHANGED stateEvents
    BY <1>3, <1>11, <1>14 DEF HInv, PhaseInv
  <1> QED BY <1>12, <1>13, <1>14

\* A wave that starts has all its aliens ahead of it, each in its own entry.
LEMMA WaveStarts ==
    ASSUME HInv, holdoutState = "ANNOUNCE_NEW_WAVE", currentWave \in WaveIndex, EnterWave, started' = started
    PROVE  Apart' /\ PhaseInv' /\ WaveInv'
  <1>1. Outstanding = {} /\ strays = 0
    BY DEF HInv, WaveInv
  <1>2. /\ stateEvents' = <<>> /\ DOMAIN spawnEvents' = {} /\ alive' = {}
        /\ currentWave' = currentWave /\ aliensKilled' = 0
        /\ DOMAIN entryEvents' = Entries(currentWave)
        /\ strays' = strays + Cardinality({a \in alive : EntryOf(a).counted})
        /\ holdoutState' = "WAVE_IN_PROGRESS"
    BY DEF EnterWave, StartWave, NoEvents
  <1>3. strays' = 0
    <2> DEFINE counted == {a \in alive : EntryOf(a).counted}
    <2>1. counted = {}
      BY <1>1 DEF Outstanding
    <2>2. strays' = strays + Cardinality(counted)
      BY <1>2
    <2> HIDE DEF counted
    <2>3. Cardinality(counted) = 0
      BY <2>1, FS_EmptySet
    <2> QED BY <1>1, <2>2, <2>3
  <1>4. \A f : AliensOf(f)' = AliensOf(f)
    BY DEF AliensOf, EntryOf
  <1>5. Outstanding' = WaveAliens(currentWave)
    BY <1>2, <1>4 DEF Outstanding, WaveAliens
  <1>6. WaveAliens(currentWave)' = WaveAliens(currentWave)
        /\ GetTotalAliens(currentWave)' = GetTotalAliens(currentWave)
    BY <1>2 DEF WaveAliens, Entries, AliensOf, EntryOf, GetTotalAliens
  <1>7. Apart'
    BY <1>2 DEF Apart
  <1>8. PhaseInv'
    BY <1>2 DEF HInv, PhaseInv
  <1>9. WithinTotal'
    BY <1>2, <1>5, <1>6, TotalNat DEF WithinTotal, GetTotalAliens
  <1> QED BY <1>2, <1>3, <1>5, <1>6, <1>7, <1>8, <1>9 DEF WaveInv

\* Every other change of state happens with nothing outstanding.
LEMMA QuietChange ==
    ASSUME HInv, Outstanding = {}, holdoutState' # "WAVE_IN_PROGRESS",
           UNCHANGED <<entryEvents, spawnEvents, alive, strays>>
    PROVE  Apart' /\ WaveInv'
  <1>1. \A f : AliensOf(f)' = AliensOf(f)
    BY DEF AliensOf, EntryOf
  <1>2. Outstanding' = {}
    BY <1>1 DEF Outstanding
  <1>3. Apart'
    BY <1>1 DEF HInv, Apart
  <1> QED BY <1>2, <1>3 DEF HInv, WaveInv, WithinTotal

\* Handling a state change re-establishes the invariant in the state entered.
LEMMA ChangeKept ==
    ASSUME HInv, NEW i \in DOMAIN stateEvents, StateChange(i), started' = started
    PROVE  Apart' /\ PhaseInv' /\ WaveInv'
  <1>0. NumWaves \in Nat \ {0} /\ currentWave \in Int
    BY ConstantsAssumption DEF HInv, TypeOK
  <1>1. CASE /\ holdoutState \in {"BRIEFING", "SHOWING_WAVE_SCORE", "RESUPPLY"}
             /\ currentWave + 1 \in WaveIndex
             /\ EnterAnnounce(<<>>)
    <2>1. Apart' /\ WaveInv'
      BY <1>1, QuietChange DEF EnterAnnounce, HInv, WaveInv
    <2>2. Pending({"WAVE_IN_PROGRESS"})'
      BY <1>1 DEF EnterAnnounce, AddStateEvent, StateEvent, Pending
    <2>3. started
      <3>1. stateEvents # <<>>
        BY DEF HInv, TypeOK
      <3> QED BY <3>1 DEF HInv, PhaseInv
    <2>4. holdoutState' = "ANNOUNCE_NEW_WAVE" /\ currentWave' \in WaveIndex
      BY <1>1 DEF EnterAnnounce
    <2> QED BY <2>1, <2>2, <2>3, <2>4 DEF PhaseInv
  <1>2. CASE holdoutState = "ANNOUNCE_NEW_WAVE" /\ currentWave \in WaveIndex /\ EnterWave
    BY <1>2, WaveStarts
  <1>3. CASE /\ holdoutState = "WAVE_IN_PROGRESS" /\ Outstanding = {} /\ currentWave \in WaveIndex
             /\ EnterScore(<<>>)
    <2>1. Apart' /\ WaveInv'
      BY <1>3, QuietChange DEF EnterScore
    <2>2. /\ Len(stateEvents') = 1 /\ stateEvents'[1].new = AfterScore
          /\ holdoutState' = "SHOWING_WAVE_SCORE"
          /\ UNCHANGED <<currentWave, unlockedResupply>>
      BY <1>3 DEF EnterScore, AddStateEvent, StateEvent
    <2>3. /\ AfterScore \in {"ANNOUNCE_NEW_WAVE", "RESUPPLY", "COMPLETE"}
          /\ AfterScore = "COMPLETE" <=> currentWave = NumWaves - 1
          /\ AfterScore = "RESUPPLY" => unlockedResupply > 0 \/ Waves[currentWave].resupply
      BY <1>0, <1>3 DEF AfterScore, WaveIndex
    <2>4. started
      BY <1>3 DEF HInv, PhaseInv
    <2> QED BY <1>3, <2>1, <2>2, <2>3, <2>4 DEF PhaseInv, Pending
  <1>4. CASE /\ holdoutState = "SHOWING_WAVE_SCORE" /\ currentWave \in WaveIndex
             /\ currentWave < NumWaves - 1
             /\ unlockedResupply > 0 \/ Waves[currentWave].resupply
             /\ EnterResupply(<<>>)
    <2>1. Apart' /\ WaveInv'
      BY <1>4, QuietChange DEF EnterResupply, HInv, WaveInv
    <2>2. /\ Len(stateEvents') = 1 /\ stateEvents'[1].new = "ANNOUNCE_NEW_WAVE"
          /\ holdoutState' = "RESUPPLY" /\ UNCHANGED currentWave
      BY <1>0, <1>4 DEF EnterResupply, AddStateEvent, StateEvent
    <2>3. started
      BY <1>4 DEF HInv, PhaseInv
    <2> QED BY <1>4, <2>1, <2>2, <2>3 DEF PhaseInv, Pending
  <1>5. CASE /\ holdoutState = "SHOWING_WAVE_SCORE" /\ currentWave = NumWaves - 1
             /\ EnterComplete(<<>>)
    <2>1. Apart' /\ WaveInv'
      BY <1>5, QuietChange DEF EnterComplete, HInv, WaveInv
    <2>2. stateEvents' = <<>> /\ holdoutState' = "COMPLETE" /\ UNCHANGED currentWave
      BY <1>5 DEF EnterComplete
    <2>3. started /\ currentWave \in WaveIndex
      BY <1>5 DEF HInv, PhaseInv
    <2> QED BY <1>5, <2>1, <2>2, <2>3 DEF PhaseInv
  <1> QED BY Transition, <1>1, <1>2, <1>3, <1>4, <1>5

\* Every step of the mission but a console start keeps the invariant.
LEMMA HStep ==
    HInv /\ [Next]_vars /\ ~ConsoleStartWave => HInv'
  <1> SUFFICES ASSUME HInv, [Next]_vars, ~ConsoleStartWave PROVE HInv'
    OBVIOUS
  <1>0. TypeOK'
    BY StepType DEF HInv
  <1> SUFFICES Apart' /\ PhaseInv' /\ WaveInv'
    BY <1>0 DEF HInv
  <1>a. unlockedResupply \in Nat /\ unlockedResupply >= unlockedResupply
        /\ aliensKilled \in Nat
    BY DEF HInv, TypeOK
  <1>1. ASSUME ProcessEvent PROVE Apart' /\ PhaseInv' /\ WaveInv'
    <2>1. started' = started
      BY <1>1 DEF ProcessEvent
    <2>2. ASSUME NEW e \in AllEntries, StartWaveEntry(e), UNCHANGED strays
          PROVE  Apart' /\ PhaseInv' /\ WaveInv'
      <3>1. UNCHANGED <<holdoutState, currentWave, aliensKilled, unlockedResupply, stateEvents>>
        BY <2>2 DEF StartWaveEntry
      <3> QED BY <1>a, <2>1, <2>2, <3>1, EntryKept, WaveKept, PhaseKept
    <2>3. ASSUME NEW a \in AllAliens, SingleSpawn(a), UNCHANGED strays
          PROVE  Apart' /\ PhaseInv' /\ WaveInv'
      <3>1. UNCHANGED <<holdoutState, currentWave, aliensKilled, unlockedResupply, stateEvents>>
        BY <2>3 DEF SingleSpawn
      <3> QED BY <1>a, <2>1, <2>3, <3>1, SingleKept, WaveKept, PhaseKept
    <2>4. ASSUME NEW i \in DOMAIN stateEvents, StateChange(i)
          PROVE  Apart' /\ PhaseInv' /\ WaveInv'
      BY <2>1, <2>4, ChangeKept
    <2> QED BY <1>1, <2>2, <2>3, <2>4 DEF ProcessEvent
  <1>2. ASSUME UNCHANGED <<holdoutState, currentWave, aliensKilled, stateEvents, entryEvents,
                           spawnEvents, started, alive, strays>>,
               unlockedResupply' >= unlockedResupply, unlockedResupply' \in Nat
        PROVE  Apart' /\ PhaseInv' /\ WaveInv'
    <2>1. Apart' /\ Outstanding' \subseteq Outstanding
      BY <1>2, AliveShrinks
    <2> QED BY <1>2, <2>1, WaveKept, PhaseKept
  <1>3. ASSUME FinishThink PROVE Apart' /\ PhaseInv' /\ WaveInv'
    BY <1>2, <1>3, <1>a DEF FinishThink, events
  <1>4. ASSUME Tick PROVE Apart' /\ PhaseInv' /\ WaveInv'
    <2>1. /\ DOMAIN entryEvents' = DOMAIN entryEvents /\ DOMAIN spawnEvents' = DOMAIN spawnEvents
          /\ UNCHANGED <<holdoutState, currentWave, aliensKilled, unlockedResupply, started, alive,
                         strays>>
      BY <1>4 DEF Tick, world
    <2>2. Apart' /\ Outstanding' \subseteq Outstanding
      BY <2>1, AliveShrinks
    <2>3. stateEvents = <<>> => stateEvents' = <<>>
      BY <1>4 DEF Tick
    <2>4. Len(stateEvents) = 1 => Len(stateEvents') = 1 /\ stateEvents'[1].new = stateEvents[1].new
      <3>1. stateEvents \in Seq([new : States, due : Nat])
        BY DEF HInv, TypeOK
      <3>2. SUFFICES ASSUME Len(stateEvents) = 1
                     PROVE  Len(stateEvents') = 1 /\ stateEvents'[1].new = stateEvents[1].new
        OBVIOUS
      <3>3. DOMAIN stateEvents = 1..1 /\ stateEvents[1] \in [new : States, due : Nat]
        <4>1. DOMAIN stateEvents = 1..1
          BY <3>1, <3>2
        <4>2. 1 \in DOMAIN stateEvents
          BY <4>1
        <4>3. stateEvents[1] \in [new : States, due : Nat]
          BY <3>1, <4>2, ElementType
        <4> QED BY <4>1, <4>3
      <3>4. stateEvents' = [j \in 1..1 |-> [stateEvents[j] EXCEPT !.due = @ - 1]]
        BY <1>4, <3>3 DEF Tick
      <3> QED BY <3>3, <3>4
    <2> QED BY <1>a, <2>1, <2>2, <2>3, <2>4, WaveKept, PhaseKept
  <1>5. ASSUME OnMissionStart PROVE Apart' /\ PhaseInv' /\ WaveInv'
    <2>1. holdoutState = "BRIEFING" /\ stateEvents = <<>> /\ currentWave = -1
      BY <1>5 DEF OnMissionStart, HInv, PhaseInv
    <2>2. UNCHANGED <<holdoutState, currentWave, aliensKilled, entryEvents, spawnEvents, alive, strays>>
      BY <1>5 DEF OnMissionStart, world
    <2>3. Apart' /\ Outstanding' \subseteq Outstanding
      BY <2>2, AliveShrinks
    <2>4. started' /\ Pending({"ANNOUNCE_NEW_WAVE"})'
      BY <1>5, <2>1 DEF OnMissionStart, AddStateEvent, StateEvent, Pending
    <2>5. PhaseInv'
      BY <2>1, <2>2, <2>4 DEF PhaseInv
    <2> QED BY <2>2, <2>3, <2>5, WaveKept
  <1>6. ASSUME KillAlien PROVE Apart' /\ PhaseInv' /\ WaveInv'
    <2>1. UNCHANGED <<holdoutState, currentWave, unlockedResupply, entryEvents, spawnEvents, started>>
      BY <1>6 DEF KillAlien
    <2>2. strays = 0
      BY DEF HInv, WaveInv
    <2>3. PICK a \in alive :
              /\ alive' = alive \ {a}
              /\ \/ EntryOf(a).counted /\ OnAlienKilled
                 \/ ~EntryOf(a).counted /\ UNCHANGED <<aliensKilled, stateEvents>>
              /\ UNCHANGED strays
      BY <1>6, <2>2 DEF KillAlien
    <2>4. Apart' /\ Outstanding' \subseteq Outstanding
      BY <2>1, <2>3, AliveShrinks
    <2>5. CASE OnAlienKilled
      BY <2>1, <2>3, <2>4, <2>5, CountedKill
    <2>6. CASE UNCHANGED <<aliensKilled, stateEvents>>
      BY <1>a, <2>1, <2>3, <2>4, <2>6, WaveKept, PhaseKept
    <2> QED BY <2>3, <2>5, <2>6
  <1>7. ASSUME PruneAlien PROVE Apart' /\ PhaseInv' /\ WaveInv'
    <2>1. /\ UNCHANGED <<holdoutState, currentWave, aliensKilled, unlockedResupply, stateEvents,
                         entryEvents, spawnEvents, started, strays>>
          /\ alive' \subseteq alive
      BY <1>7 DEF PruneAlien, events
    <2>2. Apart' /\ Outstanding' \subseteq Outstanding
      BY <2>1, AliveShrinks
    <2> QED BY <1>a, <2>1, <2>2, WaveKept, PhaseKept
  <1>8. ASSUME MarineDies PROVE Apart' /\ PhaseInv' /\ WaveInv'
    BY <1>2, <1>8, <1>a DEF MarineDies, events
  <1>9. ASSUME InputUnlockResupply PROVE Apart' /\ PhaseInv' /\ WaveInv'
    <2>1. unlockedResupply' >= unlockedResupply /\ unlockedResupply' \in Nat
      BY <1>9, <1>a DEF InputUnlockResupply
    <2> QED BY <1>2, <1>9, <2>1 DEF InputUnlockResupply, events, world
  <1>10. ASSUME UNCHANGED vars PROVE Apart' /\ PhaseInv' /\ WaveInv'
    BY <1>2, <1>10, <1>a DEF vars, events, world
  <1> QED BY <1>1, <1>3, <1>4, <1>5, <1>6, <1>7, <1>8, <1>9, <1>10 DEF Next, HoldoutThink

\* A console start is counted, and nothing else is.
LEMMA StartsCounted ==
    ASSUME TypeOK, [Next]_vars
    PROVE  consoleStarts' = consoleStarts \/ (ConsoleStartWave /\ consoleStarts' > 0)
  <1>1. ASSUME ConsoleStartWave PROVE consoleStarts' > 0
    <2>1. MaxConsoleStarts \in Nat
      BY ConstantsAssumption
    <2>2. consoleStarts \in 0..MaxConsoleStarts
      BY DEF TypeOK
    <2>3. consoleStarts' = consoleStarts + 1
      BY <1>1 DEF ConsoleStartWave
    <2> QED BY <2>1, <2>2, <2>3
  <1>2. ASSUME HoldoutThink PROVE consoleStarts' = consoleStarts
    BY <1>2 DEF HoldoutThink, ProcessEvent, FinishThink, budget
  <1>3. ASSUME \/ Tick \/ OnMissionStart \/ KillAlien \/ PruneAlien \/ MarineDies
               \/ InputUnlockResupply \/ UNCHANGED vars
        PROVE  consoleStarts' = consoleStarts
    BY <1>3 DEF Tick, OnMissionStart, KillAlien, PruneAlien, MarineDies, InputUnlockResupply,
                budget, vars
  <1> QED BY <1>1, <1>2, <1>3 DEF Next

\* The invariant holds in every state of a mission until a console start.
LEMMA HInvariant == Spec => [](TypeOK /\ (consoleStarts = 0 => HInv))
  <1>1. Init => TypeOK /\ HInv
    BY HInit DEF HInv
  <1>2. TypeOK /\ (consoleStarts = 0 => HInv) /\ [Next]_vars
        => TypeOK' /\ (consoleStarts = 0 => HInv)'
    <2> SUFFICES ASSUME TypeOK, consoleStarts = 0 => HInv, [Next]_vars
                 PROVE  TypeOK' /\ (consoleStarts' = 0 => HInv')
      OBVIOUS
    <2>1. TypeOK'
      BY StepType
    <2>2. ASSUME consoleStarts' = 0 PROVE HInv'
      <3>1. consoleStarts = 0 /\ ~ConsoleStartWave
        BY <2>2, StartsCounted DEF ConsoleStartWave, TypeOK
      <3> QED BY <3>1, HStep
    <2> QED BY <2>1, <2>2
  <1> QED BY <1>1, <1>2, PTL DEF Spec

\* Where the console command is never used, the invariant always holds.
LEMMA HInvariantNoConsole ==
    ASSUME MaxConsoleStarts = 0
    PROVE  Spec => []HInv
  <1>1. TypeOK /\ (consoleStarts = 0 => HInv) => HInv
    BY DEF TypeOK
  <1> QED BY HInvariant, <1>1, PTL

-----------------------------------------------------------------------------
(* The theorems.                                                            *)

\* However entries, retries, pruning and unlocks interleave, the kills counted
\* and the aliens outstanding never exceed the total OnAlienKilled waits for.
THEOREM KillsAccounted == Spec => []KillsAccountedFor
  <1>1. (consoleStarts = 0 => HInv) => KillsAccountedFor
    BY DEF HInv, WaveInv, KillsAccountedFor
  <1> QED BY HInvariant, <1>1, PTL

\* The vector never holds two state changes: AddEvent is never called for a
\* second one while the first is pending, so no state is entered twice.
THEOREM SingleStateChange == Spec => []OneStateChange
  <1>1. (consoleStarts = 0 => HInv) => OneStateChange
    BY AtMostOne DEF OneStateChange
  <1> QED BY HInvariant, <1>1, PTL

\* The score of a wave is only shown, and the next wave only announced, when
\* none of its aliens is alive or still to be spawned.
THEOREM ScoreWhenCleared == Spec => []ScoreOnlyWhenCleared
  <1>1. (consoleStarts = 0 => HInv) => ScoreOnlyWhenCleared
    BY DEF HInv, WaveInv, ScoreOnlyWhenCleared
  <1> QED BY HInvariant, <1>1, PTL

\* A step changes the state or the wave counter only by a Transition.
LEMMA StateSteps ==
    ASSUME MaxConsoleStarts = 0, HInv, [Next]_vars
    PROVE  \/ UNCHANGED <<holdoutState, currentWave>>
           \/ \E i \in DOMAIN stateEvents : StateChange(i)
  <1>1. ~ConsoleStartWave
    BY DEF ConsoleStartWave, HInv, TypeOK
  <1>2. ASSUME ProcessEvent
        PROVE  \/ UNCHANGED <<holdoutState, currentWave>>
               \/ \E i \in DOMAIN stateEvents : StateChange(i)
    BY <1>2 DEF ProcessEvent, StartWaveEntry, SingleSpawn
  <1>3. ASSUME \/ FinishThink \/ Tick \/ OnMissionStart \/ KillAlien \/ PruneAlien
               \/ MarineDies \/ InputUnlockResupply \/ UNCHANGED vars
        PROVE  UNCHANGED <<holdoutState, currentWave>>
    BY <1>3 DEF FinishThink, Tick, OnMissionStart, KillAlien, PruneAlien, MarineDies,
                InputUnlockResupply, vars
  <1> QED BY <1>1, <1>2, <1>3 DEF Next, HoldoutThink

\* A resupply is entered with an unlocked one in hand or by the wave's flag,
\* although InputUnlockResupply may be called between decision and resupply.
THEOREM ResupplyEarned ==
    ASSUME MaxConsoleStarts = 0
    PROVE  Spec => ResupplyIsEarned
  <1>1. HInv /\ [Next]_vars =>
          (holdoutState # "RESUPPLY" /\ holdoutState' = "RESUPPLY" =>
              /\ currentWave \in WaveIndex
              /\ unlockedResupply > 0 \/ Waves[currentWave].resupply)
    <2> SUFFICES ASSUME HInv, [Next]_vars, holdoutState # "RESUPPLY", holdoutState' = "RESUPPLY"
                 PROVE  /\ currentWave \in WaveIndex
                        /\ unlockedResupply > 0 \/ Waves[currentWave].resupply
      OBVIOUS
    <2>1. PICK i \in DOMAIN stateEvents : StateChange(i)
      BY StateSteps
    <2> QED BY <2>1, Transition DEF EnterAnnounce, EnterWave, EnterScore, EnterComplete
  <1> QED BY HInvariantNoConsole, <1>1, PTL DEF Spec, ResupplyIsEarned

\* The holdout mode implements the cycle of HoldoutCycle: the waves are
\* announced, fought and scored in order, each once.
THEOREM ImplementsCycle ==
    ASSUME MaxConsoleStarts = 0
    PROVE  Spec => FollowsCycle
  <1>1. Init => Cycle!Init
    BY DEF Init, Cycle!Init
  <1>2. HInv /\ [Next]_vars => [Cycle!Next]_(Cycle!cycleVars)
    <2> SUFFICES ASSUME HInv, [Next]_vars
                 PROVE  Cycle!Next \/ UNCHANGED <<holdoutState, currentWave>>
      BY DEF Cycle!cycleVars
    <2>1. CASE UNCHANGED <<holdoutState, currentWave>>
      BY <2>1
    <2>2. ASSUME NEW i \in DOMAIN stateEvents, StateChange(i)
          PROVE  Cycle!Next
      <3>1. NumWaves \in Nat \ {0} /\ currentWave \in Int
        BY ConstantsAssumption DEF HInv, TypeOK
      <3>2. CASE /\ holdoutState \in {"BRIEFING", "SHOWING_WAVE_SCORE", "RESUPPLY"}
                 /\ currentWave + 1 \in WaveIndex
                 /\ EnterAnnounce(<<>>)
        BY <3>1, <3>2 DEF EnterAnnounce, WaveIndex, Cycle!Next, Cycle!Announce
      <3>3. CASE holdoutState = "ANNOUNCE_NEW_WAVE" /\ currentWave \in WaveIndex /\ EnterWave
        BY <3>3 DEF EnterWave, StartWave, Cycle!Next, Cycle!Fight
      <3>4. CASE holdoutState = "WAVE_IN_PROGRESS" /\ EnterScore(<<>>)
        BY <3>4 DEF EnterScore, Cycle!Next, Cycle!Score
      <3>5. CASE holdoutState = "SHOWING_WAVE_SCORE" /\ currentWave < NumWaves - 1
                 /\ EnterResupply(<<>>)
        BY <3>1, <3>5 DEF EnterResupply, Cycle!Next, Cycle!Resupply
      <3>6. CASE holdoutState = "SHOWING_WAVE_SCORE" /\ currentWave = NumWaves - 1
                 /\ EnterComplete(<<>>)
        BY <3>1, <3>6 DEF EnterComplete, Cycle!Next, Cycle!Complete
      <3> QED BY <2>2, <3>2, <3>3, <3>4, <3>5, <3>6, Transition
    <2> QED BY <2>1, <2>2, StateSteps
  <1> QED BY HInvariantNoConsole, <1>1, <1>2, PTL DEF Spec, FollowsCycle, Cycle!Spec

-----------------------------------------------------------------------------
(* No alien is forgotten.                                                   *)

\* Every entry's spawn group is in the map, and its aliens count when killed.
WavesAreSound == \A e \in AllEntries : EntryOf(e).group /\ EntryOf(e).counted

LEMMA AlienIsCounted ==
    ASSUME WavesAreSound, NEW a \in AllAliens
    PROVE  EntryOf(a).counted
  <1>1. PICK w \in WaveIndex : \E e \in Entries(w) : a \in AliensOf(e)
    BY DEF AllAliens, WaveAliens
  <1>2. PICK e \in Entries(w) : a \in AliensOf(e)
    BY <1>1
  <1>3. e \in AllEntries
    BY AliensOfType
  <1>4. a[1] = e[1] /\ a[2] = e[2]
    BY <1>2 DEF AliensOf
  <1> QED BY <1>3, <1>4 DEF WavesAreSound, EntryOf

\* An entry that starts has each of its aliens spawned or posted for later.
LEMMA EntryKeepsAll ==
    ASSUME HInv, NEW e \in AllEntries, StartWaveEntry(e), EntryOf(e).group
    PROVE  Outstanding' = Outstanding
  <1> DEFINE kept == Join(spawnEvents, SpawnLater(e))
  <1>1. SpawnAliens(SpawnNow(e), kept)
    BY DEF StartWaveEntry
  <1>2. DOMAIN kept = DOMAIN spawnEvents \cup (AliensOf(e) \ SpawnNow(e)) /\ SpawnNow(e) \subseteq AliensOf(e)
    BY SpawnSplit DEF Join
  <1>3. kept \in [DOMAIN kept -> Nat] /\ AliensOf(e) \subseteq AllAliens
    BY LaterType, EntryAliens DEF Join, HInv, TypeOK
  <1> HIDE DEF kept
  <1>4. alive' \cup DOMAIN spawnEvents' = alive \cup DOMAIN kept \cup SpawnNow(e)
    BY <1>1, <1>2, <1>3, SpawnEffect DEF HInv, TypeOK
  <1>5. e \in DOMAIN entryEvents /\ DOMAIN entryEvents' = DOMAIN entryEvents \ {e}
    BY DEF StartWaveEntry, Restrict
  <1>6. Outstanding' = alive' \cup DOMAIN spawnEvents' \cup UNION {AliensOf(f) : f \in DOMAIN entryEvents'}
    BY DEF Outstanding, AliensOf, EntryOf
  <1> QED BY <1>2, <1>4, <1>5, <1>6 DEF Outstanding

LEMMA SingleKeepsAll ==
    ASSUME HInv, NEW a \in AllAliens, SingleSpawn(a)
    PROVE  Outstanding' = Outstanding
  <1>1. alive' \cup DOMAIN spawnEvents' = alive \cup DOMAIN spawnEvents /\ entryEvents' = entryEvents
    BY SingleEffect DEF HInv, SingleSpawn
  <1>2. \A f : AliensOf(f)' = AliensOf(f)
    BY DEF AliensOf, EntryOf
  <1> QED BY <1>1, <1>2 DEF Outstanding

\* A step that changes neither the wave nor what is outstanding.
LEMMA NoneLost ==
    ASSUME NoAlienForgotten, UNCHANGED <<holdoutState, currentWave, aliensKilled>>, Outstanding' = Outstanding
    PROVE  NoAlienForgotten'
  <1>1. GetTotalAliens(currentWave)' = GetTotalAliens(currentWave)
    BY DEF GetTotalAliens, WaveAliens, Entries, AliensOf, EntryOf
  <1> QED BY <1>1 DEF NoAlienForgotten

LEMMA SameOutstanding ==
    ASSUME alive' = alive, DOMAIN spawnEvents' = DOMAIN spawnEvents, DOMAIN entryEvents' = DOMAIN entryEvents
    PROVE  Outstanding' = Outstanding
  <1>1. \A f : AliensOf(f)' = AliensOf(f)
    BY DEF AliensOf, EntryOf
  <1> QED BY <1>1 DEF Outstanding

LEMMA KillIsCounted ==
    ASSUME HInv, WavesAreSound, NoAlienForgotten, KillAlien
    PROVE  NoAlienForgotten'
  <1>1. UNCHANGED <<holdoutState, currentWave, entryEvents, spawnEvents>> /\ strays = 0
    BY DEF KillAlien, HInv, WaveInv
  <1>2. PICK a \in alive : alive' = alive \ {a} /\ (OnAlienKilled \/ ~EntryOf(a).counted)
    BY <1>1 DEF KillAlien
  <1>3. aliensKilled' = aliensKilled + 1 /\ aliensKilled \in Nat
    BY <1>2, AlienIsCounted DEF OnAlienKilled, HInv, TypeOK
  <1>4. a \in Outstanding /\ Outstanding' = Outstanding \ {a}
    <2>1. Outstanding' = alive' \cup DOMAIN spawnEvents \cup UNION {AliensOf(f) : f \in DOMAIN entryEvents}
      BY <1>1 DEF Outstanding, AliensOf, EntryOf
    <2>2. a \notin DOMAIN spawnEvents /\ a \notin UNION {AliensOf(f) : f \in DOMAIN entryEvents}
      BY DEF HInv, Apart
    <2> QED BY <1>2, <2>1, <2>2 DEF Outstanding
  <1>5. Cardinality(Outstanding') = Cardinality(Outstanding) - 1 /\ Cardinality(Outstanding) \in Nat
    BY <1>4, OutstandingFinite, FS_RemoveElement DEF HInv
  <1>6. GetTotalAliens(currentWave)' = GetTotalAliens(currentWave)
    BY <1>1 DEF GetTotalAliens, WaveAliens, Entries, AliensOf, EntryOf
  <1> QED BY <1>1, <1>3, <1>5, <1>6 DEF NoAlienForgotten

\* A wave starts with all of its aliens outstanding; no other change is into a wave.
LEMMA ChangeForgetsNone ==
    ASSUME HInv, NEW i \in DOMAIN stateEvents, StateChange(i)
    PROVE  NoAlienForgotten'
  <1>1. CASE holdoutState = "ANNOUNCE_NEW_WAVE" /\ currentWave \in WaveIndex /\ EnterWave
    <2>1. /\ DOMAIN spawnEvents' = {} /\ alive' = {} /\ currentWave' = currentWave /\ aliensKilled' = 0
          /\ DOMAIN entryEvents' = Entries(currentWave)
      BY <1>1 DEF EnterWave, StartWave, NoEvents
    <2>2. \A f : AliensOf(f)' = AliensOf(f)
      BY DEF AliensOf, EntryOf
    <2>3. Outstanding' = WaveAliens(currentWave)
      BY <2>1, <2>2 DEF Outstanding, WaveAliens
    <2>4. GetTotalAliens(currentWave)' = GetTotalAliens(currentWave)
      BY <2>1 DEF WaveAliens, Entries, AliensOf, EntryOf, GetTotalAliens
    <2> QED BY <1>1, <2>1, <2>3, <2>4, TotalNat DEF NoAlienForgotten, GetTotalAliens
  <1>2. CASE EnterAnnounce(<<>>) \/ EnterScore(<<>>) \/ EnterResupply(<<>>) \/ EnterComplete(<<>>)
    BY <1>2 DEF EnterAnnounce, EnterScore, EnterResupply, EnterComplete, NoAlienForgotten
  <1> QED BY Transition, <1>1, <1>2

\* Where groups exist, classes count and nothing is pruned, no alien of a wave is
\* forgotten, however spawns fail and are tried again: the total can be reached.
THEOREM NoneForgotten ==
    ASSUME MaxConsoleStarts = 0, ~Pruning, WavesAreSound
    PROVE  Spec => []NoAlienForgotten
  <1>1. Init => NoAlienForgotten
    BY DEF Init, NoAlienForgotten
  <1>2. HInv /\ NoAlienForgotten /\ [Next]_vars => NoAlienForgotten'
    <2> SUFFICES ASSUME HInv, NoAlienForgotten, [Next]_vars PROVE NoAlienForgotten'
      OBVIOUS
    <2>1. CASE ProcessEvent
      <3>1. ASSUME NEW e \in AllEntries, StartWaveEntry(e) PROVE NoAlienForgotten'
        <4>1. UNCHANGED <<holdoutState, currentWave, aliensKilled>>
          BY <3>1 DEF StartWaveEntry
        <4>2. Outstanding' = Outstanding
          BY <3>1, EntryKeepsAll DEF WavesAreSound
        <4> QED BY <4>1, <4>2, NoneLost
      <3>2. ASSUME NEW a \in AllAliens, SingleSpawn(a) PROVE NoAlienForgotten'
        <4>1. UNCHANGED <<holdoutState, currentWave, aliensKilled>>
          BY <3>2 DEF SingleSpawn
        <4> QED BY <3>2, <4>1, SingleKeepsAll, NoneLost
      <3>3. ASSUME NEW i \in DOMAIN stateEvents, StateChange(i) PROVE NoAlienForgotten'
        BY <3>3, ChangeForgetsNone
      <3> QED BY <2>1, <3>1, <3>2, <3>3 DEF ProcessEvent
    <2>2. CASE KillAlien
      BY <2>2, KillIsCounted
    <2>3. CASE FinishThink \/ Tick \/ OnMissionStart \/ MarineDies \/ InputUnlockResupply \/ UNCHANGED vars
      <3>1. UNCHANGED <<holdoutState, currentWave, aliensKilled, alive>>
        BY <2>3 DEF FinishThink, Tick, OnMissionStart, MarineDies, InputUnlockResupply, vars, world
      <3>2. DOMAIN spawnEvents' = DOMAIN spawnEvents /\ DOMAIN entryEvents' = DOMAIN entryEvents
        BY <2>3 DEF FinishThink, Tick, OnMissionStart, MarineDies, InputUnlockResupply, vars, events
      <3> QED BY <3>1, <3>2, SameOutstanding, NoneLost
    <2>4. ~PruneAlien /\ ~ConsoleStartWave
      BY DEF PruneAlien, ConsoleStartWave, HInv, TypeOK
    <2> QED BY <2>1, <2>2, <2>3, <2>4 DEF Next, HoldoutThink
  <1> QED BY HInvariantNoConsole, <1>1, <1>2, PTL DEF Spec

-----------------------------------------------------------------------------
(* Resurrections, with the console or without.                              *)

Between == {"SHOWING_WAVE_SCORE", "RESUPPLY", "COMPLETE"}

RInv == holdoutState \in States /\ (resurrecting => holdoutState \in Between)

\* Marines only come back between waves: ANNOUNCE_NEW_WAVE and StartWave both
\* switch the resurrection off before any alien of the next wave appears.
THEOREM ResurrectionBetweenWaves == Spec => ResurrectionOutsideCombat
  <1>1. Init => RInv
    BY DEF Init, RInv, States
  <1>2. TypeOK /\ RInv /\ [Next]_vars => RInv'
    <2> SUFFICES ASSUME TypeOK, RInv, [Next]_vars PROVE RInv'
      OBVIOUS
    <2>0. holdoutState' \in States
      BY StepType DEF TypeOK
    <2>1. ASSUME UNCHANGED <<holdoutState, resurrecting>> PROVE RInv'
      BY <2>0, <2>1 DEF RInv
    <2>2. ASSUME NEW i \in DOMAIN stateEvents, StateChange(i) PROVE RInv'
      <3>1. ~resurrecting' \/ holdoutState' \in Between
        BY <2>2 DEF StateChange, ChangeHoldoutState, EnterAnnounce, EnterWave, StartWave,
                    EnterScore, EnterResupply, EnterComplete, Between
      <3> QED BY <2>0, <3>1 DEF RInv
    <2>3. ASSUME ConsoleStartWave PROVE RInv'
      <3>1. ~resurrecting'
        BY <2>3 DEF ConsoleStartWave, StartWave
      <3> QED BY <2>0, <3>1 DEF RInv
    <2>4. ASSUME ProcessEvent PROVE RInv'
      BY <2>1, <2>2, <2>4 DEF ProcessEvent, StartWaveEntry, SingleSpawn
    <2>5. ASSUME \/ FinishThink \/ Tick \/ OnMissionStart \/ KillAlien \/ PruneAlien
                 \/ MarineDies \/ InputUnlockResupply \/ UNCHANGED vars
          PROVE  RInv'
      BY <2>1, <2>5 DEF FinishThink, Tick, OnMissionStart, KillAlien, PruneAlien, MarineDies,
                        InputUnlockResupply, vars
    <2> QED BY <2>3, <2>4, <2>5 DEF Next, HoldoutThink
  <1>3. RInv /\ [Next]_vars =>
          (dead' \subseteq dead /\ dead' # dead => holdoutState \in Between)
    <2> SUFFICES ASSUME RInv, [Next]_vars, dead' \subseteq dead, dead' # dead
                 PROVE  holdoutState \in Between
      OBVIOUS
    <2>1. ~MarineDies
      BY DEF MarineDies
    <2>2. FinishThink
      BY <2>1 DEF Next, HoldoutThink, ProcessEvent, Tick, OnMissionStart, KillAlien, PruneAlien,
                  InputUnlockResupply, ConsoleStartWave, vars, world
    <2> QED BY <2>2 DEF FinishThink, RInv
  <1> QED BY TypeCorrect, <1>1, <1>2, <1>3, PTL DEF Spec, ResurrectionOutsideCombat, Between
=============================================================================
