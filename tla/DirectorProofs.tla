----------------------------- MODULE DirectorProofs -----------------------------
(***************************************************************************)
(* Proofs about Director, for every table of aliens, every batch size and   *)
(* all settings of horde mode, and whatever an administrator sets the beta  *)
(* variables to, the mix of both models included.  DInv == TypeOK,          *)
(* HordeWithinLimit and BetaMatchesChoice together are inductive.  That the largest horde and    *)
(* the kind whose health is drawn last exist at all is a fact about maxima  *)
(* of bounded sets, which the first lemmas prove from the well-foundedness  *)
(* of the natural numbers.                                                  *)
(***************************************************************************)
EXTENDS Director, WellFoundedInduction, TLAPS

DInv == TypeOK /\ HordeWithinLimit /\ BetaMatchesChoice

-----------------------------------------------------------------------------
(* Maxima.                                                                  *)

NatLess == {p \in Nat \X Nat : p[1] < p[2]}

LEMMA LeastNatural ==
    ASSUME NEW T \in SUBSET Nat, T # {}
    PROVE  \E x \in T : \A y \in T : x <= y
  <1>1. NatLess = OpToRel(<, Nat)
    BY Zenon DEF NatLess, OpToRel
  <1>2. IsWellFoundedOn(NatLess, Nat)
    BY <1>1, NatLessThanWellFounded, Zenon
  <1>3. PICK x \in T : \A y \in T : ~(<<y, x>> \in NatLess)
    BY <1>2, WFMin, Zenon
  <1>4. \A y \in T : ~(y < x)
    BY <1>3 DEF NatLess
  <1> QED BY <1>4

\* A set of natural numbers that has a bound has a maximum.
LEMMA BoundedMax ==
    ASSUME NEW S \in SUBSET Nat, S # {}, NEW b \in Nat, \A x \in S : x <= b
    PROVE  Max(S) \in S /\ \A x \in S : x <= Max(S)
  <1> DEFINE B == {c \in Nat : \A x \in S : x <= c}
  <1>1. PICK c \in B : \A d \in B : c <= d
    BY LeastNatural
  <1>2. c \in S
    <2> SUFFICES ASSUME c \notin S PROVE FALSE
      OBVIOUS
    <2>1. c \in Nat /\ \A x \in S : x \in Nat /\ x < c
      BY <1>1
    <2>2. c # 0
      <3>1. PICK x \in S : TRUE
        OBVIOUS
      <3> QED BY <2>1, <3>1
    <2>3. c - 1 \in Nat /\ \A x \in S : x <= c - 1
      BY <2>1, <2>2
    <2>4. c - 1 \in B
      BY <2>3
    <2> QED BY <1>1, <2>1, <2>4
  <1>3. \E x \in S : \A y \in S : x >= y
    BY <1>2
  <1> QED BY <1>3 DEF Max

LEMMA MinOfTwo ==
    ASSUME NEW a \in Nat, NEW b \in Nat
    PROVE  Min({a, b}) \in Nat /\ Min({a, b}) <= a
  <1>1. \E x \in {a, b} : \A y \in {a, b} : x =< y
    OBVIOUS
  <1> QED BY <1>1 DEF Min

\* What the sizes of finitely many kinds are bounded by.
LEMMA SizesAreBounded == \E b \in Nat : \A k \in Kinds : SizeMax[k] <= b
  <1> DEFINE Bounded == {n \in Nat : \E b \in Nat : \A k \in 1..n \cap Kinds : SizeMax[k] <= b}
             Rest == Nat \ Bounded
  <1>0. NumKinds \in Nat /\ \A k \in Kinds : SizeMax[k] \in Nat
    BY HordeModeConstants
  <1>1. Rest = {}
    <2> SUFFICES ASSUME Rest # {} PROVE FALSE
      OBVIOUS
    <2>1. PICK n \in Rest : \A m \in Rest : n <= m
      BY LeastNatural
    <2>2. n # 0
      <3>1. \A k \in 1..0 \cap Kinds : SizeMax[k] <= 0
        OBVIOUS
      <3>2. 0 \in Bounded
        BY <3>1
      <3> QED BY <3>2
    <2>3. n - 1 \in Bounded
      <3>1. n \in Nat /\ n - 1 \in Nat /\ ~(n <= n - 1)
        BY <2>2
      <3>2. n - 1 \notin Rest
        BY <2>1, <3>1
      <3> QED BY <3>1, <3>2
    <2>4. PICK b \in Nat : \A k \in 1..(n - 1) \cap Kinds : SizeMax[k] <= b
      BY <2>3
    <2>5. \A k \in 1..n \cap Kinds : k = n \/ k \in 1..(n - 1) \cap Kinds
      BY DEF Kinds
    <2>6. CASE n \in Kinds
      <3> DEFINE c == IF b >= SizeMax[n] THEN b ELSE SizeMax[n]
      <3>1. c \in Nat /\ b <= c /\ SizeMax[n] <= c
        BY <1>0, <2>6
      <3> HIDE DEF c
      <3>2. ASSUME NEW k \in 1..n \cap Kinds PROVE SizeMax[k] <= c
        <4>1. CASE k = n
          BY <3>1, <4>1
        <4>2. CASE k # n
          <5>1. SizeMax[k] \in Nat /\ SizeMax[k] <= b
            BY <1>0, <2>4, <2>5, <4>2
          <5> QED BY <3>1, <5>1
        <4> QED BY <4>1, <4>2
      <3>3. n \in Bounded
        BY <3>1, <3>2
      <3> QED BY <3>3
    <2>7. CASE n \notin Kinds
      BY <2>4, <2>5, <2>7
    <2> QED BY <2>6, <2>7
  <1>2. NumKinds \in Bounded
    BY <1>0, <1>1
  <1> QED BY <1>2 DEF Kinds

LEMMA LargestHordeIsLargest ==
    /\ LargestHorde \in Nat /\ DefaultMax <= LargestHorde
    /\ \A k \in Kinds : SizeMax[k] <= LargestHorde
  <1> DEFINE S == {DefaultMax} \cup {SizeMax[k] : k \in Kinds}
  <1>1. S \in SUBSET Nat /\ S # {} /\ DefaultMax \in Nat
    BY HordeModeConstants, DirectorConstants
  <1>2. PICK b \in Nat : \A k \in Kinds : SizeMax[k] <= b
    BY SizesAreBounded
  <1>3. b + DefaultMax \in Nat /\ \A x \in S : x <= b + DefaultMax
    BY <1>1, <1>2
  <1>4. Max(S) \in S /\ \A x \in S : x <= Max(S)
    BY <1>1, <1>3, BoundedMax
  <1> QED BY <1>1, <1>4 DEF LargestHorde

\* The kind whose health is drawn last is a kind.
LEMMA LastDrawn == \A c \in HealthCvars : Max({k \in Kinds : HealthCvar[k] = c}) \in Kinds
  <1> TAKE c \in HealthCvars
  <1> DEFINE S == {k \in Kinds : HealthCvar[k] = c}
  <1>1. NumKinds \in Nat /\ S \in SUBSET Nat /\ S # {} /\ \A x \in S : x <= NumKinds
    BY HordeModeConstants DEF Kinds, HealthCvars
  <1>2. Max(S) \in S
    BY <1>1, BoundedMax
  <1> QED BY <1>2

-----------------------------------------------------------------------------
(* Horde mode.                                                              *)

\* What AskFor does to each variable.
LEMMA AskForSets ==
    ASSUME NEW models \in [BetaCvars -> BetaModels], NEW kind \in Kinds, NEW model \in BetaModels
    PROVE  /\ AskFor(models, kind, model) \in [BetaCvars -> BetaModels]
           /\ \A c \in BetaCvars :
                 AskFor(models, kind, model)[c] =
                    IF c = BetaCvar[kind] /\ models[c] # "mixed" THEN model ELSE models[c]
  <1>1. BetaCvar[kind] = NoCvar \/ BetaCvar[kind] \in BetaCvars
    BY DEF BetaCvars
  <1>2. NoCvar \notin BetaCvars
    BY DEF BetaCvars
  <1> QED BY <1>1, <1>2 DEF AskFor

\* The variable of the last kind is turned off and that of the kind now chosen is
\* set to what it asks for, unless they mix; the others stay as they are.
LEMMA SetBetaFollows ==
    ASSUME HordeModeTypeOK, BetaMatchesChoice, NEW kind \in Choosable,
           SetBeta(kind), chosen' = kind, UNCHANGED configured
    PROVE  betaModel' \in [BetaCvars -> BetaModels] /\ BetaMatchesChoice'
  <1> DEFINE last == IF chosen = Unchosen THEN Drone ELSE chosen
             cleared == IF last \in Beta THEN AskFor(betaModel, last, "off") ELSE betaModel
  <1>1. Unchosen \notin Beta /\ Drone \notin Beta /\ Beta \subseteq Kinds /\ kind \in Kinds
    BY HordeModeConstants DEF Unchosen, Kinds, Choosable
  <1>2. betaModel \in [BetaCvars -> BetaModels] /\ "off" \in BetaModels /\ ModelOf(kind) \in BetaModels
    BY DEF HordeModeTypeOK, BetaModels, ModelOf
  <1>3. /\ cleared \in [BetaCvars -> BetaModels]
        /\ \A c \in BetaCvars :
              cleared[c] = IF last \in Beta /\ c = BetaCvar[last] /\ betaModel[c] # "mixed"
                           THEN "off" ELSE betaModel[c]
    <2>1. CASE last \in Beta
      <3>1. last \in Kinds
        BY <1>1, <2>1
      <3>2. /\ AskFor(betaModel, last, "off") \in [BetaCvars -> BetaModels]
            /\ \A c \in BetaCvars :
                  AskFor(betaModel, last, "off")[c] =
                     IF c = BetaCvar[last] /\ betaModel[c] # "mixed" THEN "off" ELSE betaModel[c]
        BY <1>2, <3>1, AskForSets, Zenon
      <3>3. cleared = AskFor(betaModel, last, "off")
        BY <2>1
      <3> HIDE DEF cleared, last
      <3> QED BY <2>1, <3>2, <3>3
    <2>2. CASE last \notin Beta
      BY <1>2, <2>2
    <2> QED BY <2>1, <2>2
  <1>4. betaModel' = AskFor(cleared, kind, ModelOf(kind))
    BY DEF SetBeta
  <1>5. \A c \in BetaCvars : Asks(c) => last \in Beta /\ c = BetaCvar[last]
    BY <1>1 DEF Asks
  <1> HIDE DEF last, cleared
  <1>6. /\ betaModel' \in [BetaCvars -> BetaModels]
        /\ \A c \in BetaCvars :
              betaModel'[c] = IF c = BetaCvar[kind] /\ cleared[c] # "mixed"
                              THEN ModelOf(kind) ELSE cleared[c]
    <2>1. /\ AskFor(cleared, kind, ModelOf(kind)) \in [BetaCvars -> BetaModels]
          /\ \A c \in BetaCvars :
                AskFor(cleared, kind, ModelOf(kind))[c] =
                   IF c = BetaCvar[kind] /\ cleared[c] # "mixed" THEN ModelOf(kind) ELSE cleared[c]
      BY <1>1, <1>2, <1>3, AskForSets, Zenon
    <2> QED BY <1>4, <2>1, Zenon
  <1>7. ASSUME NEW c \in BetaCvars
        PROVE  \/ betaModel'[c] = configured'[c]
               \/ /\ configured'[c] # "mixed"
                  /\ betaModel'[c] = IF Asks(c)' THEN "on" ELSE "off"
    <2>1. configured'[c] = configured[c]
      OBVIOUS
    <2>2. \/ betaModel[c] = configured[c]
          \/ /\ configured[c] # "mixed"
             /\ betaModel[c] = IF Asks(c) THEN "on" ELSE "off"
      BY DEF BetaMatchesChoice
    <2>3. Asks(c)' <=> kind \in Beta /\ BetaCvar[kind] = c
      BY DEF Asks
    <2>4. CASE betaModel[c] = "mixed"
      <3>1. configured[c] = "mixed"
        BY <2>2, <2>4
      <3>2. betaModel'[c] = "mixed"
        BY <1>3, <1>6, <2>4
      <3> QED BY <2>1, <3>1, <3>2
    <2>5. CASE betaModel[c] # "mixed"
      <3>1. configured[c] # "mixed" /\ cleared[c] # "mixed"
        BY <1>3, <2>2, <2>5
      <3>2. CASE c = BetaCvar[kind]
        <4>1. betaModel'[c] = ModelOf(kind)
          BY <1>6, <3>1, <3>2
        <4>2. ModelOf(kind) = IF Asks(c)' THEN "on" ELSE "off"
          BY <2>3, <3>2 DEF ModelOf
        <4> QED BY <2>1, <3>1, <4>1, <4>2
      <3>3. CASE c # BetaCvar[kind]
        <4>1. betaModel'[c] = cleared[c] /\ ~Asks(c)'
          BY <1>6, <2>3, <3>3
        <4>2. CASE last \in Beta /\ c = BetaCvar[last]
          <5>1. cleared[c] = "off"
            BY <1>3, <2>5, <4>2
          <5> QED BY <2>1, <3>1, <4>1, <5>1
        <4>3. CASE ~(last \in Beta /\ c = BetaCvar[last])
          <5>1. cleared[c] = betaModel[c] /\ ~Asks(c)
            BY <1>3, <1>5, <4>3
          <5> QED BY <2>1, <2>2, <3>1, <4>1, <5>1
        <4> QED BY <4>2, <4>3
      <3> QED BY <3>2, <3>3
    <2> QED BY <2>4, <2>5
  <1>8. BetaMatchesChoice'
    BY <1>7, Zenon DEF BetaMatchesChoice
  <1> QED BY <1>6, <1>8

LEMMA HealthIsOfAKind ==
    ASSUME RandomizeHealth
    PROVE  healthFrom' \in [HealthCvars -> Kinds \cup {Unchosen}]
  BY LastDrawn DEF RandomizeHealth

LEMMA UpdateKeepsSettings ==
    ASSUME HordeModeTypeOK, BetaMatchesChoice, UNCHANGED configured,
           UpdateHordeMode \/ HordeFinishedSpawning \/ UNCHANGED hordeSettings
    PROVE  /\ chosen' \in Choosable \cup {Unchosen} /\ betaModel' \in [BetaCvars -> BetaModels]
           /\ healthFrom' \in [HealthCvars -> Kinds \cup {Unchosen}]
           /\ BetaMatchesChoice'
  <1>1. CASE UpdateHordeMode
    <2>1. PICK kind \in Choosable :
             /\ SetBeta(kind)
             /\ RandomizeHealth \/ UNCHANGED healthFrom
             /\ chosen' = kind
      BY <1>1 DEF UpdateHordeMode
    <2>2. betaModel' \in [BetaCvars -> BetaModels] /\ BetaMatchesChoice'
      BY <2>1, SetBetaFollows
    <2>3. healthFrom' \in [HealthCvars -> Kinds \cup {Unchosen}]
      BY <2>1, HealthIsOfAKind DEF HordeModeTypeOK
    <2> QED BY <2>1, <2>2, <2>3
  <1>2. CASE RandomizeHealth /\ UNCHANGED <<chosen, betaModel>>
    BY <1>2, HealthIsOfAKind DEF HordeModeTypeOK, BetaMatchesChoice, Asks
  <1>3. CASE UNCHANGED hordeSettings
    BY <1>3 DEF HordeModeTypeOK, BetaMatchesChoice, Asks, hordeSettings
  <1> QED BY <1>1, <1>2, <1>3 DEF HordeFinishedSpawning

\* A variable that the administrator sets is as he configured it.
LEMMA AdministratorSets ==
    ASSUME HordeModeTypeOK, BetaMatchesChoice, SetBetaVariable
    PROVE  HordeModeTypeOK' /\ BetaMatchesChoice' /\ chosen' = chosen
  <1>1. PICK c \in BetaCvars, model \in GivenModels :
           /\ betaModel' = [betaModel EXCEPT ![c] = model]
           /\ configured' = [configured EXCEPT ![c] = model]
    BY DEF SetBetaVariable
  <1>2. UNCHANGED <<hordeMode, override, chosen, healthFrom>>
    BY DEF SetBetaVariable
  <1>3. model \in BetaModels
    BY HordeModeConstants
  <1>4. HordeModeTypeOK'
    BY <1>1, <1>2, <1>3 DEF HordeModeTypeOK
  <1>5. BetaMatchesChoice'
    <2> SUFFICES ASSUME NEW d \in BetaCvars
                 PROVE  \/ betaModel'[d] = configured'[d]
                        \/ /\ configured'[d] # "mixed"
                           /\ betaModel'[d] = IF Asks(d)' THEN "on" ELSE "off"
      BY Zenon DEF BetaMatchesChoice
    <2>1. CASE d = c
      BY <1>1, <2>1 DEF HordeModeTypeOK
    <2>2. CASE d # c
      BY <1>1, <1>2, <2>2 DEF HordeModeTypeOK, BetaMatchesChoice, Asks
    <2> QED BY <2>1, <2>2
  <1> QED BY <1>2, <1>4, <1>5

LEMMA HordeModeNextKeepsSettings ==
    ASSUME HordeModeTypeOK, BetaMatchesChoice, HordeModeNext
    PROVE  HordeModeTypeOK' /\ BetaMatchesChoice' /\ (UpdateMode = "finished" => chosen' = chosen)
  <1>1. CASE SetBetaVariable
    BY <1>1, AdministratorSets
  <1>2. CASE HordeModeFrame \/ SwitchHordeMode \/ SetOnslaught
    <2>1. hordeMode' \in BOOLEAN /\ override' \in BOOLEAN
      BY <1>2 DEF HordeModeFrame, SwitchHordeMode, SetOnslaught, HordeModeTypeOK
    <2>2. (UpdateHordeMode /\ UpdateMode = "timed") \/ UNCHANGED hordeSettings
      BY <1>2 DEF HordeModeFrame, SwitchHordeMode, SetOnslaught
    <2>3. UNCHANGED configured
      BY <1>2 DEF HordeModeFrame, SwitchHordeMode, SetOnslaught
    <2>4. UpdateMode = "finished" => chosen' = chosen
      BY <2>2 DEF hordeSettings
    <2> QED BY <2>1, <2>2, <2>3, <2>4, UpdateKeepsSettings DEF HordeModeTypeOK
  <1> QED BY <1>1, <1>2 DEF HordeModeNext

-----------------------------------------------------------------------------
(* The spawn manager.                                                       *)

LEMMA SizesOfAKind ==
    ASSUME NEW kind \in Choosable \cup {Unchosen}, NEW size \in HordeSizes(kind)
    PROVE  size \in 0..LargestHorde /\ size <= SizeLimit(kind)
  <1>1. CASE kind = Unchosen
    BY <1>1, DirectorConstants, LargestHordeIsLargest DEF HordeSizes, SizeLimit
  <1>2. CASE kind # Unchosen
    <2>1. kind \in Kinds /\ SizeMin[kind] \in Nat /\ SizeMax[kind] \in Nat
      BY <1>2, HordeModeConstants DEF Choosable
    <2>2. size \in SizeMin[kind]..SizeMax[kind] /\ SizeLimit(kind) = SizeMax[kind]
      BY <1>2 DEF HordeSizes, SizeLimit
    <2>3. SizeMax[kind] <= LargestHorde
      BY <2>1, LargestHordeIsLargest
    <2> QED BY <2>1, <2>2, <2>3, LargestHordeIsLargest
  <1> QED BY <1>1, <1>2

\* A batch takes from the horde, and what it leaves has a place.
LEMMA SpawnHordeTakes ==
    ASSUME NEW m \in Managers, NEW spawned \in 0..Min({m.toSpawn, BatchMax}),
           NEW found
    PROVE  LET n == SpawnHorde(m, spawned, found) IN
           /\ n \in Managers /\ n.toSpawn <= m.toSpawn /\ n.queue = m.queue
           /\ n.toSpawn > 0 /\ (m.toSpawn > 0 => m.place) => n.place
  <1>1. LargestHorde \in Nat /\ BatchMax \in Nat
    BY LargestHordeIsLargest, DirectorConstants
  <1>2. m.toSpawn \in 0..LargestHorde
    BY DEF Managers
  <1>3. Min({m.toSpawn, BatchMax}) \in Nat /\ Min({m.toSpawn, BatchMax}) <= m.toSpawn
    BY <1>1, <1>2, MinOfTwo
  <1>4. spawned \in Nat /\ spawned <= m.toSpawn
    BY <1>2, <1>3
  <1>5. m.toSpawn - spawned \in 0..LargestHorde /\ m.toSpawn - spawned <= m.toSpawn
    BY <1>1, <1>2, <1>4
  <1>6. 0 \in 0..LargestHorde
    BY <1>1
  <1>7. CASE m.toSpawn = 0
    BY <1>7 DEF SpawnHorde
  <1>8. CASE m.toSpawn # 0 /\ ~m.place
    BY <1>2, <1>6, <1>8 DEF SpawnHorde, Managers
  <1>9. CASE m.toSpawn # 0 /\ m.place
    <2>1. CASE m.batch
      BY <1>2, <1>9, <2>1 DEF SpawnHorde
    <2>2. CASE ~m.batch
      <3> DEFINE left == m.toSpawn - spawned
                 over == left = 0 \/ (spawned = 0 /\ ~found)
                 rest == IF over THEN 0 ELSE left
                 n == [m EXCEPT !.toSpawn = rest, !.place = ~over, !.batch = TRUE]
      <3>1. SpawnHorde(m, spawned, found) = n
        BY <1>9, <2>2 DEF SpawnHorde
      <3>2. rest \in 0..LargestHorde /\ rest <= m.toSpawn /\ over \in BOOLEAN /\ (rest > 0 => ~over)
        BY <1>2, <1>5, <1>6
      <3> HIDE DEF rest, over
      <3>3. n \in Managers /\ n.toSpawn = rest /\ n.queue = m.queue /\ n.place = ~over
        BY <3>2 DEF Managers
      <3> HIDE DEF n
      <3> QED BY <3>1, <3>2, <3>3
    <2> QED BY <2>1, <2>2
  <1> QED BY <1>7, <1>8, <1>9

LEMMA SpawnWandererTakes ==
    ASSUME NEW m \in Managers, NEW found
    PROVE  LET n == SpawnWanderer(m, found) IN
           n \in Managers /\ n.toSpawn = m.toSpawn /\ n.place = m.place
  BY DirectorConstants DEF SpawnWanderer, Managers

LEMMA AddAlienAdds ==
    ASSUME NEW m \in Managers
    PROVE  LET n == AddAlien(m) IN
           n \in Managers /\ n.toSpawn = m.toSpawn /\ n.place = m.place
  BY DirectorConstants DEF AddAlien, Managers

LEMMA AddHordeSets ==
    ASSUME NEW m \in Managers, NEW size \in 0..LargestHorde
    PROVE  LET n == AddHorde(m, size) IN
           n \in Managers /\ n.toSpawn = size /\ n.place = TRUE
  BY DEF AddHorde, Managers
-----------------------------------------------------------------------------
(* The director.                                                            *)

LEMMA PacingTypes ==
    ASSUME NEW d \in Directors, NEW peak \in BOOLEAN, NEW added \in BOOLEAN
    PROVE  UpdateSpawningState(d, peak) \in Directors /\ UpdateHordeTimer(d, added) \in Directors
  <1>1. UpdateSpawningState(d, peak) \in Directors
    BY DEF UpdateSpawningState, Directors, Timers
  <1>2. UpdateHordeTimer(d, added) \in Directors
    <2> DEFINE h == CASE ~(d.hordes \/ override) -> d.horde
                      [] d.horde = "off" -> "running"
                      [] d.horde = "elapsed" -> IF added THEN "off" ELSE "running"
                      [] OTHER -> d.horde
    <2>1. h \in Timers
      BY DEF Directors, Timers
    <2>2. UpdateHordeTimer(d, added) = [d EXCEPT !.horde = h]
      BY DEF UpdateHordeTimer
    <2> HIDE DEF h
    <2> QED BY <2>1, <2>2 DEF Directors
  <1> QED BY <1>1, <1>2

\* A frame: what is left of the horde before is not made of a kind that is
\* chosen in the frame, for the kind is chosen when nothing is left.
LEMMA DirectorFrameStep ==
    ASSUME DInv, DirectorFrame
    PROVE  DInv'
  <1> USE DEF DInv, TypeOK
  <1>1. PICK added \in {FALSE, HordeIsDue(director)}, awake \in {"few", "some", "many"} :
          LET paced == UpdateSpawningState(UpdateHordeTimer(director, added), atPeak)
              wanderer == WandererIsDue(paced) IN
          /\ director' = IF wanderer THEN [paced EXCEPT !.alien = TRUE] ELSE paced
          /\ \E spawned \in 0..Min({manager.toSpawn, BatchMax}), anotherPlace \in {FALSE, manager.place},
                place \in {FALSE, HordeIsDue(director)}, node \in {FALSE, manager.queue > 0} :
                LET updated == SpawnWanderer(SpawnHorde(manager, spawned, anotherPlace), node)
                    finished == manager.toSpawn > 0 /\ updated.toSpawn = 0 IN
                /\ added = (HordeIsDue(director) /\ awake # "many" /\ (updated.place \/ place))
                /\ IF finished THEN HordeFinishedSpawning ELSE UNCHANGED hordeSettings
                /\ \E size \in HordeSizes(chosen') :
                      LET withHorde == IF added THEN AddHorde(updated, size) ELSE updated IN
                      manager' = IF wanderer /\ awake = "few" THEN AddAlien(withHorde) ELSE withHorde
    BY Zenon DEF DirectorFrame
  <1> DEFINE paced == UpdateSpawningState(UpdateHordeTimer(director, added), atPeak)
             wanderer == WandererIsDue(paced)
  <1>2. PICK spawned \in 0..Min({manager.toSpawn, BatchMax}), anotherPlace \in {FALSE, manager.place},
             place \in {FALSE, HordeIsDue(director)}, node \in {FALSE, manager.queue > 0} :
                LET updated == SpawnWanderer(SpawnHorde(manager, spawned, anotherPlace), node)
                    finished == manager.toSpawn > 0 /\ updated.toSpawn = 0 IN
                /\ added = (HordeIsDue(director) /\ awake # "many" /\ (updated.place \/ place))
                /\ IF finished THEN HordeFinishedSpawning ELSE UNCHANGED hordeSettings
                /\ \E size \in HordeSizes(chosen') :
                      LET withHorde == IF added THEN AddHorde(updated, size) ELSE updated IN
                      manager' = IF wanderer /\ awake = "few" THEN AddAlien(withHorde) ELSE withHorde
    BY Zenon, <1>1
  <1> DEFINE fewer == SpawnHorde(manager, spawned, anotherPlace)
             updated == SpawnWanderer(fewer, node)
  <1>3. PICK size \in HordeSizes(chosen') :
             LET withHorde == IF added THEN AddHorde(updated, size) ELSE updated IN
             manager' = IF wanderer /\ awake = "few" THEN AddAlien(withHorde) ELSE withHorde
    BY <1>2, Zenon
  <1> DEFINE withHorde == IF added THEN AddHorde(updated, size) ELSE updated
  <1>4. director' \in Directors
    <2>1. added \in BOOLEAN
      BY DEF HordeIsDue, Directors, Timers, HordeModeTypeOK
    <2>2. paced \in Directors
      BY <2>1, PacingTypes
    <2>3. director' = IF wanderer THEN [paced EXCEPT !.alien = TRUE] ELSE paced
      BY <1>1, Zenon
    <2> HIDE DEF paced
    <2> QED BY <2>2, <2>3 DEF Directors
  <1>5. /\ chosen' \in Choosable \cup {Unchosen} /\ betaModel' \in [BetaCvars -> BetaModels]
        /\ healthFrom' \in [HealthCvars -> Kinds \cup {Unchosen}]
        /\ BetaMatchesChoice'
    <2>1. UNCHANGED configured
      BY DEF DirectorFrame
    <2> QED BY <1>2, <2>1, UpdateKeepsSettings
  <1>6. size \in 0..LargestHorde /\ size <= SizeLimit(chosen')
    BY <1>5, SizesOfAKind
  <1>7. /\ updated \in Managers /\ updated.toSpawn <= manager.toSpawn
        /\ updated.toSpawn > 0 => updated.place
    <2>1. /\ fewer \in Managers /\ fewer.toSpawn <= manager.toSpawn
          /\ fewer.toSpawn > 0 => fewer.place
      BY SpawnHordeTakes DEF HordeWithinLimit
    <2> HIDE DEF fewer
    <2>2. updated \in Managers /\ updated.toSpawn = fewer.toSpawn /\ updated.place = fewer.place
      BY <2>1, SpawnWandererTakes
    <2> HIDE DEF updated
    <2> QED BY <2>1, <2>2
  <1>8. /\ withHorde \in Managers
        /\ withHorde.toSpawn = IF added THEN size ELSE updated.toSpawn
        /\ withHorde.place = IF added THEN TRUE ELSE updated.place
    BY <1>6, <1>7, AddHordeSets
  <1>9. manager' = IF wanderer /\ awake = "few" THEN AddAlien(withHorde) ELSE withHorde
    BY <1>3, Zenon
  <1>10. (manager.toSpawn = 0 \/ updated.toSpawn # 0) => chosen' = chosen
    <2>1. manager.toSpawn \in Nat
      BY LargestHordeIsLargest DEF Managers
    <2>2. CASE manager.toSpawn > 0 /\ updated.toSpawn = 0
      BY <2>1, <2>2
    <2>3. CASE ~(manager.toSpawn > 0 /\ updated.toSpawn = 0)
      <3>1. UNCHANGED hordeSettings
        BY <1>2, <2>3, Zenon
      <3> QED BY <3>1 DEF hordeSettings
    <2> QED BY <2>2, <2>3
  <1> HIDE DEF withHorde, updated
  <1>11. manager' \in Managers /\ manager'.toSpawn = withHorde.toSpawn /\ manager'.place = withHorde.place
    BY <1>8, <1>9, AddAlienAdds
  <1>12. TypeOK'
    BY <1>4, <1>5, <1>11 DEF DirectorFrame, HordeModeTypeOK
  <1>13. HordeWithinLimit'
    <2>1. CASE added
      BY <1>6, <1>8, <1>11, <2>1 DEF HordeWithinLimit
    <2>2. CASE ~added
      <3>1. manager'.toSpawn = updated.toSpawn /\ manager'.place = updated.place
        BY <1>8, <1>11, <2>2
      <3>2. updated.toSpawn \in Nat /\ manager.toSpawn \in Nat
        BY <1>7, LargestHordeIsLargest DEF Managers
      <3>3. ASSUME updated.toSpawn > 0, UpdateMode = "finished"
            PROVE  updated.toSpawn <= SizeLimit(chosen')
        <4>1. manager.toSpawn > 0 /\ chosen' = chosen
          BY <1>7, <1>10, <3>2, <3>3
        <4>2. manager.toSpawn <= SizeLimit(chosen)
          BY <3>3, <4>1 DEF HordeWithinLimit
        <4>3. SizeLimit(chosen) \in Nat
          BY HordeModeConstants, DirectorConstants DEF SizeLimit, HordeModeTypeOK, Choosable
        <4> QED BY <1>7, <3>2, <4>1, <4>2, <4>3
      <3> QED BY <1>7, <3>1, <3>3 DEF HordeWithinLimit
    <2> QED BY <2>1, <2>2
  <1> QED BY <1>5, <1>12, <1>13

\* The timers, the intensity and the inputs: the horde in progress stays.
LEMMA OtherStep ==
    ASSUME DInv, director' \in Directors, atPeak' \in BOOLEAN, UNCHANGED hordeModeVars,
           \/ UNCHANGED manager
           \/ manager' = [manager EXCEPT !.batch = FALSE]
           \/ manager' = NewManager
    PROVE  DInv'
  <1>1. UNCHANGED <<hordeMode, override, configured, chosen, betaModel, healthFrom>>
    BY DEF hordeModeVars, hordeSettings
  <1>2. 0 \in 0..LargestHorde /\ 0 \in 0..(WandererMax + 1)
    BY LargestHordeIsLargest, DirectorConstants
  <1>3. /\ manager' \in Managers
        /\ (manager'.toSpawn = manager.toSpawn /\ manager'.place = manager.place) \/ manager'.toSpawn = 0
    <2>1. CASE UNCHANGED manager
      BY <2>1 DEF DInv, TypeOK
    <2>2. CASE manager' = [manager EXCEPT !.batch = FALSE]
      BY <2>2 DEF DInv, TypeOK, Managers
    <2>3. CASE manager' = NewManager
      BY <1>2, <2>3 DEF Managers, NewManager
    <2> QED BY <2>1, <2>2, <2>3
  <1>4. TypeOK'
    BY <1>1, <1>3 DEF DInv, TypeOK, HordeModeTypeOK
  <1>5. HordeWithinLimit'
    BY <1>1, <1>3 DEF DInv, HordeWithinLimit, SizeLimit
  <1>6. BetaMatchesChoice'
    BY <1>1 DEF DInv, BetaMatchesChoice, Asks
  <1> QED BY <1>4, <1>5, <1>6 DEF DInv

\* Horde mode on its own: unless it goes by the clock, the kind stays.
LEMMA HordeModeStep ==
    ASSUME DInv, HordeModeNext, UNCHANGED <<director, manager, atPeak>>
    PROVE  DInv'
  <1>1. HordeModeTypeOK' /\ BetaMatchesChoice' /\ (UpdateMode = "finished" => chosen' = chosen)
    BY HordeModeNextKeepsSettings DEF DInv, TypeOK
  <1>2. TypeOK'
    BY <1>1 DEF DInv, TypeOK
  <1>3. HordeWithinLimit'
    BY <1>1 DEF DInv, HordeWithinLimit, SizeLimit
  <1> QED BY <1>1, <1>2, <1>3 DEF DInv

-----------------------------------------------------------------------------
(* The specification.                                                       *)

LEMMA NewDirectorTypes ==
    {NewDirector(h, w) : h, w \in BOOLEAN} \subseteq Directors
  <1>1. \A h, w \in BOOLEAN : NewDirector(h, w) \in Directors
    BY DEF NewDirector, Directors, Timers
  <1> QED BY <1>1

LEMMA InitInv == Init => DInv
  <1> SUFFICES ASSUME Init PROVE DInv
    OBVIOUS
  <1>1. 0 \in 0..LargestHorde /\ 0 \in 0..(WandererMax + 1)
    BY LargestHordeIsLargest, DirectorConstants
  <1>2. director \in Directors
    BY NewDirectorTypes DEF Init
  <1>3. manager \in Managers /\ manager.toSpawn = 0
    BY <1>1 DEF Init, Managers, NewManager
  <1>4. HordeModeTypeOK
    BY HordeModeConstants DEF Init, HordeModeInit, HordeModeTypeOK
  <1>5. TypeOK
    BY <1>2, <1>3, <1>4 DEF Init, TypeOK
  <1>6. BetaMatchesChoice
    BY DEF Init, HordeModeInit, BetaMatchesChoice
  <1> QED BY <1>3, <1>5, <1>6 DEF DInv, HordeWithinLimit

LEMMA StepInv == DInv /\ [Next]_vars => DInv'
  <1> SUFFICES ASSUME DInv, [Next]_vars PROVE DInv'
    OBVIOUS
  <1> USE DEF DInv, TypeOK
  <1>1. CASE DirectorFrame
    BY <1>1, DirectorFrameStep
  <1>2. CASE SustainTimeUp
    <2>1. director' \in Directors
      BY <1>2 DEF SustainTimeUp, Directors, Timers
    <2> QED BY <1>2, <2>1, OtherStep DEF SustainTimeUp
  <1>3. CASE HordeTimeUp
    <2>1. director' \in Directors
      BY <1>3 DEF HordeTimeUp, Directors, Timers
    <2> QED BY <1>3, <2>1, OtherStep DEF HordeTimeUp
  <1>4. CASE AlienTimeUp
    <2>1. director' \in Directors
      BY <1>4 DEF AlienTimeUp, Directors
    <2> QED BY <1>4, <2>1, OtherStep DEF AlienTimeUp
  <1>5. CASE BatchTimeUp
    BY <1>5, OtherStep DEF BatchTimeUp
  <1>6. CASE IntensityPeaks \/ IntensityFalls
    BY <1>6, OtherStep DEF IntensityPeaks, IntensityFalls
  <1>7. ASSUME NEW on \in BOOLEAN, InputHordes(on) \/ InputWanderers(on) PROVE DInv'
    <2>1. director' \in Directors
      BY <1>7 DEF InputHordes, InputWanderers, Directors
    <2> QED BY <1>7, <2>1, OtherStep DEF InputHordes, InputWanderers
  <1>8. CASE StartFinale
    <2>1. director' \in Directors
      BY <1>8 DEF StartFinale, Directors
    <2> QED BY <1>8, <2>1, OtherStep DEF StartFinale
  <1>9. CASE LevelInit
    <2>1. director' \in {NewDirector(h, w) : h, w \in BOOLEAN}
      BY <1>9 DEF LevelInit
    <2>2. director' \in Directors
      BY <2>1, NewDirectorTypes
    <2> QED BY <1>9, <2>2, OtherStep DEF LevelInit
  <1>10. CASE HordeModeNext /\ UNCHANGED <<director, manager, atPeak>>
    BY <1>10, HordeModeStep
  <1>11. CASE UNCHANGED vars
    BY <1>11, OtherStep DEF vars
  <1> QED BY <1>1, <1>2, <1>3, <1>4, <1>5, <1>6, <1>7, <1>8, <1>9, <1>10, <1>11 DEF Next

\* DInv holds throughout: what a frame does to the horde, the mode to the
\* settings and the level to both keeps all of its parts together.
THEOREM Invariance == Spec => []DInv
  BY InitInv, StepInv, PTL DEF Spec

\* Every field keeps its type: no horde is larger than the largest of the table,
\* no more wanderers wait than asw_wanderer_max and one.
THEOREM DirectorTypes == Spec => []TypeOK
  BY Invariance, PTL DEF DInv

\* What is left of a horde always has a place to come from and, where horde mode
\* chooses when a horde is finished, stays within the maximum of its kind.
THEOREM HordesWithinLimit == Spec => []HordeWithinLimit
  BY Invariance, PTL DEF DInv

\* Whatever the administrator sets and whenever, a beta variable says what he set
\* it to or what the kind chosen last asks for, and a mix stays his.
THEOREM BetaFollowsChoice == Spec => []BetaMatchesChoice
  BY Invariance, PTL DEF DInv
=============================================================================
