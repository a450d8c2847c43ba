--------------------------------- MODULE Lobby ---------------------------------
(***************************************************************************)
(* The lobby of a mission: who commands which marine from the briefing      *)
(* until the marines have landed (game/shared/swarm/asw_gamerules.cpp,      *)
(* game/server/swarm/asw_game_resource.cpp, asw_player.cpp).                *)
(*                                                                          *)
(* Marines are known by their profile and stand in the slots of the game    *)
(* resource; a third table says which profiles are selected or reserved.    *)
(* The limit is recomputed when players come, go or change their readiness, *)
(* and takes marines away from those who have most.                         *)
(***************************************************************************)
EXTENDS Integers, FiniteSets, FiniteSetsExt

CONSTANTS
    MaxClients,         \* entity indices of players
    Persons,            \* a name with its network ID
    Seats,              \* bound: the persons who may take each entity index
    NumProfiles,        \* ASW_NUM_MARINE_PROFILES
    MaxResources,       \* ASW_MAX_MARINE_RESOURCES
    SquadSize,          \* the 4 marines that are allowed in any case
    PlayerStarts,       \* info_player_start entities of the map
    FairRules,          \* asw_fair_marine_rules
    Fallen,             \* the profiles that died in this campaign
    LastCommander,      \* m_LastCommanders of the save: a person for some profiles
    LastSlot,           \* m_LastMarineResourceSlot
    Primary,            \* m_LastPrimaryMarines: his first marine
    EmptySlotsPreferred, \* players may ask for an empty slot
    AllReady            \* asw_marine_lobby_ready is 2: who joins or leads is ready

Clients == 1..MaxClients
Profiles == 1..NumProfiles
Slots == 1..MaxResources
None == 0
Nobody == "nobody"

ASSUME LobbyConstants ==
    /\ MaxClients \in Nat /\ NumProfiles \in Nat /\ MaxResources \in Nat \ {0}
    /\ SquadSize \in Nat \ {0} /\ PlayerStarts \in Nat \ {0}
    /\ FairRules \in BOOLEAN /\ EmptySlotsPreferred \in BOOLEAN /\ AllReady \in BOOLEAN
    /\ Nobody \notin Persons /\ Seats \in [Clients -> SUBSET Persons]
    /\ Fallen \subseteq Profiles /\ Primary \subseteq Profiles
    /\ LastCommander \in [Profiles -> Persons \cup {Nobody}]
    /\ LastSlot \in [Profiles -> Slots]

VARIABLES
    gameState,      \* m_iGameState
    occupant,       \* the person at each entity index
    ready,          \* m_bPlayerReady
    leader,         \* m_Leader
    squad,          \* roster, count, slots, max and oneEach of the game resource
    reserving,      \* m_fReserveMarinesEndTime is set
    shouldStart,    \* m_bShouldStartMission
    landed          \* the profiles whose marine has been spawned

players == <<occupant, ready, leader>>
vars == <<gameState, players, squad, reserving, shouldStart, landed>>

Vacant == [profile |-> None, commander |-> None]

Squads == [roster : [Profiles -> {"free", "selected", "reserved"}],
           count : Int,                                \* m_iNumMarinesSelected
           slots : [Slots -> [profile : Profiles \cup {None}, commander : Clients \cup {None}]],
           max : Nat, oneEach : BOOLEAN]

Connected == {p \in Clients : occupant[p] # Nobody}
Filled(s) == {k \in Slots : s.slots[k].profile # None}
MarinesOf(s, p) == {k \in Filled(s) : s.slots[k].commander = p}
NumMarines(s, p) == Cardinality(MarinesOf(s, p))

-----------------------------------------------------------------------------
(* The tables of the game resource.                                         *)

\* Faulty variant: the count is not lowered.
SetRosterSelected_NoDecrement(s, i, state) ==
    [s EXCEPT !.roster[i] = state,
              !.count = IF state = "selected" /\ s.roster[i] # "selected" THEN @ + 1 ELSE @]

SetRosterSelected(s, i, state) ==
    [s EXCEPT !.roster[i] = state,
              !.count = CASE state = "selected" /\ s.roster[i] # "selected" -> @ + 1
                          [] state # "selected" /\ s.roster[i] = "selected" -> @ - 1
                          [] OTHER -> @]

\* The slots above move down by one, gaps included.
DeleteMarineResource(s, k) ==
    [s EXCEPT !.slots = [j \in Slots |-> IF j < k THEN @[j]
                                         ELSE IF j + 1 \in Slots THEN @[j + 1] ELSE Vacant]]

Dismiss(s, k) == DeleteMarineResource(SetRosterSelected(s, s.slots[k].profile, "free"), k)

\* RosterDeselect, in the briefing.
RosterDeselect(s, p, i) ==
    LET his == {k \in MarinesOf(s, p) : s.slots[k].profile = i} IN
    IF s.roster[i] = "selected" /\ his # {} THEN Dismiss(s, Min(his)) ELSE s

\* A slot that does not hold somebody else's marine.
CanSwap(s, p, slot) == slot # None /\ (slot \in Filled(s) => s.slots[slot].commander = p)

\* Faulty variant: the slot's marine is replaced whoever commands it.
AddMarineResource_Rob(s, p, i, slot) ==
    LET k == IF slot # None THEN slot ELSE Min(Slots \ Filled(s))
        t == IF k \in Filled(s) THEN SetRosterSelected(s, s.slots[k].profile, "free") ELSE s
    IN IF slot = None /\ Filled(s) = Slots THEN s
       ELSE SetRosterSelected([t EXCEPT !.slots[k] = [profile |-> i, commander |-> p]], i, "selected")

\* AddMarineResource: into the preferred slot, or the first that is vacant.
AddMarineResource(s, p, i, slot) ==
    LET k == IF slot # None THEN slot ELSE Min(Slots \ Filled(s))
        t == IF k \in Filled(s) THEN SetRosterSelected(s, s.slots[k].profile, "free") ELSE s
    IN IF (slot = None /\ Filled(s) = Slots) \/ (slot # None /\ ~CanSwap(s, p, slot)) THEN s
       ELSE SetRosterSelected([t EXCEPT !.slots[k] = [profile |-> i, commander |-> p]], i, "selected")

\* Faulty variant: reservations bind nobody.
MayTake_Unreserved(s, p, person, i, slot) ==
    /\ s.count < s.max \/ CanSwap(s, p, slot)
    /\ ~s.oneEach \/ NumMarines(s, p) = 0 \/ CanSwap(s, p, slot)
    /\ i \notin Fallen /\ s.roster[i] # "selected"

\* Faulty variant: the limit is compared too late.
MayTake_OneMore(s, p, person, i, slot) ==
    /\ s.count <= s.max \/ CanSwap(s, p, slot)
    /\ ~s.oneEach \/ NumMarines(s, p) = 0 \/ CanSwap(s, p, slot)
    /\ i \notin Fallen /\ s.roster[i] # "selected"
    /\ s.roster[i] = "reserved" => LastCommander[i] = person

\* What RosterSelect asks before it creates the marine resource.
MayTake(s, p, person, i, slot) ==
    /\ s.count < s.max \/ CanSwap(s, p, slot)
    /\ ~s.oneEach \/ NumMarines(s, p) = 0 \/ CanSwap(s, p, slot)
    /\ i \notin Fallen /\ s.roster[i] # "selected"
    /\ s.roster[i] = "reserved" => LastCommander[i] = person
    /\ \A k \in Filled(s) : s.slots[k].profile # i

RosterSelect(s, p, person, i, slot) ==
    IF MayTake(s, p, person, i, slot) THEN AddMarineResource(s, p, i, slot) ELSE s

-----------------------------------------------------------------------------
(* The limit.                                                               *)

RemoveAMarineFor(s, p) ==
    IF MarinesOf(s, p) = {} THEN s
    ELSE RosterDeselect(s, p, s.slots[Min(MarinesOf(s, p))].profile)

\* RemoveAMarine: of the first player who has most of them.
RemoveAMarine(s, conn) ==
    LET most == {p \in conn : \A q \in conn : NumMarines(s, q) <= NumMarines(s, p)} IN
    IF most = {} THEN s ELSE RemoveAMarineFor(s, Min(most))

\* EnforceFairMarineRules: everybody keeps the last of his marines.
EnforceFair(s, conn) ==
    LET greedy(t) == {p \in conn : NumMarines(t, p) > 1}
        trim[n \in 0..MaxResources] ==
            IF n = 0 THEN s
            ELSE IF greedy(trim[n - 1]) = {} THEN trim[n - 1]
            ELSE RemoveAMarineFor(trim[n - 1], Min(greedy(trim[n - 1])))
    IN trim[MaxResources]

\* A player who is ready without a marine is a spectator.
NumActive(s, conn, rdy) == Cardinality({p \in conn : NumMarines(s, p) > 0 \/ ~rdy[p]})

\* SetMaxMarines: the players counted exclude one who leaves.
SetMaxMarines(s, conn, counted, rdy) ==
    LET n == NumActive(s, counted, rdy)
        fair == n >= SquadSize /\ FairRules
        limited == [(IF fair THEN EnforceFair(s, conn) ELSE s) EXCEPT
                       !.max = Min({IF n < SquadSize THEN SquadSize ELSE n, PlayerStarts}),
                       !.oneEach = fair]
        trim[k \in 0..MaxResources] ==
            IF k = 0 THEN limited
            ELSE IF trim[k - 1].count > trim[k - 1].max THEN RemoveAMarine(trim[k - 1], conn)
            ELSE trim[k - 1]
    IN trim[MaxResources]

-----------------------------------------------------------------------------
(* Players come and go.                                                     *)

\* AutoselectMarines: the marines he had, in the order of their slots.
AutoselectMarines(s, p, person) ==
    LET step[n \in 0..(MaxResources * NumProfiles)] ==
            LET slot == ((n - 1) \div NumProfiles) + 1
                i == ((n - 1) % NumProfiles) + 1
            IN IF n = 0 THEN s
               ELSE IF LastSlot[i] = slot /\ LastCommander[i] = person
                    THEN RosterSelect(step[n - 1], p, person, i, None)
               ELSE step[n - 1]
    IN step[MaxResources * NumProfiles]

\* ClientConnected, then the player's entity with its Spawn: PlayerSpawn of the
\* rules comes before the limit is recomputed.
Join(p, person) ==
    /\ occupant[p] = Nobody /\ person \notin {occupant[q] : q \in Clients}
    /\ occupant' = [occupant EXCEPT ![p] = person]
    /\ ready' = [ready EXCEPT ![p] = AllReady]
    /\ leader' = IF leader = None THEN p ELSE leader
    /\ squad' = IF gameState # "BRIEFING" THEN squad
                ELSE SetMaxMarines(AutoselectMarines(squad, p, person), Connected', Connected', ready')
    /\ UNCHANGED <<gameState, reserving, shouldStart, landed>>

\* RosterDeselectAll, in the briefing.
RosterDeselectAll(s, p) ==
    LET drop[n \in 0..MaxResources] ==
            IF n = 0 THEN s
            ELSE IF MarinesOf(drop[n - 1], p) = {} THEN drop[n - 1]
            ELSE Dismiss(drop[n - 1], Max(MarinesOf(drop[n - 1], p)))
    IN drop[MaxResources]

\* ReassignMarines: from the last slot to the first, in turn to the others.
ReassignMarines(s, p, others) ==
    LET place(k) == Cardinality({j \in MarinesOf(s, p) : j > k})
        nth(n) == CHOOSE q \in others : Cardinality({o \in others : o < q}) = n
        heir(k) == IF others = {} THEN None ELSE nth(place(k) % Cardinality(others))
    IN [s EXCEPT !.slots = [k \in Slots |-> IF k \in MarinesOf(s, p)
                                            THEN [@[k] EXCEPT !.commander = heir(k)] ELSE @[k]]]

\* SetLeader.  An old leader who wanted to be a spectator is made ready (who
\* did, and who becomes leader, is the subject of LeaderKickVote).
SetLeader(q) ==
    /\ leader' = q
    /\ \E flag \in BOOLEAN :
          ready' = IF gameState # "BRIEFING" THEN ready
                   ELSE [c \in Clients |-> CASE c = q -> AllReady
                                             [] c = leader /\ c # q -> ready[c] \/ flag
                                             [] OTHER -> ready[c]]

LeaderElected(p) ==
    /\ p \in Connected /\ leader # p
    /\ SetLeader(p)
    /\ UNCHANGED <<gameState, occupant, squad, reserving, shouldStart, landed>>

\* ClientDisconnected, then the destructor, which recomputes the limit again.
Leave(p) ==
    LET others == Connected \ {p} IN
    /\ occupant[p] # Nobody
    /\ occupant' = [occupant EXCEPT ![p] = Nobody]
    /\ IF leader # p THEN UNCHANGED <<leader, ready>>
       ELSE \E heir \in IF others = {} THEN {None} ELSE others : SetLeader(heir)
    /\ squad' = IF gameState # "BRIEFING" THEN ReassignMarines(squad, p, others)
                ELSE SetMaxMarines(SetMaxMarines(RosterDeselectAll(squad, p),
                                                 Connected, others, ready'),
                                   others, others, ready')
    /\ UNCHANGED <<gameState, reserving, shouldStart, landed>>

-----------------------------------------------------------------------------
(* Commands of the players.                                                 *)

\* cl_selectm.
Select(p, i, slot) ==
    /\ gameState = "BRIEFING" /\ p \in Connected
    /\ slot \in Filled(squad) \cup {None} \/ EmptySlotsPreferred
    /\ squad' = RosterSelect(squad, p, occupant[p], i, slot)
    /\ UNCHANGED <<gameState, players, reserving, shouldStart, landed>>

\* cl_dselectm.
Deselect(p, i) ==
    /\ gameState = "BRIEFING" /\ p \in Connected
    /\ squad' = RosterDeselect(squad, p, i)
    /\ UNCHANGED <<gameState, players, reserving, shouldStart, landed>>

\* cl_selectsinglem: the loop over the slots goes on while they move down.
SelectSingle(p, i) ==
    LET visit[k \in 0..MaxResources] ==
            IF k = 0 THEN [squad |-> squad, done |-> FALSE]
            ELSE LET v == visit[k - 1] IN
                 IF v.done \/ k \notin Filled(v.squad) THEN [v EXCEPT !.done = TRUE]
                 ELSE IF v.squad.slots[k].commander = p
                      THEN [v EXCEPT !.squad = RosterDeselect(@, p, @.slots[k].profile)]
                 ELSE v
    IN  /\ gameState = "BRIEFING" /\ p \in Connected
        /\ squad' = RosterSelect(visit[MaxResources].squad, p, occupant[p], i, None)
        /\ UNCHANGED <<gameState, players, reserving, shouldStart, landed>>

\* cl_ready.
ToggleReady(p) ==
    /\ gameState = "BRIEFING" /\ p \in Connected
    /\ ready' = [ready EXCEPT ![p] = ~@]
    /\ squad' = SetMaxMarines(squad, Connected, Connected, ready')
    /\ UNCHANGED <<gameState, occupant, leader, reserving, shouldStart, landed>>

\* cl_spectating: a leader is made ready only when he stops to lead.
Spectate(p) ==
    /\ gameState = "BRIEFING" /\ p \in Connected
    /\ ready' = IF leader # p THEN [ready EXCEPT ![p] = TRUE] ELSE ready
    /\ squad' = SetMaxMarines(squad, Connected, Connected, ready')
    /\ UNCHANGED <<gameState, occupant, leader, reserving, shouldStart, landed>>

AreAllOtherPlayersReady(p) == \A q \in Connected \ {p} : ready[q]

\* RequestStartMission, where neither a tech nor equipment is required.
RequestStart(p) ==
    /\ gameState = "BRIEFING" /\ p \in Connected
    /\ Filled(squad) # {} /\ AreAllOtherPlayersReady(p)
    /\ shouldStart' = TRUE
    /\ UNCHANGED <<gameState, players, squad, reserving, landed>>

\* cl_forceready of the leader: CheckForceReady finishes at once.
ForceStart ==
    /\ gameState = "BRIEFING" /\ leader # None /\ Filled(squad) # {}
    /\ squad' = SetMaxMarines(squad, Connected, Connected, ready)
    /\ shouldStart' = TRUE
    /\ UNCHANGED <<gameState, players, reserving, landed>>

-----------------------------------------------------------------------------
(* Think of the rules.                                                      *)

\* UnreserveMarines.
ReserveTimeUp ==
    /\ gameState = "BRIEFING" /\ reserving
    /\ reserving' = FALSE
    /\ squad' = [squad EXCEPT !.roster = [i \in Profiles |-> IF @[i] = "reserved" THEN "free" ELSE @[i]]]
    /\ UNCHANGED <<gameState, players, shouldStart, landed>>

StartMission ==
    /\ gameState = "BRIEFING" /\ shouldStart /\ Filled(squad) # {}
    /\ gameState' = "LAUNCHING"
    /\ UNCHANGED <<players, squad, reserving, shouldStart, landed>>

\* Faulty variant: the next place is looked for before the marine is spawned.
UpdateLaunching_OneShort ==
    LET room == {k \in Filled(squad) : Cardinality({j \in Filled(squad) : j < k}) < PlayerStarts - 1} IN
    /\ gameState = "LAUNCHING"
    /\ landed' = IF landed = {} THEN {squad.slots[k].profile : k \in room} ELSE landed
    /\ gameState' = IF landed # {} \/ Cardinality(room) = PlayerStarts - 1 THEN "INGAME" ELSE gameState
    /\ UNCHANGED <<players, squad, reserving, shouldStart>>

\* UpdateLaunching with SpawnNextMarine: a marine for each slot while there are
\* places; if some are left, the game begins with the next step.
UpdateLaunching ==
    LET room == {k \in Filled(squad) : Cardinality({j \in Filled(squad) : j < k}) < PlayerStarts} IN
    /\ gameState = "LAUNCHING"
    /\ landed' = IF landed = {} THEN {squad.slots[k].profile : k \in room} ELSE landed
    /\ gameState' = IF landed # {} \/ Cardinality(room) = PlayerStarts THEN "INGAME" ELSE gameState
    /\ UNCHANGED <<players, squad, reserving, shouldStart>>

-----------------------------------------------------------------------------

Reserved == {i \in Profiles : LastCommander[i] # Nobody /\ i \in Primary \ Fallen}

\* A level has been loaded: ReserveMarines, then SetMaxMarines.
Init ==
    /\ gameState = "BRIEFING"
    /\ occupant = [p \in Clients |-> Nobody]
    /\ ready = [p \in Clients |-> FALSE]
    /\ leader = None
    /\ squad = [roster |-> [i \in Profiles |-> IF i \in Reserved THEN "reserved" ELSE "free"],
                count |-> 0, slots |-> [k \in Slots |-> Vacant],
                max |-> Min({SquadSize, PlayerStarts}), oneEach |-> FALSE]
    /\ reserving = TRUE /\ shouldStart = FALSE /\ landed = {}

Think == ReserveTimeUp \/ StartMission \/ UpdateLaunching

Next ==
    \/ \E p \in Clients : \/ \E person \in Seats[p] : Join(p, person)
                          \/ Leave(p)
                          \/ LeaderElected(p)
                          \/ \E i \in Profiles, slot \in Slots \cup {None} : Select(p, i, slot)
                          \/ \E i \in Profiles : Deselect(p, i) \/ SelectSingle(p, i)
                          \/ ToggleReady(p) \/ Spectate(p) \/ RequestStart(p)
    \/ ForceStart
    \/ Think

Spec == Init /\ [][Next]_vars

TypeOK ==
    /\ gameState \in {"BRIEFING", "LAUNCHING", "INGAME"}
    /\ occupant \in [Clients -> Persons \cup {Nobody}]
    /\ ready \in [Clients -> BOOLEAN]
    /\ leader \in Clients \cup {None}
    /\ squad \in Squads
    /\ reserving \in BOOLEAN /\ shouldStart \in BOOLEAN /\ landed \subseteq Profiles

-----------------------------------------------------------------------------
(* Properties.                                                              *)

\* The three tables of the game resource agree: the profiles marked as selected
\* are those in the slots, each in one, and the count is their number.  Select,
\* swap, forced removal and departure all change the three one after another.
RosterMatchesSlots ==
    /\ squad.count = Cardinality(Filled(squad))
    /\ \A i \in Profiles :
          (squad.roster[i] = "selected") = (\E k \in Slots : squad.slots[k].profile = i)
    /\ \A j, k \in Filled(squad) : squad.slots[j].profile = squad.slots[k].profile => j = k

\* No more marines than the limit, and in a briefing with fair rules one each,
\* through all changes of the limit (if nobody asks for an empty slot, see
\* LobbyGaps).
LimitKept ==
    /\ squad.count <= squad.max
    /\ gameState = "BRIEFING" /\ squad.oneEach => \A p \in Clients : NumMarines(squad, p) <= 1

\* Every marine that was selected stands in the game: the briefing never lets
\* more be selected than the map has places, though nobody looks at them later.
EveryMarineLands ==
    gameState = "INGAME" => \A k \in Filled(squad) : squad.slots[k].profile \in landed

CommanderOf(i) ==
    LET its == {k \in Filled(squad) : squad.slots[k].profile = i} IN
    IF its = {} THEN None ELSE squad.slots[Min(its)].commander

\* A reserved marine goes to the person who had it in the last mission only.
ReservationHonoured ==
    [][\A i \in Profiles :
          squad.roster[i] = "reserved" /\ squad'.roster[i] = "selected"
              => occupant'[CommanderOf(i)'] = LastCommander[i]]_vars

Command == INSTANCE MarineCommand WITH
    Marines <- Profiles, Players <- Clients, NoOne <- None,
    playing <- gameState # "BRIEFING", present <- Connected,
    commander <- [i \in Profiles |-> CommanderOf(i)]

\* The lobby implements MarineCommand on a map with a place for each player:
\* nobody is robbed of his last marine, nobody who left commands one, and
\* marines are orphaned only when the server empties.
FollowsCommand == Command!Spec
=============================================================================
