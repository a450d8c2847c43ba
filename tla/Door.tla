---------------------------------- MODULE Door ----------------------------------
(***************************************************************************)
(* Sliding doors (game/server/swarm/asw_door.cpp on top of CBasePropDoor in *)
(* game/server/props.cpp), the door area that opens them, and the welder    *)
(* that seals and cuts them (game/shared/swarm/asw_weapon_welder_shared.cpp).*)
(*                                                                          *)
(* Doors of one name form a group: a master and its slaves.  A leaf is moved *)
(* by the engine's push physics, which reports what it runs into.  Aliens   *)
(* and marines beat a closed leaf; it is dented, turned to face the other    *)
(* way when need be, and falls.                                             *)
(***************************************************************************)
EXTENDS Integers, FiniteSets

CONSTANTS
    Doors, Master,
    AreaDoor,           \* the door of the door area and of the door button
    Addressed,          \* the doors the map sends its inputs to
    Breakable,          \* the doors that are not of type 2
    AutoReturn,         \* the doors with a return delay
    UseCloses,          \* SF_DOOR_USE_CLOSES
    CanCloseToWeld,
    Strength,           \* m_iDoorStrength
    NeededFlipDamage,
    Blows,              \* the damage a blow may do
    SealTotal,          \* m_flTotalSealTime
    Disturbances        \* bound: inputs, obstacles and whims of the marine

ASSUME DoorConstants ==
    /\ Master \in Doors /\ AreaDoor \in Doors /\ Cardinality(Doors) <= 2
    /\ Addressed \subseteq Doors /\ Breakable \subseteq Doors /\ AutoReturn \subseteq Doors
    /\ UseCloses \in BOOLEAN /\ CanCloseToWeld \in BOOLEAN
    /\ Strength \in Nat \ {0} /\ NeededFlipDamage \in Nat \ {0} /\ SealTotal \in Nat \ {0}
    /\ Blows \subseteq Nat \ {0} /\ Disturbances \in Nat

VARIABLES
    slaves,     \* m_hDoorList of the master
    leaf,       \* the motion of each door
    hit,        \* m_pBlocker: what the push physics finds in the way of each door
    locked,     \* m_bLocked
    body,       \* the damage each door has taken
    seal,       \* m_flCurrentSealTime
    area,       \* auto: m_bAutoOpen; hold: before m_fClosingToWeldTime
    welder,     \* the marine with the welder
    left        \* of the Disturbances

doorVars == <<slaves, leaf, hit, locked, body, seal, area, welder, left>>

\* The places of a leaf: in the frame, within a hair of it (IsOpen() is still
\* FALSE), on its way, in the wall, and wherever an unset goal sends it.
Shut == 0
Near == 1
Midway == 2
Out == 3
Nowhere == -1

LeafStates == [state : {"closed", "opening", "open", "closing"},    \* m_eDoorState
               pos : Nowhere..Out,
               goal : {Nowhere, Shut, Out},                         \* m_vecGoal
               timer : {"off", "slide", "return"},                  \* m_flMoveDoneTime
               fn : {"none", "opened", "closed", "autoclose"},      \* m_pfnMoveDone
               first : BOOLEAN]                                     \* m_bFirstBlocked
Sides == {"front", "back"}
Dents == {"none", "partial", "complete"}
BodyStates == [health : 0..Strength, dent : Dents, flipped : BOOLEAN,
               last : Sides,                            \* m_vLastDamageDir
               counter : Int,                           \* m_fLastMomentFlipDamage
               fallen : BOOLEAN,
               since : 0..NeededFlipDamage]             \* history: damage since it was turned
WelderStates == [near : BOOLEAN, inhabited : BOOLEAN,
                 auto : {"off", "seal", "cut"},         \* m_bShotDelayed, m_iAutomaticWeldDirection
                 target : BOOLEAN,                      \* m_pWeldDoor is set
                 weld : {"off", "seal", "cut"}]         \* m_fWeldTime > 0, m_bWeldSeal

DoorTypeOK ==
    /\ slaves \subseteq Doors \ {Master} /\ leaf \in [Doors -> LeafStates]
    /\ hit \in [Doors -> {"none", "npc", "thing"}] /\ locked \in [Doors -> BOOLEAN]
    /\ body \in [Doors -> BodyStates] /\ seal \in [Doors -> 0..SealTotal]
    /\ area \in [auto : BOOLEAN, hold : BOOLEAN] /\ welder \in WelderStates
    /\ left \in 0..Disturbances

-----------------------------------------------------------------------------
(* Motion.  L is the motion of all the doors.                               *)

Reached(l) == [l EXCEPT !.pos = l.goal, !.timer = "off"]

\* DoorOpenMoveDone and DoorCloseMoveDone.
MoveDoneLeaf(l, returns) ==
    LET r == Reached(l) IN
    CASE l.fn = "opened" -> [r EXCEPT !.state = "open", !.first = FALSE,
                                      !.timer = IF returns THEN "return" ELSE "off",
                                      !.fn = IF returns THEN "autoclose" ELSE @]
      [] l.fn = "closed" -> [r EXCEPT !.state = "closed", !.first = FALSE]
      [] OTHER -> r

SlideMove(l, to, returns) ==
    LET g == [l EXCEPT !.goal = to] IN
    IF l.pos = to THEN MoveDoneLeaf(g, returns) ELSE [g EXCEPT !.timer = "slide"]

OpenLeaf(l, returns) ==
    IF l.state \in {"open", "opening"} THEN l
    ELSE SlideMove([l EXCEPT !.state = "opening", !.fn = "opened"], Out, returns)

CloseLeaf(l, returns) ==
    IF l.state \in {"closed", "closing"} THEN l
    ELSE SlideMove([l EXCEPT !.state = "closing", !.fn = "closed"], Shut, returns)

\* The doors that a door takes along when it starts to move.
Led(d) == {d} \cup (IF d = Master THEN slaves ELSE {})

DoorOpen(L, d) ==
    IF L[d].state \in {"open", "opening"} THEN L
    ELSE [e \in Doors |-> IF e \in Led(d) THEN OpenLeaf(L[e], e \in AutoReturn) ELSE L[e]]

DoorClose(L, d) ==
    IF L[d].state \in {"closed", "closing"} THEN L
    ELSE [e \in Doors |-> IF e \in Led(d) THEN CloseLeaf(L[e], e \in AutoReturn) ELSE L[e]]

\* MoveDone; clear: what DoorCanClose finds at that moment.
MoveDone(L, d, clear) ==
    IF L[d].fn # "autoclose"
    THEN [L EXCEPT ![d] = MoveDoneLeaf(@, d \in AutoReturn)]
    ELSE LET M == [L EXCEPT ![d] = Reached(@)] IN      \* DoorAutoCloseThink
         IF clear THEN DoorClose(M, d) ELSE [M EXCEPT ![d].timer = "return"]

DoorResume(L, d, clear) ==
    IF L[d].pos = L[d].goal THEN MoveDone(L, d, clear) ELSE [L EXCEPT ![d].timer = "slide"]

\* Faulty variant: the door that is blocked is stopped like the others.
OnStartBlocked_StopsAll(L, d, who) ==
    LET M == [L EXCEPT ![d].timer = "off"] IN
    CASE who # "npc" -> M
      [] M[d].state = "closing" -> DoorOpen(M, d)
      [] OTHER -> DoorClose(M, d)

OnStartBlocked(L, d, who) ==
    LET M == IF L[d].first THEN L ELSE [L EXCEPT ![d].timer = "off"] IN    \* DoorStop
    CASE who # "npc" -> M
      [] M[d].state = "closing" -> DoorOpen(M, d)
      [] OTHER -> DoorClose(M, d)

\* StartBlocked: a slave's obstacle stops the whole group, the master's only
\* the master.
StartBlocked(L, d, who) ==
    LET F == [L EXCEPT ![d].first = TRUE] IN
    IF d \notin slaves THEN OnStartBlocked(F, d, who)
    ELSE OnStartBlocked([e \in Doors |-> IF e \in slaves THEN OnStartBlocked(F, e, who)[e]
                                                         ELSE F[e]], Master, who)

OnEndBlocked(L, d, clear) == IF L[d].first THEN L ELSE DoorResume(L, d, clear)

EndBlocked(L, d, clear) ==
    IF d \notin slaves /\ d # Master THEN OnEndBlocked(L, d, clear)
    ELSE OnEndBlocked([e \in Doors |-> IF e \in slaves THEN OnEndBlocked(L, e, clear)[e]
                                                       ELSE L[e]], Master, clear)

-----------------------------------------------------------------------------
(* Locks.                                                                   *)

IsOpen(d) == leaf[d].pos \notin {Shut, Near}

IsDoorLocked(d) ==
    \/ locked[d] \/ seal[d] > 0
    \/ body[d].dent = "complete"
    \/ d = Master /\ \E e \in slaves : body[e].dent = "complete"

OpenIfUnlocked(d) == IF IsDoorLocked(d) THEN leaf ELSE DoorOpen(leaf, d)

-----------------------------------------------------------------------------
(* Damage.                                                                  *)

\* DoorNeedsFlip: a leaf falls away from the blow only if it faces the right way.
NeedsFlip(b) == (b.last = "front") # b.flipped

SetDentSequence(b) ==
    IF b.dent = "none" /\ NeedsFlip(b) THEN [b EXCEPT !.flipped = ~@] ELSE b

\* ASW_DOOR_PARTIAL_DENT_HEALTH is 0.66, ASW_DOOR_COMPLETE_DENT_HEALTH 0.33.
DentFor(health) ==
    CASE 100 * health > 66 * Strength -> "none"
      [] 100 * health > 33 * Strength -> "partial"
      [] OTHER -> "complete"

\* Faulty variant: the count is not set back when the door is turned.
Turned_NoGrace(b) ==
    [SetDentSequence([b EXCEPT !.dent = "none"]) EXCEPT
        !.dent = "complete", !.counter = 0, !.since = 0]

\* Faulty variant: a dented door is not straightened first, so it is not turned.
Turned_StaysDented(b) ==
    [SetDentSequence([b EXCEPT !.dent = "complete"]) EXCEPT
        !.counter = -NeededFlipDamage, !.since = 0]

Turned(b) ==
    [SetDentSequence([b EXCEPT !.dent = "none"]) EXCEPT
        !.dent = "complete", !.counter = -NeededFlipDamage, !.since = 0]

\* OnTakeDamage; health below zero is as good as zero.
Struck(b, side, n) ==
    LET h == [b EXCEPT !.last = side, !.health = IF n >= @ THEN 0 ELSE @ - n,
                       !.since = IF @ + n > NeededFlipDamage THEN NeededFlipDamage ELSE @ + n]
        c == b.counter + n
    IN CASE h.health > 0 -> SetDentSequence([h EXCEPT !.dent = DentFor(h.health)])
         [] h.health = 0 /\ NeedsFlip(h) ->
                LET k == [h EXCEPT !.health = 1, !.counter = c] IN
                IF c >= NeededFlipDamage THEN Turned(k) ELSE k
         [] OTHER -> IF b.counter < 0 THEN [h EXCEPT !.counter = c]
                                      ELSE [h EXCEPT !.fallen = TRUE]   \* Event_Killed

-----------------------------------------------------------------------------
(* The welder.                                                              *)

FindDoor == welder.near /\ body[AreaDoor].health > 0

SealAfter(weld) ==
    CASE weld = "seal" -> IF seal[AreaDoor] < SealTotal THEN seal[AreaDoor] + 1 ELSE SealTotal
      [] weld = "cut" -> IF seal[AreaDoor] > 0 THEN seal[AreaDoor] - 1 ELSE 0
      [] OTHER -> seal[AreaDoor]

\* CASW_Door::WeldDoor: an auto-open door that is cut is told to open before
\* its seal is set to zero.
OpenedByCutting(weld) ==
    IF weld = "cut" /\ seal[AreaDoor] = 1 /\ area.auto THEN OpenIfUnlocked(AreaDoor) ELSE leaf

Idle(w) == [w EXCEPT !.auto = "off", !.target = FALSE, !.weld = "off"]

\* The first half of CASW_Weapon_Welder::ItemPostFrame: weld, and look whether
\* automatic welding has come to its end.
AfterWeld(w, runsOut, sealed) ==
    LET v == IF runsOut THEN [w EXCEPT !.weld = "off"] ELSE w IN
    IF \/ v.auto = "seal" /\ v.target /\ sealed = SealTotal
       \/ v.auto = "cut" /\ v.target /\ sealed = 0
       \/ v.auto # "off" /\ ~v.target /\ ~FindDoor
    THEN Idle(v) ELSE v

\* CASW_Weapon_Welder::WeldDoor; cancels: another weapon is fired meanwhile.
Attack(w, dir, facing, cancels) ==
    CASE ~FindDoor \/ cancels -> Idle(w)
      [] facing /\ ~IsOpen(AreaDoor) -> [w EXCEPT !.target = TRUE, !.weld = dir]
      [] OTHER -> w

ClosesForWeld(dir, facing) ==
    FindDoor /\ dir = "seal" /\ facing /\ IsOpen(AreaDoor) /\ CanCloseToWeld

-----------------------------------------------------------------------------
Spawned(s, p) == [state |-> s, pos |-> p, goal |-> Nowhere, timer |-> "off",
                  fn |-> "none", first |-> FALSE]
Undamaged == [health |-> Strength, dent |-> "none", flipped |-> FALSE, last |-> "back",
              counter |-> 0, fallen |-> FALSE, since |-> NeededFlipDamage]

\* A map may have a door dented from the start, either way.
SpawnedDented(percent, flipped) ==
    [Undamaged EXCEPT !.health = (percent * Strength) \div 100, !.flipped = flipped,
                      !.dent = IF percent = 66 THEN "partial" ELSE "complete"]

DoorInit ==
    /\ slaves \in SUBSET (Doors \ {Master})
    /\ leaf \in {[d \in Doors |-> Spawned("closed", Shut)], [d \in Doors |-> Spawned("open", Out)]}
    /\ hit = [d \in Doors |-> "none"]
    /\ locked \in [Doors -> BOOLEAN]
    /\ body \in [Doors -> {Undamaged} \cup {SpawnedDented(n, f) : n \in {33, 66}, f \in BOOLEAN}]
    /\ \A d \in Doors \ Breakable : body[d] = Undamaged
    /\ seal \in [Doors -> {0, SealTotal}]
    /\ \E auto \in BOOLEAN : area = [auto |-> auto, hold |-> FALSE]
    /\ \E near, inhabited \in BOOLEAN :
         welder = [near |-> near, inhabited |-> inhabited, auto |-> "off", target |-> FALSE, weld |-> "off"]
    /\ left = Disturbances

Disturb == left > 0 /\ left' = left - 1

-----------------------------------------------------------------------------
(* The push physics.                                                        *)

Sliding(d) == leaf[d].timer = "slide"

\* A leaf comes closer to its goal.
Slide(d) ==
    /\ Sliding(d) /\ hit[d] = "none"
    /\ \E p \in Near..Midway :
          /\ \/ leaf[d].goal = Out /\ p > leaf[d].pos
             \/ leaf[d].goal = Shut /\ p < leaf[d].pos
          /\ leaf' = [leaf EXCEPT ![d].pos = p]
    /\ UNCHANGED <<slaves, hit, locked, body, seal, area, welder, left>>

\* The time to the goal is up.  CBaseEntity::PerformPush calls MoveDone for a
\* leaf without a VPhysics object, CBaseEntity::VPhysicsUpdatePusher for one that
\* has it, as doors do; neither does while the leaf is held back.
Arrive(d) ==
    /\ Sliding(d) /\ hit[d] = "none"
    /\ leaf[d].pos \in CASE leaf[d].goal = Out -> {Midway, Nowhere}
                         [] leaf[d].goal = Shut -> {Near, Midway, Nowhere}
                         [] OTHER -> Nowhere..Out
    /\ \E clear \in BOOLEAN : leaf' = MoveDone(leaf, d, clear)
    /\ UNCHANGED <<slaves, hit, locked, body, seal, area, welder, left>>

\* The return delay of an open leaf is over.
Return(d) ==
    /\ leaf[d].timer = "return"
    /\ \E clear \in BOOLEAN : leaf' = MoveDone(leaf, d, clear)
    /\ UNCHANGED <<slaves, hit, locked, body, seal, area, welder, left>>

Bump(d) ==
    /\ Disturb /\ Sliding(d)
    /\ \E who \in {"npc", "thing"} \ {hit[d]}, clear \in BOOLEAN :
          /\ hit' = [hit EXCEPT ![d] = who]
          /\ leaf' = StartBlocked(IF hit[d] = "none" THEN leaf ELSE EndBlocked(leaf, d, clear), d, who)
    /\ UNCHANGED <<slaves, locked, body, seal, area, welder>>

\* What was in the way has gone, or the leaf moves away from it or waits to
\* return.  A leaf that is at rest is not simulated (WillSimulateGamePhysics):
\* it keeps what it has hit till it moves again.
Freed(d) ==
    /\ hit[d] # "none" /\ leaf[d].timer # "off" /\ hit' = [hit EXCEPT ![d] = "none"]
    /\ \E clear \in BOOLEAN : leaf' = EndBlocked(leaf, d, clear)
    /\ UNCHANGED <<slaves, locked, body, seal, area, welder, left>>

-----------------------------------------------------------------------------
(* Inputs, the door area and the door button.                               *)

InputOpen(d) == leaf' = OpenIfUnlocked(d)
InputClose(d) == leaf' = DoorClose(leaf, d)
InputToggle(d) ==
    leaf' = CASE leaf[d].state = "closed" -> OpenIfUnlocked(d)
              [] leaf[d].state = "open" -> DoorClose(leaf, d)
              [] OTHER -> leaf

\* CBasePropDoor::Use: the master is used in place of its slave.
Use(d) ==
    LET u == IF d \in slaves THEN Master ELSE d
        s == leaf[u].state
    IN CASE s = "closed" -> leaf' = OpenIfUnlocked(u)
         [] s = "open" -> leaf' \in {leaf} \cup (IF UseCloses /\ ~IsDoorLocked(u)
                                                 THEN {DoorClose(leaf, u)} ELSE {})
         [] s = "opening" -> leaf' = IF UseCloses THEN DoorClose(leaf, u) ELSE leaf
         [] OTHER -> leaf' = DoorOpen(leaf, u)

Input(d) ==
    /\ d \in Addressed /\ Disturb
    /\ InputOpen(d) \/ InputClose(d) \/ InputToggle(d) \/ Use(d)
    /\ UNCHANGED <<slaves, hit, locked, body, seal, area, welder>>

InputLock(d) ==
    /\ d \in Addressed /\ Disturb /\ locked' = [locked EXCEPT ![d] = ~@]
    /\ UNCHANGED <<slaves, leaf, hit, body, seal, area, welder>>

InputAutoOpen ==
    /\ AreaDoor \in Addressed /\ Disturb /\ area' = [area EXCEPT !.auto = ~@]
    /\ UNCHANGED <<slaves, leaf, hit, locked, body, seal, welder>>

PressButton ==
    /\ Disturb /\ seal[AreaDoor] = 0 /\ InputToggle(AreaDoor)
    /\ UNCHANGED <<slaves, hit, locked, body, seal, area, welder>>

\* Faulty variant: the door opens in the welder's face.
AutoOpen_Rude == IF area.auto THEN OpenIfUnlocked(AreaDoor) ELSE leaf

\* CASW_Door_Area::ActivateMultiTrigger and CASW_Door::AutoOpen.
AutoOpen == IF area.auto /\ ~area.hold THEN OpenIfUnlocked(AreaDoor) ELSE leaf

TouchArea ==
    /\ leaf' = AutoOpen
    /\ UNCHANGED <<slaves, hit, locked, body, seal, area, welder, left>>

-----------------------------------------------------------------------------
(* Blows.  A marine's kick is a blow that does no damage.                   *)

Blow(d, side, n) ==
    /\ d \in Breakable /\ ~body[d].fallen /\ leaf[d].state = "closed"
    /\ body' = [body EXCEPT ![d] = Struck(@, side, n)]
    /\ UNCHANGED <<slaves, leaf, hit, locked, seal, area, welder, left>>

Kick(d, side) == Blow(d, side, 0)

-----------------------------------------------------------------------------
(* The marine with the welder.                                              *)

\* ItemPostFrame, whole: weld, end, and attack again (or not, between attacks).
WelderFrame(dir, facing, cancels, runsOut) ==
    LET sealed == SealAfter(welder.weld)
        w == AfterWeld(welder, runsOut, sealed)
        attacks == dir # "off" /\ (dir = w.auto \/ w.inhabited)
        closes == attacks /\ ~cancels /\ ClosesForWeld(dir, facing)
        opened == OpenedByCutting(welder.weld)
    IN /\ welder.inhabited \/ (facing /\ ~cancels)
       /\ seal' = [seal EXCEPT ![AreaDoor] = sealed]
       /\ welder' = IF attacks THEN Attack(w, dir, facing, cancels) ELSE w
       /\ leaf' = IF closes THEN DoorClose(opened, AreaDoor) ELSE opened
       /\ area' = IF closes THEN [area EXCEPT !.hold = TRUE] ELSE area
       /\ UNCHANGED <<slaves, hit, locked, body, left>>

\* The second is over.  A marine who keeps sealing renews it in time.
HoldEnds ==
    /\ area.hold /\ (welder.inhabited \/ welder.auto # "seal" \/ ~welder.near)
    /\ area' = [area EXCEPT !.hold = FALSE]
    /\ UNCHANGED <<slaves, leaf, hit, locked, body, seal, welder, left>>

MarineMoves ==
    /\ Disturb /\ welder' = [welder EXCEPT !.near = ~@]
    /\ UNCHANGED <<slaves, leaf, hit, locked, body, seal, area>>

\* OffhandActivate; a player may recommend the seal (m_bRecommendedSeal).
OffhandActivate ==
    /\ Disturb /\ FindDoor
    /\ \E recommended \in BOOLEAN :
          welder' = [welder EXCEPT !.auto =
             CASE @ = "seal" -> "cut" [] @ = "cut" -> "seal"
               [] seal[AreaDoor] = 0 \/ (recommended /\ seal[AreaDoor] < SealTotal) -> "seal"
               [] OTHER -> "cut"]
    /\ UNCHANGED <<slaves, leaf, hit, locked, body, seal, area>>

WelderActs ==
    \/ \E dir \in {"off", "seal", "cut"}, facing, cancels, runsOut \in BOOLEAN :
          WelderFrame(dir, facing, cancels, runsOut)
    \/ HoldEnds \/ MarineMoves \/ OffhandActivate

DoorNext ==
    \/ \E d \in Doors : Slide(d) \/ Arrive(d) \/ Return(d) \/ Bump(d) \/ Freed(d)
    \/ \E d \in Doors : Input(d) \/ InputLock(d)
    \/ InputAutoOpen \/ PressButton \/ TouchArea
    \/ \E d \in Doors, side \in Sides : Kick(d, side) \/ \E n \in Blows : Blow(d, side, n)
    \/ WelderActs

\* The physics moves what may move, every frame; so does the welder of a
\* marine who welds by himself.
DoorFairness ==
    /\ \A d \in Doors : WF_doorVars(Slide(d) \/ Arrive(d))
    /\ WF_doorVars(WelderFrame(welder.auto, TRUE, FALSE, FALSE) /\ welder.auto # "off")

DoorSpec == DoorInit /\ [][DoorNext]_doorVars /\ DoorFairness

-----------------------------------------------------------------------------
(* Properties.                                                              *)

\* A leaf that is stopped because another is blocked is set going again: no
\* leaf is left half-way once nothing is in anybody's way any more
\* (CBasePropDoor::StartBlocked, EndBlocked and m_bFirstBlocked).
LeftHalfway(d) == \E s \in {"opening", "closing"} : <>[](leaf[d].state = s)
ComesToRest ==
    <>[](\A d \in Doors : Sliding(d) => hit[d] = "none") => \A d \in Doors : ~LeftHalfway(d)

\* A door that falls faces the last blow's direction, and since it was turned
\* at the last moment it has taken NeededFlipDamage more (OnTakeDamage: "so it
\* doesn't fall immediately after changing facing").
FallsAsAnimated ==
    [][\A d \in Doors : ~body[d].fallen /\ body'[d].fallen =>
          /\ body'[d].flipped = (body'[d].last = "front")
          /\ body[d].since = NeededFlipDamage]_doorVars

\* Aliens that keep beating one side of a closed door bring it down, whatever
\* way it faced and whoever hit it before (OnTakeDamage).
Clawed(d, side) == \E n \in Blows : Blow(d, side, n)
OneSidedAttackFells ==
    \A d \in Breakable, side \in Sides :
       <>[](body[d].last = side) /\ []<><<Clawed(d, side)>>_doorVars => <>(body[d].fallen)

\* A marine ordered to seal a door gets it sealed, though the door stands open
\* at first and opens for all who come near (CloseForWeld, m_fClosingToWeldTime):
\* unless he is called off or something stays in the door's way.
Sealing == welder.auto = "seal" /\ ~welder.inhabited /\ CanCloseToWeld
SealGetsDone ==
    <>[](\A d \in Doors : Sliding(d) => hit[d] = "none") =>
       (Sealing ~> (seal[AreaDoor] = SealTotal \/ ~Sealing \/ ~FindDoor))

(* What comments and assertions say, and the code does not keep.            *)

\* "very dented, unable to open" (asw_door.h:23).
DentedStaysShut ==
    [][\A d \in Doors : leaf[d].state = "closed" /\ body[d].dent = "complete"
          => leaf'[d].state = "closed"]_doorVars

\* "make doors immune to kick damage" (asw_door.cpp:1201).
KickNeverFells ==
    [][\A d \in Doors, side \in Sides : Kick(d, side) => body'[d].fallen = body[d].fallen]_doorVars

\* "if the door is shut, we can weld" (asw_weapon_welder_shared.cpp:291).
WeldsOnlyShut == [][seal'[AreaDoor] > seal[AreaDoor] => ~IsOpen(AreaDoor)]_doorVars

\* "door completely opened" (asw_door.cpp:985).
CutOpensAutoDoor ==
    [][seal[AreaDoor] > 0 /\ seal'[AreaDoor] = 0 /\ area.auto /\ ~locked[AreaDoor]
          /\ leaf[AreaDoor].state = "closed" => leaf'[AreaDoor].state # "closed"]_doorVars

\* ASSERT(IsDoorOpening()), ASSERT(IsDoorClosing()) (props.cpp:4568, 4690): a
\* door arrives only if it was on its way.
Resumed(e) == e \in slaves \cup {Master} /\ ~leaf[e].first /\ leaf[e].pos = leaf[e].goal
ArrivesOnce ==
    [][\A d, e \in Doors : Freed(d) /\ d \in slaves \cup {Master} /\ Resumed(e) =>
          /\ leaf[e].fn = "opened" => leaf[e].state = "opening"
          /\ leaf[e].fn = "closed" => leaf[e].state = "closing"]_doorVars

\* "Restart a door moving that was temporarily paused" (asw_door.cpp:786): a
\* door that never moved has no goal to be sent to.
ResumesOnlyPaused == [](\A d \in Doors : Sliding(d) => leaf[d].goal # Nowhere)
===============================================================================
