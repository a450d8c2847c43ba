--------------------------------- MODULE Hacking ---------------------------------
(***************************************************************************)
(* Computers and button panels, the techs that hack them and the hack       *)
(* objects between the two (game/server/swarm/asw_computer_area.cpp,        *)
(* asw_button_area.cpp, asw_hack*.cpp, asw_marine.cpp,                       *)
(* asw_marine_schedule.cpp).                                                *)
(*                                                                          *)
(* A marine holds a handle of the area he uses, the area a flag that it is  *)
(* in use, and a hack object, made when a player's tech first opens the     *)
(* area, holds its marine while he holds it.  A marine without a player     *)
(* hacks by waiting, a tech with a player by solving a puzzle.              *)
(***************************************************************************)
EXTENDS Integers, Sequences, FiniteSetsExt

CONSTANTS
    Marines, Techs,     \* Techs: CanHack
    Players, Commander, \* the player who commands each marine
    Computers, Panels,
    Download,           \* the computers with a download objective
    Turrets,            \* the computers with a remote turret
    Full,               \* a progress of 1.0, and the number of wires
    Levels,             \* for each level: the places each marine may get to, a
                        \* place being the set of areas it lies in
    None

Areas == Computers \cup Panels
Menu == 0
OverridePage == 99      \* ASW_HACK_OPTION_OVERRIDE

ASSUME HackingConstants ==
    /\ Techs \subseteq Marines /\ Commander \in [Marines -> Players]
    /\ Computers \cap Panels = {} /\ Download \subseteq Computers /\ Turrets \subseteq Computers
    /\ Full \in Nat \ {0} /\ Levels \subseteq [Marines -> SUBSET SUBSET Areas]
    /\ None \notin Marines \cup Areas

VARIABLES
    level,      \* the level that is played
    driven,     \* the marine each player inhabits
    world       \* the marines m, areas a and hack objects h

vars == <<level, driven, world>>

MarineStates == [alive : BOOLEAN, at : SUBSET Areas,
                 using : Areas \cup {None},         \* m_hUsingEntity
                 hack : Areas \cup {None},          \* m_hCurrentHack, named by its area
                 turret : Computers \cup {None},    \* m_hRemoteTurret, named by its computer
                 order : Areas \cup {None}]         \* m_hAreaToUse
AreaStates == [locked : BOOLEAN, power : BOOLEAN, inUse : BOOLEAN, progress : 0..Full,
               downloaded : BOOLEAN, closing : BOOLEAN]     \* m_flStopUsingTime is set
HackStates == [exists : BOOLEAN, marine : Marines \cup {None},
               page : Nat, solved : BOOLEAN,        \* m_iShowOption, m_bLastAllCorrect
               lit : 0..Full]                       \* the wires that are lit

NoHack == [exists |-> FALSE, marine |-> None, page |-> Menu, solved |-> FALSE, lit |-> 0]

Reachable == UNION {UNION level[x] : x \in Marines}
Inhabited(x) == driven[Commander[x]] = x
UsersOf(w, e) == {x \in Marines : w.m[x].using = e}

-----------------------------------------------------------------------------
(* Menus.                                                                   *)

Options(w, e) ==
    (IF e \in Download /\ w.a[e].progress < Full THEN <<"download">> ELSE <<>>)
        \o (IF e \in Turrets THEN <<"turret">> ELSE <<>>)

\* GetOptionTypeForEntry: the numbers shift when the download is done.
OptionType(w, e, i) == IF i \in 1..Len(Options(w, e)) THEN Options(w, e)[i] ELSE "none"

IsDownloading(w, e) == w.h[e].marine # None /\ OptionType(w, e, w.h[e].page) = "download"

\* Faulty variant: the pages of a locked computer may be opened.
SelectPage_Unlocked(w, e, i) ==
    IF ~w.a[e].locked /\ i = OverridePage THEN w
    ELSE LET v == [w EXCEPT !.h[e].page = i] IN
         IF OptionType(w, e, i) = "turret" /\ w.h[e].marine # None
         THEN [v EXCEPT !.m[w.h[e].marine].turret = e] ELSE v

\* CASW_Hack_Computer::SelectHackOption.
SelectPage(w, e, i) ==
    LET hacker == w.h[e].marine
        allowed == IF w.a[e].locked THEN i = OverridePage /\ hacker \in Techs
                                    ELSE i # OverridePage
        v == [w EXCEPT !.h[e].page = i]
    IN IF ~allowed THEN w
       ELSE IF OptionType(w, e, i) = "turret" /\ hacker # None
            THEN [v EXCEPT !.m[hacker].turret = e] ELSE v

-----------------------------------------------------------------------------
(* Starting and stopping.                                                   *)

CanStart(w, x, e) == w.m[x].alive /\ e \in w.m[x].at

StartUsing(w, x, e) ==
    [w EXCEPT !.m[x].using = e, !.a[e].inUse = TRUE,
              !.a[e].closing = IF e \in Computers THEN FALSE ELSE @]

LeaveArea(w, x, e) ==
    [w EXCEPT !.m[x].using = None, !.m[x].order = None, !.a[e].inUse = FALSE]

LeaveHack(w, x, e) ==
    [w EXCEPT !.m[x].hack = IF @ = e THEN None ELSE @,
              !.m[x].turret = IF e \in Computers THEN None ELSE @,
              !.h[e].marine = None,
              !.h[e].page = IF e \in Computers THEN Menu ELSE @]

\* CASW_Marine::StopUsing; the area tells its hack object.
StopUsing(w, x) ==
    LET e == w.m[x].using IN
    IF e = None THEN w
    ELSE IF w.h[e].exists THEN LeaveHack(LeaveArea(w, x, e), x, e) ELSE LeaveArea(w, x, e)

\* InitHack; a new wire puzzle has some wires lit.
InitHack(w, x, e, wires) ==
    [w EXCEPT !.m[x].hack = e,
              !.h[e] = [@ EXCEPT !.exists = TRUE, !.marine = x, !.page = Menu,
                                 !.lit = IF w.h[e].exists THEN w.h[e].lit ELSE wires]]

Open(w, x, e, wires) ==
    IF ~CanStart(w, x, e) THEN w
    ELSE IF Inhabited(x) /\ x \in Techs THEN InitHack(StartUsing(w, x, e), x, e, wires)
    ELSE StartUsing(w, x, e)

\* Both return early for a marine who cannot hack a locked area: see AskTech.
PressComputer(w, x, e, wires) ==
    IF w.a[e].inUse /\ w.m[x].using = e
    THEN IF x \in Techs /\ w.h[e].exists /\ w.a[e].locked /\ w.h[e].page # OverridePage
         THEN SelectPage(w, e, OverridePage) ELSE StopUsing(w, x)
    ELSE IF w.a[e].inUse \/ (w.a[e].locked /\ x \notin Techs) THEN w
    ELSE Open(w, x, e, wires)

\* Faulty variant: a panel in use may be opened.
PressPanel_Twice(w, x, e, wires) ==
    IF ~(w.a[e].power /\ w.a[e].locked /\ x \in Techs) THEN w
    ELSE IF w.m[x].using = e THEN StopUsing(w, x) ELSE Open(w, x, e, wires)

\* An unlocked button only fires its outputs.
PressPanel(w, x, e, wires) ==
    IF ~(w.a[e].power /\ w.a[e].locked /\ x \in Techs) THEN w
    ELSE IF ~w.a[e].inUse THEN Open(w, x, e, wires)
    ELSE IF w.m[x].using = e THEN StopUsing(w, x) ELSE w

ActivateUseIcon(w, x, e, wires) ==
    IF e \in Computers THEN PressComputer(w, x, e, wires) ELSE PressPanel(w, x, e, wires)

-----------------------------------------------------------------------------
(* What using does over time.                                               *)

\* CASW_Button_Area::SetHackProgress.
SetHackProgress(w, x, e, f) ==
    LET done == w.a[e].progress < Full /\ f >= Full IN
    [(IF done /\ (~Inhabited(x) \/ x \notin Techs) THEN StopUsing(w, x) ELSE w)
        EXCEPT !.a[e].progress = f, !.a[e].locked = @ /\ ~done]

\* OnComputerDataDownloaded: closes the computer if there was nothing else.
Downloaded(w, e) ==
    IF w.a[e].downloaded THEN w
    ELSE [w EXCEPT !.a[e].downloaded = TRUE,
                   !.a[e].closing = @ \/ Len(Options(w, e)) <= 1]

Load(w, e) == [w EXCEPT !.a[e].progress = @ + 1]
Unlock(w, e) == [w EXCEPT !.a[e].locked = FALSE]

\* The hack of a marine without a player, or of no tech.
WaitAtComputer(w, x, e) ==
    IF ~(w.a[e].inUse /\ e \in Download /\ w.a[e].progress < Full) THEN w
    ELSE IF w.a[e].progress + 1 < Full THEN Load(w, e)
    ELSE Downloaded(Unlock(StopUsing(Load(w, e), x), e), e)

DownloadFiles(w, e) ==
    IF ~(IsDownloading(w, e) /\ w.a[e].progress < Full) THEN w
    ELSE IF w.a[e].progress + 1 < Full THEN Load(w, e)
    ELSE Downloaded(Load(w, e), e)

CloseWhenDone(w, x, e, late) ==
    IF w.a[e].closing /\ late THEN [StopUsing(w, x) EXCEPT !.a[e].closing = FALSE] ELSE w

WorkAtComputer(w, x, e, late) ==
    IF w.h[e].exists THEN CloseWhenDone(DownloadFiles(w, e), x, e, late) ELSE w

\* Faulty variant: only marines with a player get on.
MarineUsing_PlayersOnly(w, x, e, late) ==
    IF e \in Computers /\ Inhabited(x) THEN WorkAtComputer(w, x, e, late) ELSE w

MarineUsing(w, x, e, late) ==
    LET waits == ~Inhabited(x) \/ x \notin Techs IN
    IF e \in Computers
    THEN IF waits THEN WaitAtComputer(w, x, e) ELSE WorkAtComputer(w, x, e, late)
    ELSE IF waits /\ w.a[e].inUse /\ w.a[e].locked
         THEN SetHackProgress(w, x, e, w.a[e].progress + 1) ELSE w

\* OnHackUnlocked: straight to the download if there is one.
PuzzleSolved(w, e) ==
    SelectPage([Unlock(w, e) EXCEPT !.h[e].solved = TRUE], e,
               IF OptionType(w, e, 1) = "download" THEN 1 ELSE Menu)

OpenUnasked(w, x, e, late) ==
    IF late /\ x \in Techs /\ w.a[e].locked /\ w.h[e].page # OverridePage
    THEN SelectPage(w, e, OverridePage) ELSE w

\* ASWPostThink.  The tumblers turn whatever page is shown; late: the time to
\* open the puzzle unasked has come; aligned: all of them are right.
HackThink(w, x, late, aligned) ==
    LET e == w.m[x].hack
    IN CASE e \in Panels -> IF w.a[e].inUse
                            THEN SetHackProgress(w, x, e, Min({w.a[e].progress + 1, w.h[e].lit}))
                            ELSE w
         [] e \in Computers -> IF w.h[e].solved THEN w
                               ELSE IF aligned THEN PuzzleSolved(OpenUnasked(w, x, e, late), e)
                               ELSE OpenUnasked(w, x, e, late)

-----------------------------------------------------------------------------
Init ==
    /\ level \in Levels
    /\ driven \in [Players -> Marines] /\ \A p \in Players : Commander[driven[p]] = p
    /\ \E locked \in [Areas -> BOOLEAN] :
         world = [m |-> [x \in Marines |-> [alive |-> TRUE, at |-> {}, using |-> None, hack |-> None,
                                            turret |-> None, order |-> None]],
                  a |-> [e \in Areas |-> [locked |-> locked[e], power |-> TRUE, inUse |-> FALSE,
                                          progress |-> 0, downloaded |-> FALSE, closing |-> FALSE]],
                  h |-> [e \in Areas |-> NoHack]]

UseArea(w, x, late) ==
    LET e == w.m[x].using IN
    IF e = None THEN w
    ELSE IF e \notin w.m[x].at THEN StopUsing(w, x) ELSE MarineUsing(w, x, e, late)

TickHack(w, x, late, aligned) ==
    IF ~Inhabited(x) /\ w.m[x].hack # None THEN HackThink(w, x, late, aligned) ELSE w

\* A frame of a marine at s: he uses what he uses, and ticks his hack if nobody
\* plays him (ASWThinkEffects).
MarineFrame(x, s) ==
    /\ world.m[x].alive
    /\ \E late, aligned \in BOOLEAN :
         world' = TickHack(UseArea([world EXCEPT !.m[x].at = s], x, late), x, late, aligned)
    /\ UNCHANGED <<level, driven>>

\* A player's command ticks the hack of his marine (PlayerRunCommand).
PlayerFrame(p) ==
    /\ world.m[driven[p]].hack # None
    /\ \E late, aligned \in BOOLEAN : world' = HackThink(world, driven[p], late, aligned)
    /\ UNCHANGED <<level, driven>>

\* PlayerUse: while a marine uses an area, only that one.
PlayerUse(p) ==
    LET x == driven[p] IN
    /\ world.m[x].alive
    /\ \E e \in Reachable, wires \in 0..Full :
         /\ world.m[x].using \in {None, e}
         /\ world' = ActivateUseIcon(world, x, e, wires)
    /\ UNCHANGED <<level, driven>>

\* A marine who may not hack asks the nearest tech without a player.
AskTech(p) ==
    /\ world.m[driven[p]].alive /\ driven[p] \notin Techs /\ world.m[driven[p]].using = None
    /\ \E e \in Reachable, t \in Techs :
         /\ world.a[e].locked /\ (e \in Panels => world.a[e].power)
         /\ world.m[t].alive /\ ~Inhabited(t)
         /\ world' = [world EXCEPT !.m[t].order = e]
    /\ UNCHANGED <<level, driven>>

\* TASK_ASW_START_USING_AREA of a tech who has arrived where he was sent.
ObeyOrder(t) ==
    LET e == world.m[t].order IN
    /\ world.m[t].alive /\ ~Inhabited(t) /\ e # None
    /\ e \in world.m[t].at /\ world.m[t].using # e
    /\ world' = ActivateUseIcon(world, t, e, 0)
    /\ UNCHANGED <<level, driven>>

\* TaskFail on the way.
GiveUpOrder(t) ==
    /\ world.m[t].order # None /\ world.m[t].order \notin world.m[t].at /\ ~Inhabited(t)
    /\ world' = [world EXCEPT !.m[t].order = None]
    /\ UNCHANGED <<level, driven>>

\* SwitchMarine; InhabitedBy fails the task of the marine, and with it his
\* order if he was on the way to it.
SwitchMarine(p, x) ==
    /\ Commander[x] = p /\ driven[p] # x /\ world.m[x].alive
    /\ driven' = [driven EXCEPT ![p] = x] /\ UNCHANGED level
    /\ \/ UNCHANGED world
       \/ /\ world.m[x].order \notin world.m[x].at
          /\ world' = [world EXCEPT !.m[x].order = None]

\* cl_selecthack: a page of a computer, or a tile of a wire puzzle.
SelectHack(p) ==
    LET e == world.m[driven[p]].hack IN
    /\ e # None
    /\ \/ /\ e \in Computers
          /\ \E i \in {Menu, 1, 2, OverridePage} : world' = SelectPage(world, e, i)
       \/ /\ e \in Panels
          /\ \E lit \in 0..Full : lit - world.h[e].lit \in {-1, 0, 1} /\ world' = [world EXCEPT !.h[e].lit = lit]
    /\ UNCHANGED <<level, driven>>

\* cl_stopusing.
StopCommand(p) ==
    /\ world.m[driven[p]].using # None
    /\ world' = StopUsing(world, driven[p])
    /\ UNCHANGED <<level, driven>>

\* The dead are nowhere and have no orders: nothing reads them.  The bound: of
\* those only who get to an area.
Killed(x) ==
    /\ world.m[x].alive /\ UNION level[x] # {}
    /\ world' = [StopUsing(world, x) EXCEPT !.m[x].alive = FALSE, !.m[x].at = {}, !.m[x].order = None]
    /\ UNCHANGED <<level, driven>>

\* Inputs of a panel from the map.
InputPower(e) ==
    /\ world' = [world EXCEPT !.a[e].power = ~@]
    /\ UNCHANGED <<level, driven>>

InputUnlock(e) ==
    /\ world.a[e].locked
    /\ world' = [world EXCEPT !.a[e].locked = FALSE, !.a[e].progress = Full]
    /\ UNCHANGED <<level, driven>>

InputResetHack(e) ==
    /\ ~world.a[e].inUse
    /\ world' = [world EXCEPT !.a[e].locked = TRUE, !.a[e].progress = 0, !.h[e] = NoHack]
    /\ UNCHANGED <<level, driven>>

Next ==
    \/ \E x \in Marines : Killed(x) \/ \E s \in level[x] : MarineFrame(x, s)
    \/ \E p \in Players : PlayerFrame(p) \/ PlayerUse(p) \/ AskTech(p) \/ SelectHack(p) \/ StopCommand(p)
    \/ \E p \in Players, x \in Marines : SwitchMarine(p, x)
    \/ \E t \in Techs : ObeyOrder(t) \/ GiveUpOrder(t)
    \/ \E e \in Panels \cap Reachable : InputPower(e) \/ InputUnlock(e) \/ InputResetHack(e)

\* Every entity thinks in every frame; nobody has to move.
Fairness == \A x \in Marines : WF_vars(MarineFrame(x, world.m[x].at))

Spec == Init /\ [][Next]_vars /\ Fairness

-----------------------------------------------------------------------------
TypeOK ==
    /\ level \in Levels /\ driven \in [Players -> Marines]
    /\ world.m \in [Marines -> MarineStates]
    /\ world.a \in [Areas -> AreaStates]
    /\ world.h \in [Areas -> HackStates]

\* An area is in use exactly while one living marine uses it, a marine and a
\* hack object hold each other, and only while he uses its area, and who steers
\* a turret hacks the computer of that turret, which is not locked.
HandlesAgree ==
    LET m == world.m  a == world.a  h == world.h IN
    /\ \A e \in Areas : /\ a[e].inUse <=> UsersOf(world, e) # {}
                        /\ \A x, y \in UsersOf(world, e) : x = y
                        /\ h[e].marine # None => h[e].exists /\ m[h[e].marine].hack = e
    /\ \A x \in Marines : /\ ~m[x].alive => m[x].using = None
                          /\ m[x].hack # None => m[x].using = m[x].hack /\ h[m[x].hack].marine = x
                          /\ m[x].turret # None => m[x].hack = m[x].turret /\ ~a[m[x].turret].locked

\* A lock is opened by hacking: what is hacked to the end or has given its
\* files is not locked, nothing is downloaded from a locked computer, and only
\* a tech is at a locked area.
LockHolds ==
    \A e \in Areas : world.a[e].locked =>
        /\ world.a[e].progress < Full /\ ~world.a[e].downloaded
        /\ e \in Computers => ~IsDownloading(world, e)
        /\ UsersOf(world, e) \subseteq Techs

Waits(t) ==
    /\ ~Inhabited(t) /\ world.m[t].hack = None
    /\ world.m[t].using \in Panels \cup Download /\ world.a[world.m[t].using].progress < Full

\* A tech who hacks without a player and without a hack object that a player
\* began gets done, unless he is taken away from it.
TechFinishes ==
    \A t \in Techs : Waits(t) ~> ~Waits(t)

\* A panel that is hacked stays so until the map resets it.  It does not: the
\* tech who hacked it may turn a tile and hack it again (see the README).
DoneStaysDone ==
    [][\A e \in Panels : (world.a[e].progress = Full /\ world'.a[e].progress < Full)
                            => world'.a[e].locked]_vars

\* A tech without a player does not stay at an area where nothing is left to
\* hack.  He does, if the map unlocks it, or at a computer without download.
TechLeaves ==
    \A t \in Techs :
        (~Inhabited(t) /\ world.m[t].using # None) ~> (Inhabited(t) \/ world.m[t].using = None)
===============================================================================
