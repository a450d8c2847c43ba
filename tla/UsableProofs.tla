------------------------------ MODULE UsableProofs ------------------------------
(***************************************************************************)
(* Proofs about what marines use: computers and panels (Hacking), for every *)
(* number of marines, players and areas, and the doors they beat or kick    *)
(* down (Door), for every strength and every blow.                          *)
(*                                                                          *)
(* Hacking is proved operation by operation: each one that takes a world to *)
(* another keeps its types, its locks and its handles, and the actions are  *)
(* made of these operations.                                                *)
(***************************************************************************)
EXTENDS Hacking, Door, TLAPS

\* No place lies in two areas.
AreasApart == \A l \in Levels, x \in Marines : \A s \in l[x] : \A e, f \in s : e = f

Worlds == [m : [Marines -> MarineStates], a : [Areas -> AreaStates], h : [Areas -> HackStates]]

\* The lock of an area: a locked computer shows its menu or its puzzle only,
\* and panels have no files and are used by techs only.
LockAt(w, e) ==
    /\ w.a[e].locked => w.a[e].progress < Full /\ ~w.a[e].downloaded
    /\ w.a[e].locked /\ e \in Computers => w.h[e].page \in {Menu, OverridePage}
    /\ e \in Panels => ~w.a[e].downloaded
    /\ \A x \in Marines : w.m[x].using = e /\ (w.a[e].locked \/ e \in Panels) => x \in Techs

\* The handles between marines, areas and hack objects agree.
Handles(w) ==
    /\ \A e \in Areas :
        /\ w.a[e].inUse <=> \E x \in Marines : w.m[x].using = e
        /\ w.h[e].marine # None => w.h[e].exists /\ w.m[w.h[e].marine].hack = e
    /\ \A x, y \in Marines : w.m[x].using # None /\ w.m[x].using = w.m[y].using => x = y
    /\ \A x \in Marines :
        /\ w.m[x].using # None => w.m[x].alive
        /\ w.m[x].hack # None => w.m[x].using = w.m[x].hack /\ w.h[w.m[x].hack].marine = x
        /\ w.m[x].turret # None => w.m[x].hack = w.m[x].turret /\ ~w.a[w.m[x].turret].locked

\* Nobody moves, and who starts using an area is there.
Stays(w, r) ==
    \A y \in Marines : /\ r.m[y].alive = w.m[y].alive /\ r.m[y].at = w.m[y].at
                       /\ r.m[y].using \in {w.m[y].using, None} \cup w.m[y].at

\* What an operation from w to r that touches only the locks outside S keeps.
Keeps(w, r, S) ==
    /\ r \in Worlds /\ Stays(w, r)
    /\ Handles(w) => Handles(r)
    /\ \A f \in S : LockAt(w, f) => LockAt(r, f)

\* The same, but for the handles.
Guards(w, r) == r \in Worlds /\ Stays(w, r) /\ \A f \in Areas : LockAt(w, f) => LockAt(r, f)

\* The same, but for who is where.
Carries(w, r) ==
    r \in Worlds /\ (Handles(w) => Handles(r)) /\ \A f \in Areas : LockAt(w, f) => LockAt(r, f)

Sound(w) == w \in Worlds /\ \A f \in Areas : LockAt(w, f)

LEMMA KeepsNothing ==
    ASSUME NEW w \in Worlds
    PROVE  Keeps(w, w, Areas)
  BY DEF Keeps, Stays

LEMMA KeepsAgain ==
    ASSUME NEW w, NEW v, NEW r, NEW S, Keeps(w, v, S), Keeps(v, r, S)
    PROVE  Keeps(w, r, S)
  <1>1. Stays(w, r)
    BY Zenon DEF Keeps, Stays
  <1> QED BY <1>1 DEF Keeps

LEMMA KeepsLess ==
    ASSUME NEW w, NEW r, NEW e \in Areas, Keeps(w, r, Areas)
    PROVE  Keeps(w, r, Areas \ {e})
  BY DEF Keeps

LEMMA KeepsGuards ==
    ASSUME NEW w, NEW r, Keeps(w, r, Areas)
    PROVE  Guards(w, r)
  BY DEF Keeps, Guards

LEMMA GuardsSound ==
    ASSUME NEW w, NEW r, Sound(w), Guards(w, r)
    PROVE  Sound(r)
  BY DEF Guards, Sound

-----------------------------------------------------------------------------
(* Menus.                                                                   *)

LEMMA Entries ==
    ASSUME NEW w, NEW e, NEW i \in Nat
    PROVE  /\ OptionType(w, e, i) = "download" => i = 1 /\ e \in Download /\ w.a[e].progress < Full
           /\ OptionType(w, e, i) = "turret" => i \in {1, 2} /\ e \in Turrets
  <1> DEFINE files == e \in Download /\ w.a[e].progress < Full
             guns == e \in Turrets
  <1>1. Options(w, e) = (IF files THEN <<"download">> ELSE <<>>) \o (IF guns THEN <<"turret">> ELSE <<>>)
    BY DEF Options
  <1> HIDE DEF files, guns
  <1>2. OptionType(w, e, i) = IF i \in 1..Len(Options(w, e)) THEN Options(w, e)[i] ELSE "none"
    BY DEF OptionType
  <1>3. CASE files /\ guns
    <2>1. /\ Len(Options(w, e)) = 2
          /\ Options(w, e)[1] = "download" /\ Options(w, e)[2] = "turret"
      BY <1>1, <1>3
    <2>2. i \in 1..2 => i = 1 \/ i = 2
      OBVIOUS
    <2> QED BY <1>2, <1>3, <2>1, <2>2 DEF files, guns
  <1>4. CASE files /\ ~guns
    <2>1. Len(Options(w, e)) = 1 /\ Options(w, e)[1] = "download"
      BY <1>1, <1>4
    <2> QED BY <1>2, <1>4, <2>1 DEF files, guns
  <1>5. CASE ~files /\ guns
    <2>1. Len(Options(w, e)) = 1 /\ Options(w, e)[1] = "turret"
      BY <1>1, <1>5
    <2> QED BY <1>2, <1>5, <2>1 DEF files, guns
  <1>6. CASE ~files /\ ~guns
    <2>1. Len(Options(w, e)) = 0
      BY <1>1, <1>6
    <2> QED BY <1>2, <2>1
  <1> QED BY <1>3, <1>4, <1>5, <1>6

-----------------------------------------------------------------------------
(* One marine, area or hack object changes.                                 *)

PutM(w, x, s) == [w EXCEPT !.m = [w.m EXCEPT ![x] = s]]
PutA(w, e, s) == [w EXCEPT !.a = [w.a EXCEPT ![e] = s]]
PutH(w, e, s) == [w EXCEPT !.h = [w.h EXCEPT ![e] = s]]

\* An area changes, but not its use, and it is not locked.
LEMMA AreaKeeps ==
    ASSUME NEW w \in Worlds, NEW e \in Areas, NEW s \in AreaStates,
           NEW r, r = PutA(w, e, s),
           s.inUse <=> w.a[e].inUse, s.locked => w.a[e].locked
    PROVE  /\ Keeps(w, r, Areas \ {e}) /\ r.m = w.m /\ r.h = w.h /\ r.a[e] = s
           /\ (LockAt(w, e) => LockAt(r, e)) => Keeps(w, r, Areas)
  <1>1. /\ r \in Worlds /\ r.m = w.m /\ r.h = w.h
        /\ r.a[e] = s /\ \A f \in Areas \ {e} : r.a[f] = w.a[f]
    BY DEF Worlds, PutA
  <1>2. Stays(w, r)
    BY <1>1 DEF Stays
  <1>3. ASSUME Handles(w) PROVE Handles(r)
    <2>1. \A f \in Areas : /\ r.a[f].inUse <=> w.a[f].inUse
                           /\ r.a[f].locked => w.a[f].locked
      BY <1>1
    <2>2. \A x \in Marines : w.m[x].turret # None => w.m[x].turret \in Areas
      BY DEF Worlds, MarineStates, Areas
    <2>3. \A f \in Areas : r.a[f].inUse <=> \E x \in Marines : r.m[x].using = f
      BY <1>1, <1>3, <2>1 DEF Handles
    <2>4. \A x \in Marines : r.m[x].turret # None => r.m[x].hack = r.m[x].turret /\ ~r.a[r.m[x].turret].locked
      BY <1>1, <1>3, <2>1, <2>2 DEF Handles
    <2> QED BY <1>1, <1>3, <2>3, <2>4 DEF Handles
  <1>4. \A f \in Areas \ {e} : LockAt(w, f) => LockAt(r, f)
    BY <1>1 DEF LockAt
  <1> QED BY <1>1, <1>2, <1>3, <1>4 DEF Keeps

\* A hack object changes, but not its marine, nor its page if the area is locked.
LEMMA HackKeeps ==
    ASSUME NEW w \in Worlds, NEW e \in Areas, NEW s \in HackStates,
           NEW r, r = PutH(w, e, s),
           s.exists <=> w.h[e].exists, s.marine = w.h[e].marine,
           w.a[e].locked => s.page \in {w.h[e].page, Menu, OverridePage}
    PROVE  Keeps(w, r, Areas) /\ r.m = w.m /\ r.a = w.a /\ r.h[e] = s
  <1>1. /\ r \in Worlds /\ r.m = w.m /\ r.a = w.a
        /\ r.h[e] = s /\ \A f \in Areas \ {e} : r.h[f] = w.h[f]
    BY DEF Worlds, PutH
  <1>2. Stays(w, r)
    BY <1>1 DEF Stays
  <1>3. \A f \in Areas : /\ r.h[f].exists <=> w.h[f].exists
                         /\ r.h[f].marine = w.h[f].marine
                         /\ w.a[f].locked => r.h[f].page \in {w.h[f].page, Menu, OverridePage}
    BY <1>1
  <1>4. \A x \in Marines : w.m[x].hack # None => w.m[x].hack \in Areas
    BY DEF Worlds, MarineStates
  <1>5. ASSUME Handles(w) PROVE Handles(r)
    <2>1. \A f \in Areas : r.h[f].marine # None => r.h[f].exists /\ r.m[r.h[f].marine].hack = f
      BY <1>1, <1>3, <1>5 DEF Handles
    <2>2. \A x \in Marines : r.m[x].hack # None => r.m[x].using = r.m[x].hack /\ r.h[r.m[x].hack].marine = x
      BY <1>1, <1>3, <1>4, <1>5 DEF Handles
    <2> QED BY <1>1, <1>5, <2>1, <2>2 DEF Handles
  <1>6. \A f \in Areas : LockAt(w, f) => LockAt(r, f)
    BY <1>1, <1>3 DEF LockAt
  <1> QED BY <1>1, <1>2, <1>5, <1>6 DEF Keeps

\* A marine changes, but not what he holds.
LEMMA MarineKeeps ==
    ASSUME NEW w \in Worlds, NEW x \in Marines, NEW s \in MarineStates,
           NEW r, r = PutM(w, x, s),
           w.m[x].alive => s.alive \/ s.using = None,
           s.using = w.m[x].using, s.hack = w.m[x].hack, s.turret = w.m[x].turret
    PROVE  Carries(w, r) /\ r.m[x] = s /\ \A y \in Marines \ {x} : r.m[y] = w.m[y]
  <1>1. /\ r \in Worlds /\ r.a = w.a /\ r.h = w.h
        /\ r.m[x] = s /\ \A y \in Marines \ {x} : r.m[y] = w.m[y]
    BY DEF Worlds, PutM
  <1>2. \A y \in Marines : /\ r.m[y].using = w.m[y].using /\ r.m[y].hack = w.m[y].hack
                           /\ r.m[y].turret = w.m[y].turret
                           /\ w.m[y].alive => r.m[y].alive \/ r.m[y].using = None
    BY <1>1
  <1>3. \A f \in Areas : w.h[f].marine # None => w.h[f].marine \in Marines
    BY DEF Worlds, HackStates
  <1>4. ASSUME Handles(w) PROVE Handles(r)
    <2>1. \A f \in Areas : r.h[f].marine # None => r.h[f].exists /\ r.m[r.h[f].marine].hack = f
      BY <1>1, <1>2, <1>3, <1>4 DEF Handles
    <2>2. \A f \in Areas : r.a[f].inUse <=> \E y \in Marines : r.m[y].using = f
      BY <1>1, <1>2, <1>4 DEF Handles
    <2>3. \A y \in Marines :
            /\ r.m[y].using # None => r.m[y].alive
            /\ r.m[y].hack # None => r.m[y].using = r.m[y].hack /\ r.h[r.m[y].hack].marine = y
            /\ r.m[y].turret # None => r.m[y].hack = r.m[y].turret /\ ~r.a[r.m[y].turret].locked
      BY <1>1, <1>2, <1>4 DEF Handles
    <2>4. \A y, z \in Marines : r.m[y].using # None /\ r.m[y].using = r.m[z].using => y = z
      BY <1>2, <1>4 DEF Handles
    <2> QED BY <2>1, <2>2, <2>3, <2>4 DEF Handles
  <1>5. \A f \in Areas : LockAt(w, f) => LockAt(r, f)
    BY <1>1, <1>2 DEF LockAt
  <1> QED BY <1>1, <1>4, <1>5 DEF Carries
-----------------------------------------------------------------------------
(* A marine and his area or his hack object change together.                *)

PutMA(w, x, s, e, b) == [w EXCEPT !.m = [w.m EXCEPT ![x] = s], !.a = [w.a EXCEPT ![e] = b]]
PutMH(w, x, s, e, o) == [w EXCEPT !.m = [w.m EXCEPT ![x] = s], !.h = [w.h EXCEPT ![e] = o]]

LEMMA PutMarineArea ==
    ASSUME NEW w \in Worlds, NEW x \in Marines, NEW s \in MarineStates, NEW e \in Areas, NEW b \in AreaStates,
           NEW r, r = PutMA(w, x, s, e, b)
    PROVE  /\ r \in Worlds /\ r.h = w.h
           /\ r.m[x] = s /\ \A y \in Marines \ {x} : r.m[y] = w.m[y]
           /\ r.a[e] = b /\ \A f \in Areas \ {e} : r.a[f] = w.a[f]
  BY DEF Worlds, PutMA

LEMMA PutMarineHack ==
    ASSUME NEW w \in Worlds, NEW x \in Marines, NEW s \in MarineStates, NEW e \in Areas, NEW o \in HackStates,
           NEW r, r = PutMH(w, x, s, e, o)
    PROVE  /\ r \in Worlds /\ r.a = w.a
           /\ r.m[x] = s /\ \A y \in Marines \ {x} : r.m[y] = w.m[y]
           /\ r.h[e] = o /\ \A f \in Areas \ {e} : r.h[f] = w.h[f]
  BY DEF Worlds, PutMH

-----------------------------------------------------------------------------
(* A marine stops using.                                                    *)

LEMMA HackStops ==
    ASSUME NEW v \in Worlds, NEW x \in Marines, NEW e \in Areas, NEW r, r = LeaveHack(v, x, e)
    PROVE  /\ r \in Worlds /\ r.a = v.a
           /\ \A y \in Marines \ {x} : r.m[y] = v.m[y]
           /\ r.m[x].alive = v.m[x].alive /\ r.m[x].at = v.m[x].at /\ r.m[x].using = v.m[x].using
           /\ r.m[x].hack = IF v.m[x].hack = e THEN None ELSE v.m[x].hack
           /\ r.m[x].turret = IF e \in Computers THEN None ELSE v.m[x].turret
           /\ \A f \in Areas \ {e} : r.h[f] = v.h[f]
           /\ r.h[e].exists = v.h[e].exists /\ r.h[e].marine = None
           /\ r.h[e].page = IF e \in Computers THEN Menu ELSE v.h[e].page
  <1>1. PICK hack, turret, page :
          /\ hack = IF v.m[x].hack = e THEN None ELSE v.m[x].hack
          /\ turret = IF e \in Computers THEN None ELSE v.m[x].turret
          /\ page = IF e \in Computers THEN Menu ELSE v.h[e].page
    OBVIOUS
  <1>2. r = [v EXCEPT !.m[x].hack = hack, !.m[x].turret = turret, !.h[e].marine = None, !.h[e].page = page]
    BY <1>1, Zenon DEF LeaveHack
  <1>3. PICK s, o : s = [v.m[x] EXCEPT !.hack = hack, !.turret = turret]
                    /\ o = [v.h[e] EXCEPT !.marine = None, !.page = page]
    OBVIOUS
  <1>5. v.m[x] \in MarineStates /\ v.h[e] \in HackStates
    BY DEF Worlds
  <1>4. r = PutMH(v, x, s, e, o)
    <2>1. [v EXCEPT !.m[x].hack = hack, !.m[x].turret = turret, !.h[e].marine = None, !.h[e].page = page]
            = [v EXCEPT !.m = [v.m EXCEPT ![x] = [v.m[x] EXCEPT !.hack = hack, !.turret = turret]],
                        !.h = [v.h EXCEPT ![e] = [v.h[e] EXCEPT !.marine = None, !.page = page]]]
      BY <1>5 DEF Worlds
    <2> QED BY <1>2, <1>3, <2>1, Zenon DEF PutMH
  <1>6. hack \in Areas \cup {None} /\ turret \in Computers \cup {None} /\ page \in Nat
    BY <1>1, <1>5 DEF MarineStates, HackStates, Menu
  <1>7. /\ s \in MarineStates /\ s.alive = v.m[x].alive /\ s.at = v.m[x].at
        /\ s.using = v.m[x].using /\ s.hack = hack /\ s.turret = turret
    BY <1>3, <1>5, <1>6 DEF MarineStates
  <1>8. o \in HackStates /\ o.exists = v.h[e].exists /\ o.marine = None /\ o.page = page
    BY <1>3, <1>5, <1>6 DEF HackStates
  <1>9. /\ r \in Worlds /\ r.a = v.a
        /\ r.m[x] = s /\ \A y \in Marines \ {x} : r.m[y] = v.m[y]
        /\ r.h[e] = o /\ \A f \in Areas \ {e} : r.h[f] = v.h[f]
    BY <1>4, <1>7, <1>8, PutMarineHack
  <1> QED BY <1>1, <1>7, <1>8, <1>9

LEMMA MarineLeaves ==
    ASSUME NEW w \in Worlds, NEW x \in Marines, NEW e \in Areas, NEW r, r = LeaveArea(w, x, e)
    PROVE  /\ r \in Worlds /\ r.h = w.h
           /\ \A y \in Marines \ {x} : r.m[y] = w.m[y]
           /\ r.m[x].alive = w.m[x].alive /\ r.m[x].at = w.m[x].at /\ r.m[x].using = None
           /\ r.m[x].hack = w.m[x].hack /\ r.m[x].turret = w.m[x].turret
           /\ \A f \in Areas \ {e} : r.a[f] = w.a[f]
           /\ r.a[e].locked = w.a[e].locked /\ r.a[e].progress = w.a[e].progress
           /\ r.a[e].downloaded = w.a[e].downloaded /\ ~r.a[e].inUse
  <1>1. PICK s, b : s = [w.m[x] EXCEPT !.using = None, !.order = None]
                    /\ b = [w.a[e] EXCEPT !.inUse = FALSE]
    OBVIOUS
  <1>2. w.m[x] \in MarineStates /\ w.a[e] \in AreaStates
    BY DEF Worlds
  <1>3. r = PutMA(w, x, s, e, b)
    BY <1>1, <1>2 DEF Worlds, LeaveArea, PutMA
  <1>4. /\ s \in MarineStates /\ s.alive = w.m[x].alive /\ s.at = w.m[x].at
        /\ s.using = None /\ s.hack = w.m[x].hack /\ s.turret = w.m[x].turret
    BY <1>1, <1>2 DEF MarineStates
  <1>5. /\ b \in AreaStates /\ b.locked = w.a[e].locked /\ b.progress = w.a[e].progress
        /\ b.downloaded = w.a[e].downloaded /\ ~b.inUse
    BY <1>1, <1>2 DEF AreaStates
  <1> QED BY <1>3, <1>4, <1>5, PutMarineArea

\* r is w in which the marine x has let go of the area e.
LetGo(w, r, x, e) ==
    /\ r \in Worlds
    /\ \A y \in Marines \ {x} : r.m[y] = w.m[y]
    /\ r.m[x].alive = w.m[x].alive /\ r.m[x].at = w.m[x].at /\ r.m[x].using = None
    /\ r.m[x].hack = IF w.h[e].exists /\ w.m[x].hack = e THEN None ELSE w.m[x].hack
    /\ r.m[x].turret = IF w.h[e].exists /\ e \in Computers THEN None ELSE w.m[x].turret
    /\ \A f \in Areas \ {e} : r.a[f] = w.a[f] /\ r.h[f] = w.h[f]
    /\ r.a[e].locked = w.a[e].locked /\ r.a[e].progress = w.a[e].progress
    /\ r.a[e].downloaded = w.a[e].downloaded /\ ~r.a[e].inUse
    /\ r.h[e].exists = w.h[e].exists
    /\ r.h[e].marine = IF w.h[e].exists THEN None ELSE w.h[e].marine
    /\ r.h[e].page = IF w.h[e].exists /\ e \in Computers THEN Menu ELSE w.h[e].page

LEMMA StopsUsing ==
    ASSUME NEW w \in Worlds, NEW x \in Marines, NEW e \in Areas, w.m[x].using = e,
           NEW r, r = StopUsing(w, x)
    PROVE  LetGo(w, r, x, e)
  <1>1. e # None
    BY HackingConstants DEF Areas
  <1>2. PICK v : v = LeaveArea(w, x, e)
    OBVIOUS
  <1>3. r = IF ~w.h[e].exists THEN v ELSE LeaveHack(v, x, e)
    BY <1>1, <1>2, Zenon DEF StopUsing
  <1>4. /\ v \in Worlds /\ v.h = w.h
        /\ \A y \in Marines \ {x} : v.m[y] = w.m[y]
        /\ v.m[x].alive = w.m[x].alive /\ v.m[x].at = w.m[x].at /\ v.m[x].using = None
        /\ v.m[x].hack = w.m[x].hack /\ v.m[x].turret = w.m[x].turret
        /\ \A f \in Areas \ {e} : v.a[f] = w.a[f]
        /\ v.a[e].locked = w.a[e].locked /\ v.a[e].progress = w.a[e].progress
        /\ v.a[e].downloaded = w.a[e].downloaded /\ ~v.a[e].inUse
    BY <1>2, MarineLeaves
  <1>5. CASE ~w.h[e].exists
    BY <1>3, <1>4, <1>5 DEF LetGo
  <1>6. CASE w.h[e].exists
    <2>1. r = LeaveHack(v, x, e)
      BY <1>3, <1>6
    <2>2. /\ r \in Worlds /\ r.a = v.a
          /\ \A y \in Marines \ {x} : r.m[y] = v.m[y]
          /\ r.m[x].alive = v.m[x].alive /\ r.m[x].at = v.m[x].at /\ r.m[x].using = v.m[x].using
          /\ r.m[x].hack = IF v.m[x].hack = e THEN None ELSE v.m[x].hack
          /\ r.m[x].turret = IF e \in Computers THEN None ELSE v.m[x].turret
          /\ \A f \in Areas \ {e} : r.h[f] = v.h[f]
          /\ r.h[e].exists = v.h[e].exists /\ r.h[e].marine = None
          /\ r.h[e].page = IF e \in Computers THEN Menu ELSE v.h[e].page
      BY <1>4, <2>1, HackStops, SMTT(30)
    <2>3. /\ \A y \in Marines \ {x} : r.m[y] = w.m[y]
          /\ \A f \in Areas \ {e} : r.a[f] = w.a[f] /\ r.h[f] = w.h[f]
      BY <1>4, <2>2
    <2>4. /\ r.h[e].exists = w.h[e].exists
          /\ r.h[e].page = IF e \in Computers THEN Menu ELSE w.h[e].page
      BY <1>4, <2>2
    <2>5. /\ r.m[x].hack = IF w.m[x].hack = e THEN None ELSE w.m[x].hack
          /\ r.m[x].turret = IF e \in Computers THEN None ELSE w.m[x].turret
          /\ r.m[x].alive = w.m[x].alive /\ r.m[x].at = w.m[x].at /\ r.m[x].using = None
      BY <1>4, <2>2
    <2>6. /\ r.a[e].locked = w.a[e].locked /\ r.a[e].progress = w.a[e].progress
          /\ r.a[e].downloaded = w.a[e].downloaded /\ ~r.a[e].inUse
      BY <1>4, <2>2
    <2> QED BY <1>6, <2>2, <2>3, <2>4, <2>5, <2>6 DEF LetGo
  <1> QED BY <1>5, <1>6

\* The handles still agree.
LEMMA LetGoAgrees ==
    ASSUME NEW w \in Worlds, NEW x \in Marines, NEW e \in Areas, w.m[x].using = e,
           NEW r, LetGo(w, r, x, e), Handles(w),
           \A f \in Areas : /\ r.a[f].locked = w.a[f].locked
                            /\ (r.a[f].inUse <=> f # e /\ w.a[f].inUse)
    PROVE  Handles(r)
  <1>1. e # None /\ None \notin Areas /\ None \notin Marines
    BY HackingConstants
  <1>2. /\ \A f \in Areas : w.h[f].marine \in Marines \cup {None}
        /\ \A y \in Marines : w.m[y].hack \in Areas \cup {None} /\ w.m[y].turret \in Computers \cup {None}
    BY DEF Worlds, HackStates, MarineStates
  <1>3. \A y \in Marines \ {x} : r.m[y] = w.m[y] /\ w.m[y].using # e
    <2>1. \A y \in Marines \ {x} : r.m[y] = w.m[y]
      BY DEF LetGo
    <2>2. \A y \in Marines \ {x} : w.m[y].using # e
      BY <1>1 DEF Handles
    <2> QED BY <2>1, <2>2
  <1>4. r.m[x].hack = None /\ r.m[x].turret = None /\ r.m[x].using = None /\ r.m[x].alive = w.m[x].alive
    <2>1. w.m[x].hack \in {None, e}
      <3>1. w.m[x].hack # None => w.m[x].using = w.m[x].hack
        BY DEF Handles
      <3> QED BY <3>1
    <2>2. w.m[x].hack = e => w.h[e].exists
      BY <1>1, <2>1 DEF Handles
    <2>3. w.m[x].turret \in {None, w.m[x].hack}
      BY DEF Handles
    <2> QED BY <1>1, <1>2, <2>1, <2>2, <2>3 DEF LetGo
  <1>5. r.h[e].marine = None
    BY <1>2 DEF LetGo, Handles
  <1>6. \A f \in Areas \ {e} : r.h[f] = w.h[f] /\ w.h[f].marine # x
    <2>1. \A f \in Areas \ {e} : r.h[f] = w.h[f]
      BY DEF LetGo
    <2>2. ASSUME NEW f \in Areas \ {e}, w.h[f].marine = x PROVE FALSE
      BY <1>1, <2>2 DEF Handles
    <2> QED BY <2>1, <2>2
  <1>7. \A f \in Areas : /\ r.a[f].inUse <=> \E y \in Marines : r.m[y].using = f
                         /\ r.h[f].marine # None => r.h[f].exists /\ r.m[r.h[f].marine].hack = f
    <2> SUFFICES ASSUME NEW f \in Areas
                 PROVE  /\ r.a[f].inUse <=> \E y \in Marines : r.m[y].using = f
                        /\ r.h[f].marine # None => r.h[f].exists /\ r.m[r.h[f].marine].hack = f
      OBVIOUS
    <2>1. CASE f = e
      BY <1>1, <1>3, <1>4, <1>5, <2>1
    <2>2. CASE f # e
      <3>1. r.a[f].inUse <=> \E y \in Marines : w.m[y].using = f
        BY <2>2 DEF Handles
      <3>2. (\E y \in Marines : w.m[y].using = f) <=> \E y \in Marines : r.m[y].using = f
        BY <1>1, <1>3, <1>4, <2>2
      <3>3. r.h[f].marine # None => r.h[f].exists /\ r.m[r.h[f].marine].hack = f
        BY <1>2, <1>3, <1>6, <2>2 DEF Handles
      <3> QED BY <3>1, <3>2, <3>3
    <2> QED BY <2>1, <2>2
  <1>8. \A y, z \in Marines : r.m[y].using # None /\ r.m[y].using = r.m[z].using => y = z
    BY <1>3, <1>4 DEF Handles
  <1>9. ASSUME NEW y \in Marines
        PROVE  /\ r.m[y].using # None => r.m[y].alive
               /\ r.m[y].hack # None => r.m[y].using = r.m[y].hack /\ r.h[r.m[y].hack].marine = y
               /\ r.m[y].turret # None => r.m[y].hack = r.m[y].turret /\ ~r.a[r.m[y].turret].locked
    <2>1. CASE y = x
      BY <1>4, <2>1
    <2>2. CASE y # x
      <3>1. r.m[y] = w.m[y] /\ w.m[y].using # e
        BY <1>3, <2>2
      <3>2. w.m[y].turret # None => w.m[y].turret \in Areas
        BY <1>2 DEF Areas
      <3>3. /\ w.m[y].using # None => w.m[y].alive
            /\ w.m[y].hack # None => w.m[y].using = w.m[y].hack /\ w.h[w.m[y].hack].marine = y
            /\ w.m[y].turret # None => w.m[y].hack = w.m[y].turret /\ ~w.a[w.m[y].turret].locked
        BY DEF Handles
      <3>4. w.m[y].hack # None => w.m[y].hack \in Areas \ {e}
        BY <1>2, <3>1, <3>3
      <3> QED BY <1>6, <3>1, <3>2, <3>3, <3>4
    <2> QED BY <2>1, <2>2
  <1> QED BY <1>7, <1>8, <1>9 DEF Handles

LEMMA StopKeeps ==
    ASSUME NEW w \in Worlds, NEW x \in Marines, NEW r, r = StopUsing(w, x)
    PROVE  /\ Keeps(w, r, Areas)
           /\ r.m[x].using = None
           /\ \A f \in Areas : r.a[f].locked = w.a[f].locked /\ r.a[f].progress = w.a[f].progress
                               /\ r.a[f].downloaded = w.a[f].downloaded
  <1>1. CASE w.m[x].using = None
    BY <1>1, KeepsNothing DEF StopUsing
  <1>2. CASE w.m[x].using # None
    <2>1. PICK e \in Areas : e = w.m[x].using
      BY <1>2 DEF Worlds, MarineStates
    <2>2. LetGo(w, r, x, e)
      BY <2>1, StopsUsing
    <2>4. \A f \in Areas : /\ r.a[f].locked = w.a[f].locked /\ r.a[f].progress = w.a[f].progress
                           /\ r.a[f].downloaded = w.a[f].downloaded
                           /\ (r.a[f].inUse <=> f # e /\ w.a[f].inUse)
      BY <2>2 DEF LetGo
    <2>5. Stays(w, r)
      BY <2>2 DEF LetGo, Stays
    <2>6. \A f \in Areas : LockAt(w, f) => LockAt(r, f)
      <3>1. \A f \in Areas : r.h[f].page = w.h[f].page \/ r.h[f].page = Menu
        BY <2>2 DEF LetGo
      <3>2. \A f \in Areas, y \in Marines : r.m[y].using = f => w.m[y].using = f
        BY <2>2, HackingConstants DEF LetGo
      <3> QED BY <2>4, <3>1, <3>2 DEF LockAt
    <2>7. ASSUME Handles(w) PROVE Handles(r)
      <3>1. w.m[x].using = e
        BY <2>1
      <3> QED BY <2>2, <2>4, <2>7, <3>1, LetGoAgrees
    <2> QED BY <2>2, <2>4, <2>5, <2>6, <2>7 DEF Keeps, LetGo
  <1> QED BY <1>1, <1>2
-----------------------------------------------------------------------------
(* What a computer gives.                                                   *)

LEMMA Loads ==
    ASSUME NEW w \in Worlds, NEW e \in Areas, w.a[e].progress < Full, NEW r, r = Load(w, e)
    PROVE  /\ Keeps(w, r, Areas \ {e}) /\ r.m = w.m /\ r.h = w.h
           /\ r.a[e].progress = w.a[e].progress + 1
           /\ w.a[e].progress + 1 < Full \/ ~w.a[e].locked => Keeps(w, r, Areas)
           /\ r.a[e].locked <=> w.a[e].locked
  <1>1. PICK s : s = [w.a[e] EXCEPT !.progress = w.a[e].progress + 1]
    OBVIOUS
  <1>2. w.a[e] \in AreaStates /\ Full \in Nat
    BY HackingConstants DEF Worlds
  <1>3. r = PutA(w, e, s)
    BY <1>1, <1>2 DEF Load, PutA, Worlds
  <1>4. /\ s \in AreaStates /\ s.progress = w.a[e].progress + 1
        /\ (s.inUse <=> w.a[e].inUse) /\ (s.locked <=> w.a[e].locked)
        /\ (s.downloaded <=> w.a[e].downloaded)
    BY <1>1, <1>2 DEF AreaStates
  <1>5. /\ Keeps(w, r, Areas \ {e}) /\ r.m = w.m /\ r.h = w.h /\ r.a[e] = s
        /\ (LockAt(w, e) => LockAt(r, e)) => Keeps(w, r, Areas)
    BY <1>3, <1>4, AreaKeeps
  <1>6. w.a[e].progress + 1 < Full \/ ~w.a[e].locked => (LockAt(w, e) => LockAt(r, e))
    BY <1>4, <1>5 DEF LockAt
  <1> QED BY <1>4, <1>5, <1>6

LEMMA Unlocks ==
    ASSUME NEW w \in Worlds, NEW e \in Areas, NEW r, r = Unlock(w, e)
    PROVE  /\ Keeps(w, r, Areas) /\ r.m = w.m /\ r.h = w.h
           /\ ~r.a[e].locked /\ (r.a[e].downloaded <=> w.a[e].downloaded)
  <1>1. PICK s : s = [w.a[e] EXCEPT !.locked = FALSE]
    OBVIOUS
  <1>2. w.a[e] \in AreaStates
    BY DEF Worlds
  <1>3. r = PutA(w, e, s)
    BY <1>1, <1>2 DEF Unlock, PutA, Worlds
  <1>4. /\ s \in AreaStates /\ ~s.locked
        /\ (s.inUse <=> w.a[e].inUse) /\ (s.downloaded <=> w.a[e].downloaded)
    BY <1>1, <1>2 DEF AreaStates
  <1>5. /\ Keeps(w, r, Areas \ {e}) /\ r.m = w.m /\ r.h = w.h /\ r.a[e] = s
        /\ (LockAt(w, e) => LockAt(r, e)) => Keeps(w, r, Areas)
    BY <1>3, <1>4, AreaKeeps
  <1>6. LockAt(w, e) => LockAt(r, e)
    BY <1>4, <1>5 DEF LockAt
  <1> QED BY <1>4, <1>5, <1>6

LEMMA Downloads ==
    ASSUME NEW w \in Worlds, NEW e \in Computers, ~w.a[e].locked, NEW r, r = Downloaded(w, e)
    PROVE  Keeps(w, r, Areas) /\ r.m = w.m /\ r.h = w.h /\ ~r.a[e].locked
  <1>1. CASE w.a[e].downloaded
    BY <1>1, KeepsNothing DEF Downloaded
  <1>2. CASE ~w.a[e].downloaded
    <2>1. e \in Areas /\ e \notin Panels
      BY HackingConstants DEF Areas
    <2>2. PICK c \in BOOLEAN : c = (w.a[e].closing \/ Len(Options(w, e)) <= 1)
      OBVIOUS
    <2>3. PICK s : s = [w.a[e] EXCEPT !.downloaded = TRUE, !.closing = c]
      OBVIOUS
    <2>4. w.a[e] \in AreaStates
      BY <2>1 DEF Worlds
    <2>5. r = PutA(w, e, s)
      <3>1. r = [w EXCEPT !.a[e].downloaded = TRUE, !.a[e].closing = c]
        BY <1>2, <2>2, Zenon DEF Downloaded
      <3> QED BY <2>1, <2>3, <2>4, <3>1 DEF PutA, Worlds
    <2>6. s \in AreaStates /\ ~s.locked /\ (s.inUse <=> w.a[e].inUse)
      BY <2>3, <2>4 DEF AreaStates
    <2>7. /\ Keeps(w, r, Areas \ {e}) /\ r.m = w.m /\ r.h = w.h /\ r.a[e] = s
          /\ (LockAt(w, e) => LockAt(r, e)) => Keeps(w, r, Areas)
      BY <2>1, <2>5, <2>6, AreaKeeps
    <2>8. LockAt(w, e) => LockAt(r, e)
      BY <2>1, <2>6, <2>7 DEF LockAt
    <2> QED BY <2>6, <2>7, <2>8
  <1> QED BY <1>1, <1>2
-----------------------------------------------------------------------------
(* Pages and turrets.                                                       *)

\* The marine of a hack object takes the turret of an unlocked computer.
LEMMA TurretKeeps ==
    ASSUME NEW w \in Worlds, NEW e \in Computers, ~w.a[e].locked,
           NEW x \in Marines, w.h[e].marine = x, NEW r, r = [w EXCEPT !.m[x].turret = e]
    PROVE  Keeps(w, r, Areas) /\ r.a = w.a
  <1>1. PICK s : s = [w.m[x] EXCEPT !.turret = e]
    OBVIOUS
  <1>2. w.m[x] \in MarineStates /\ e \in Areas /\ None \notin Marines
    BY HackingConstants DEF Worlds, Areas
  <1>3. r = PutM(w, x, s)
    BY <1>1, <1>2 DEF PutM, Worlds
  <1>4. /\ s \in MarineStates /\ s.alive = w.m[x].alive /\ s.at = w.m[x].at
        /\ s.using = w.m[x].using /\ s.hack = w.m[x].hack /\ s.turret = e
    BY <1>1, <1>2 DEF MarineStates
  <1>5. /\ r \in Worlds /\ r.a = w.a /\ r.h = w.h
        /\ r.m[x] = s /\ \A y \in Marines \ {x} : r.m[y] = w.m[y]
    BY <1>3, <1>4 DEF Worlds, PutM
  <1>6. \A y \in Marines : /\ r.m[y].using = w.m[y].using /\ r.m[y].hack = w.m[y].hack
                           /\ r.m[y].alive = w.m[y].alive /\ r.m[y].at = w.m[y].at
                           /\ r.m[y].turret = IF y = x THEN e ELSE w.m[y].turret
    BY <1>4, <1>5
  <1>7. Stays(w, r)
    BY <1>6 DEF Stays
  <1>8. \A f \in Areas : LockAt(w, f) => LockAt(r, f)
    BY <1>5, <1>6 DEF LockAt
  <1>9. ASSUME Handles(w) PROVE Handles(r)
    <2>1. w.m[x].hack = e
      BY <1>2, <1>9 DEF Handles
    <2>2. \A f \in Areas : w.h[f].marine # None => w.h[f].marine \in Marines
      BY DEF Worlds, HackStates
    <2>3. \A f \in Areas : /\ r.a[f].inUse <=> \E y \in Marines : r.m[y].using = f
                           /\ r.h[f].marine # None => r.h[f].exists /\ r.m[r.h[f].marine].hack = f
      BY <1>5, <1>6, <1>9, <2>2 DEF Handles
    <2>4. \A y, z \in Marines : r.m[y].using # None /\ r.m[y].using = r.m[z].using => y = z
      BY <1>6, <1>9 DEF Handles
    <2>5. \A y \in Marines :
            /\ r.m[y].using # None => r.m[y].alive
            /\ r.m[y].hack # None => r.m[y].using = r.m[y].hack /\ r.h[r.m[y].hack].marine = y
            /\ r.m[y].turret # None => r.m[y].hack = r.m[y].turret /\ ~r.a[r.m[y].turret].locked
      BY <1>5, <1>6, <1>9, <2>1 DEF Handles
    <2> QED BY <2>3, <2>4, <2>5 DEF Handles
  <1> QED BY <1>5, <1>7, <1>8, <1>9 DEF Keeps

LEMMA SelectKeeps ==
    ASSUME NEW w \in Worlds, NEW e \in Computers, NEW i \in Nat, NEW r, r = SelectPage(w, e, i)
    PROVE  Keeps(w, r, Areas) /\ r.a = w.a
  <1>1. PICK x : x = w.h[e].marine
    OBVIOUS
  <1>2. PICK v : v = [w EXCEPT !.h[e].page = i]
    OBVIOUS
  <1>3. CASE ~(IF w.a[e].locked THEN i = OverridePage /\ x \in Techs ELSE i # OverridePage)
    <2>1. r = w
      BY <1>1, <1>3, Zenon DEF SelectPage
    <2> QED BY <2>1, KeepsNothing
  <1>4. CASE IF w.a[e].locked THEN i = OverridePage /\ x \in Techs ELSE i # OverridePage
    <2>1. r = IF OptionType(w, e, i) = "turret" /\ x # None THEN [v EXCEPT !.m[x].turret = e] ELSE v
      BY <1>1, <1>2, <1>4, Zenon DEF SelectPage
    <2>2. PICK s : s = [w.h[e] EXCEPT !.page = i]
      OBVIOUS
    <2>3. e \in Areas /\ w.h[e] \in HackStates
      BY DEF Areas, Worlds
    <2>4. v = PutH(w, e, s)
      BY <1>2, <2>2, <2>3 DEF PutH, Worlds
    <2>5. /\ s \in HackStates /\ (s.exists <=> w.h[e].exists) /\ s.marine = w.h[e].marine /\ s.page = i
      BY <2>2, <2>3 DEF HackStates
    <2>6. Keeps(w, v, Areas) /\ v.m = w.m /\ v.a = w.a /\ v.h[e] = s
      BY <1>4, <2>3, <2>4, <2>5, HackKeeps
    <2>7. CASE OptionType(w, e, i) = "turret" /\ x # None
      <3>1. i \in {1, 2}
        BY <2>7, Entries
      <3>2. ~v.a[e].locked
        BY <1>4, <2>6, <3>1 DEF OverridePage
      <3>3. x \in Marines /\ v.h[e].marine = x /\ v \in Worlds
        BY <1>1, <2>3, <2>5, <2>6, <2>7 DEF HackStates, Keeps
      <3>4. r = [v EXCEPT !.m[x].turret = e]
        BY <2>1, <2>7
      <3>5. Keeps(v, r, Areas) /\ r.a = v.a
        BY <3>2, <3>3, <3>4, TurretKeeps
      <3> QED BY <2>6, <3>5, KeepsAgain
    <2>8. CASE ~(OptionType(w, e, i) = "turret" /\ x # None)
      BY <2>1, <2>6, <2>8
    <2> QED BY <2>7, <2>8
  <1> QED BY <1>3, <1>4
-----------------------------------------------------------------------------
(* What using does over time.                                               *)

LEMMA MinBetween ==
    ASSUME NEW a \in Nat, NEW b \in Nat
    PROVE  Min({a, b}) \in {a, b} /\ Min({a, b}) <= b
  <1>1. \E z \in {a, b} : \A y \in {a, b} : z <= y
    <2>1. CASE a <= b
      BY <2>1
    <2>2. CASE b <= a
      BY <2>2
    <2> QED BY <2>1, <2>2
  <1> QED BY <1>1 DEF Min

LEMMA ProgressKeeps ==
    ASSUME NEW w \in Worlds, NEW x \in Marines, NEW e \in Areas, LockAt(w, e), NEW f \in 0..Full,
           NEW r, r = SetHackProgress(w, x, e, f)
    PROVE  Keeps(w, r, Areas)
  <1>1. PICK done : done = (w.a[e].progress < Full /\ f >= Full)
    OBVIOUS
  <1>2. PICK v : v = IF done /\ (~Inhabited(x) \/ x \notin Techs) THEN StopUsing(w, x) ELSE w
    OBVIOUS
  <1>3. /\ Keeps(w, v, Areas) /\ (v.a[e].locked <=> w.a[e].locked)
        /\ v.a[e].progress = w.a[e].progress /\ v.a[e].downloaded = w.a[e].downloaded
    BY <1>2, StopKeeps, KeepsNothing
  <1>4. v \in Worlds /\ LockAt(v, e)
    BY <1>3 DEF Keeps
  <1>5. v.a[e] \in AreaStates
    BY <1>4 DEF Worlds
  <1>6. PICK c \in BOOLEAN : c = (v.a[e].locked /\ ~done)
    OBVIOUS
  <1>7. r = [v EXCEPT !.a[e].progress = f, !.a[e].locked = v.a[e].locked /\ ~done]
    <2>1. r = [v EXCEPT !.a[e].progress = f, !.a[e].locked = @ /\ ~done]
      BY <1>1, <1>2, Zenon DEF SetHackProgress
    <2>2. [v EXCEPT !.a[e].progress = f, !.a[e].locked = @ /\ ~done]
            = [v EXCEPT !.a[e].progress = f, !.a[e].locked = v.a[e].locked /\ ~done]
      BY <1>4, <1>5 DEF Worlds, AreaStates
    <2> QED BY <2>1, <2>2, Zenon
  <1>8. PICK s : s = [v.a[e] EXCEPT !.progress = f, !.locked = c]
    OBVIOUS
  <1>9. r = PutA(v, e, s)
    <2>1. r = [v EXCEPT !.a[e].progress = f, !.a[e].locked = c]
      BY <1>6, <1>7, Zenon
    <2>2. [v EXCEPT !.a[e].progress = f, !.a[e].locked = c]
            = [v EXCEPT !.a = [v.a EXCEPT ![e] = [v.a[e] EXCEPT !.progress = f, !.locked = c]]]
      BY <1>4, <1>5 DEF Worlds
    <2> QED BY <1>8, <2>1, <2>2, Zenon DEF PutA
  <1>10. /\ s \in AreaStates /\ s.progress = f /\ (s.locked <=> v.a[e].locked /\ ~done)
         /\ (s.inUse <=> v.a[e].inUse) /\ (s.downloaded <=> v.a[e].downloaded)
    <2>1. /\ s \in AreaStates /\ s.progress = f /\ s.locked = c
          /\ (s.inUse <=> v.a[e].inUse) /\ (s.downloaded <=> v.a[e].downloaded)
      BY <1>5, <1>8 DEF AreaStates
    <2> QED BY <1>6, <2>1
  <1>11. /\ Keeps(v, r, Areas \ {e}) /\ r.m = v.m /\ r.h = v.h /\ r.a[e] = s
         /\ (LockAt(v, e) => LockAt(r, e)) => Keeps(v, r, Areas)
    <2>1. v \in Worlds /\ s \in AreaStates
      BY <1>4, <1>10
    <2>2. (s.inUse <=> v.a[e].inUse) /\ (s.locked => v.a[e].locked)
      BY <1>10
    <2> QED BY <1>9, <2>1, <2>2, AreaKeeps
  <1>12. LockAt(r, e)
    <2>1. s.locked => f < Full
      <3>1. s.locked => w.a[e].progress < Full /\ ~done
        BY <1>3, <1>10 DEF LockAt
      <3>2. f \in Nat /\ Full \in Nat
        BY HackingConstants
      <3>3. w.a[e].progress < Full /\ f >= Full => done
        BY <1>1
      <3> QED BY <3>1, <3>2, <3>3
    <2> QED BY <1>4, <1>10, <1>11, <2>1 DEF LockAt
  <1> QED BY <1>3, <1>11, <1>12, KeepsAgain

LEMMA WaitKeeps ==
    ASSUME NEW w \in Worlds, NEW x \in Marines, NEW e \in Computers, NEW r, r = WaitAtComputer(w, x, e)
    PROVE  Keeps(w, r, Areas)
  <1>1. e \in Areas /\ e \notin Panels
    BY HackingConstants DEF Areas
  <1>2. CASE ~(w.a[e].inUse /\ e \in Download /\ w.a[e].progress < Full)
    BY <1>2, KeepsNothing DEF WaitAtComputer
  <1>3. CASE w.a[e].inUse /\ e \in Download /\ w.a[e].progress < Full
    <2>1. PICK u : u = Load(w, e)
      OBVIOUS
    <2>2. /\ Keeps(w, u, Areas \ {e}) /\ u \in Worlds
          /\ w.a[e].progress + 1 < Full => Keeps(w, u, Areas)
      BY <1>1, <1>3, <2>1, Loads DEF Keeps
    <2>3. CASE w.a[e].progress + 1 < Full
      <3>1. r = u
        BY <1>3, <2>1, <2>3, Zenon DEF WaitAtComputer
      <3> QED BY <2>2, <2>3, <3>1
    <2>4. CASE ~(w.a[e].progress + 1 < Full)
      <3>1. PICK v : v = StopUsing(u, x)
        OBVIOUS
      <3>2. PICK z : z = Unlock(v, e)
        OBVIOUS
      <3>3. r = Downloaded(z, e)
        BY <1>3, <2>1, <2>4, <3>1, <3>2, Zenon DEF WaitAtComputer
      <3>4. Keeps(u, v, Areas) /\ v \in Worlds
        BY <2>2, <3>1, StopKeeps DEF Keeps
      <3>5. Keeps(v, z, Areas) /\ z \in Worlds /\ ~z.a[e].locked
        BY <1>1, <3>2, <3>4, Unlocks DEF Keeps
      <3>6. Keeps(z, r, Areas) /\ ~r.a[e].locked
        BY <3>3, <3>5, Downloads
      <3>7. Keeps(w, r, Areas \ {e})
        BY <1>1, <2>2, <3>4, <3>5, <3>6, KeepsLess, KeepsAgain
      <3>8. LockAt(r, e)
        BY <1>1, <3>6 DEF LockAt
      <3> QED BY <3>7, <3>8 DEF Keeps
    <2> QED BY <2>3, <2>4
  <1> QED BY <1>2, <1>3

\* A locked computer gives no files.
LEMMA NoFiles ==
    ASSUME NEW w \in Worlds, NEW e \in Computers, LockAt(w, e), IsDownloading(w, e)
    PROVE  ~w.a[e].locked
  <1>1. PICK i : i = w.h[e].page
    OBVIOUS
  <1>2. i \in Nat
    BY <1>1 DEF Worlds, HackStates, Areas
  <1>3. i = 1
    BY <1>1, <1>2, Entries DEF IsDownloading
  <1> QED BY <1>1, <1>3 DEF LockAt, Menu, OverridePage

LEMMA FilesKeep ==
    ASSUME NEW w \in Worlds, NEW e \in Computers, LockAt(w, e), NEW r, r = DownloadFiles(w, e)
    PROVE  Keeps(w, r, Areas)
  <1>1. e \in Areas
    BY DEF Areas
  <1>2. CASE ~(IsDownloading(w, e) /\ w.a[e].progress < Full)
    BY <1>2, KeepsNothing DEF DownloadFiles
  <1>3. CASE IsDownloading(w, e) /\ w.a[e].progress < Full
    <2>1. PICK u : u = Load(w, e)
      OBVIOUS
    <2>2. ~w.a[e].locked
      BY <1>3, NoFiles
    <2>3. Keeps(w, u, Areas) /\ u \in Worlds /\ ~u.a[e].locked
      BY <1>1, <1>3, <2>1, <2>2, Loads DEF Keeps
    <2>4. r = u \/ r = Downloaded(u, e)
      BY <1>3, <2>1, Zenon DEF DownloadFiles
    <2> QED BY <2>3, <2>4, Downloads, KeepsAgain
  <1> QED BY <1>2, <1>3

LEMMA CloseKeeps ==
    ASSUME NEW w \in Worlds, NEW x \in Marines, NEW e \in Computers, NEW late,
           NEW r, r = CloseWhenDone(w, x, e, late)
    PROVE  Keeps(w, r, Areas)
  <1>1. CASE ~(w.a[e].closing /\ late)
    BY <1>1, KeepsNothing DEF CloseWhenDone
  <1>2. CASE w.a[e].closing /\ late
    <2>1. PICK v : v = StopUsing(w, x)
      OBVIOUS
    <2>2. r = [v EXCEPT !.a[e].closing = FALSE]
      BY <1>2, <2>1, Zenon DEF CloseWhenDone
    <2>3. Keeps(w, v, Areas) /\ v \in Worlds
      BY <2>1, StopKeeps DEF Keeps
    <2>4. PICK s : s = [v.a[e] EXCEPT !.closing = FALSE]
      OBVIOUS
    <2>5. e \in Areas /\ v.a[e] \in AreaStates
      BY <2>3 DEF Worlds, Areas
    <2>6. r = PutA(v, e, s)
      BY <2>2, <2>3, <2>4, <2>5 DEF PutA, Worlds
    <2>7. /\ s \in AreaStates /\ (s.inUse <=> v.a[e].inUse) /\ (s.locked <=> v.a[e].locked)
          /\ s.progress = v.a[e].progress /\ (s.downloaded <=> v.a[e].downloaded)
      BY <2>4, <2>5 DEF AreaStates
    <2>8. /\ Keeps(v, r, Areas \ {e}) /\ r.m = v.m /\ r.h = v.h /\ r.a[e] = s
          /\ (LockAt(v, e) => LockAt(r, e)) => Keeps(v, r, Areas)
      <3>1. v \in Worlds /\ e \in Areas /\ s \in AreaStates
        BY <2>3, <2>5, <2>7
      <3>2. (s.inUse <=> v.a[e].inUse) /\ (s.locked => v.a[e].locked)
        BY <2>7
      <3> QED BY <2>6, <3>1, <3>2, AreaKeeps
    <2>9. LockAt(v, e) => LockAt(r, e)
      BY <2>7, <2>8 DEF LockAt
    <2> QED BY <2>3, <2>8, <2>9, KeepsAgain
  <1> QED BY <1>1, <1>2

LEMMA WorkKeeps ==
    ASSUME NEW w \in Worlds, NEW x \in Marines, NEW e \in Computers, LockAt(w, e), NEW late,
           NEW r, r = WorkAtComputer(w, x, e, late)
    PROVE  Keeps(w, r, Areas)
  <1>1. CASE ~w.h[e].exists
    BY <1>1, KeepsNothing DEF WorkAtComputer
  <1>2. CASE w.h[e].exists
    <2>1. PICK v : v = DownloadFiles(w, e)
      OBVIOUS
    <2>2. r = CloseWhenDone(v, x, e, late)
      BY <1>2, <2>1, Zenon DEF WorkAtComputer
    <2>3. Keeps(w, v, Areas) /\ v \in Worlds
      BY <2>1, FilesKeep DEF Keeps
    <2> QED BY <2>2, <2>3, CloseKeeps, KeepsAgain
  <1> QED BY <1>1, <1>2

LEMMA UsingKeeps ==
    ASSUME NEW w \in Worlds, NEW x \in Marines, NEW e \in Areas, LockAt(w, e), NEW late,
           NEW r, r = MarineUsing(w, x, e, late)
    PROVE  Keeps(w, r, Areas)
  <1>1. CASE e \in Computers
    <2>1. r = WaitAtComputer(w, x, e) \/ r = WorkAtComputer(w, x, e, late)
      BY <1>1, Zenon DEF MarineUsing
    <2> QED BY <1>1, <2>1, WaitKeeps, WorkKeeps
  <1>2. CASE e \notin Computers
    <2>1. \/ r = w
          \/ w.a[e].locked /\ r = SetHackProgress(w, x, e, w.a[e].progress + 1)
      BY <1>2, Zenon DEF MarineUsing
    <2>2. w.a[e].locked => w.a[e].progress + 1 \in 0..Full
      <3>1. w.a[e].progress \in 0..Full /\ Full \in Nat
        BY HackingConstants DEF Worlds, AreaStates
      <3> QED BY <3>1 DEF LockAt
    <2> QED BY <2>1, <2>2, KeepsNothing, ProgressKeeps
  <1> QED BY <1>1, <1>2
LEMMA UnaskedKeeps ==
    ASSUME NEW w \in Worlds, NEW x \in Marines, NEW e \in Computers, NEW late,
           NEW r, r = OpenUnasked(w, x, e, late)
    PROVE  Keeps(w, r, Areas)
  <1>1. OverridePage \in Nat
    BY DEF OverridePage
  <1>2. r = w \/ r = SelectPage(w, e, OverridePage)
    BY Zenon DEF OpenUnasked
  <1> QED BY <1>1, <1>2, KeepsNothing, SelectKeeps

LEMMA SolvedKeeps ==
    ASSUME NEW w \in Worlds, NEW e \in Computers, NEW r, r = PuzzleSolved(w, e)
    PROVE  Keeps(w, r, Areas)
  <1>1. PICK u : u = Unlock(w, e)
    OBVIOUS
  <1>2. PICK v : v = [u EXCEPT !.h[e].solved = TRUE]
    OBVIOUS
  <1>3. PICK i \in Nat : i = IF OptionType(w, e, 1) = "download" THEN 1 ELSE Menu
    BY DEF Menu
  <1>4. r = SelectPage(v, e, i)
    BY <1>1, <1>2, <1>3, Zenon DEF PuzzleSolved
  <1>5. e \in Areas
    BY DEF Areas
  <1>6. Keeps(w, u, Areas) /\ u \in Worlds
    BY <1>1, <1>5, Unlocks DEF Keeps
  <1>7. PICK s : s = [u.h[e] EXCEPT !.solved = TRUE]
    OBVIOUS
  <1>8. u.h[e] \in HackStates
    BY <1>5, <1>6 DEF Worlds
  <1>9. v = PutH(u, e, s)
    BY <1>2, <1>5, <1>6, <1>7, <1>8 DEF PutH, Worlds
  <1>10. /\ s \in HackStates /\ (s.exists <=> u.h[e].exists)
         /\ s.marine = u.h[e].marine /\ s.page = u.h[e].page
    BY <1>7, <1>8 DEF HackStates
  <1>11. Keeps(u, v, Areas) /\ v.m = u.m /\ v.a = u.a /\ v.h[e] = s
    BY <1>5, <1>6, <1>9, <1>10, HackKeeps
  <1>12. v \in Worlds
    BY <1>11 DEF Keeps
  <1>13. Keeps(v, r, Areas)
    BY <1>4, <1>12, SelectKeeps
  <1> QED BY <1>6, <1>11, <1>13, KeepsAgain

LEMMA ThinkKeeps ==
    ASSUME NEW w \in Worlds, \A f \in Areas : LockAt(w, f), NEW x \in Marines, w.m[x].hack # None,
           NEW late, NEW aligned, NEW r, r = HackThink(w, x, late, aligned)
    PROVE  Keeps(w, r, Areas)
  <1>1. PICK e \in Areas : e = w.m[x].hack
    BY DEF Worlds, MarineStates
  <1>2. CASE e \in Panels
    <2>1. PICK f : f = Min({w.a[e].progress + 1, w.h[e].lit})
      OBVIOUS
    <2>2. r = w \/ r = SetHackProgress(w, x, e, f)
      BY <1>1, <1>2, <2>1, HackingConstants, Zenon DEF HackThink
    <2>3. w.a[e].progress + 1 \in Nat /\ w.h[e].lit \in 0..Full /\ Full \in Nat
      <3>1. w.a[e] \in AreaStates /\ w.h[e] \in HackStates
        BY DEF Worlds
      <3> QED BY <3>1, HackingConstants DEF AreaStates, HackStates
    <2>4. f \in {w.a[e].progress + 1, w.h[e].lit} /\ f <= w.h[e].lit
      BY <2>1, <2>3, MinBetween
    <2>5. f \in 0..Full
      BY <2>3, <2>4
    <2> QED BY <2>2, <2>5, KeepsNothing, ProgressKeeps
  <1>3. CASE e \in Computers
    <2>1. e \notin Panels
      BY <1>3, HackingConstants
    <2>2. PICK v : v = OpenUnasked(w, x, e, late)
      OBVIOUS
    <2>3. r = w \/ r = v \/ r = PuzzleSolved(v, e)
      BY <1>1, <1>3, <2>1, <2>2, Zenon DEF HackThink
    <2>4. Keeps(w, v, Areas) /\ v \in Worlds
      BY <1>3, <2>2, UnaskedKeeps DEF Keeps
    <2> QED BY <1>3, <2>3, <2>4, KeepsNothing, SolvedKeeps, KeepsAgain
  <1> QED BY <1>2, <1>3 DEF Areas

-----------------------------------------------------------------------------
(* Starting.                                                                *)

\* Nobody holds an area that is not in use.
LEMMA AreaFree ==
    ASSUME NEW w \in Worlds, Handles(w), NEW e \in Areas, ~w.a[e].inUse,
           NEW x \in Marines, w.m[x].using \in {None, e}
    PROVE  /\ w.h[e].marine = None /\ \A y \in Marines : w.m[y].using # e
           /\ w.m[x].using = None /\ w.m[x].hack = None /\ w.m[x].turret = None
  <1>1. \A y \in Marines : w.m[y].using # e
    BY DEF Handles
  <1>2. w.m[x].using = None
    BY <1>1
  <1>3. w.m[x].hack = None
    BY <1>2 DEF Handles
  <1>4. w.m[x].turret = None
    BY <1>3 DEF Handles
  <1>5. w.h[e].marine = None
    <2>1. w.h[e].marine \in Marines \cup {None} /\ e # None
      BY HackingConstants DEF Worlds, HackStates
    <2> QED BY <1>1, <2>1 DEF Handles
  <1> QED BY <1>1, <1>2, <1>3, <1>4, <1>5

LEMMA StartKeeps ==
    ASSUME NEW w \in Worlds, NEW x \in Marines, NEW e \in Areas, CanStart(w, x, e), ~w.a[e].inUse,
           w.a[e].locked \/ e \in Panels => x \in Techs,
           NEW r, r = StartUsing(w, x, e)
    PROVE  /\ Guards(w, r) /\ r.h = w.h
           /\ w.m[x].using \in {None, e} => Keeps(w, r, Areas)
           /\ r.m[x].using = e /\ r.m[x].hack = w.m[x].hack
  <1>1. PICK c : c = IF e \in Computers THEN FALSE ELSE w.a[e].closing
    OBVIOUS
  <1>2. PICK s, b : s = [w.m[x] EXCEPT !.using = e] /\ b = [w.a[e] EXCEPT !.inUse = TRUE, !.closing = c]
    OBVIOUS
  <1>3. w.m[x] \in MarineStates /\ w.a[e] \in AreaStates /\ None \notin Areas
    BY HackingConstants DEF Worlds
  <1>4. c \in BOOLEAN
    BY <1>1, <1>3 DEF AreaStates
  <1>5. r = PutMA(w, x, s, e, b)
    <2>1. r = [w EXCEPT !.m[x].using = e, !.a[e].inUse = TRUE, !.a[e].closing = c]
      BY <1>1, Zenon DEF StartUsing
    <2>2. [w EXCEPT !.m[x].using = e, !.a[e].inUse = TRUE, !.a[e].closing = c]
            = [w EXCEPT !.m = [w.m EXCEPT ![x] = [w.m[x] EXCEPT !.using = e]],
                        !.a = [w.a EXCEPT ![e] = [w.a[e] EXCEPT !.inUse = TRUE, !.closing = c]]]
      BY <1>3 DEF Worlds
    <2> QED BY <1>2, <2>1, <2>2, Zenon DEF PutMA
  <1>6. /\ s \in MarineStates /\ s.alive = w.m[x].alive /\ s.at = w.m[x].at
        /\ s.using = e /\ s.hack = w.m[x].hack /\ s.turret = w.m[x].turret
    BY <1>2, <1>3 DEF MarineStates
  <1>7. /\ b \in AreaStates /\ b.inUse /\ (b.locked <=> w.a[e].locked)
        /\ b.progress = w.a[e].progress /\ (b.downloaded <=> w.a[e].downloaded)
    BY <1>2, <1>3, <1>4 DEF AreaStates
  <1>8. /\ r \in Worlds /\ r.h = w.h
        /\ r.m[x] = s /\ \A y \in Marines \ {x} : r.m[y] = w.m[y]
        /\ r.a[e] = b /\ \A f \in Areas \ {e} : r.a[f] = w.a[f]
    BY <1>5, <1>6, <1>7, PutMarineArea
  <1>9. Stays(w, r)
    BY <1>6, <1>8 DEF Stays, CanStart
  <1>10. \A f \in Areas : LockAt(w, f) => LockAt(r, f)
    <2>1. \A f \in Areas : /\ r.a[f].locked <=> w.a[f].locked
                           /\ r.a[f].progress = w.a[f].progress
                           /\ r.a[f].downloaded <=> w.a[f].downloaded
      BY <1>7, <1>8
    <2>2. \A f \in Areas, y \in Marines : r.m[y].using = f => w.m[y].using = f \/ (f = e /\ y = x)
      BY <1>6, <1>8
    <2> QED BY <1>8, <2>1, <2>2 DEF LockAt
  <1>11. ASSUME w.m[x].using \in {None, e}, Handles(w) PROVE Handles(r)
    <2>1. /\ w.h[e].marine = None /\ \A y \in Marines : w.m[y].using # e
          /\ w.m[x].using = None /\ w.m[x].hack = None /\ w.m[x].turret = None
      BY <1>11, AreaFree
    <2>2. \A y \in Marines : /\ r.m[y].using = IF y = x THEN e ELSE w.m[y].using
                             /\ r.m[y].hack = w.m[y].hack /\ r.m[y].turret = w.m[y].turret
                             /\ r.m[y].alive = w.m[y].alive
      BY <1>6, <1>8
    <2>3. \A f \in Areas : /\ r.a[f].inUse <=> f = e \/ w.a[f].inUse
                           /\ r.a[f].locked <=> w.a[f].locked
      BY <1>7, <1>8
    <2>4. \A f \in Areas : w.h[f].marine # None => w.h[f].marine \in Marines
      BY DEF Worlds, HackStates
    <2>5. \A f \in Areas : r.a[f].inUse <=> \E y \in Marines : r.m[y].using = f
      <3> SUFFICES ASSUME NEW f \in Areas
                   PROVE  r.a[f].inUse <=> \E y \in Marines : r.m[y].using = f
        OBVIOUS
      <3>1. w.a[f].inUse <=> \E y \in Marines : w.m[y].using = f
        BY <1>11 DEF Handles
      <3>2. CASE f = e
        BY <2>2, <2>3, <3>2
      <3>3. CASE f # e
        <4>1. \A y \in Marines : r.m[y].using = f <=> w.m[y].using = f
          BY <1>3, <2>1, <2>2, <3>3
        <4> QED BY <2>3, <3>1, <3>3, <4>1
      <3> QED BY <3>2, <3>3
    <2>6. \A f \in Areas : r.h[f].marine # None => r.h[f].exists /\ r.m[r.h[f].marine].hack = f
      BY <1>8, <1>11, <2>2, <2>4 DEF Handles
    <2>7. \A y, z \in Marines : r.m[y].using # None /\ r.m[y].using = r.m[z].using => y = z
      BY <1>11, <2>1, <2>2 DEF Handles
    <2>8. \A y \in Marines :
            /\ r.m[y].using # None => r.m[y].alive
            /\ r.m[y].hack # None => r.m[y].using = r.m[y].hack /\ r.h[r.m[y].hack].marine = y
            /\ r.m[y].turret # None => r.m[y].hack = r.m[y].turret /\ ~r.a[r.m[y].turret].locked
      <3> SUFFICES ASSUME NEW y \in Marines
                   PROVE  /\ r.m[y].using # None => r.m[y].alive
                          /\ r.m[y].hack # None => r.m[y].using = r.m[y].hack /\ r.h[r.m[y].hack].marine = y
                          /\ r.m[y].turret # None => r.m[y].hack = r.m[y].turret /\ ~r.a[r.m[y].turret].locked
        OBVIOUS
      <3>1. CASE y = x
        BY <2>1, <2>2, <3>1 DEF CanStart
      <3>2. CASE y # x
        <4>1. w.m[y].turret # None => w.m[y].turret \in Areas
          BY DEF Worlds, MarineStates, Areas
        <4> QED BY <1>8, <1>11, <2>2, <2>3, <3>2, <4>1 DEF Handles
      <3> QED BY <3>1, <3>2
    <2> QED BY <2>5, <2>6, <2>7, <2>8 DEF Handles
  <1> QED BY <1>6, <1>8, <1>9, <1>10, <1>11 DEF Keeps, Guards
LEMMA HackInits ==
    ASSUME NEW w \in Worlds, NEW x \in Marines, NEW e \in Areas, NEW wires \in 0..Full,
           w.m[x].using = e, NEW r, r = InitHack(w, x, e, wires)
    PROVE  /\ r \in Worlds /\ Stays(w, r)
           /\ \A f \in Areas : LockAt(w, f) => LockAt(r, f)
           /\ w.h[e].marine = None /\ w.m[x].hack = None /\ Handles(w) => Handles(r)
  <1>1. PICK lit : lit = IF w.h[e].exists THEN w.h[e].lit ELSE wires
    OBVIOUS
  <1>2. PICK s, o : /\ s = [w.m[x] EXCEPT !.hack = e]
                    /\ o = [w.h[e] EXCEPT !.exists = TRUE, !.marine = x, !.page = Menu, !.lit = lit]
    OBVIOUS
  <1>3. w.m[x] \in MarineStates /\ w.h[e] \in HackStates /\ None \notin Areas
    BY HackingConstants DEF Worlds
  <1>4. lit \in 0..Full
    BY <1>1, <1>3 DEF HackStates
  <1>5. r = PutMH(w, x, s, e, o)
    <2>1. r = [w EXCEPT !.m[x].hack = e, !.h[e] = o]
      BY <1>1, <1>2, Zenon DEF InitHack
    <2>2. [w EXCEPT !.m[x].hack = e, !.h[e] = o]
            = [w EXCEPT !.m = [w.m EXCEPT ![x] = [w.m[x] EXCEPT !.hack = e]], !.h = [w.h EXCEPT ![e] = o]]
      BY <1>3 DEF Worlds
    <2> QED BY <1>2, <2>1, <2>2, Zenon DEF PutMH
  <1>6. /\ s \in MarineStates /\ s.alive = w.m[x].alive /\ s.at = w.m[x].at
        /\ s.using = e /\ s.hack = e /\ s.turret = w.m[x].turret
    BY <1>2, <1>3 DEF MarineStates
  <1>7. o \in HackStates /\ o.exists /\ o.marine = x /\ o.page = Menu
    BY <1>2, <1>3, <1>4 DEF HackStates, Menu
  <1>8. /\ r \in Worlds /\ r.a = w.a
        /\ r.m[x] = s /\ \A y \in Marines \ {x} : r.m[y] = w.m[y]
        /\ r.h[e] = o /\ \A f \in Areas \ {e} : r.h[f] = w.h[f]
    BY <1>5, <1>6, <1>7, PutMarineHack
  <1>9. \A y \in Marines : /\ r.m[y].using = w.m[y].using /\ r.m[y].alive = w.m[y].alive
                           /\ r.m[y].at = w.m[y].at /\ r.m[y].turret = w.m[y].turret
                           /\ r.m[y].hack = IF y = x THEN e ELSE w.m[y].hack
    BY <1>6, <1>8
  <1>10. Stays(w, r)
    BY <1>9 DEF Stays
  <1>11. \A f \in Areas : LockAt(w, f) => LockAt(r, f)
    <2>1. \A f \in Areas : r.h[f].page = w.h[f].page \/ r.h[f].page = Menu
      BY <1>7, <1>8
    <2> QED BY <1>8, <1>9, <2>1 DEF LockAt
  <1>12. ASSUME w.h[e].marine = None, w.m[x].hack = None, Handles(w) PROVE Handles(r)
    <2>1. w.h[e].marine = None /\ w.m[x].hack = None /\ w.m[x].turret = None
      BY <1>12 DEF Handles
    <2>2. \A f \in Areas : w.h[f].marine # None => w.h[f].marine \in Marines /\ w.h[f].marine # x
      <3>1. \A f \in Areas : w.h[f].marine # None => w.h[f].marine \in Marines
        BY DEF Worlds, HackStates
      <3> QED BY <1>3, <1>12, <2>1, <3>1 DEF Handles
    <2>3. \A f \in Areas : r.a[f].inUse <=> \E y \in Marines : r.m[y].using = f
      BY <1>8, <1>9, <1>12 DEF Handles
    <2>4. \A f \in Areas : r.h[f].marine # None => r.h[f].exists /\ r.m[r.h[f].marine].hack = f
      <3> SUFFICES ASSUME NEW f \in Areas, r.h[f].marine # None
                   PROVE  r.h[f].exists /\ r.m[r.h[f].marine].hack = f
        OBVIOUS
      <3>1. CASE f = e
        BY <1>7, <1>8, <1>9, <3>1
      <3>2. CASE f # e
        BY <1>8, <1>9, <1>12, <2>2, <3>2 DEF Handles
      <3> QED BY <3>1, <3>2
    <2>5. \A y, z \in Marines : r.m[y].using # None /\ r.m[y].using = r.m[z].using => y = z
      BY <1>9, <1>12 DEF Handles
    <2>6. ASSUME NEW y \in Marines
          PROVE  /\ r.m[y].using # None => r.m[y].alive
                 /\ r.m[y].hack # None => r.m[y].using = r.m[y].hack /\ r.h[r.m[y].hack].marine = y
                 /\ r.m[y].turret # None => r.m[y].hack = r.m[y].turret /\ ~r.a[r.m[y].turret].locked
      <3>1. r.m[y].using # None => r.m[y].alive
        BY <1>9, <1>12 DEF Handles
      <3>2. CASE y = x
        BY <1>7, <1>8, <1>9, <2>1, <3>1, <3>2
      <3>3. CASE y # x
        <4>1. w.m[y].hack # None => w.m[y].hack \in Areas \ {e}
          BY <1>12, <2>1, <3>3 DEF Handles, Worlds, MarineStates
        <4> QED BY <1>8, <1>9, <1>12, <3>1, <3>3, <4>1 DEF Handles
      <3> QED BY <3>2, <3>3
    <2> QED BY <2>3, <2>4, <2>5, <2>6 DEF Handles
  <1> QED BY <1>8, <1>10, <1>11, <1>12

LEMMA OpenKeeps ==
    ASSUME NEW w \in Worlds, NEW x \in Marines, NEW e \in Areas, NEW wires \in 0..Full,
           ~w.a[e].inUse, w.a[e].locked \/ e \in Panels => x \in Techs,
           NEW r, r = Open(w, x, e, wires)
    PROVE  /\ Guards(w, r)
           /\ w.m[x].using \in {None, e} => Keeps(w, r, Areas)
  <1>1. CASE ~CanStart(w, x, e)
    <2>1. r = w
      BY <1>1 DEF Open
    <2> QED BY <2>1, KeepsNothing, KeepsGuards
  <1>2. CASE CanStart(w, x, e)
    <2>1. PICK v : v = StartUsing(w, x, e)
      OBVIOUS
    <2>2. r = v \/ r = InitHack(v, x, e, wires)
      BY <1>2, <2>1, Zenon DEF Open
    <2>3. /\ Guards(w, v) /\ v.h = w.h /\ v.m[x].using = e /\ v.m[x].hack = w.m[x].hack
          /\ w.m[x].using \in {None, e} => Keeps(w, v, Areas)
      BY <1>2, <2>1, StartKeeps
    <2>4. CASE r = v
      BY <2>3, <2>4
    <2>5. CASE r = InitHack(v, x, e, wires)
      <3>1. w.m[x].using \in {None, e} /\ Handles(w) => w.h[e].marine = None /\ w.m[x].hack = None
        BY AreaFree
      <3>2. v \in Worlds
        BY <2>3 DEF Guards
      <3>3. /\ r \in Worlds /\ Stays(v, r)
            /\ \A f \in Areas : LockAt(v, f) => LockAt(r, f)
            /\ v.h[e].marine = None /\ v.m[x].hack = None /\ Handles(v) => Handles(r)
        BY <2>3, <2>5, <3>2, HackInits
      <3>4. Stays(w, r)
        BY <2>3, <3>3, Zenon DEF Guards, Stays
      <3>5. Guards(w, r)
        BY <2>3, <3>3, <3>4 DEF Guards
      <3>6. w.m[x].using \in {None, e} /\ Handles(w) => Handles(r)
        BY <2>3, <3>1, <3>3 DEF Keeps
      <3> QED BY <3>5, <3>6 DEF Guards, Keeps
    <2> QED BY <2>2, <2>4, <2>5
  <1> QED BY <1>1, <1>2

LEMMA PressKeeps ==
    ASSUME NEW w \in Worlds, NEW x \in Marines, NEW e \in Areas, NEW wires \in 0..Full,
           NEW r, r = ActivateUseIcon(w, x, e, wires)
    PROVE  /\ Guards(w, r)
           /\ w.m[x].using \in {None, e} => Keeps(w, r, Areas)
  <1>1. CASE e \in Computers
    <2>1. r = PressComputer(w, x, e, wires)
      BY <1>1 DEF ActivateUseIcon
    <2>2. \/ r = w \/ r = SelectPage(w, e, OverridePage) \/ r = StopUsing(w, x)
          \/ /\ ~w.a[e].inUse /\ (w.a[e].locked => x \in Techs)
             /\ r = Open(w, x, e, wires)
      BY <2>1, Zenon DEF PressComputer
    <2>3. e \notin Panels /\ OverridePage \in Nat
      BY <1>1, HackingConstants DEF OverridePage
    <2>4. CASE r = w \/ r = SelectPage(w, e, OverridePage) \/ r = StopUsing(w, x)
      BY <1>1, <2>3, <2>4, KeepsNothing, SelectKeeps, StopKeeps, KeepsGuards
    <2>5. CASE ~w.a[e].inUse /\ (w.a[e].locked => x \in Techs) /\ r = Open(w, x, e, wires)
      BY <2>3, <2>5, OpenKeeps
    <2> QED BY <2>2, <2>4, <2>5
  <1>2. CASE e \notin Computers
    <2>1. r = PressPanel(w, x, e, wires)
      BY <1>2 DEF ActivateUseIcon
    <2>2. \/ r = w \/ r = StopUsing(w, x)
          \/ ~w.a[e].inUse /\ x \in Techs /\ r = Open(w, x, e, wires)
      BY <2>1, Zenon DEF PressPanel
    <2>3. CASE r = w \/ r = StopUsing(w, x)
      BY <2>3, KeepsNothing, StopKeeps, KeepsGuards
    <2>4. CASE ~w.a[e].inUse /\ x \in Techs /\ r = Open(w, x, e, wires)
      BY <2>4, OpenKeeps
    <2> QED BY <2>2, <2>3, <2>4
  <1> QED BY <1>1, <1>2
-----------------------------------------------------------------------------
(* A frame of a marine.                                                     *)

PutPlace(w, x, s) == [w EXCEPT !.m[x].at = s]
PutOrder(w, x, o) == [w EXCEPT !.m[x].order = o]

LEMMA Moved ==
    ASSUME NEW w \in Worlds, NEW x \in Marines, NEW s \in SUBSET Areas, NEW r, r = PutPlace(w, x, s)
    PROVE  /\ Carries(w, r)
           /\ \A y \in Marines : /\ r.m[y].using = w.m[y].using
                                 /\ r.m[y].at = IF y = x THEN s ELSE w.m[y].at
  <1>1. PICK z : z = [w.m[x] EXCEPT !.at = s]
    OBVIOUS
  <1>2. w.m[x] \in MarineStates
    BY DEF Worlds
  <1>3. r = PutM(w, x, z)
    BY <1>1, <1>2 DEF PutM, PutPlace, Worlds
  <1>4. /\ z \in MarineStates /\ z.alive = w.m[x].alive /\ z.at = s
        /\ z.using = w.m[x].using /\ z.hack = w.m[x].hack /\ z.turret = w.m[x].turret
    BY <1>1, <1>2 DEF MarineStates
  <1>5. Carries(w, r) /\ r.m[x] = z /\ \A y \in Marines \ {x} : r.m[y] = w.m[y]
    BY <1>3, <1>4, MarineKeeps
  <1> QED BY <1>4, <1>5

LEMMA Frames ==
    ASSUME NEW w, Sound(w), NEW x \in Marines, NEW late, NEW aligned,
           NEW r, r = TickHack(UseArea(w, x, late), x, late, aligned)
    PROVE  /\ Keeps(w, r, Areas)
           /\ r.m[x].using # None => r.m[x].using \in r.m[x].at
  <1>1. PICK v : v = UseArea(w, x, late)
    OBVIOUS
  <1>2. w \in Worlds /\ \A f \in Areas : LockAt(w, f)
    BY DEF Sound
  <1>3. PICK e : e = w.m[x].using
    OBVIOUS
  <1>4. e \in Areas \cup {None}
    BY <1>2, <1>3 DEF Worlds, MarineStates
  <1>5. Keeps(w, v, Areas) /\ (v.m[x].using # None => v.m[x].using \in v.m[x].at)
    <2>1. CASE e = None
      <3>1. v = w
        BY <1>1, <1>3, <2>1, Zenon DEF UseArea
      <3> QED BY <1>2, <1>3, <2>1, <3>1, KeepsNothing
    <2>2. CASE e # None /\ e \notin w.m[x].at
      <3>1. v = StopUsing(w, x)
        BY <1>1, <1>3, <2>2, Zenon DEF UseArea
      <3> QED BY <1>2, <3>1, StopKeeps
    <2>3. CASE e # None /\ e \in w.m[x].at
      <3>1. v = MarineUsing(w, x, e, late)
        BY <1>1, <1>3, <2>3, Zenon DEF UseArea
      <3>2. Keeps(w, v, Areas)
        BY <1>2, <1>4, <2>3, <3>1, UsingKeeps
      <3> QED BY <1>3, <2>3, <3>2 DEF Keeps, Stays
    <2> QED BY <2>1, <2>2, <2>3
  <1>6. v \in Worlds /\ \A f \in Areas : LockAt(v, f)
    BY <1>2, <1>5 DEF Keeps
  <1>7. Keeps(v, r, Areas)
    <2>1. r = v \/ (v.m[x].hack # None /\ r = HackThink(v, x, late, aligned))
      BY <1>1, Zenon DEF TickHack
    <2> QED BY <1>6, <2>1, KeepsNothing, ThinkKeeps
  <1>8. Keeps(w, r, Areas)
    BY <1>5, <1>7, KeepsAgain
  <1> QED BY <1>5, <1>7, <1>8 DEF Keeps, Stays
-----------------------------------------------------------------------------
(* The actions.                                                             *)

\* Who uses an area is in it, and nobody is where his level does not let him.
PresentIn(l, w) ==
    \A x \in Marines : /\ w.m[x].using # None => w.m[x].using \in w.m[x].at
                       /\ w.m[x].at = {} \/ w.m[x].at \in l[x]

LocksInv == level \in Levels /\ driven \in [Players -> Marines] /\ Sound(world)

Held == Handles(world) /\ PresentIn(level, world)

\* What a step does to the world.
Steps(r) == Sound(r) /\ (AreasApart /\ Held => Handles(r) /\ PresentIn(level, r))

LEMMA PresentKept ==
    ASSUME NEW l, NEW w, NEW r, Stays(w, r), PresentIn(l, w)
    PROVE  PresentIn(l, r)
  BY Zenon DEF Stays, PresentIn

LEMMA KeptSteps ==
    ASSUME Sound(world), NEW r, Keeps(world, r, Areas)
    PROVE  Steps(r)
  <1>1. Sound(r)
    BY KeepsGuards, GuardsSound
  <1>2. Stays(world, r) /\ (Handles(world) => Handles(r))
    BY DEF Keeps
  <1> QED BY <1>1, <1>2, PresentKept DEF Steps, Held

LEMMA ReachableAreas ==
    ASSUME LocksInv
    PROVE  Reachable \subseteq Areas /\ \A x \in Marines : level[x] \subseteq SUBSET Areas
  <1>1. level \in [Marines -> SUBSET SUBSET Areas]
    BY HackingConstants DEF LocksInv
  <1> QED BY <1>1 DEF Reachable

LEMMA Ordered ==
    ASSUME NEW w \in Worlds, NEW x \in Marines, NEW o \in Areas \cup {None}, NEW r, r = PutOrder(w, x, o)
    PROVE  Keeps(w, r, Areas)
  <1>1. PICK s : s = [w.m[x] EXCEPT !.order = o]
    OBVIOUS
  <1>2. w.m[x] \in MarineStates
    BY DEF Worlds
  <1>3. r = PutM(w, x, s)
    BY <1>1, <1>2 DEF PutM, PutOrder, Worlds
  <1>4. /\ s \in MarineStates /\ s.alive = w.m[x].alive /\ s.at = w.m[x].at
        /\ s.using = w.m[x].using /\ s.hack = w.m[x].hack /\ s.turret = w.m[x].turret
    BY <1>1, <1>2 DEF MarineStates
  <1>5. Carries(w, r) /\ r.m[x] = s /\ \A y \in Marines \ {x} : r.m[y] = w.m[y]
    BY <1>3, <1>4, MarineKeeps
  <1>6. Stays(w, r)
    BY <1>4, <1>5 DEF Stays
  <1> QED BY <1>5, <1>6 DEF Keeps, Carries

LEMMA MarineFrameSteps ==
    ASSUME LocksInv, NEW x \in Marines, NEW s \in level[x], MarineFrame(x, s)
    PROVE  Steps(world')
  <1>1. PICK late, aligned \in BOOLEAN :
          world' = TickHack(UseArea([world EXCEPT !.m[x].at = s], x, late), x, late, aligned)
    BY DEF MarineFrame
  <1>2. PICK w : w = PutPlace(world, x, s)
    OBVIOUS
  <1>3. s \in SUBSET Areas /\ world \in Worlds /\ \A f \in Areas : LockAt(world, f)
    BY ReachableAreas DEF LocksInv, Sound
  <1>4. /\ Carries(world, w)
        /\ \A y \in Marines : /\ w.m[y].using = world.m[y].using
                              /\ w.m[y].at = IF y = x THEN s ELSE world.m[y].at
    BY <1>2, <1>3, Moved
  <1>5. Sound(w)
    BY <1>3, <1>4 DEF Sound, Carries
  <1>6. PICK r : r = TickHack(UseArea(w, x, late), x, late, aligned)
    OBVIOUS
  <1>7. /\ Keeps(w, r, Areas)
        /\ r.m[x].using # None => r.m[x].using \in r.m[x].at
    BY <1>5, <1>6, Frames
  <1>8. Sound(r)
    BY <1>5, <1>7, KeepsGuards, GuardsSound
  <1>9. ASSUME Held PROVE Handles(r) /\ PresentIn(level, r)
    <2>1. Handles(r)
      BY <1>4, <1>7, <1>9 DEF Keeps, Held, Carries
    <2>2. ASSUME NEW y \in Marines
          PROVE  /\ r.m[y].using # None => r.m[y].using \in r.m[y].at
                 /\ r.m[y].at = {} \/ r.m[y].at \in level[y]
      <3>1. r.m[y].at = w.m[y].at /\ r.m[y].using \in {w.m[y].using, None} \cup w.m[y].at
        BY <1>7 DEF Keeps, Stays
      <3>2. CASE y = x
        BY <1>4, <1>7, <3>1, <3>2
      <3>3. CASE y # x
        BY <1>4, <1>9, <3>1, <3>3 DEF Held, PresentIn
      <3> QED BY <3>2, <3>3
    <2> QED BY <2>1, <2>2 DEF PresentIn
  <1>10. world' = r
    BY <1>1, <1>2, <1>6, Zenon DEF PutPlace
  <1> QED BY <1>8, <1>9, <1>10 DEF Steps

LEMMA KilledSteps ==
    ASSUME LocksInv, NEW x \in Marines, Killed(x)
    PROVE  Steps(world')
  <1>1. PICK v : v = StopUsing(world, x)
    OBVIOUS
  <1>2. PICK r : r = [v EXCEPT !.m[x].alive = FALSE, !.m[x].at = {}, !.m[x].order = None]
    OBVIOUS
  <1>3. world' = r
    BY <1>1, <1>2, Zenon DEF Killed
  <1>4. world \in Worlds /\ \A f \in Areas : LockAt(world, f)
    BY DEF LocksInv, Sound
  <1>5. Keeps(world, v, Areas) /\ v.m[x].using = None
    BY <1>1, <1>4, StopKeeps
  <1>6. v \in Worlds
    BY <1>5 DEF Keeps
  <1>7. PICK s : s = [v.m[x] EXCEPT !.alive = FALSE, !.at = {}, !.order = None]
    OBVIOUS
  <1>8. v.m[x] \in MarineStates
    BY <1>6 DEF Worlds
  <1>9. r = PutM(v, x, s)
    BY <1>2, <1>6, <1>7, <1>8 DEF PutM, Worlds
  <1>10. /\ s \in MarineStates /\ s.at = {}
         /\ s.using = v.m[x].using /\ s.hack = v.m[x].hack /\ s.turret = v.m[x].turret
    BY <1>7, <1>8 DEF MarineStates
  <1>11. s.using = None
    BY <1>5, <1>10
  <1>12. Carries(v, r) /\ r.m[x] = s /\ \A y \in Marines \ {x} : r.m[y] = v.m[y]
    <2>1. v.m[x].alive => s.alive \/ s.using = None
      BY <1>11
    <2>2. s \in MarineStates /\ s.using = v.m[x].using /\ s.hack = v.m[x].hack /\ s.turret = v.m[x].turret
      BY <1>10
    <2> QED BY <1>6, <1>9, <2>1, <2>2, MarineKeeps
  <1>13. Sound(r)
    BY <1>4, <1>5, <1>12 DEF Sound, Keeps, Carries
  <1>14. ASSUME Held PROVE Handles(r) /\ PresentIn(level, r)
    <2>1. Handles(r) /\ PresentIn(level, v)
      BY <1>5, <1>12, <1>14, PresentKept DEF Keeps, Held, Carries
    <2>2. PresentIn(level, r)
      BY <1>10, <1>11, <1>12, <2>1 DEF PresentIn
    <2> QED BY <2>1, <2>2
  <1> QED BY <1>3, <1>13, <1>14 DEF Steps

LEMMA PlayerFrameSteps ==
    ASSUME LocksInv, NEW p \in Players, PlayerFrame(p)
    PROVE  Steps(world')
  <1>1. driven[p] \in Marines /\ Sound(world)
    BY DEF LocksInv
  <1>2. PICK late, aligned \in BOOLEAN : world' = HackThink(world, driven[p], late, aligned)
    BY DEF PlayerFrame
  <1>3. Keeps(world, world', Areas)
    BY <1>1, <1>2, ThinkKeeps DEF PlayerFrame, Sound
  <1> QED BY <1>1, <1>3, KeptSteps

LEMMA PlayerUseSteps ==
    ASSUME LocksInv, NEW p \in Players, PlayerUse(p)
    PROVE  Steps(world')
  <1>1. driven[p] \in Marines /\ Sound(world) /\ world \in Worlds
    BY DEF LocksInv, Sound
  <1>2. PICK e \in Reachable, wires \in 0..Full :
          /\ world.m[driven[p]].using \in {None, e}
          /\ world' = ActivateUseIcon(world, driven[p], e, wires)
    BY DEF PlayerUse
  <1>3. e \in Areas
    BY ReachableAreas
  <1>4. Keeps(world, world', Areas)
    BY <1>1, <1>2, <1>3, PressKeeps
  <1> QED BY <1>1, <1>4, KeptSteps

LEMMA OrderSteps ==
    ASSUME LocksInv, \/ \E p \in Players : AskTech(p)
                     \/ \E t \in Techs : GiveUpOrder(t)
                     \/ \E p \in Players, x \in Marines : SwitchMarine(p, x)
    PROVE  Steps(world')
  <1>1. Sound(world) /\ world \in Worlds /\ Techs \subseteq Marines /\ Reachable \subseteq Areas
    BY ReachableAreas, HackingConstants DEF LocksInv, Sound
  <1>2. \/ world' = world
        \/ \E x \in Marines, o \in Areas \cup {None} : world' = PutOrder(world, x, o)
    <2>1. CASE \E p \in Players : AskTech(p)
      BY <1>1, <2>1 DEF AskTech, PutOrder
    <2>2. CASE \E t \in Techs : GiveUpOrder(t)
      BY <1>1, <2>2 DEF GiveUpOrder, PutOrder
    <2>3. CASE \E p \in Players, x \in Marines : SwitchMarine(p, x)
      BY <2>3 DEF SwitchMarine, PutOrder
    <2> QED BY <2>1, <2>2, <2>3
  <1>3. Keeps(world, world', Areas)
    <2>1. CASE world' = world
      BY <1>1, <2>1, KeepsNothing
    <2>2. CASE \E x \in Marines, o \in Areas \cup {None} : world' = PutOrder(world, x, o)
      <3>1. PICK x \in Marines, o \in Areas \cup {None} : world' = PutOrder(world, x, o)
        BY <2>2
      <3> QED BY <1>1, <3>1, Ordered
    <2> QED BY <1>2, <2>1, <2>2
  <1> QED BY <1>1, <1>3, KeptSteps

LEMMA SelectSteps ==
    ASSUME LocksInv, NEW p \in Players, SelectHack(p)
    PROVE  Steps(world')
  <1>1. driven[p] \in Marines /\ Sound(world) /\ world \in Worlds
    BY DEF LocksInv, Sound
  <1>2. PICK e : e = world.m[driven[p]].hack
    OBVIOUS
  <1>3. \/ e \in Computers /\ \E i \in {Menu, 1, 2, OverridePage} : world' = SelectPage(world, e, i)
        \/ e \in Panels /\ \E lit \in 0..Full : world' = [world EXCEPT !.h[e].lit = lit]
    BY <1>2, Zenon DEF SelectHack
  <1>4. CASE e \in Computers /\ \E i \in {Menu, 1, 2, OverridePage} : world' = SelectPage(world, e, i)
    <2>1. {Menu, 1, 2, OverridePage} \subseteq Nat
      BY DEF Menu, OverridePage
    <2>2. Keeps(world, world', Areas)
      BY <1>1, <1>4, <2>1, SelectKeeps
    <2> QED BY <1>1, <2>2, KeptSteps
  <1>5. CASE e \in Panels /\ \E lit \in 0..Full : world' = [world EXCEPT !.h[e].lit = lit]
    <2>1. PICK lit \in 0..Full : world' = [world EXCEPT !.h[e].lit = lit]
      BY <1>5
    <2>2. PICK o : o = [world.h[e] EXCEPT !.lit = lit]
      OBVIOUS
    <2>3. e \in Areas /\ world.h[e] \in HackStates
      BY <1>1, <1>5 DEF Areas, Worlds
    <2>4. world' = PutH(world, e, o)
      BY <1>1, <2>1, <2>2, <2>3 DEF PutH, Worlds
    <2>5. /\ o \in HackStates /\ (o.exists <=> world.h[e].exists)
          /\ o.marine = world.h[e].marine /\ o.page = world.h[e].page
      BY <2>2, <2>3 DEF HackStates
    <2>6. Keeps(world, world', Areas) /\ world'.m = world.m /\ world'.a = world.a /\ world'.h[e] = o
      BY <1>1, <2>3, <2>4, <2>5, HackKeeps
    <2> QED BY <1>1, <2>6, KeptSteps
  <1> QED BY <1>3, <1>4, <1>5

LEMMA StopSteps ==
    ASSUME LocksInv, NEW p \in Players, StopCommand(p)
    PROVE  Steps(world')
  <1>1. driven[p] \in Marines /\ Sound(world) /\ world \in Worlds
    BY DEF LocksInv, Sound
  <1>2. Keeps(world, world', Areas)
    BY <1>1, StopKeeps DEF StopCommand
  <1> QED BY <1>1, <1>2, KeptSteps

\* The tech is in the area he uses and in the one he was sent to: the same one.
LEMMA ObeySteps ==
    ASSUME LocksInv, NEW t \in Techs, ObeyOrder(t)
    PROVE  Steps(world')
  <1>1. t \in Marines /\ Sound(world) /\ world \in Worlds /\ level \in Levels
    BY HackingConstants DEF LocksInv, Sound
  <1>2. PICK e : e = world.m[t].order
    OBVIOUS
  <1>3. e # None /\ e \in world.m[t].at /\ world' = ActivateUseIcon(world, t, e, 0)
    BY <1>2, Zenon DEF ObeyOrder
  <1>4. e \in Areas /\ 0 \in 0..Full
    BY <1>1, <1>2, <1>3, HackingConstants DEF Worlds, MarineStates
  <1>5. /\ Guards(world, world')
        /\ world.m[t].using \in {None, e} => Keeps(world, world', Areas)
    BY <1>1, <1>3, <1>4, PressKeeps
  <1>6. Sound(world')
    BY <1>1, <1>5, GuardsSound
  <1>7. AreasApart /\ Held => world.m[t].using \in {None, e}
    BY <1>1, <1>3 DEF AreasApart, Held, PresentIn
  <1>8. AreasApart /\ Held => Steps(world')
    BY <1>1, <1>5, <1>7, KeptSteps
  <1> QED BY <1>6, <1>8 DEF Steps
LEMMA InputSteps ==
    ASSUME LocksInv, NEW e \in Panels, InputPower(e) \/ InputUnlock(e)
    PROVE  Steps(world')
  <1>1. Sound(world) /\ world \in Worlds /\ e \in Areas /\ LockAt(world, e)
    BY DEF LocksInv, Sound, Areas
  <1>2. world.a[e] \in AreaStates /\ Full \in Nat
    BY <1>1, HackingConstants DEF Worlds
  <1>3. PICK power \in BOOLEAN : power = ~world.a[e].power
    OBVIOUS
  <1>4. \/ world' = [world EXCEPT !.a[e].power = power]
        \/ world' = [world EXCEPT !.a[e].locked = FALSE, !.a[e].progress = Full]
    BY <1>3, Zenon DEF InputPower, InputUnlock
  <1>5. CASE world' = [world EXCEPT !.a[e].power = power]
    <2>1. PICK s : s = [world.a[e] EXCEPT !.power = power]
      OBVIOUS
    <2>2. world' = PutA(world, e, s)
      BY <1>1, <1>2, <1>5, <2>1 DEF PutA, Worlds
    <2>3. /\ s \in AreaStates /\ (s.inUse <=> world.a[e].inUse) /\ (s.locked <=> world.a[e].locked)
          /\ s.progress = world.a[e].progress /\ (s.downloaded <=> world.a[e].downloaded)
      BY <1>2, <2>1 DEF AreaStates
    <2>4. /\ Keeps(world, world', Areas \ {e}) /\ world'.m = world.m /\ world'.h = world.h /\ world'.a[e] = s
          /\ (LockAt(world, e) => LockAt(world', e)) => Keeps(world, world', Areas)
      BY <1>1, <2>2, <2>3, AreaKeeps
    <2>5. LockAt(world, e) => LockAt(world', e)
      BY <2>3, <2>4 DEF LockAt
    <2> QED BY <1>1, <2>4, <2>5, KeptSteps
  <1>6. CASE world' = [world EXCEPT !.a[e].locked = FALSE, !.a[e].progress = Full]
    <2> DEFINE n == Full
    <2>0. n \in 0..Full
      BY <1>2
    <2> HIDE DEF n
    <2>1. PICK s : s = [world.a[e] EXCEPT !.locked = FALSE, !.progress = n]
      OBVIOUS
    <2>2. world' = PutA(world, e, s)
      BY <1>1, <1>2, <1>6, <2>1 DEF PutA, Worlds, n
    <2>3. /\ s \in AreaStates /\ (s.inUse <=> world.a[e].inUse) /\ ~s.locked
          /\ (s.downloaded <=> world.a[e].downloaded)
      BY <1>2, <2>0, <2>1 DEF AreaStates
    <2>4. /\ Keeps(world, world', Areas \ {e}) /\ world'.m = world.m /\ world'.h = world.h /\ world'.a[e] = s
          /\ (LockAt(world, e) => LockAt(world', e)) => Keeps(world, world', Areas)
      BY <1>1, <2>2, <2>3, AreaKeeps
    <2>5. LockAt(world, e) => LockAt(world', e)
      BY <2>3, <2>4 DEF LockAt
    <2> QED BY <1>1, <2>4, <2>5, KeptSteps
  <1> QED BY <1>4, <1>5, <1>6

PutAH(w, e, b, o) == [w EXCEPT !.a = [w.a EXCEPT ![e] = b], !.h = [w.h EXCEPT ![e] = o]]

LEMMA PutAreaHack ==
    ASSUME NEW w \in Worlds, NEW e \in Areas, NEW b \in AreaStates, NEW o \in HackStates,
           NEW r, r = PutAH(w, e, b, o)
    PROVE  /\ r \in Worlds /\ r.m = w.m
           /\ r.a[e] = b /\ \A f \in Areas \ {e} : r.a[f] = w.a[f]
           /\ r.h[e] = o /\ \A f \in Areas \ {e} : r.h[f] = w.h[f]
  BY DEF Worlds, PutAH

\* A panel is locked again, with its hack object gone, while nobody uses it.
LEMMA ResetSteps ==
    ASSUME LocksInv, NEW e \in Panels, InputResetHack(e)
    PROVE  Steps(world')
  <1>1. Sound(world) /\ world \in Worlds /\ e \in Areas /\ LockAt(world, e) /\ e \notin Computers
    BY HackingConstants DEF LocksInv, Sound, Areas
  <1>2. world.a[e] \in AreaStates /\ Full \in Nat \ {0} /\ NoHack \in HackStates
    BY <1>1, HackingConstants DEF Worlds, NoHack, HackStates, Menu
  <1>3. PICK o : o = NoHack
    OBVIOUS
  <1>4. PICK b : b = [world.a[e] EXCEPT !.locked = TRUE, !.progress = 0]
    OBVIOUS
  <1>5. world' = PutAH(world, e, b, o)
    <2>1. world' = [world EXCEPT !.a[e].locked = TRUE, !.a[e].progress = 0, !.h[e] = o]
      BY <1>3, Zenon DEF InputResetHack
    <2>2. [world EXCEPT !.a[e].locked = TRUE, !.a[e].progress = 0, !.h[e] = o]
            = [world EXCEPT !.a = [world.a EXCEPT ![e] = [world.a[e] EXCEPT !.locked = TRUE, !.progress = 0]],
                            !.h = [world.h EXCEPT ![e] = o]]
      BY <1>1, <1>2 DEF Worlds
    <2> QED BY <1>4, <2>1, <2>2, Zenon DEF PutAH
  <1>6. /\ b \in AreaStates /\ b.progress = 0
        /\ (b.inUse <=> world.a[e].inUse) /\ (b.downloaded <=> world.a[e].downloaded)
    <2>1. 0 \in 0..Full
      BY <1>2
    <2>2. /\ b.progress = 0 /\ b.inUse = world.a[e].inUse
          /\ b.downloaded = world.a[e].downloaded
      BY <1>2, <1>4 DEF AreaStates
    <2>3. b \in AreaStates
      BY <1>2, <1>4, <2>1 DEF AreaStates
    <2> QED BY <2>2, <2>3
  <1>7. o \in HackStates /\ o.marine = None
    BY <1>2, <1>3 DEF NoHack
  <1>8. PICK r : r = world'
    OBVIOUS
  <1>9. /\ r \in Worlds /\ r.m = world.m
        /\ r.a[e] = b /\ \A f \in Areas \ {e} : r.a[f] = world.a[f]
        /\ r.h[e] = o /\ \A f \in Areas \ {e} : r.h[f] = world.h[f]
    BY <1>1, <1>5, <1>6, <1>7, <1>8, PutAreaHack
  <1>10. Stays(world, r)
    BY <1>9 DEF Stays
  <1>11. ASSUME NEW f \in Areas, LockAt(world, f) PROVE LockAt(r, f)
    <2>1. CASE f = e
      BY <1>1, <1>2, <1>6, <1>9, <2>1 DEF LockAt
    <2>2. CASE f # e
      BY <1>9, <1>11, <2>2 DEF LockAt
    <2> QED BY <2>1, <2>2
  <1>12. ASSUME Handles(world) PROVE Handles(r)
    <2>1. ~world.a[e].inUse
      BY Zenon DEF InputResetHack
    <2>2. \A x \in Marines : world.m[x].using # e
      BY <1>1, <1>12, <2>1 DEF Handles
    <2>3. \A x \in Marines : /\ world.m[x].hack # None => world.m[x].hack \in Areas \ {e}
                             /\ world.m[x].turret # None => world.m[x].turret \in Areas \ {e}
      BY <1>1, <1>12, <2>2 DEF Handles, Worlds, MarineStates, Areas
    <2>4. \A f \in Areas : r.a[f].inUse <=> \E x \in Marines : r.m[x].using = f
      <3>1. \A f \in Areas : r.a[f].inUse <=> world.a[f].inUse
        BY <1>6, <1>9
      <3> QED BY <1>9, <1>12, <3>1 DEF Handles
    <2>5. \A f \in Areas : r.h[f].marine # None => r.h[f].exists /\ r.m[r.h[f].marine].hack = f
      BY <1>7, <1>9, <1>12 DEF Handles
    <2>6. \A x \in Marines :
            /\ r.m[x].using # None => r.m[x].alive
            /\ r.m[x].hack # None => r.m[x].using = r.m[x].hack /\ r.h[r.m[x].hack].marine = x
            /\ r.m[x].turret # None => r.m[x].hack = r.m[x].turret /\ ~r.a[r.m[x].turret].locked
      BY <1>9, <1>12, <2>3 DEF Handles
    <2>7. \A x, y \in Marines : r.m[x].using # None /\ r.m[x].using = r.m[y].using => x = y
      BY <1>9, <1>12 DEF Handles
    <2> QED BY <2>4, <2>5, <2>6, <2>7 DEF Handles
  <1>13. Keeps(world, r, Areas)
    BY <1>9, <1>10, <1>11, <1>12 DEF Keeps
  <1> QED BY <1>1, <1>8, <1>13, KeptSteps

-----------------------------------------------------------------------------
(* The invariants.                                                          *)

LEMMA InitHolds ==
    ASSUME Init
    PROVE  LocksInv /\ Held
  <1>1. level \in Levels /\ driven \in [Players -> Marines]
    BY DEF Init
  <1>2. PICK lock \in [Areas -> BOOLEAN] :
          world = [m |-> [x \in Marines |-> [alive |-> TRUE, at |-> {}, using |-> None, hack |-> None,
                                             turret |-> None, order |-> None]],
                   a |-> [e \in Areas |-> [locked |-> lock[e], power |-> TRUE, inUse |-> FALSE,
                                           progress |-> 0, downloaded |-> FALSE, closing |-> FALSE]],
                   h |-> [e \in Areas |-> NoHack]]
    BY DEF Init
  <1>3. Full \in Nat \ {0} /\ None \notin Areas /\ None \notin Marines
    BY HackingConstants
  <1>4. /\ world.m = [x \in Marines |-> [alive |-> TRUE, at |-> {}, using |-> None, hack |-> None,
                                         turret |-> None, order |-> None]]
        /\ world.a = [e \in Areas |-> [locked |-> lock[e], power |-> TRUE, inUse |-> FALSE,
                                       progress |-> 0, downloaded |-> FALSE, closing |-> FALSE]]
        /\ world.h = [e \in Areas |-> NoHack]
        /\ world = [m |-> world.m, a |-> world.a, h |-> world.h]
    BY <1>2
  <1>5. /\ world.m \in [Marines -> MarineStates]
        /\ \A x \in Marines : /\ world.m[x].at = {} /\ world.m[x].using = None
                              /\ world.m[x].hack = None /\ world.m[x].turret = None
    BY <1>4 DEF MarineStates
  <1>6. /\ world.a \in [Areas -> AreaStates]
        /\ \A e \in Areas : /\ ~world.a[e].inUse /\ world.a[e].progress = 0 /\ ~world.a[e].downloaded
    BY <1>3, <1>4 DEF AreaStates
  <1>7. /\ world.h \in [Areas -> HackStates]
        /\ \A e \in Areas : world.h[e].marine = None /\ world.h[e].page = Menu
    BY <1>3, <1>4 DEF HackStates, NoHack, Menu
  <1>8. world \in Worlds
    BY <1>4, <1>5, <1>6, <1>7 DEF Worlds
  <1>9. \A e \in Areas : LockAt(world, e)
    BY <1>3, <1>5, <1>6, <1>7 DEF LockAt
  <1>10. Handles(world)
    BY <1>3, <1>5, <1>6, <1>7 DEF Handles
  <1>11. PresentIn(level, world)
    BY <1>5 DEF PresentIn
  <1> QED BY <1>1, <1>8, <1>9, <1>10, <1>11 DEF LocksInv, Sound, Held

LEMMA NextSteps ==
    ASSUME LocksInv, Next
    PROVE  Steps(world') /\ level' = level /\ driven' \in [Players -> Marines]
  <1>1. Reachable \subseteq Areas /\ driven \in [Players -> Marines]
    BY ReachableAreas DEF LocksInv
  <1>2. CASE \E x \in Marines : Killed(x)
    <2>1. PICK x \in Marines : Killed(x)
      BY <1>2
    <2> QED BY <1>1, <2>1, KilledSteps DEF Killed
  <1>3. CASE \E x \in Marines : \E s \in level[x] : MarineFrame(x, s)
    <2>1. PICK x \in Marines : \E s \in level[x] : MarineFrame(x, s)
      BY <1>3
    <2> QED BY <1>1, <2>1, MarineFrameSteps DEF MarineFrame
  <1>4. CASE \E p \in Players : PlayerFrame(p) \/ PlayerUse(p) \/ SelectHack(p) \/ StopCommand(p)
    <2>1. PICK p \in Players : PlayerFrame(p) \/ PlayerUse(p) \/ SelectHack(p) \/ StopCommand(p)
      BY <1>4
    <2>2. UNCHANGED <<level, driven>>
      BY <2>1 DEF PlayerFrame, PlayerUse, SelectHack, StopCommand
    <2> QED BY <1>1, <2>1, <2>2, PlayerFrameSteps, PlayerUseSteps, SelectSteps, StopSteps
  <1>5. CASE \/ \E p \in Players : AskTech(p)
             \/ \E t \in Techs : GiveUpOrder(t)
             \/ \E p \in Players, x \in Marines : SwitchMarine(p, x)
    <2>1. Steps(world')
      BY <1>5, OrderSteps
    <2>2. level' = level /\ driven' \in [Players -> Marines]
      BY <1>1, <1>5 DEF AskTech, GiveUpOrder, SwitchMarine
    <2> QED BY <2>1, <2>2
  <1>6. CASE \E t \in Techs : ObeyOrder(t)
    <2>1. PICK t \in Techs : ObeyOrder(t)
      BY <1>6
    <2> QED BY <1>1, <2>1, ObeySteps DEF ObeyOrder
  <1>7. CASE \E e \in Panels \cap Reachable : InputPower(e) \/ InputUnlock(e) \/ InputResetHack(e)
    <2>1. PICK e \in Panels : InputPower(e) \/ InputUnlock(e) \/ InputResetHack(e)
      BY <1>7
    <2>2. UNCHANGED <<level, driven>>
      BY <2>1 DEF InputPower, InputUnlock, InputResetHack
    <2> QED BY <1>1, <2>1, <2>2, InputSteps, ResetSteps
  <1> QED BY <1>2, <1>3, <1>4, <1>5, <1>6, <1>7 DEF Next

LEMMA LocksStep ==
    ASSUME LocksInv, [Next]_vars
    PROVE  LocksInv'
  <1>1. CASE Next
    BY <1>1, NextSteps DEF LocksInv, Steps
  <1>2. CASE UNCHANGED vars
    BY <1>2 DEF LocksInv, vars
  <1> QED BY <1>1, <1>2

LEMMA HeldStep ==
    ASSUME AreasApart, LocksInv, Held, [Next]_vars
    PROVE  Held'
  <1>1. CASE Next
    BY <1>1, NextSteps DEF Held, Steps
  <1>2. CASE UNCHANGED vars
    BY <1>2 DEF Held, vars
  <1> QED BY <1>1, <1>2
LEMMA LocksMean ==
    ASSUME LocksInv
    PROVE  TypeOK /\ LockHolds
  <1>1. world \in Worlds /\ \A e \in Areas : LockAt(world, e)
    BY DEF LocksInv, Sound
  <1>2. TypeOK
    BY <1>1 DEF TypeOK, LocksInv, Worlds
  <1>3. ASSUME NEW e \in Areas, world.a[e].locked
        PROVE  /\ world.a[e].progress < Full /\ ~world.a[e].downloaded
               /\ e \in Computers => ~IsDownloading(world, e)
               /\ UsersOf(world, e) \subseteq Techs
    <2>1. world.a[e].progress < Full /\ ~world.a[e].downloaded
      BY <1>1, <1>3 DEF LockAt
    <2>2. e \in Computers => ~IsDownloading(world, e)
      BY <1>1, <1>3, NoFiles
    <2>3. UsersOf(world, e) \subseteq Techs
      BY <1>1, <1>3 DEF LockAt, UsersOf
    <2> QED BY <2>1, <2>2, <2>3
  <1> QED BY <1>2, <1>3 DEF LockHolds

LEMMA HandlesMean ==
    ASSUME LocksInv, Held
    PROVE  HandlesAgree
  <1>1. Handles(world) /\ world \in Worlds /\ None \notin Areas
    BY HackingConstants DEF LocksInv, Sound, Held
  <1>2. ASSUME NEW e \in Areas
        PROVE  /\ world.a[e].inUse <=> UsersOf(world, e) # {}
               /\ \A x, y \in UsersOf(world, e) : x = y
               /\ world.h[e].marine # None => world.h[e].exists /\ world.m[world.h[e].marine].hack = e
    <2>1. UsersOf(world, e) # {} <=> \E x \in Marines : world.m[x].using = e
      BY DEF UsersOf
    <2>2. \A x, y \in UsersOf(world, e) : x = y
      BY <1>1 DEF UsersOf, Handles
    <2> QED BY <1>1, <2>1, <2>2 DEF Handles
  <1>3. ASSUME NEW x \in Marines
        PROVE  /\ ~world.m[x].alive => world.m[x].using = None
               /\ world.m[x].hack # None => /\ world.m[x].using = world.m[x].hack
                                            /\ world.h[world.m[x].hack].marine = x
               /\ world.m[x].turret # None => /\ world.m[x].hack = world.m[x].turret
                                              /\ ~world.a[world.m[x].turret].locked
    BY <1>1 DEF Handles
  <1> QED BY <1>2, <1>3 DEF HandlesAgree

LEMMA LocksAlways == Spec => []LocksInv
  <1>1. Init => LocksInv
    BY InitHolds
  <1>2. LocksInv /\ [Next]_vars => LocksInv'
    BY LocksStep
  <1> QED BY <1>1, <1>2, PTL DEF Spec

\* The types of Hacking: no progress gets past a finished hack, no page, marine
\* or handle is one that does not exist.
THEOREM HackingTypes == Spec => []TypeOK
  <1>1. LocksInv => TypeOK
    BY LocksMean
  <1> QED BY <1>1, LocksAlways, PTL

\* A lock is opened by hacking, whatever areas a level has and wherever its
\* marines get to (SelectHackOption, OnHackUnlocked, SetHackProgress and the
\* waiting of marines without a player).
THEOREM LocksHold == Spec => []LockHolds
  <1>1. LocksInv => LockHolds
    BY LocksMean
  <1> QED BY <1>1, LocksAlways, PTL

\* Marines, areas and hack objects hold each other or nobody, on every level
\* where no place lies in two areas (ActivateUseIcon, StopUsing, InitHack).
THEOREM HandlesStayAgreed ==
    ASSUME AreasApart
    PROVE  Spec => []HandlesAgree
  <1>1. Init => Held
    BY InitHolds
  <1>2. LocksInv /\ Held /\ [Next]_vars => Held'
    BY AreasApart, HeldStep
  <1>3. LocksInv /\ Held => HandlesAgree
    BY HandlesMean
  <1> QED BY <1>1, <1>2, <1>3, LocksAlways, PTL DEF Spec

-----------------------------------------------------------------------------
(* Doors.                                                                   *)

\* Until a door that was turned has taken NeededFlipDamage, its count is below
\* zero by at least what is missing.
Graced(b) ==
    /\ b \in BodyStates
    /\ b.since = NeededFlipDamage \/ b.counter + NeededFlipDamage <= b.since

BodiesGraced == body \in [Doors -> BodyStates] /\ \A d \in Doors : Graced(body[d])

-----------------------------------------------------------------------------
(* The bodies of new doors.                                                 *)

LEMMA NewBodies ==
    /\ Graced(Undamaged)
    /\ \A n \in {33, 66}, f \in BOOLEAN : Graced(SpawnedDented(n, f))
  <1>1. Graced(Undamaged)
    BY DoorConstants DEF Graced, Undamaged, BodyStates, Dents, Sides
  <1>2. ASSUME NEW n \in {33, 66}, NEW f \in BOOLEAN
        PROVE  Graced(SpawnedDented(n, f))
    <2>1. (n * Strength) \div 100 \in 0..Strength
      BY <1>2, DoorConstants
    <2>2. (IF n = 66 THEN "partial" ELSE "complete") \in Dents
      BY DEF Dents
    <2>3. SpawnedDented(n, f) \in BodyStates
      <3>1. Undamaged \in BodyStates
        BY <1>1 DEF Graced
      <3> QED BY <2>1, <2>2, <3>1, ZenonT(60) DEF SpawnedDented, BodyStates
    <2>4. SpawnedDented(n, f).since = NeededFlipDamage
      BY DEF SpawnedDented, Undamaged
    <2> QED BY <2>3, <2>4 DEF Graced
  <1> QED BY <1>1, <1>2

-----------------------------------------------------------------------------
(* A blow.                                                                  *)

\* Turning a door over, or leaving it, touches nothing else.
LEMMA DentSequence ==
    ASSUME NEW b \in BodyStates
    PROVE  /\ SetDentSequence(b) \in BodyStates
           /\ SetDentSequence(b).counter = b.counter
           /\ SetDentSequence(b).since = b.since
           /\ SetDentSequence(b).fallen = b.fallen
  BY DEF SetDentSequence, BodyStates

\* A door that is turned at the last moment gets its grace.
LEMMA TurnedGraced ==
    ASSUME NEW b \in BodyStates
    PROVE  Graced(Turned(b)) /\ Turned(b).fallen = b.fallen
  <1> DEFINE up == [b EXCEPT !.dent = "none"]
             k == SetDentSequence(up)
  <1>1. up \in BodyStates /\ up.fallen = b.fallen
    BY DEF BodyStates, Dents
  <1>2. k \in BodyStates /\ k.fallen = b.fallen
    BY <1>1, DentSequence
  <1>3. Turned(b) = [k EXCEPT !.dent = "complete", !.counter = -NeededFlipDamage, !.since = 0]
    BY DEF Turned
  <1>4. -NeededFlipDamage \in Int /\ 0 \in 0..NeededFlipDamage /\ -NeededFlipDamage + NeededFlipDamage <= 0
    BY DoorConstants
  <1> HIDE DEF k
  <1>5. /\ Turned(b) \in BodyStates /\ Turned(b).fallen = b.fallen
        /\ Turned(b).counter = -NeededFlipDamage /\ Turned(b).since = 0
    BY <1>2, <1>3, <1>4 DEF BodyStates, Dents
  <1>6. Turned(b).counter + NeededFlipDamage <= Turned(b).since
    BY <1>4, <1>5
  <1> QED BY <1>5, <1>6 DEF Graced

\* A blow keeps the grace, and fells a door only when the grace is used up and
\* the door is turned the right way.
LEMMA StruckGraced ==
    ASSUME NEW b, Graced(b), NEW side \in Sides, NEW n \in Nat
    PROVE  /\ Graced(Struck(b, side, n))
           /\ ~b.fallen /\ Struck(b, side, n).fallen =>
                 /\ Struck(b, side, n).flipped = (Struck(b, side, n).last = "front")
                 /\ b.since = NeededFlipDamage
  <1> DEFINE health == IF n >= b.health THEN 0 ELSE b.health - n
             since == IF b.since + n > NeededFlipDamage THEN NeededFlipDamage ELSE b.since + n
             h == [b EXCEPT !.last = side, !.health = health, !.since = since]
             c == b.counter + n
  <1>b. /\ b \in BodyStates /\ b.health \in 0..Strength /\ b.since \in 0..NeededFlipDamage
        /\ b.counter \in Int
    BY DEF Graced, BodyStates
  <1>h. /\ health \in 0..Strength /\ since \in 0..NeededFlipDamage /\ c \in Int
        /\ since = NeededFlipDamage \/ since = b.since + n
    BY <1>b, DoorConstants
  <1>1. /\ h \in BodyStates /\ h.fallen = b.fallen /\ h.counter = b.counter
        /\ h.health = health /\ h.since = since
    <2> HIDE DEF health, since
    <2> QED BY <1>b, <1>h DEF BodyStates
  <1>2. /\ h.since = NeededFlipDamage \/ c + NeededFlipDamage <= h.since
        /\ h.since = NeededFlipDamage \/ b.counter + NeededFlipDamage <= h.since
    <2> HIDE DEF health, since, h
    <2> QED BY <1>b, <1>h, <1>1, DoorConstants DEF Graced
  <1> DEFINE result == CASE h.health > 0 -> SetDentSequence([h EXCEPT !.dent = DentFor(h.health)])
                         [] h.health = 0 /\ NeedsFlip(h) ->
                               LET k == [h EXCEPT !.health = 1, !.counter = c] IN
                               IF c >= NeededFlipDamage THEN Turned(k) ELSE k
                         [] OTHER -> IF b.counter < 0 THEN [h EXCEPT !.counter = c]
                                                      ELSE [h EXCEPT !.fallen = TRUE]
  <1>4. Struck(b, side, n) = result
    BY DEF Struck
  <1>5. h.health \in Nat
    BY <1>h, <1>1, DoorConstants
  <1> HIDE DEF h, health, since, c
  <1>6. CASE h.health > 0
    <2> DEFINE dented == [h EXCEPT !.dent = DentFor(h.health)]
    <2>1. DentFor(h.health) \in Dents
      BY DEF DentFor, Dents
    <2>2. /\ dented \in BodyStates /\ dented.fallen = b.fallen /\ dented.counter = b.counter
          /\ dented.since = h.since
      BY <1>1, <2>1 DEF BodyStates
    <2>3. result = SetDentSequence(dented)
      BY <1>6
    <2> HIDE DEF dented, result
    <2>4. /\ result \in BodyStates /\ result.fallen = b.fallen
          /\ result.counter = b.counter /\ result.since = h.since
      BY <2>2, <2>3, DentSequence
    <2>5. Graced(result)
      BY <1>2, <2>4 DEF Graced
    <2> QED BY <1>4, <2>4, <2>5
  <1>7. CASE h.health = 0 /\ NeedsFlip(h)
    <2> DEFINE k == [h EXCEPT !.health = 1, !.counter = c]
    <2>1. k \in BodyStates /\ k.fallen = b.fallen /\ k.counter = c /\ k.since = h.since
      <3>1. 1 \in 0..Strength
        BY DoorConstants
      <3> QED BY <1>h, <1>1, <3>1 DEF BodyStates
    <2>2. result = IF c >= NeededFlipDamage THEN Turned(k) ELSE k
      BY <1>7
    <2> HIDE DEF k, result
    <2>3. Graced(k)
      BY <1>2, <2>1 DEF Graced
    <2>4. Graced(Turned(k)) /\ Turned(k).fallen = b.fallen
      BY <2>1, TurnedGraced
    <2>5. Graced(result) /\ result.fallen = b.fallen
      BY <2>1, <2>2, <2>3, <2>4
    <2> QED BY <1>4, <2>5
  <1>8. CASE h.health = 0 /\ ~NeedsFlip(h)
    <2>1. result = IF b.counter < 0 THEN [h EXCEPT !.counter = c] ELSE [h EXCEPT !.fallen = TRUE]
      BY <1>8
    <2>2. CASE b.counter < 0
      <3>1. result = [h EXCEPT !.counter = c]
        BY <2>1, <2>2
      <3> HIDE DEF result
      <3>2. /\ result \in BodyStates /\ result.fallen = b.fallen
            /\ result.counter = c /\ result.since = h.since
        BY <1>h, <1>1, <3>1 DEF BodyStates
      <3>3. Graced(result)
        BY <1>2, <3>2 DEF Graced
      <3> QED BY <1>4, <3>2, <3>3
    <2>3. CASE ~(b.counter < 0)
      <3>1. result = [h EXCEPT !.fallen = TRUE]
        BY <2>1, <2>3
      <3>2. /\ result \in BodyStates /\ result.counter = h.counter /\ result.since = h.since
            /\ result.fallen /\ result.flipped = h.flipped /\ result.last = h.last
        <4> HIDE DEF result
        <4> QED BY <1>1, <3>1 DEF BodyStates
      <3>3. b.since = NeededFlipDamage
        BY <2>3, DoorConstants DEF Graced, BodyStates
      <3>4. h.flipped = (h.last = "front")
        BY <1>1, <1>8 DEF NeedsFlip, BodyStates
      <3>5. Graced(result)
        <4> HIDE DEF result
        <4> QED BY <1>1, <1>2, <3>2 DEF Graced
      <3> QED BY <1>4, <3>2, <3>3, <3>4, <3>5
    <2> QED BY <2>2, <2>3
  <1> QED BY <1>5, <1>6, <1>7, <1>8

-----------------------------------------------------------------------------
(* The steps of the doors.                                                  *)

\* Only blows and kicks change a body.
LEMMA OnlyBlowsHurt ==
    ASSUME [DoorNext]_doorVars
    PROVE  \/ UNCHANGED body
           \/ \E d \in Doors, side \in Sides, n \in Nat : Blow(d, side, n)
  <1>1. ASSUME NEW d \in Doors, Slide(d) \/ Arrive(d) \/ Return(d) \/ Bump(d) \/ Freed(d)
        PROVE  UNCHANGED body
    BY <1>1 DEF Slide, Arrive, Return, Bump, Freed
  <1>2. ASSUME NEW d \in Doors, Input(d) \/ InputLock(d)
        PROVE  UNCHANGED body
    BY <1>2 DEF Input, InputLock
  <1>3. InputAutoOpen \/ PressButton \/ TouchArea => UNCHANGED body
    BY DEF InputAutoOpen, PressButton, TouchArea
  <1>4. ASSUME NEW d \in Doors, NEW side \in Sides,
               Kick(d, side) \/ \E n \in Blows : Blow(d, side, n)
        PROVE  \E n \in Nat : Blow(d, side, n)
    BY <1>4, DoorConstants DEF Kick
  <1>5. WelderActs => UNCHANGED body
    BY DEF WelderActs, WelderFrame, HoldEnds, MarineMoves, OffhandActivate
  <1>6. UNCHANGED doorVars => UNCHANGED body
    BY DEF doorVars
  <1> QED BY <1>1, <1>2, <1>3, <1>4, <1>5, <1>6 DEF DoorNext

LEMMA BodiesInitially == DoorInit => BodiesGraced
  <1> SUFFICES ASSUME DoorInit PROVE BodiesGraced
    OBVIOUS
  <1>1. body \in [Doors -> {Undamaged} \cup {SpawnedDented(n, f) : n \in {33, 66}, f \in BOOLEAN}]
    BY DEF DoorInit
  <1>2. \A d \in Doors : Graced(body[d])
    BY <1>1, NewBodies
  <1>3. body \in [Doors -> BodyStates]
    BY <1>1, <1>2 DEF Graced
  <1> QED BY <1>2, <1>3 DEF BodiesGraced

\* A step keeps the grace of every door, and a door that falls in it has used
\* its grace up and is turned the way it was hit.
LEMMA BodiesStep ==
    ASSUME BodiesGraced, [DoorNext]_doorVars
    PROVE  /\ BodiesGraced'
           /\ \A d \in Doors : ~body[d].fallen /\ body'[d].fallen =>
                 /\ body'[d].flipped = (body'[d].last = "front")
                 /\ body[d].since = NeededFlipDamage
  <1>1. CASE UNCHANGED body
    BY <1>1 DEF BodiesGraced
  <1>2. CASE \E d \in Doors, side \in Sides, n \in Nat : Blow(d, side, n)
    <2>1. PICK d \in Doors, side \in Sides, n \in Nat : Blow(d, side, n)
      BY <1>2
    <2>2. body' = [body EXCEPT ![d] = Struck(body[d], side, n)]
      BY <2>1 DEF Blow
    <2>3. /\ Graced(Struck(body[d], side, n))
          /\ ~body[d].fallen /\ Struck(body[d], side, n).fallen =>
                /\ Struck(body[d], side, n).flipped = (Struck(body[d], side, n).last = "front")
                /\ body[d].since = NeededFlipDamage
      BY StruckGraced DEF BodiesGraced
    <2>4. /\ body'[d] = Struck(body[d], side, n)
          /\ \A e \in Doors \ {d} : body'[e] = body[e]
      BY <2>2 DEF BodiesGraced
    <2>5. \A e \in Doors : Graced(body'[e])
      BY <2>3, <2>4 DEF BodiesGraced
    <2>6. body' \in [Doors -> BodyStates]
      BY <2>2, <2>5 DEF BodiesGraced, Graced
    <2>7. BodiesGraced'
      BY <2>5, <2>6 DEF BodiesGraced, Graced
    <2> QED BY <2>3, <2>4, <2>7
  <1> QED BY <1>1, <1>2, OnlyBlowsHurt

\* However doors are beaten, kicked, welded and moved: a door falls only when it
\* is turned the way of the last blow, and only when it has taken
\* NeededFlipDamage since it was turned at the last moment
\* (CASW_Door::OnTakeDamage).
THEOREM DoorsFallAsAnimated == DoorSpec => FallsAsAnimated
  <1>1. BodiesGraced /\ [DoorNext]_doorVars
          => [\A d \in Doors : ~body[d].fallen /\ body'[d].fallen =>
                 /\ body'[d].flipped = (body'[d].last = "front")
                 /\ body[d].since = NeededFlipDamage]_doorVars
    BY BodiesStep
  <1>2. BodiesGraced /\ [DoorNext]_doorVars => BodiesGraced'
    BY BodiesStep
  <1> QED BY <1>1, <1>2, BodiesInitially, PTL DEF DoorSpec, FallsAsAnimated

-----------------------------------------------------------------------------
(* The types of Door.                                                       *)

\* The motion of all doors, as the operators of Door take and return it.
Motions == [Doors -> LeafStates]

\* A leaf that arrives, starts to slide, or is told to open or close.
LEMMA LeafArrives ==
    ASSUME NEW l \in LeafStates, NEW returns
    PROVE  Reached(l) \in LeafStates /\ MoveDoneLeaf(l, returns) \in LeafStates
  <1>1. {Nowhere, Shut, Out} \subseteq Nowhere..Out
    BY DEF Nowhere, Shut, Out
  <1>2. Reached(l) \in LeafStates /\ Reached(l).fn = l.fn
    BY <1>1 DEF Reached, LeafStates
  <1> DEFINE r == Reached(l)
             timer == IF returns THEN "return" ELSE "off"
             fn == IF returns THEN "autoclose" ELSE r.fn
  <1>3. timer \in {"off", "slide", "return"} /\ fn \in {"none", "opened", "closed", "autoclose"}
    BY <1>2 DEF LeafStates
  <1>4. MoveDoneLeaf(l, returns) =
          CASE l.fn = "opened" -> [r EXCEPT !.state = "open", !.first = FALSE, !.timer = timer, !.fn = fn]
            [] l.fn = "closed" -> [r EXCEPT !.state = "closed", !.first = FALSE]
            [] OTHER -> r
    BY DEF MoveDoneLeaf
  <1> HIDE DEF r, timer, fn
  <1>5. r \in LeafStates
    BY <1>2 DEF r
  <1>6. [r EXCEPT !.state = "open", !.first = FALSE, !.timer = timer, !.fn = fn] \in LeafStates
    BY <1>3, <1>5 DEF LeafStates
  <1>7. [r EXCEPT !.state = "closed", !.first = FALSE] \in LeafStates
    BY <1>5 DEF LeafStates
  <1> QED BY <1>2, <1>4, <1>5, <1>6, <1>7

LEMMA LeafSlides ==
    ASSUME NEW l \in LeafStates, NEW to \in {Shut, Out}, NEW returns
    PROVE  SlideMove(l, to, returns) \in LeafStates
  <1> DEFINE g == [l EXCEPT !.goal = to]
  <1>1. g \in LeafStates
    BY DEF LeafStates
  <1>2. [g EXCEPT !.timer = "slide"] \in LeafStates
    BY <1>1 DEF LeafStates
  <1>3. MoveDoneLeaf(g, returns) \in LeafStates
    BY <1>1, LeafArrives
  <1> QED BY <1>2, <1>3 DEF SlideMove

LEMMA LeafTurns ==
    ASSUME NEW l \in LeafStates, NEW returns
    PROVE  OpenLeaf(l, returns) \in LeafStates /\ CloseLeaf(l, returns) \in LeafStates
  <1>1. /\ [l EXCEPT !.state = "opening", !.fn = "opened"] \in LeafStates
        /\ [l EXCEPT !.state = "closing", !.fn = "closed"] \in LeafStates
    BY DEF LeafStates
  <1> QED BY <1>1, LeafSlides DEF OpenLeaf, CloseLeaf

\* A door that moves takes others along; an automatic return may be put off.
LEMMA DoorsMove ==
    ASSUME NEW L \in Motions, NEW d \in Doors, NEW clear \in BOOLEAN
    PROVE  /\ DoorOpen(L, d) \in Motions /\ DoorClose(L, d) \in Motions
           /\ MoveDone(L, d, clear) \in Motions /\ DoorResume(L, d, clear) \in Motions
  <1>1. ASSUME NEW M \in Motions
        PROVE  DoorOpen(M, d) \in Motions /\ DoorClose(M, d) \in Motions
    <2>1. ASSUME NEW e \in Doors
          PROVE  /\ M[e] \in LeafStates
                 /\ OpenLeaf(M[e], e \in AutoReturn) \in LeafStates
                 /\ CloseLeaf(M[e], e \in AutoReturn) \in LeafStates
      <3>1. M[e] \in LeafStates
        BY DEF Motions
      <3> QED BY <3>1, LeafTurns, Zenon
    <2>2. DoorOpen(M, d) \in Motions
      BY <2>1 DEF DoorOpen, Motions
    <2>3. DoorClose(M, d) \in Motions
      BY <2>1 DEF DoorClose, Motions
    <2> QED BY <2>2, <2>3
  <1>2. ASSUME NEW M \in Motions, NEW t \in {"off", "slide", "return"}
        PROVE  [M EXCEPT ![d].timer = t] \in Motions
    <2>1. [M[d] EXCEPT !.timer = t] \in LeafStates
      BY DEF Motions, LeafStates
    <2> QED BY <2>1 DEF Motions
  <1>3. MoveDone(L, d, clear) \in Motions
    <2> DEFINE M == [L EXCEPT ![d] = Reached(L[d])]
    <2>1. L[d] \in LeafStates
      BY DEF Motions
    <2>2. Reached(L[d]) \in LeafStates /\ MoveDoneLeaf(L[d], d \in AutoReturn) \in LeafStates
      BY <2>1, LeafArrives, Zenon
    <2>4. [L EXCEPT ![d] = MoveDoneLeaf(L[d], d \in AutoReturn)] \in Motions /\ M \in Motions
      BY <2>2 DEF Motions
    <2>3. MoveDone(L, d, clear) =
            IF L[d].fn # "autoclose" THEN [L EXCEPT ![d] = MoveDoneLeaf(L[d], d \in AutoReturn)]
            ELSE IF clear THEN DoorClose(M, d) ELSE [M EXCEPT ![d].timer = "return"]
      BY DEF MoveDone
    <2> HIDE DEF M
    <2> QED BY <1>1, <1>2, <2>3, <2>4
  <1>4. DoorResume(L, d, clear) \in Motions
    BY <1>2, <1>3 DEF DoorResume
  <1> QED BY <1>1, <1>3, <1>4

\* What is in the way of one leaf stops a group and lets it go again.
LEMMA DoorsBlocked ==
    ASSUME NEW L \in Motions, NEW d \in Doors, NEW who, NEW clear \in BOOLEAN,
           Master \in Doors, slaves \subseteq Doors
    PROVE  StartBlocked(L, d, who) \in Motions /\ EndBlocked(L, d, clear) \in Motions
  <1>1. ASSUME NEW M \in Motions, NEW e \in Doors
        PROVE  OnStartBlocked(M, e, who) \in Motions
    <2> DEFINE N == IF M[e].first THEN M ELSE [M EXCEPT ![e].timer = "off"]
    <2>1. [M[e] EXCEPT !.timer = "off"] \in LeafStates
      BY DEF Motions, LeafStates
    <2>2. N \in Motions
      BY <2>1 DEF Motions
    <2>3. OnStartBlocked(M, e, who) =
            CASE who # "npc" -> N
              [] N[e].state = "closing" -> DoorOpen(N, e)
              [] OTHER -> DoorClose(N, e)
      BY DEF OnStartBlocked
    <2> HIDE DEF N
    <2>4. DoorOpen(N, e) \in Motions /\ DoorClose(N, e) \in Motions
      BY <2>2, DoorsMove
    <2> QED BY <2>2, <2>3, <2>4
  <1>2. ASSUME NEW M \in Motions, NEW e \in Doors
        PROVE  OnEndBlocked(M, e, clear) \in Motions
    BY <1>2, DoorsMove DEF OnEndBlocked
  <1>3. StartBlocked(L, d, who) \in Motions
    <2> DEFINE F == [L EXCEPT ![d].first = TRUE]
               G == [e \in Doors |-> IF e \in slaves THEN OnStartBlocked(F, e, who)[e] ELSE F[e]]
    <2>1. [L[d] EXCEPT !.first = TRUE] \in LeafStates
      BY DEF Motions, LeafStates
    <2>2. F \in Motions
      BY <2>1 DEF Motions
    <2>3. StartBlocked(L, d, who) =
            IF d \notin slaves THEN OnStartBlocked(F, d, who) ELSE OnStartBlocked(G, Master, who)
      BY DEF StartBlocked
    <2> HIDE DEF F
    <2>4. G \in Motions
      BY <1>1, <2>2 DEF Motions
    <2> HIDE DEF G
    <2> QED BY <1>1, <2>2, <2>3, <2>4
  <1>4. EndBlocked(L, d, clear) \in Motions
    <2> DEFINE G == [e \in Doors |-> IF e \in slaves THEN OnEndBlocked(L, e, clear)[e] ELSE L[e]]
    <2>1. EndBlocked(L, d, clear) =
            IF d \notin slaves /\ d # Master THEN OnEndBlocked(L, d, clear)
            ELSE OnEndBlocked(G, Master, clear)
      BY DEF EndBlocked
    <2>2. G \in Motions
      BY <1>2 DEF Motions
    <2> HIDE DEF G
    <2> QED BY <1>2, <2>1, <2>2
  <1> QED BY <1>3, <1>4

LEMMA DoorTypesInitially == DoorInit => DoorTypeOK
  <1> SUFFICES ASSUME DoorInit PROVE DoorTypeOK
    OBVIOUS
  <1>1. slaves \subseteq Doors \ {Master}
    BY DEF DoorInit
  <1>2. leaf \in [Doors -> LeafStates]
    <2>1. Spawned("closed", Shut) \in LeafStates /\ Spawned("open", Out) \in LeafStates
      BY DEF Spawned, LeafStates, Nowhere, Shut, Out
    <2> QED BY <2>1 DEF DoorInit
  <1>3. hit \in [Doors -> {"none", "npc", "thing"}] /\ locked \in [Doors -> BOOLEAN]
    BY DEF DoorInit
  <1>4. body \in [Doors -> BodyStates]
    BY BodiesInitially DEF BodiesGraced
  <1>5. seal \in [Doors -> 0..SealTotal]
    <2>1. {0, SealTotal} \subseteq 0..SealTotal
      BY DoorConstants
    <2> QED BY <2>1 DEF DoorInit
  <1>6. area \in [auto : BOOLEAN, hold : BOOLEAN]
    BY DEF DoorInit
  <1>7. welder \in WelderStates
    BY DEF DoorInit, WelderStates
  <1>8. left \in 0..Disturbances
    BY DoorConstants DEF DoorInit
  <1> QED BY <1>1, <1>2, <1>3, <1>4, <1>5, <1>6, <1>7, <1>8 DEF DoorTypeOK

LEMMA DoorsObey ==
    ASSUME DoorTypeOK, NEW d \in Doors
    PROVE  /\ leaf \in Motions /\ Master \in Doors /\ AreaDoor \in Doors /\ slaves \subseteq Doors
           /\ OpenIfUnlocked(d) \in Motions
           /\ DoorOpen(leaf, d) \in Motions /\ DoorClose(leaf, d) \in Motions
  <1>1. leaf \in Motions /\ Master \in Doors /\ AreaDoor \in Doors /\ slaves \subseteq Doors
    BY DoorConstants DEF DoorTypeOK, Motions
  <1>2. DoorOpen(leaf, d) \in Motions /\ DoorClose(leaf, d) \in Motions
    BY <1>1, DoorsMove
  <1> QED BY <1>1, <1>2 DEF OpenIfUnlocked

\* What moves the leaves.
LEMMA LeavesStep ==
    ASSUME DoorTypeOK, [DoorNext]_doorVars
    PROVE  leaf' \in Motions
  <1>1. leaf \in Motions /\ Master \in Doors /\ AreaDoor \in Doors /\ slaves \subseteq Doors
    BY DoorConstants, DoorsObey
  <1>2. ASSUME NEW d \in Doors, Slide(d)
        PROVE  leaf' \in Motions
    <2>1. PICK p \in Near..Midway : leaf' = [leaf EXCEPT ![d].pos = p]
      BY <1>2 DEF Slide
    <2>2. p \in Nowhere..Out
      BY DEF Near, Midway, Nowhere, Out
    <2>3. [leaf[d] EXCEPT !.pos = p] \in LeafStates
      BY <1>1, <2>2 DEF Motions, LeafStates
    <2> QED BY <1>1, <2>1, <2>3 DEF Motions
  <1>3. ASSUME NEW d \in Doors, Arrive(d) \/ Return(d)
        PROVE  leaf' \in Motions
    <2>1. PICK clear \in BOOLEAN : leaf' = MoveDone(leaf, d, clear)
      BY <1>3 DEF Arrive, Return
    <2> QED BY <1>1, <2>1, DoorsMove
  <1>4. ASSUME NEW d \in Doors, Bump(d)
        PROVE  leaf' \in Motions
    <2>1. PICK who \in {"npc", "thing"} \ {hit[d]}, clear \in BOOLEAN :
            leaf' = StartBlocked(IF hit[d] = "none" THEN leaf ELSE EndBlocked(leaf, d, clear), d, who)
      BY <1>4 DEF Bump
    <2>2. (IF hit[d] = "none" THEN leaf ELSE EndBlocked(leaf, d, clear)) \in Motions
      BY <1>1, DoorsBlocked
    <2> QED BY <1>1, <2>1, <2>2, DoorsBlocked
  <1>5. ASSUME NEW d \in Doors, Freed(d)
        PROVE  leaf' \in Motions
    <2>1. PICK clear \in BOOLEAN : leaf' = EndBlocked(leaf, d, clear)
      BY <1>5 DEF Freed
    <2> QED BY <1>1, <2>1, DoorsBlocked
  <1>6. ASSUME NEW d \in Doors, InputOpen(d) \/ InputClose(d) \/ InputToggle(d)
        PROVE  leaf' \in Motions
    <2>1. leaf' \in {leaf, OpenIfUnlocked(d), DoorClose(leaf, d)}
      BY <1>6 DEF InputOpen, InputClose, InputToggle
    <2> QED BY <1>1, <2>1, DoorsObey
  <1>7. ASSUME NEW d \in Doors, Use(d)
        PROVE  leaf' \in Motions
    <2> DEFINE u == IF d \in slaves THEN Master ELSE d
    <2>1. leaf' \in {leaf, OpenIfUnlocked(u), DoorClose(leaf, u), DoorOpen(leaf, u)}
      BY <1>7 DEF Use
    <2>2. u \in Doors
      BY <1>1
    <2> HIDE DEF u
    <2> QED BY <1>1, <2>1, <2>2, DoorsObey
  <1>8. ASSUME NEW d \in Doors, Input(d) \/ InputLock(d)
        PROVE  leaf' \in Motions
    BY <1>1, <1>6, <1>7, <1>8 DEF Input, InputLock
  <1>9. InputAutoOpen \/ PressButton \/ TouchArea => leaf' \in Motions
    <2>1. PressButton => leaf' \in Motions
      BY <1>1, <1>6 DEF PressButton
    <2>2. TouchArea => leaf' \in Motions
      BY <1>1, DoorsObey DEF TouchArea, AutoOpen
    <2> QED BY <1>1, <2>1, <2>2 DEF InputAutoOpen
  <1>10. ASSUME NEW d \in Doors, NEW side, Kick(d, side) \/ \E n \in Blows : Blow(d, side, n)
         PROVE  leaf' \in Motions
    BY <1>1, <1>10 DEF Kick, Blow
  <1>11. ASSUME NEW dir, NEW facing, NEW cancels, NEW runsOut, WelderFrame(dir, facing, cancels, runsOut)
         PROVE  leaf' \in Motions
    <2> DEFINE opened == OpenedByCutting(welder.weld)
    <2>1. opened \in Motions
      BY <1>1, DoorsObey DEF OpenedByCutting
    <2>2. leaf' \in {DoorClose(opened, AreaDoor), opened}
      BY <1>11 DEF WelderFrame
    <2> HIDE DEF opened
    <2> QED BY <1>1, <2>1, <2>2, DoorsMove
  <1>12. WelderActs => leaf' \in Motions
    <2>1. HoldEnds \/ MarineMoves \/ OffhandActivate => leaf' \in Motions
      BY <1>1 DEF HoldEnds, MarineMoves, OffhandActivate
    <2> QED BY <1>11, <2>1 DEF WelderActs
  <1>13. UNCHANGED doorVars => leaf' \in Motions
    BY <1>1 DEF doorVars
  <1> QED BY <1>2, <1>3, <1>4, <1>5, <1>8, <1>9, <1>10, <1>12, <1>13 DEF DoorNext

\* The welder and what it seals.
LEMMA WelderStep ==
    ASSUME DoorTypeOK, WelderActs
    PROVE  /\ welder' \in WelderStates /\ seal' \in [Doors -> 0..SealTotal]
           /\ area' \in [auto : BOOLEAN, hold : BOOLEAN] /\ left' \in 0..Disturbances
           /\ UNCHANGED <<slaves, hit, locked>>
  <1>1. /\ welder \in WelderStates /\ seal \in [Doors -> 0..SealTotal] /\ AreaDoor \in Doors
        /\ area \in [auto : BOOLEAN, hold : BOOLEAN] /\ left \in 0..Disturbances
    BY DoorConstants DEF DoorTypeOK
  <1>2. ASSUME NEW w \in WelderStates, NEW a \in {"off", "seal", "cut"}, NEW t \in BOOLEAN
        PROVE  /\ [w EXCEPT !.auto = a] \in WelderStates
               /\ [w EXCEPT !.target = t, !.weld = a] \in WelderStates
               /\ [w EXCEPT !.weld = a] \in WelderStates
               /\ Idle(w) \in WelderStates
    BY DEF WelderStates, Idle
  <1>3. ASSUME NEW dir \in {"off", "seal", "cut"}, NEW facing \in BOOLEAN, NEW cancels \in BOOLEAN,
               NEW runsOut \in BOOLEAN, WelderFrame(dir, facing, cancels, runsOut)
        PROVE  /\ welder' \in WelderStates /\ seal' \in [Doors -> 0..SealTotal]
               /\ area' \in [auto : BOOLEAN, hold : BOOLEAN] /\ UNCHANGED <<slaves, hit, locked, left>>
    <2> DEFINE sealed == SealAfter(welder.weld)
               v == IF runsOut THEN [welder EXCEPT !.weld = "off"] ELSE welder
               w == AfterWeld(welder, runsOut, sealed)
               n == Attack(w, dir, facing, cancels)
    <2>1. sealed \in 0..SealTotal
      <3>1. seal[AreaDoor] \in 0..SealTotal /\ SealTotal \in Nat
        BY <1>1, DoorConstants
      <3> QED BY <3>1 DEF SealAfter
    <2>2. v \in WelderStates
      BY <1>1, <1>2
    <2>3. w \in {v, Idle(v)}
      BY DEF AfterWeld
    <2> HIDE DEF v
    <2>4. w \in WelderStates
      BY <1>2, <2>2, <2>3
    <2>5. n \in {Idle(w), [w EXCEPT !.target = TRUE, !.weld = dir], w}
      BY DEF Attack
    <2> HIDE DEF w
    <2>6. n \in WelderStates
      BY <1>2, <2>4, <2>5
    <2> HIDE DEF n, sealed
    <2>7. /\ welder' \in {n, w} /\ seal' = [seal EXCEPT ![AreaDoor] = sealed]
          /\ area' \in {[area EXCEPT !.hold = TRUE], area}
          /\ UNCHANGED <<slaves, hit, locked, left>>
      BY <1>3 DEF WelderFrame, n, w, sealed
    <2>8. seal' \in [Doors -> 0..SealTotal]
      BY <1>1, <2>1, <2>7
    <2>9. area' \in [auto : BOOLEAN, hold : BOOLEAN]
      BY <1>1, <2>7
    <2> QED BY <2>4, <2>6, <2>7, <2>8, <2>9
  <1>4. ASSUME HoldEnds
        PROVE  /\ area' \in [auto : BOOLEAN, hold : BOOLEAN]
               /\ UNCHANGED <<slaves, hit, locked, seal, welder, left>>
    BY <1>1, <1>4 DEF HoldEnds
  <1>5. ASSUME MarineMoves \/ OffhandActivate
        PROVE  /\ welder' \in WelderStates /\ left' \in 0..Disturbances
               /\ UNCHANGED <<slaves, hit, locked, seal, area>>
    <2>1. left' \in 0..Disturbances /\ UNCHANGED <<slaves, hit, locked, seal, area>>
      BY <1>1, <1>5, DoorConstants DEF MarineMoves, OffhandActivate, Disturb
    <2>2. MarineMoves => welder' \in WelderStates
      BY <1>1 DEF MarineMoves, WelderStates
    <2>3. ASSUME OffhandActivate
          PROVE  \E a \in {"off", "seal", "cut"} : welder' = [welder EXCEPT !.auto = a]
      BY <2>3, Zenon DEF OffhandActivate
    <2> QED BY <1>1, <1>2, <1>5, <2>1, <2>2, <2>3
  <1> QED BY <1>1, <1>3, <1>4, <1>5 DEF WelderActs

LEMMA DoorTypesStep ==
    ASSUME DoorTypeOK, BodiesGraced, [DoorNext]_doorVars
    PROVE  DoorTypeOK'
  <1>1. leaf' \in [Doors -> LeafStates]
    BY LeavesStep DEF Motions
  <1>2. body' \in [Doors -> BodyStates]
    BY BodiesStep DEF BodiesGraced
  <1> DEFINE Rest ==
        /\ slaves \subseteq Doors \ {Master} /\ hit \in [Doors -> {"none", "npc", "thing"}]
        /\ locked \in [Doors -> BOOLEAN] /\ seal \in [Doors -> 0..SealTotal]
        /\ area \in [auto : BOOLEAN, hold : BOOLEAN] /\ welder \in WelderStates
        /\ left \in 0..Disturbances
  <1>3. Rest
    BY DEF DoorTypeOK
  <1>4. ASSUME NEW d \in Doors, Slide(d) \/ Arrive(d) \/ Return(d) \/ Bump(d) \/ Freed(d)
        PROVE  Rest'
    <2>1. /\ left' \in 0..Disturbances
          /\ hit' \in [Doors -> {"none", "npc", "thing"}]
          /\ UNCHANGED <<slaves, locked, seal, area, welder>>
      BY <1>3, <1>4, DoorConstants DEF Slide, Arrive, Return, Bump, Freed, Disturb
    <2> QED BY <1>3, <2>1
  <1>5. ASSUME NEW d \in Doors, Input(d) \/ InputLock(d)
        PROVE  Rest'
    <2>1. left' \in 0..Disturbances /\ UNCHANGED <<slaves, hit, seal, area, welder>>
      BY <1>3, <1>5, DoorConstants DEF Input, InputLock, Disturb
    <2>2. locked' = locked \/ locked' = [locked EXCEPT ![d] = ~locked[d]]
      BY <1>5 DEF Input, InputLock
    <2>3. locked' \in [Doors -> BOOLEAN]
      BY <1>3, <2>2
    <2> QED BY <1>3, <2>1, <2>3
  <1>6. ASSUME InputAutoOpen \/ PressButton \/ TouchArea
        PROVE  Rest'
    <2>1. left' \in 0..Disturbances /\ UNCHANGED <<slaves, hit, locked, seal, welder>>
      BY <1>3, <1>6, DoorConstants DEF InputAutoOpen, PressButton, TouchArea, Disturb
    <2>2. area' = area \/ area' = [area EXCEPT !.auto = ~area.auto]
      BY <1>6 DEF InputAutoOpen, PressButton, TouchArea
    <2>3. area' \in [auto : BOOLEAN, hold : BOOLEAN]
      BY <1>3, <2>2
    <2> QED BY <1>3, <2>1, <2>3
  <1>7. ASSUME NEW d \in Doors, NEW side, Kick(d, side) \/ \E n \in Blows : Blow(d, side, n)
        PROVE  Rest'
    BY <1>3, <1>7 DEF Kick, Blow
  <1>8. ASSUME WelderActs
        PROVE  Rest'
    BY <1>3, <1>8, WelderStep
  <1>9. ASSUME UNCHANGED doorVars
        PROVE  Rest'
    BY <1>3, <1>9 DEF doorVars
  <1> HIDE DEF Rest
  <1>10. Rest'
    BY <1>4, <1>5, <1>6, <1>7, <1>8, <1>9 DEF DoorNext
  <1> USE DEF Rest
  <1> QED BY <1>1, <1>2, <1>10 DEF DoorTypeOK

\* The types of Door: a leaf is never sent past the wall, a seal is never more
\* than whole, and a door's health and what it has taken stay in their bounds
\* (CBasePropDoor, CASW_Door and CASW_Weapon_Welder).
THEOREM DoorTypes == DoorSpec => []DoorTypeOK
  <1>1. DoorInit => DoorTypeOK /\ BodiesGraced
    BY DoorTypesInitially, BodiesInitially
  <1>2. DoorTypeOK /\ BodiesGraced /\ [DoorNext]_doorVars => (DoorTypeOK /\ BodiesGraced)'
    BY DoorTypesStep, BodiesStep
  <1> QED BY <1>1, <1>2, PTL DEF DoorSpec
===============================================================================
