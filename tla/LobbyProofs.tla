------------------------------- MODULE LobbyProofs -------------------------------
(***************************************************************************)
(* Proofs about Lobby, for every number of players, profiles, slots and     *)
(* places.  The loops of the code are recursive functions in Lobby: a loop  *)
(* is taken apart into its passes (RunExists), and what a pass keeps the    *)
(* whole loop keeps, by the induction that LeastNatural allows.             *)
(***************************************************************************)
EXTENDS Lobby, FiniteSetTheorems, WellFoundedInduction, TLAPS

Selected(s) == {i \in Profiles : s.roster[i] = "selected"}

\* The three tables of the game resource agree.
Sound(s) ==
    /\ s \in Squads
    /\ s.count = Cardinality(Selected(s))
    /\ \A i \in Profiles : s.roster[i] = "selected" <=> \E k \in Slots : s.slots[k].profile = i
    /\ \A j, k \in Filled(s) : s.slots[j].profile = s.slots[k].profile => j = k

\* t is s without some of its marines, and under the same rules.
Taken(s, t) ==
    /\ Sound(t) /\ t.count <= s.count
    /\ \A k \in Filled(t) : \E j \in Filled(s) : t.slots[k] = s.slots[j]
    /\ \A i \in Profiles : t.roster[i] # s.roster[i] => s.roster[i] = "selected" /\ t.roster[i] = "free"

Fewer(s, t) == Taken(s, t) /\ t.max = s.max /\ t.oneEach = s.oneEach

-----------------------------------------------------------------------------
(* Induction over the natural numbers, and over the passes of a loop.       *)

NatLess == {p \in Nat \X Nat : p[1] < p[2]}

LEMMA LeastNatural ==
    ASSUME NEW T \in SUBSET Nat, T # {}
    PROVE  \E x \in T : \A y \in T : x <= y
  <1>1. NatLess = OpToRel(<, Nat)
    BY Zenon DEF NatLess, OpToRel
  <1>2. IsWellFoundedOn(NatLess, Nat)
    BY <1>1, NatLessThanWellFounded, Zenon
  <1>3. PICK x \in T : \A y \in T : ~(<<y, x>> \in NatLess)
    BY <1>2, WFMin, Zenon
  <1>4. \A y \in T : ~(y < x)
    BY <1>3 DEF NatLess
  <1> QED BY <1>4

LEMMA LeastIsMin ==
    ASSUME NEW S \in SUBSET Nat, S # {}
    PROVE  Min(S) \in S /\ \A x \in S : Min(S) <= x
  <1>1. \E x \in S : \A y \in S : x <= y
    BY LeastNatural
  <1> QED BY <1>1 DEF Min

LEMMA GreatestNatural ==
    ASSUME NEW S \in SUBSET Nat, S # {}, NEW b \in Nat, \A x \in S : x <= b
    PROVE  \E x \in S : \A y \in S : y <= x
  <1> DEFINE B == {c \in Nat : \A x \in S : x <= c}
  <1>1. PICK c \in B : \A d \in B : c <= d
    <2>1. B \in SUBSET Nat /\ b \in B
      OBVIOUS
    <2> HIDE DEF B
    <2> QED BY <2>1, LeastNatural
  <1>2. c \in S
    <2> SUFFICES ASSUME c \notin S PROVE FALSE
      OBVIOUS
    <2>1. c \in Nat /\ \A x \in S : x \in Nat /\ x < c
      BY <1>1
    <2>2. c # 0
      <3>1. PICK x \in S : TRUE
        OBVIOUS
      <3> QED BY <2>1, <3>1
    <2>3. c - 1 \in Nat /\ \A x \in S : x <= c - 1
      BY <2>1, <2>2
    <2>4. c - 1 \in B
      BY <2>3
    <2> QED BY <1>1, <2>1, <2>4
  <1> QED BY <1>1, <1>2

LEMMA Inductive ==
    ASSUME NEW S \in SUBSET Nat, 0 \in S, \A n \in S : n + 1 \in S
    PROVE  S = Nat
  <1> SUFFICES ASSUME Nat \ S # {} PROVE FALSE
    OBVIOUS
  <1>1. PICK x \in Nat \ S : \A y \in Nat \ S : x <= y
    BY LeastNatural
  <1>2. x # 0
    OBVIOUS
  <1>3. x - 1 \in Nat /\ ~(x <= x - 1)
    BY <1>2
  <1>4. x - 1 \in S
    BY <1>1, <1>3
  <1>5. (x - 1) + 1 = x
    OBVIOUS
  <1> QED BY <1>4, <1>5

\* What holds of T[0] before a loop and is handed on from T[n - 1] to T[n] by its
\* pass n holds of T[N] after N passes.
LEMMA Passes ==
    ASSUME NEW N \in Nat, NEW f, NEW T, f[0] \in T[0],
           \A n \in 1..N : f[n - 1] \in T[n - 1] => f[n] \in T[n]
    PROVE  f[N] \in T[N]
  <1> DEFINE S == {n \in Nat : n <= N => f[n] \in T[n]}
  <1>1. 0 \in S
    OBVIOUS
  <1>2. ASSUME NEW n \in S PROVE n + 1 \in S
    <2>1. n \in Nat /\ n + 1 \in Nat
      OBVIOUS
    <2>2. ASSUME n + 1 <= N PROVE f[n + 1] \in T[n + 1]
      <3>1. f[n] \in T[n] /\ n + 1 \in 1..N /\ (n + 1) - 1 = n
        BY <2>1, <2>2
      <3> QED BY <3>1
    <2> QED BY <2>1, <2>2
  <1>3. S = Nat
    BY <1>1, <1>2, Inductive
  <1> QED BY <1>3

\* f is the run of a loop of m passes from s, the pass n being g[n].
Run(f, m, T, s, g) ==
    f \in [0..m -> T] /\ f[0] = s /\ \A n \in 1..m : f[n] = g[n][f[n - 1]]

LEMMA RunGrows ==
    ASSUME NEW N \in Nat, NEW T, NEW s \in T, NEW g \in [1..N -> [T -> T]],
           NEW m \in Nat, m + 1 <= N, NEW f, Run(f, m, T, s, g)
    PROVE  \E h : Run(h, m + 1, T, s, g)
  <1> DEFINE h == [n \in 0..(m + 1) |-> IF n <= m THEN f[n] ELSE g[m + 1][f[m]]]
  <1>1. f \in [0..m -> T] /\ f[0] = s /\ \A n \in 1..m : f[n] = g[n][f[n - 1]]
    BY DEF Run
  <1>2. m \in 0..m /\ m + 1 \in 1..N /\ 0 \in 0..(m + 1) /\ 0 <= m
    OBVIOUS
  <1>3. f[m] \in T
    BY <1>1, <1>2
  <1>4. g[m + 1][f[m]] \in T
    BY <1>2, <1>3
  <1>5. \A n \in 0..m : n \in 0..(m + 1) /\ n <= m
    OBVIOUS
  <1>6. \A n \in 0..m : h[n] = f[n]
    BY <1>5
  <1>7. h[m + 1] = g[m + 1][f[m]]
    <2>1. m + 1 \in 0..(m + 1) /\ ~(m + 1 <= m)
      OBVIOUS
    <2> QED BY <2>1
  <1>8. \A n \in 0..(m + 1) : n \in 0..m \/ n = m + 1
    OBVIOUS
  <1>9. \A n \in 0..(m + 1) : h[n] \in T
    <2> HIDE DEF h
    <2> QED BY <1>1, <1>4, <1>6, <1>7, <1>8
  <1>10. h \in [0..(m + 1) -> T]
    BY <1>9
  <1>11. h[0] = s
    BY <1>1, <1>2, <1>6
  <1>12. ASSUME NEW n \in 1..(m + 1) PROVE h[n] = g[n][h[n - 1]]
    <2>1. n - 1 \in 0..m /\ ((n \in 1..m /\ n \in 0..m) \/ n = m + 1)
      OBVIOUS
    <2> HIDE DEF h
    <2>2. h[n - 1] = f[n - 1]
      BY <1>6, <2>1
    <2>3. CASE n \in 1..m /\ n \in 0..m
      BY <1>1, <1>6, <2>2, <2>3
    <2>4. CASE n = m + 1
      <3>1. n - 1 = m
        BY <2>4
      <3> QED BY <1>7, <2>2, <2>4, <3>1
    <2> QED BY <2>1, <2>3, <2>4
  <1> HIDE DEF h
  <1>13. Run(h, m + 1, T, s, g)
    BY <1>10, <1>11, <1>12 DEF Run
  <1> QED BY <1>13

\* A loop whose passes, given as a function, stay in T has a run.
LEMMA RunExists ==
    ASSUME NEW N \in Nat, NEW T, NEW s \in T, NEW g \in [1..N -> [T -> T]]
    PROVE  \E f : Run(f, N, T, s, g)
  <1> DEFINE S == {m \in Nat : m <= N => \E f : Run(f, m, T, s, g)}
  <1>1. 0 \in S
    <2> DEFINE e == [n \in 0..0 |-> s]
    <2>1. e \in [0..0 -> T] /\ e[0] = s /\ 1..0 = {}
      OBVIOUS
    <2> HIDE DEF e
    <2>2. Run(e, 0, T, s, g)
      BY <2>1 DEF Run
    <2> QED BY <2>2
  <1>2. ASSUME NEW m \in S PROVE m + 1 \in S
    <2>1. m \in Nat /\ m + 1 \in Nat
      OBVIOUS
    <2>2. ASSUME m + 1 <= N PROVE \E f : Run(f, m + 1, T, s, g)
      <3>1. m <= N
        BY <2>1, <2>2
      <3>2. PICK f : Run(f, m, T, s, g)
        BY <3>1
      <3> HIDE DEF S
      <3> QED BY <2>1, <2>2, <3>2, RunGrows
    <2> QED BY <2>1, <2>2
  <1>3. S = Nat
    <2>1. S \subseteq Nat
      OBVIOUS
    <2> HIDE DEF S
    <2> QED BY <1>1, <1>2, <2>1, Inductive
  <1>4. N \in S
    BY <1>3, Zenon
  <1>5. N <= N
    OBVIOUS
  <1> QED BY <1>4, <1>5, Zenon

-----------------------------------------------------------------------------
(* The tables of the game resource.                                         *)

LEMMA SelectedFinite ==
    ASSUME NEW s
    PROVE  /\ IsFiniteSet(Selected(s)) /\ Cardinality(Selected(s)) \in Nat
           /\ IsFiniteSet(Filled(s)) /\ Cardinality(Filled(s)) \in 0..MaxResources
  <1>1. IsFiniteSet(Profiles) /\ IsFiniteSet(Slots) /\ Cardinality(Slots) = MaxResources
    BY FS_Interval, LobbyConstants DEF Profiles, Slots
  <1>2. Selected(s) \in SUBSET Profiles /\ Filled(s) \in SUBSET Slots
    BY DEF Selected, Filled
  <1>3. /\ IsFiniteSet(Selected(s)) /\ IsFiniteSet(Filled(s))
        /\ Cardinality(Filled(s)) <= MaxResources
    BY <1>1, <1>2, FS_Subset
  <1>4. Cardinality(Selected(s)) \in Nat /\ Cardinality(Filled(s)) \in Nat
    BY <1>3, FS_CardinalityType
  <1> QED BY <1>3, <1>4, LobbyConstants

\* t is s with the profile i marked, and the marine counted.
Marked(s, t, i, state) ==
    /\ t \in Squads /\ t.slots = s.slots /\ t.max = s.max /\ t.oneEach = s.oneEach
    /\ t.roster[i] = state /\ \A j \in Profiles \ {i} : t.roster[j] = s.roster[j]
    /\ t.count = Cardinality(Selected(t))
    /\ s.roster[i] = "selected" /\ state # "selected" => t.count = s.count - 1
    /\ s.roster[i] # "selected" /\ state = "selected" => t.count = s.count + 1

LEMMA RosterMarked ==
    ASSUME NEW s \in Squads, s.count = Cardinality(Selected(s)),
           NEW i \in Profiles, NEW state \in {"free", "selected", "reserved"}
    PROVE  Marked(s, SetRosterSelected(s, i, state), i, state)
  <1> DEFINE t == SetRosterSelected(s, i, state)
             n == CASE state = "selected" /\ s.roster[i] # "selected" -> s.count + 1
                    [] state # "selected" /\ s.roster[i] = "selected" -> s.count - 1
                    [] OTHER -> s.count
             r == [s.roster EXCEPT ![i] = state]
  <1>1. t = [s EXCEPT !.roster = r, !.count = n]
    BY DEF SetRosterSelected, Squads
  <1> HIDE DEF t
  <1>2. /\ n \in Int
        /\ s.roster[i] = "selected" /\ state # "selected" => n = s.count - 1
        /\ s.roster[i] # "selected" /\ state = "selected" => n = s.count + 1
        /\ (s.roster[i] = "selected") = (state = "selected") => n = s.count
    BY DEF Squads
  <1>3. /\ r \in [Profiles -> {"free", "selected", "reserved"}]
        /\ r[i] = state /\ \A j \in Profiles : j # i => r[j] = s.roster[j]
    BY DEF Squads
  <1> HIDE DEF n, r
  <1>4. t \in Squads /\ t.slots = s.slots /\ t.max = s.max /\ t.oneEach = s.oneEach
        /\ t.roster = r /\ t.count = n
    BY <1>1, <1>2, <1>3 DEF Squads
  <1>5. n = Cardinality(Selected(t))
    <2>1. IsFiniteSet(Selected(s))
      BY SelectedFinite
    <2>2. CASE state = "selected"
      <3>1. Selected(t) = Selected(s) \cup {i}
        BY <1>3, <1>4, <2>2 DEF Selected
      <3>2. Cardinality(Selected(t)) = IF i \in Selected(s) THEN s.count ELSE s.count + 1
        <4>1. Cardinality(Selected(s) \cup {i}) = IF i \in Selected(s) THEN Cardinality(Selected(s)) ELSE Cardinality(Selected(s)) + 1
          BY <2>1, FS_AddElement, Zenon
        <4> QED BY <3>1, <4>1
      <3>3. i \in Selected(s) <=> s.roster[i] = "selected"
        BY DEF Selected
      <3> QED BY <1>2, <2>2, <3>2, <3>3
    <2>3. CASE state # "selected"
      <3>1. Selected(t) = Selected(s) \ {i}
        BY <1>3, <1>4, <2>3 DEF Selected
      <3>2. Cardinality(Selected(t)) = IF i \in Selected(s) THEN s.count - 1 ELSE s.count
        <4>1. Cardinality(Selected(s) \ {i}) = IF i \in Selected(s) THEN Cardinality(Selected(s)) - 1 ELSE Cardinality(Selected(s))
          BY <2>1, FS_RemoveElement, Zenon
        <4> QED BY <3>1, <4>1
      <3>3. i \in Selected(s) <=> s.roster[i] = "selected"
        BY DEF Selected
      <3> QED BY <1>2, <2>3, <3>2, <3>3
    <2> QED BY <2>2, <2>3
  <1> QED BY <1>2, <1>3, <1>4, <1>5 DEF Marked, t

\* A filled slot holds a selected profile, and there are as many as are counted.
LEMMA FilledCounted ==
    ASSUME NEW s, Sound(s)
    PROVE  /\ s.count = Cardinality(Filled(s)) /\ s.count \in 0..MaxResources
           /\ \A k \in Filled(s) : s.slots[k].profile \in Selected(s)
  <1> DEFINE f == [k \in Filled(s) |-> s.slots[k].profile]
  <1>1. s.slots \in [Slots -> [profile : Profiles \cup {None}, commander : Clients \cup {None}]]
    BY DEF Sound, Squads
  <1>2. \A k \in Filled(s) : s.slots[k].profile \in Selected(s)
    BY <1>1 DEF Filled, Selected, Sound
  <1>3. \A i \in Selected(s) : \E k \in Filled(s) : f[k] = i
    <2>1. None \notin Profiles
      BY LobbyConstants DEF None, Profiles
    <2> QED BY <2>1 DEF Selected, Filled, Sound
  <1>4. f \in [Filled(s) -> Selected(s)] /\ \A j, k \in Filled(s) : f[j] = f[k] => j = k
    BY <1>2 DEF Sound
  <1> HIDE DEF f
  <1>5. f \in Bijection(Filled(s), Selected(s))
    BY <1>3, <1>4 DEF Bijection, Injection, Surjection, IsInjective
  <1>6. Cardinality(Selected(s)) = Cardinality(Filled(s))
    <2>1. ExistsBijection(Filled(s), Selected(s))
      BY <1>5 DEF ExistsBijection
    <2> QED BY <2>1, SelectedFinite, FS_Bijection
  <1>7. s.count = Cardinality(Filled(s)) /\ s.count \in 0..MaxResources
    BY <1>6, SelectedFinite DEF Sound
  <1> QED BY <1>2, <1>7

LEMMA FewerItself ==
    ASSUME NEW s, Sound(s)
    PROVE  Fewer(s, s)
  BY FilledCounted DEF Fewer, Taken

LEMMA TakenAgain ==
    ASSUME NEW s, NEW t, NEW u, Sound(s), Taken(s, t), Taken(t, u)
    PROVE  Taken(s, u)
  <1>1. u.count <= s.count
    BY FilledCounted DEF Taken
  <1>2. ASSUME NEW k \in Filled(u) PROVE \E j \in Filled(s) : u.slots[k] = s.slots[j]
    <2>1. PICK l \in Filled(t) : u.slots[k] = t.slots[l]
      BY DEF Taken
    <2>2. PICK j \in Filled(s) : t.slots[l] = s.slots[j]
      BY DEF Taken
    <2> QED BY <2>1, <2>2
  <1>3. \A i \in Profiles : u.roster[i] # s.roster[i] => s.roster[i] = "selected" /\ u.roster[i] = "free"
    BY DEF Taken
  <1> QED BY <1>1, <1>2, <1>3 DEF Taken

LEMMA FewerAgain ==
    ASSUME NEW s, NEW t, NEW u, Sound(s), Fewer(s, t), Fewer(t, u)
    PROVE  Fewer(s, u)
  BY TakenAgain DEF Fewer

\* Every marine of s but the one in the slot k is in a slot of t.
Spared(s, t, k) == \A j \in Filled(s) \ {k} : \E l \in Filled(t) : t.slots[l] = s.slots[j]

\* A dismissed marine leaves its slot to the next ones, and one marine less is
\* counted.
LEMMA DismissTakesOne ==
    ASSUME NEW s, Sound(s), NEW k \in Filled(s)
    PROVE  /\ Fewer(s, Dismiss(s, k)) /\ Dismiss(s, k).count = s.count - 1
           /\ Spared(s, Dismiss(s, k), k)
  <1> DEFINE i == s.slots[k].profile
             t == SetRosterSelected(s, i, "free")
             moved == [j \in Slots |-> IF j < k THEN t.slots[j]
                                       ELSE IF j + 1 \in Slots THEN t.slots[j + 1] ELSE Vacant]
             u == [t EXCEPT !.slots = moved]
             Place == [profile : Profiles \cup {None}, commander : Clients \cup {None}]
  <1>1. Dismiss(s, k) = u
    BY DEF Dismiss, DeleteMarineResource
  <1>2. /\ s \in Squads /\ k \in Slots /\ s.slots \in [Slots -> Place]
        /\ i \in Profiles /\ s.roster[i] = "selected" /\ s.count \in 0..MaxResources
    BY FilledCounted DEF Sound, Selected, Filled, Squads
  <1>3. /\ t \in Squads /\ t.slots = s.slots /\ t.max = s.max /\ t.oneEach = s.oneEach
        /\ t.roster[i] = "free" /\ \A j \in Profiles \ {i} : t.roster[j] = s.roster[j]
        /\ t.count = Cardinality(Selected(t)) /\ t.count = s.count - 1
    <2>1. Marked(s, t, i, "free")
      BY <1>2, RosterMarked DEF Sound
    <2> HIDE DEF i, t
    <2> QED BY <1>2, <2>1 DEF Marked
  <1> HIDE DEF i, t
  <1>4. Vacant \in Place /\ Vacant.profile = None /\ None \notin Profiles
    BY LobbyConstants DEF Vacant, None, Profiles
  <1>5. moved \in [Slots -> Place]
    BY <1>2, <1>3, <1>4
  <1>6. /\ u \in Squads /\ u.slots = moved /\ u.roster = t.roster /\ u.count = t.count
        /\ u.max = t.max /\ u.oneEach = t.oneEach
    <2> HIDE DEF moved
    <2> QED BY <1>3, <1>5 DEF Squads
  <1>7. \A j \in Slots : moved[j] = IF j < k THEN s.slots[j]
                                     ELSE IF j + 1 \in Slots THEN s.slots[j + 1] ELSE Vacant
    BY <1>3
  <1> HIDE DEF moved, u
  <1> DEFINE from == [j \in Slots |-> IF j < k THEN j ELSE j + 1]
  <1>8. \A j \in Filled(u) : /\ j \in Slots /\ from[j] \in Filled(s) /\ from[j] # k
                             /\ u.slots[j] = s.slots[from[j]]
    <2> TAKE j \in Filled(u)
    <2>1. j \in Slots /\ u.slots[j].profile # None /\ j \in Int /\ k \in Int
      BY <1>2 DEF Filled, Slots
    <2>2. CASE j < k
      BY <1>6, <1>7, <2>1, <2>2 DEF Filled
    <2>3. CASE ~(j < k) /\ j + 1 \in Slots
      BY <1>6, <1>7, <2>1, <2>3 DEF Filled
    <2>4. CASE ~(j < k) /\ j + 1 \notin Slots
      BY <1>4, <1>6, <1>7, <2>1, <2>4
    <2> QED BY <2>2, <2>3, <2>4
  <1>9. \A j, l \in Slots : from[j] = from[l] => j = l
    BY <1>2 DEF Slots
  <1>10. \A j \in Filled(s) : j # k => \E l \in Filled(u) : u.slots[l] = s.slots[j]
    <2> TAKE j \in Filled(s)
    <2> HAVE j # k
    <2>1. j \in Slots /\ s.slots[j].profile # None /\ j \in Int /\ k \in Int
      BY <1>2 DEF Filled, Slots
    <2>2. CASE j < k
      BY <1>6, <1>7, <2>1, <2>2 DEF Filled
    <2>3. CASE ~(j < k)
      <3>1. j - 1 \in Slots /\ ~(j - 1 < k) /\ (j - 1) + 1 = j
        <4>1. MaxResources \in Int /\ 1 <= k /\ j <= MaxResources
          BY <1>2, <2>1, LobbyConstants DEF Slots
        <4> QED BY <2>1, <2>3, <4>1 DEF Slots
      <3>2. u.slots[j - 1] = s.slots[j]
        BY <1>6, <1>7, <2>1, <3>1
      <3> QED BY <2>1, <3>1, <3>2 DEF Filled
    <2> QED BY <2>2, <2>3
  <1> HIDE DEF from
  <1>11. \A a, b \in Filled(s) : s.slots[a].profile = s.slots[b].profile => a = b
    BY DEF Sound
  <1>12. \A a, b \in Filled(u) : u.slots[a].profile = u.slots[b].profile => a = b
    BY <1>8, <1>9, <1>11
  <1>13. \A q \in Profiles : u.roster[q] = "selected" <=> \E l \in Slots : u.slots[l].profile = q
    <2> TAKE q \in Profiles
    <2>1. s.roster[q] = "selected" <=> \E l \in Slots : s.slots[l].profile = q
      BY DEF Sound
    <2>2. q # None
      BY <1>4
    <2>3. CASE q = i
      <3>1. u.roster[q] # "selected"
        BY <1>2, <1>3, <1>6, <2>3 DEF Squads
      <3>2. ASSUME NEW l \in Slots, u.slots[l].profile = q PROVE FALSE
        <4>1. l \in Filled(u)
          BY <2>2, <3>2 DEF Filled
        <4>2. from[l] \in Filled(s) /\ from[l] # k /\ s.slots[from[l]].profile = s.slots[k].profile
          BY <1>8, <2>3, <3>2, <4>1 DEF i
        <4> QED BY <1>11, <4>2
      <3> QED BY <3>1, <3>2
    <2>4. CASE q # i
      <3>1. u.roster[q] = s.roster[q]
        BY <1>2, <1>3, <1>6, <2>4 DEF Squads
      <3>2. ASSUME NEW l \in Slots, s.slots[l].profile = q PROVE \E j \in Slots : u.slots[j].profile = q
        <4>1. l \in Filled(s) /\ l # k
          BY <2>2, <2>4, <3>2 DEF Filled, i
        <4> QED BY <1>10, <3>2, <4>1 DEF Filled
      <3>3. ASSUME NEW l \in Slots, u.slots[l].profile = q PROVE \E j \in Slots : s.slots[j].profile = q
        <4>1. l \in Filled(u)
          BY <2>2, <3>3 DEF Filled
        <4> QED BY <1>8, <3>3, <4>1 DEF Filled
      <3> QED BY <2>1, <3>1, <3>2, <3>3
    <2> QED BY <2>3, <2>4
  <1>14. Selected(u) = Selected(t)
    BY <1>6 DEF Selected
  <1>15. Sound(u)
    BY <1>3, <1>6, <1>12, <1>13, <1>14 DEF Sound
  <1>16. \A q \in Profiles : u.roster[q] # s.roster[q] => s.roster[q] = "selected" /\ u.roster[q] = "free"
    BY <1>2, <1>3, <1>6 DEF Squads
  <1>17. Fewer(s, u)
    <2>1. u.max = s.max /\ u.oneEach = s.oneEach /\ u.count <= s.count
      BY <1>2, <1>3, <1>6
    <2>2. \A a \in Filled(u) : \E b \in Filled(s) : u.slots[a] = s.slots[b]
      BY <1>8
    <2> QED BY <1>15, <1>16, <2>1, <2>2 DEF Fewer, Taken
  <1>18. u.count = s.count - 1
    BY <1>3, <1>6
  <1>19. Spared(s, u, k)
    BY <1>10 DEF Spared
  <1> QED BY <1>1, <1>17, <1>18, <1>19

\* The first of some slots is one of them, and so is the last.
LEMMA FirstAndLast ==
    ASSUME NEW S \in SUBSET Slots, S # {}
    PROVE  Min(S) \in S /\ (\A x \in S : Min(S) <= x) /\ Max(S) \in S
  <1>1. S \in SUBSET Nat /\ MaxResources \in Nat /\ \A x \in S : x <= MaxResources
    BY LobbyConstants DEF Slots
  <1>2. \E x \in S : \A y \in S : x >= y
    <2>1. \E x \in S : \A y \in S : y <= x
      BY <1>1, GreatestNatural
    <2> QED BY <1>1, <2>1
  <1>3. Max(S) \in S
    BY <1>2 DEF Max
  <1> QED BY <1>1, <1>3, LeastIsMin

\* Deselecting takes the marine if the player has it, and nothing else.
LEMMA DeselectTakesOne ==
    ASSUME NEW s, Sound(s), NEW p, NEW i \in Profiles
    PROVE  /\ Fewer(s, RosterDeselect(s, p, i))
           /\ (\E k \in MarinesOf(s, p) : s.slots[k].profile = i)
                 => RosterDeselect(s, p, i).count = s.count - 1
           /\ RosterDeselect(s, p, i) = s \/ \E k \in MarinesOf(s, p) : Spared(s, RosterDeselect(s, p, i), k)
  <1> DEFINE his == {k \in MarinesOf(s, p) : s.slots[k].profile = i}
  <1>1. RosterDeselect(s, p, i) = IF s.roster[i] = "selected" /\ his # {} THEN Dismiss(s, Min(his)) ELSE s
    BY DEF RosterDeselect
  <1>2. (\E k \in MarinesOf(s, p) : s.slots[k].profile = i) => s.roster[i] = "selected" /\ his # {}
    BY DEF MarinesOf, Filled, Sound
  <1>3. his \in SUBSET Slots /\ his \subseteq Filled(s) /\ his \subseteq MarinesOf(s, p)
    BY DEF MarinesOf, Filled
  <1> HIDE DEF his
  <1>4. CASE s.roster[i] = "selected" /\ his # {}
    <2>1. Min(his) \in Filled(s) /\ Min(his) \in MarinesOf(s, p)
      BY <1>3, <1>4, FirstAndLast
    <2> QED BY <1>1, <1>4, <2>1, DismissTakesOne
  <1>5. CASE ~(s.roster[i] = "selected" /\ his # {})
    BY <1>1, <1>2, <1>5, FewerItself
  <1> QED BY <1>4, <1>5

LEMMA RemoveForTakesOne ==
    ASSUME NEW s, Sound(s), NEW p
    PROVE  /\ Fewer(s, RemoveAMarineFor(s, p))
           /\ MarinesOf(s, p) # {} => RemoveAMarineFor(s, p).count = s.count - 1
           /\ RemoveAMarineFor(s, p) = s \/ \E k \in MarinesOf(s, p) : Spared(s, RemoveAMarineFor(s, p), k)
  <1>1. CASE MarinesOf(s, p) = {}
    BY <1>1, FewerItself DEF RemoveAMarineFor
  <1>2. CASE MarinesOf(s, p) # {}
    <2> DEFINE k == Min(MarinesOf(s, p))
    <2>1. MarinesOf(s, p) \in SUBSET Slots /\ MarinesOf(s, p) \subseteq Filled(s)
      BY DEF MarinesOf, Filled
    <2>2. k \in MarinesOf(s, p)
      BY <1>2, <2>1, FirstAndLast
    <2>3. s.slots[k].profile \in Profiles
      BY <2>1, <2>2, FilledCounted DEF Selected
    <2>4. RemoveAMarineFor(s, p) = RosterDeselect(s, p, s.slots[k].profile)
      BY <1>2 DEF RemoveAMarineFor
    <2> HIDE DEF k
    <2>5. \E l \in MarinesOf(s, p) : s.slots[l].profile = s.slots[k].profile
      BY <2>2
    <2> QED BY <2>3, <2>4, <2>5, DeselectTakesOne
  <1> QED BY <1>1, <1>2

-----------------------------------------------------------------------------
(* The players and their marines.                                           *)

\* Whoever commands a marine is among conn.
Commanded(s, conn) == \A k \in Filled(s) : s.slots[k].commander \in conn

\* Nobody commands two.
OneEach(s) == \A j, k \in Filled(s) : s.slots[j].commander = s.slots[k].commander => j = k

LEMMA MarinesCounted ==
    ASSUME NEW s, NEW p
    PROVE  /\ NumMarines(s, p) \in 0..MaxResources
           /\ NumMarines(s, p) = 0 <=> MarinesOf(s, p) = {}
           /\ NumMarines(s, p) <= 1 <=> \A j, k \in MarinesOf(s, p) : j = k
  <1> DEFINE M == MarinesOf(s, p)
  <1>1. M \in SUBSET Filled(s)
    BY DEF MarinesOf
  <1>2. NumMarines(s, p) = Cardinality(M)
    BY DEF NumMarines
  <1> HIDE DEF M
  <1>3. IsFiniteSet(M) /\ Cardinality(M) <= Cardinality(Filled(s))
    BY <1>1, SelectedFinite, FS_Subset
  <1>4. Cardinality(M) \in Nat /\ (Cardinality(M) = 0 <=> M = {})
    BY <1>3, FS_CardinalityType, FS_EmptySet
  <1>5. Cardinality(M) \in 0..MaxResources
    BY <1>3, <1>4, SelectedFinite, LobbyConstants
  <1>6. Cardinality(M) = 1 <=> \E x : M = {x}
    BY <1>3, FS_Singleton
  <1>7. Cardinality(M) <= 1 <=> \A j, k \in M : j = k
    <2>1. ASSUME Cardinality(M) <= 1 PROVE \A j, k \in M : j = k
      BY <1>4, <1>6, <2>1
    <2>2. ASSUME \A j, k \in M : j = k PROVE Cardinality(M) <= 1
      <3>1. M = {} \/ \E x : M = {x}
        BY <2>2
      <3> QED BY <1>4, <1>6, <3>1
    <2> QED BY <2>1, <2>2
  <1> QED BY <1>2, <1>4, <1>5, <1>7 DEF M

LEMMA TakenOrders ==
    ASSUME NEW s, NEW t, Sound(s), Taken(s, t), NEW conn
    PROVE  /\ Commanded(s, conn) => Commanded(t, conn)
           /\ OneEach(s) => OneEach(t)
  <1>1. Commanded(s, conn) => Commanded(t, conn)
    BY DEF Commanded, Taken
  <1>2. ASSUME OneEach(s) PROVE OneEach(t)
    <2> SUFFICES ASSUME NEW j \in Filled(t), NEW k \in Filled(t),
                        t.slots[j].commander = t.slots[k].commander
                 PROVE  j = k
      BY DEF OneEach
    <2>1. PICK a \in Filled(s) : t.slots[j] = s.slots[a]
      BY DEF Taken
    <2>2. PICK b \in Filled(s) : t.slots[k] = s.slots[b]
      BY DEF Taken
    <2>3. a = b
      BY <1>2, <2>1, <2>2 DEF OneEach
    <2>4. \A x, y \in Filled(t) : t.slots[x].profile = t.slots[y].profile => x = y
      BY DEF Taken, Sound
    <2> QED BY <2>1, <2>2, <2>3, <2>4
  <1> QED BY <1>1, <1>2

\* The players whom EnforceFair looks at.
Greedy(t, conn) == {p \in conn : NumMarines(t, p) > 1}

\* With fair rules enforced nobody commands two.
LEMMA FairMeansOneEach ==
    ASSUME NEW s, Sound(s), NEW conn \in SUBSET Clients, Commanded(s, conn), Greedy(s, conn) = {}
    PROVE  OneEach(s)
  <1> SUFFICES ASSUME NEW j \in Filled(s), NEW k \in Filled(s),
                      s.slots[j].commander = s.slots[k].commander
               PROVE  j = k
    BY DEF OneEach
  <1> DEFINE p == s.slots[j].commander
  <1>1. p \in conn
    BY DEF Commanded
  <1>2. j \in MarinesOf(s, p) /\ k \in MarinesOf(s, p)
    BY DEF MarinesOf
  <1> HIDE DEF p
  <1>3. ~(NumMarines(s, p) > 1)
    BY <1>1 DEF Greedy
  <1>4. NumMarines(s, p) <= 1
    BY <1>3, MarinesCounted
  <1> QED BY <1>2, <1>4, MarinesCounted

\* Who has marines in s has one in t.
Spares(s, t) == \A q \in Clients : MarinesOf(s, q) # {} => MarinesOf(t, q) # {}

LEMMA SparedKeepsOne ==
    ASSUME NEW s, NEW t, NEW p, NEW k \in MarinesOf(s, p), Spared(s, t, k), NumMarines(s, p) > 1
    PROVE  Spares(s, t)
  <1> SUFFICES ASSUME NEW q \in Clients, MarinesOf(s, q) # {} PROVE MarinesOf(t, q) # {}
    BY DEF Spares
  <1>1. PICK j \in MarinesOf(s, q) : j # k
    <2>1. CASE q = p
      <3>1. ~(NumMarines(s, p) <= 1)
        BY MarinesCounted
      <3> QED BY <2>1, <3>1, MarinesCounted
    <2>2. CASE q # p
      BY <2>2 DEF MarinesOf
    <2> QED BY <2>1, <2>2
  <1>2. j \in Filled(s) \ {k} /\ s.slots[j].commander = q
    BY <1>1 DEF MarinesOf
  <1>3. PICK l \in Filled(t) : t.slots[l] = s.slots[j]
    BY <1>2 DEF Spared
  <1> QED BY <1>2, <1>3 DEF MarinesOf

\* How many of them have marines.
Heads(s, conn) == Cardinality({q \in conn : MarinesOf(s, q) # {}})

LEMMA HeadsCounted ==
    ASSUME NEW s, NEW conn \in SUBSET Clients
    PROVE  /\ IsFiniteSet({q \in conn : MarinesOf(s, q) # {}})
           /\ Heads(s, conn) \in Nat /\ Heads(s, conn) <= MaxClients
  <1> DEFINE H == {q \in conn : MarinesOf(s, q) # {}}
  <1>1. IsFiniteSet(Clients) /\ Cardinality(Clients) = MaxClients
    BY LobbyConstants, FS_Interval DEF Clients
  <1>2. H \in SUBSET Clients
    OBVIOUS
  <1>3. Heads(s, conn) = Cardinality(H)
    BY DEF Heads
  <1> HIDE DEF H
  <1>4. IsFiniteSet(H) /\ Cardinality(H) <= MaxClients /\ Cardinality(H) \in Nat
    BY <1>1, <1>2, FS_Subset, FS_CardinalityType
  <1> QED BY <1>3, <1>4 DEF H

LEMMA FewerHeads ==
    ASSUME NEW s, NEW t, Taken(s, t), NEW conn \in SUBSET Clients
    PROVE  Heads(t, conn) <= Heads(s, conn)
  <1> DEFINE G == {q \in conn : MarinesOf(t, q) # {}}
             H == {q \in conn : MarinesOf(s, q) # {}}
  <1>1. G \in SUBSET H
    <2> SUFFICES ASSUME NEW q \in conn, NEW k \in MarinesOf(t, q) PROVE MarinesOf(s, q) # {}
      OBVIOUS
    <2>1. PICK j \in Filled(s) : t.slots[k] = s.slots[j]
      BY DEF MarinesOf, Taken
    <2> QED BY <2>1 DEF MarinesOf
  <1>2. IsFiniteSet(H)
    BY HeadsCounted
  <1>3. Heads(t, conn) = Cardinality(G) /\ Heads(s, conn) = Cardinality(H)
    BY DEF Heads
  <1> HIDE DEF G, H
  <1> QED BY <1>1, <1>2, <1>3, FS_Subset

\* With one marine each there are no more marines than players who have some.
LEMMA OneEachHeads ==
    ASSUME NEW s, Sound(s), NEW conn \in SUBSET Clients, Commanded(s, conn), OneEach(s)
    PROVE  s.count <= Heads(s, conn)
  <1> DEFINE H == {q \in conn : MarinesOf(s, q) # {}}
             f == [k \in Filled(s) |-> s.slots[k].commander]
  <1>1. f \in [Filled(s) -> H]
    BY DEF Commanded, MarinesOf
  <1>2. \A j, k \in Filled(s) : f[j] = f[k] => j = k
    BY DEF OneEach
  <1>3. IsFiniteSet(H) /\ Heads(s, conn) = Cardinality(H)
    BY HeadsCounted DEF Heads
  <1> HIDE DEF f, H
  <1>4. f \in Injection(Filled(s), H)
    BY <1>1, <1>2 DEF Injection, IsInjective
  <1>5. Cardinality(Filled(s)) <= Cardinality(H)
    BY <1>3, <1>4, FS_Injection
  <1> QED BY <1>3, <1>5, FilledCounted

\* If a marine is left, RemoveAMarine takes one, and if there are more marines
\* than players who have some, it is nobody's last.
LEMMA RemoveTakesOne ==
    ASSUME NEW s, Sound(s), NEW conn \in SUBSET Clients
    PROVE  /\ Fewer(s, RemoveAMarine(s, conn))
           /\ Commanded(s, conn) /\ Filled(s) # {} => RemoveAMarine(s, conn).count = s.count - 1
           /\ Commanded(s, conn) /\ s.count > Heads(s, conn) => Spares(s, RemoveAMarine(s, conn))
  <1> DEFINE most == {p \in conn : \A q \in conn : NumMarines(s, q) <= NumMarines(s, p)}
             V == {NumMarines(s, p) : p \in conn}
  <1>1. RemoveAMarine(s, conn) = IF most = {} THEN s ELSE RemoveAMarineFor(s, Min(most))
    BY DEF RemoveAMarine
  <1>2. conn \in SUBSET Nat
    BY LobbyConstants DEF Clients
  <1>3. CASE most = {}
    <2>1. conn = {}
      <3> SUFFICES ASSUME conn # {} PROVE FALSE
        OBVIOUS
      <3>1. V \in SUBSET Nat /\ V # {} /\ MaxResources \in Nat /\ \A x \in V : x <= MaxResources
        BY MarinesCounted, LobbyConstants
      <3>2. PICK x \in V : \A y \in V : y <= x
        BY <3>1, GreatestNatural
      <3>3. PICK p \in conn : x = NumMarines(s, p)
        BY <3>2
      <3>4. p \in most
        BY <3>2, <3>3
      <3> QED BY <1>3, <3>4
    <2>2. ~(Commanded(s, conn) /\ Filled(s) # {})
      BY <2>1 DEF Commanded
    <2>3. Spares(s, s)
      BY DEF Spares
    <2> QED BY <1>1, <1>3, <2>2, <2>3, FewerItself
  <1>4. CASE most # {}
    <2> DEFINE p == Min(most)
    <2>1. most \in SUBSET Nat
      BY <1>2
    <2>2. p \in most
      <3> HIDE DEF most
      <3> QED BY <1>4, <2>1, LeastIsMin
    <2>3. RemoveAMarine(s, conn) = RemoveAMarineFor(s, p)
      BY <1>1, <1>4
    <2>4. p \in conn /\ \A q \in conn : NumMarines(s, q) <= NumMarines(s, p)
      BY <2>2
    <2> HIDE DEF p, most
    <2>5. ASSUME Commanded(s, conn), Filled(s) # {} PROVE MarinesOf(s, p) # {}
      <3>1. PICK k \in Filled(s) : s.slots[k].commander \in conn
        BY <2>5 DEF Commanded
      <3> DEFINE q == s.slots[k].commander
      <3>2. MarinesOf(s, q) # {} /\ q \in conn
        BY <3>1 DEF MarinesOf
      <3> HIDE DEF q
      <3>3. NumMarines(s, q) # 0 /\ NumMarines(s, q) <= NumMarines(s, p)
        BY <2>4, <3>2, MarinesCounted
      <3>4. NumMarines(s, p) # 0
        <4>1. NumMarines(s, q) \in 0..MaxResources /\ NumMarines(s, p) \in 0..MaxResources
          BY MarinesCounted
        <4> QED BY <3>3, <4>1
      <3> QED BY <3>4, MarinesCounted
    <2>6. ASSUME Commanded(s, conn), s.count > Heads(s, conn) PROVE Spares(s, RemoveAMarineFor(s, p))
      <3>1. ~OneEach(s)
        <4>1. s.count \in Int /\ Heads(s, conn) \in Nat
          <5>1. Heads(s, conn) \in Nat
            BY HeadsCounted, Zenon
          <5> QED BY <5>1 DEF Sound, Squads
        <4>2. OneEach(s) => s.count <= Heads(s, conn)
          BY <2>6, OneEachHeads
        <4> QED BY <2>6, <4>1, <4>2
      <3>2. PICK q \in conn : NumMarines(s, q) > 1
        BY <2>6, <3>1, FairMeansOneEach DEF Greedy
      <3>3. NumMarines(s, p) > 1
        <4>1. NumMarines(s, q) \in 0..MaxResources /\ NumMarines(s, p) \in 0..MaxResources
          BY MarinesCounted
        <4> QED BY <2>4, <3>2, <4>1
      <3>4. CASE RemoveAMarineFor(s, p) = s
        BY <3>4 DEF Spares
      <3>5. CASE RemoveAMarineFor(s, p) # s
        BY <3>3, <3>5, RemoveForTakesOne, SparedKeepsOne
      <3> QED BY <3>4, <3>5
    <2> QED BY <2>3, <2>5, <2>6, RemoveForTakesOne
  <1> QED BY <1>3, <1>4

-----------------------------------------------------------------------------
(* Who commands which marine.                                               *)

\* Who commands the marine i.
Owner(s, i) ==
    LET its == {k \in Filled(s) : s.slots[k].profile = i} IN
    IF its = {} THEN None ELSE s.slots[Min(its)].commander

LEMMA OwnerIs ==
    ASSUME NEW s, Sound(s)
    PROVE  /\ \A k \in Filled(s) : Owner(s, s.slots[k].profile) = s.slots[k].commander
           /\ \A i \in Profiles : \/ Owner(s, i) = None /\ \A k \in Filled(s) : s.slots[k].profile # i
                                  \/ \E k \in Filled(s) : s.slots[k].profile = i
  <1>1. ASSUME NEW k \in Filled(s) PROVE Owner(s, s.slots[k].profile) = s.slots[k].commander
    <2> DEFINE its == {l \in Filled(s) : s.slots[l].profile = s.slots[k].profile}
    <2>1. k \in its /\ its \in SUBSET Slots
      BY DEF Filled
    <2>2. \A l \in its : l = k
      BY DEF Sound
    <2>3. Min(its) = k
      <3> HIDE DEF its
      <3> QED BY <2>1, <2>2, FirstAndLast
    <2>4. Owner(s, s.slots[k].profile) = IF its = {} THEN None ELSE s.slots[Min(its)].commander
      BY Zenon DEF Owner
    <2> HIDE DEF its
    <2> QED BY <2>1, <2>3, <2>4
  <1>2. ASSUME NEW i \in Profiles, \A k \in Filled(s) : s.slots[k].profile # i PROVE Owner(s, i) = None
    <2>1. {l \in Filled(s) : s.slots[l].profile = i} = {}
      BY <1>2
    <2> QED BY <2>1 DEF Owner
  <1> QED BY <1>1, <1>2

\* Players have marines in the tables when they own some.
LEMMA OwnersHaveMarines ==
    ASSUME NEW s, Sound(s), NEW q \in Clients
    PROVE  MarinesOf(s, q) # {} <=> \E i \in Profiles : Owner(s, i) = q
  <1>1. ASSUME NEW k \in MarinesOf(s, q) PROVE \E i \in Profiles : Owner(s, i) = q
    <2>1. k \in Filled(s) /\ s.slots[k].commander = q
      BY DEF MarinesOf
    <2>2. s.slots[k].profile \in Profiles
      BY <2>1, FilledCounted DEF Selected
    <2> QED BY <2>1, <2>2, OwnerIs
  <1>2. ASSUME NEW i \in Profiles, Owner(s, i) = q PROVE MarinesOf(s, q) # {}
    <2>1. q # None
      BY LobbyConstants DEF Clients, None
    <2>2. PICK k \in Filled(s) : s.slots[k].profile = i
      BY <1>2, <2>1, OwnerIs
    <2>3. s.slots[k].commander = q
      BY <1>2, <2>2, OwnerIs
    <2> QED BY <2>3 DEF MarinesOf
  <1> QED BY <1>1, <1>2

\* Marines that are taken away are nobody's.
LEMMA TakenOwners ==
    ASSUME NEW s, NEW t, Sound(s), Taken(s, t), NEW i \in Profiles
    PROVE  Owner(t, i) \in {Owner(s, i), None}
  <1>1. Sound(t)
    BY DEF Taken
  <1>2. CASE \A k \in Filled(t) : t.slots[k].profile # i
    BY <1>1, <1>2, OwnerIs
  <1>3. CASE \E k \in Filled(t) : t.slots[k].profile = i
    <2>1. PICK k \in Filled(t) : t.slots[k].profile = i
      BY <1>3
    <2>2. PICK j \in Filled(s) : t.slots[k] = s.slots[j]
      BY DEF Taken
    <2>3. Owner(t, i) = t.slots[k].commander /\ Owner(s, i) = s.slots[j].commander
      BY <1>1, <2>1, <2>2, OwnerIs
    <2> QED BY <2>2, <2>3
  <1> QED BY <1>2, <1>3

\* Only marines that are free or the player's own have changed hands.
HisOnly(s, t, p) ==
    \A i \in Profiles : Owner(t, i) # Owner(s, i) => Owner(s, i) \in {None, p} /\ Owner(t, i) \in {None, p}

LEMMA HisOnlyAgain ==
    ASSUME NEW s, NEW t, NEW u, NEW p, HisOnly(s, t, p), HisOnly(t, u, p)
    PROVE  HisOnly(s, u, p)
  BY DEF HisOnly

LEMMA HisOnlySpares ==
    ASSUME NEW s, NEW t, Sound(s), Sound(t), NEW p \in Clients, HisOnly(s, t, p), NEW q \in Clients \ {p},
           MarinesOf(s, q) # {}
    PROVE  MarinesOf(t, q) # {}
  <1>1. PICK i \in Profiles : Owner(s, i) = q
    BY OwnersHaveMarines
  <1>2. q # None
    BY LobbyConstants DEF Clients, None
  <1>3. Owner(t, i) = q
    BY <1>1, <1>2 DEF HisOnly
  <1> QED BY <1>3, OwnersHaveMarines

\* From s to t the slots of others are untouched, in whatever place they are.
LEMMA OthersUntouched ==
    ASSUME NEW s, NEW t, Sound(s), Sound(t), NEW p,
           \A k \in Filled(t) : t.slots[k].commander = p \/ \E j \in Filled(s) : t.slots[k] = s.slots[j],
           \A j \in Filled(s) : s.slots[j].commander = p \/ \E k \in Filled(t) : t.slots[k] = s.slots[j]
    PROVE  HisOnly(s, t, p)
  <1> SUFFICES ASSUME NEW i \in Profiles, Owner(t, i) # Owner(s, i)
               PROVE  Owner(s, i) \in {None, p} /\ Owner(t, i) \in {None, p}
    BY DEF HisOnly
  <1>1. Owner(t, i) \in {None, p}
    <2> SUFFICES ASSUME Owner(t, i) # None PROVE Owner(t, i) = p
      OBVIOUS
    <2>1. PICK k \in Filled(t) : t.slots[k].profile = i
      BY OwnerIs
    <2>2. Owner(t, i) = t.slots[k].commander
      BY <2>1, OwnerIs
    <2>3. ASSUME NEW j \in Filled(s), t.slots[k] = s.slots[j] PROVE FALSE
      <3>1. Owner(s, i) = s.slots[j].commander
        BY <2>1, <2>3, OwnerIs
      <3> QED BY <2>2, <2>3, <3>1
    <2> QED BY <2>2, <2>3
  <1>2. Owner(s, i) \in {None, p}
    <2> SUFFICES ASSUME Owner(s, i) # None PROVE Owner(s, i) = p
      OBVIOUS
    <2>1. PICK j \in Filled(s) : s.slots[j].profile = i
      BY OwnerIs
    <2>2. Owner(s, i) = s.slots[j].commander
      BY <2>1, OwnerIs
    <2>3. ASSUME NEW k \in Filled(t), t.slots[k] = s.slots[j] PROVE FALSE
      <3>1. Owner(t, i) = t.slots[k].commander
        BY <2>1, <2>3, OwnerIs
      <3> QED BY <2>2, <2>3, <3>1
    <2> QED BY <2>2, <2>3
  <1> QED BY <1>1, <1>2

LEMMA SparedIsHis ==
    ASSUME NEW s, NEW t, Sound(s), Fewer(s, t), NEW p, NEW k \in MarinesOf(s, p), Spared(s, t, k)
    PROVE  HisOnly(s, t, p)
  <1>1. Sound(t) /\ \A l \in Filled(t) : \E j \in Filled(s) : t.slots[l] = s.slots[j]
    BY DEF Fewer, Taken
  <1>2. \A j \in Filled(s) : s.slots[j].commander = p \/ \E l \in Filled(t) : t.slots[l] = s.slots[j]
    BY DEF Spared, MarinesOf
  <1> QED BY <1>1, <1>2, OthersUntouched

LEMMA DeselectIsHis ==
    ASSUME NEW s, Sound(s), NEW p, NEW i \in Profiles
    PROVE  HisOnly(s, RosterDeselect(s, p, i), p)
  <1>1. CASE RosterDeselect(s, p, i) = s
    BY <1>1 DEF HisOnly
  <1>2. CASE RosterDeselect(s, p, i) # s
    BY <1>2, DeselectTakesOne, SparedIsHis
  <1> QED BY <1>1, <1>2

-----------------------------------------------------------------------------
(* The loops of the limit.                                                  *)

\* A pass of EnforceFair.
FairPass(t, conn) ==
    IF Greedy(t, conn) = {} THEN t ELSE RemoveAMarineFor(t, Min(Greedy(t, conn)))

LEMMA FairPassTakesOne ==
    ASSUME NEW s, Sound(s), NEW conn \in SUBSET Clients
    PROVE  /\ Fewer(s, FairPass(s, conn)) /\ Spares(s, FairPass(s, conn))
           /\ Greedy(s, conn) # {} => FairPass(s, conn).count = s.count - 1
  <1>1. CASE Greedy(s, conn) = {}
    BY <1>1, FewerItself DEF FairPass, Spares
  <1>2. CASE Greedy(s, conn) # {}
    <2> DEFINE p == Min(Greedy(s, conn))
    <2>1. Greedy(s, conn) \in SUBSET Nat
      <3>1. Clients \subseteq Nat
        BY LobbyConstants DEF Clients
      <3> QED BY <3>1 DEF Greedy
    <2>2. p \in Greedy(s, conn)
      BY <1>2, <2>1, LeastIsMin
    <2>3. FairPass(s, conn) = RemoveAMarineFor(s, p)
      BY <1>2 DEF FairPass
    <2> HIDE DEF p
    <2>4. MarinesOf(s, p) # {} /\ NumMarines(s, p) > 1
      <3>1. NumMarines(s, p) > 1
        BY <2>2 DEF Greedy
      <3> QED BY <3>1, MarinesCounted
    <2>5. Spares(s, RemoveAMarineFor(s, p))
      <3>1. CASE RemoveAMarineFor(s, p) = s
        BY <3>1 DEF Spares
      <3>2. CASE RemoveAMarineFor(s, p) # s
        BY <2>4, <3>2, RemoveForTakesOne, SparedKeepsOne
      <3> QED BY <3>1, <3>2
    <2> QED BY <2>3, <2>4, <2>5, RemoveForTakesOne
  <1> QED BY <1>1, <1>2

\* EnforceFair only takes marines, leaves nobody more than one, and nobody none
\* who had some.
LEMMA EnforceFairLeavesOne ==
    ASSUME NEW s, Sound(s), NEW conn \in SUBSET Clients
    PROVE  /\ Fewer(s, EnforceFair(s, conn)) /\ Spares(s, EnforceFair(s, conn))
           /\ Greedy(EnforceFair(s, conn), conn) = {}
  <1> DEFINE N == MaxResources
             T == {t \in Squads : Fewer(s, t) /\ Spares(s, t)}
             g == [n \in 1..N |-> [t \in T |-> FairPass(t, conn)]]
             Is(f) == f = [n \in 0..N |-> IF n = 0 THEN s ELSE FairPass(f[n - 1], conn)]
             f == CHOOSE f : Is(f)
             L == [n \in 0..N |-> {t \in T : Greedy(t, conn) = {} \/ t.count <= N - n}]
  <1>1. EnforceFair(s, conn) = f[N]
    BY Zenon DEF EnforceFair, FairPass, Greedy
  <1>2. N \in Nat /\ s \in T
    BY LobbyConstants, FewerItself DEF Sound, Spares
  <1>3. \A t \in T : Sound(t) /\ t.count \in 0..N
    BY FilledCounted DEF Fewer, Taken
  <1>4. \A t \in T : FairPass(t, conn) \in T
    <2> TAKE t \in T
    <2>1. Fewer(s, t) /\ Spares(s, t) /\ Sound(t)
      BY <1>3
    <2> HIDE DEF T
    <2>2. Fewer(t, FairPass(t, conn)) /\ Spares(t, FairPass(t, conn))
      BY <2>1, FairPassTakesOne
    <2>3. Fewer(s, FairPass(t, conn)) /\ Spares(s, FairPass(t, conn))
      BY <2>1, <2>2, FewerAgain DEF Spares
    <2> QED BY <2>3 DEF T, Fewer, Taken, Sound
  <1> HIDE DEF T
  <1>5. g \in [1..N -> [T -> T]]
    BY <1>4
  <1>6. PICK h : Run(h, N, T, s, g)
    <2> HIDE DEF g, N
    <2> QED BY <1>2, <1>5, RunExists
  <1>7. \A n \in 1..N : h[n - 1] \in T /\ g[n][h[n - 1]] = FairPass(h[n - 1], conn)
    <2> TAKE n \in 1..N
    <2>1. n - 1 \in 0..N
      BY <1>2
    <2> QED BY <1>6, <2>1 DEF Run
  <1>8. \A n \in 0..N : n = 0 \/ n \in 1..N
    BY <1>2
  <1> HIDE DEF g
  <1>9. Is(h)
    BY <1>6, <1>7, <1>8 DEF Run
  <1> HIDE DEF Is
  <1>10. Is(f)
    BY <1>9
  <1> HIDE DEF f
  <1>11. f[0] = s /\ \A n \in 1..N : f[n] = FairPass(f[n - 1], conn)
    BY <1>2, <1>8, <1>10 DEF Is
  <1>12. f[0] \in L[0]
    BY <1>2, <1>3, <1>11
  <1>13. ASSUME NEW n \in 1..N, f[n - 1] \in L[n - 1] PROVE f[n] \in L[n]
    <2>1. n - 1 \in 0..N /\ n \in 0..N /\ n \in Int
      BY <1>2
    <2> DEFINE t == f[n - 1]
    <2>2. t \in T /\ (Greedy(t, conn) = {} \/ t.count <= N - (n - 1))
      BY <1>13, <2>1
    <2>3. f[n] = FairPass(t, conn) /\ f[n] \in T
      BY <1>4, <1>11, <2>2
    <2>4. Greedy(f[n], conn) = {} \/ f[n].count <= N - n
      <3> HIDE DEF t
      <3>1. CASE Greedy(t, conn) = {}
        BY <2>3, <3>1 DEF FairPass
      <3>2. CASE Greedy(t, conn) # {}
        <4>1. f[n].count = t.count - 1 /\ t.count <= N - (n - 1) /\ t.count \in 0..N
          BY <1>3, <2>2, <2>3, <3>2, FairPassTakesOne
        <4> QED BY <1>2, <2>1, <4>1
      <3> QED BY <3>1, <3>2
    <2> QED BY <2>1, <2>3, <2>4
  <1>14. f[N] \in L[N]
    <2> HIDE DEF L, N
    <2> QED BY <1>2, <1>12, <1>13, Passes
  <1>15. f[N] \in T /\ (Greedy(f[N], conn) = {} \/ f[N].count <= N - N)
    BY <1>2, <1>14
  <1>16. Greedy(f[N], conn) = {}
    <2> SUFFICES ASSUME NEW p \in Greedy(f[N], conn) PROVE FALSE
      OBVIOUS
    <2>1. f[N].count = 0 /\ Sound(f[N])
      BY <1>2, <1>3, <1>15
    <2>2. Filled(f[N]) = {}
      BY <2>1, FilledCounted, SelectedFinite, FS_EmptySet
    <2>3. MarinesOf(f[N], p) = {}
      BY <2>2 DEF MarinesOf
    <2>4. NumMarines(f[N], p) = 0
      BY <2>3, MarinesCounted
    <2> QED BY <2>4 DEF Greedy
  <1>17. Fewer(s, f[N]) /\ Spares(s, f[N])
    BY <1>15 DEF T
  <1> QED BY <1>1, <1>16, <1>17

\* The last loop of SetMaxMarines, and the tables it starts from.
TrimPass(t, conn) == IF t.count > t.max THEN RemoveAMarine(t, conn) ELSE t

Trimmed(s, conn) ==
    LET trim[k \in 0..MaxResources] == IF k = 0 THEN s ELSE TrimPass(trim[k - 1], conn)
    IN trim[MaxResources]

IsFair(s, counted, rdy) == NumActive(s, counted, rdy) >= SquadSize /\ FairRules

NewMax(s, counted, rdy) ==
    LET n == NumActive(s, counted, rdy) IN Min({IF n < SquadSize THEN SquadSize ELSE n, PlayerStarts})

Limited(s, conn, counted, rdy) ==
    [(IF IsFair(s, counted, rdy) THEN EnforceFair(s, conn) ELSE s) EXCEPT
        !.max = NewMax(s, counted, rdy), !.oneEach = IsFair(s, counted, rdy)]

LEMMA SetMaxMarinesIs ==
    ASSUME NEW s, NEW conn, NEW counted, NEW rdy
    PROVE  SetMaxMarines(s, conn, counted, rdy) = Trimmed(Limited(s, conn, counted, rdy), conn)
  BY Zenon DEF SetMaxMarines, Trimmed, TrimPass, Limited, IsFair, NewMax

\* Trimming takes marines until no more than the limit are left; it
\* takes nobody's last, if the limit leaves room for all who have some.
LEMMA TrimmedWithinLimit ==
    ASSUME NEW s, Sound(s), NEW conn \in SUBSET Clients, Commanded(s, conn)
    PROVE  /\ Fewer(s, Trimmed(s, conn))
           /\ Trimmed(s, conn).count <= s.max
           /\ Heads(s, conn) <= s.max => Spares(s, Trimmed(s, conn))
  <1> DEFINE N == MaxResources
             T == {t \in Squads : Fewer(s, t) /\ (Heads(s, conn) <= s.max => Spares(s, t))}
             g == [n \in 1..N |-> [t \in T |-> TrimPass(t, conn)]]
             Is(f) == f = [n \in 0..N |-> IF n = 0 THEN s ELSE TrimPass(f[n - 1], conn)]
             f == CHOOSE f : Is(f)
             L == [n \in 0..N |-> {t \in T : t.count <= s.max \/ t.count <= N - n}]
  <1>1. Trimmed(s, conn) = f[N]
    BY Zenon DEF Trimmed
  <1>2. N \in Nat /\ s \in T /\ s.max \in Nat
    BY LobbyConstants, FewerItself DEF Sound, Squads, Spares
  <1>3. \A t \in T : Sound(t) /\ t.count \in 0..N /\ t.max = s.max
    BY FilledCounted DEF Fewer, Taken
  <1>4. \A t \in T : /\ TrimPass(t, conn) \in T
                     /\ t.count <= s.max => TrimPass(t, conn) = t
                     /\ t.count > s.max => TrimPass(t, conn).count = t.count - 1
    <2> TAKE t \in T
    <2>1. Fewer(s, t) /\ Sound(t) /\ t \in T /\ t.count \in 0..N /\ t.max = s.max
      BY <1>3
    <2>2. Heads(s, conn) <= s.max => Spares(s, t)
      OBVIOUS
    <2> HIDE DEF T
    <2>3. CASE t.count > s.max
      <3>1. TrimPass(t, conn) = RemoveAMarine(t, conn)
        BY <2>1, <2>3 DEF TrimPass
      <3>2. Filled(t) # {}
        <4>1. t.count # 0
          BY <1>2, <2>1, <2>3
        <4> QED BY <2>1, <4>1, FilledCounted, FS_EmptySet
      <3>3. Commanded(t, conn)
        BY <2>1, TakenOrders DEF Fewer
      <3>4. Fewer(t, RemoveAMarine(t, conn)) /\ RemoveAMarine(t, conn).count = t.count - 1
        BY <2>1, <3>2, <3>3, RemoveTakesOne
      <3>5. Fewer(s, RemoveAMarine(t, conn))
        BY <2>1, <3>4, FewerAgain
      <3>6. ASSUME Heads(s, conn) <= s.max PROVE Spares(s, RemoveAMarine(t, conn))
        <4>1. t.count > Heads(t, conn)
          <5>1. Heads(t, conn) <= Heads(s, conn)
            BY <2>1, FewerHeads DEF Fewer
          <5>2. Heads(t, conn) \in Nat /\ Heads(s, conn) \in Nat
            BY HeadsCounted, Zenon
          <5> QED BY <1>2, <2>1, <2>3, <3>6, <5>1, <5>2
        <4>2. Spares(t, RemoveAMarine(t, conn))
          BY <2>1, <3>3, <4>1, RemoveTakesOne
        <4> QED BY <2>3, <3>6, <4>2, <2>2 DEF Spares
      <3>7. RemoveAMarine(t, conn) \in T
        BY <3>5, <3>6 DEF T, Fewer, Taken, Sound
      <3> QED BY <1>2, <2>1, <2>3, <3>1, <3>4, <3>7
    <2>4. CASE ~(t.count > s.max)
      <3>1. TrimPass(t, conn) = t
        BY <2>1, <2>4 DEF TrimPass
      <3> QED BY <2>1, <2>4, <3>1
    <2> QED BY <2>3, <2>4
  <1> HIDE DEF T
  <1>5. g \in [1..N -> [T -> T]]
    BY <1>4
  <1>6. PICK h : Run(h, N, T, s, g)
    <2> HIDE DEF g, N
    <2> QED BY <1>2, <1>5, RunExists
  <1>7. \A n \in 1..N : h[n - 1] \in T /\ g[n][h[n - 1]] = TrimPass(h[n - 1], conn)
    <2> TAKE n \in 1..N
    <2>1. n - 1 \in 0..N
      BY <1>2
    <2> QED BY <1>6, <2>1 DEF Run
  <1>8. \A n \in 0..N : n = 0 \/ n \in 1..N
    BY <1>2
  <1> HIDE DEF g
  <1>9. Is(h)
    BY <1>6, <1>7, <1>8 DEF Run
  <1> HIDE DEF Is
  <1>10. Is(f)
    BY <1>9
  <1> HIDE DEF f
  <1>11. f[0] = s /\ \A n \in 1..N : f[n] = TrimPass(f[n - 1], conn)
    BY <1>2, <1>8, <1>10 DEF Is
  <1>12. f[0] \in L[0]
    BY <1>2, <1>3, <1>11
  <1>13. ASSUME NEW n \in 1..N, f[n - 1] \in L[n - 1] PROVE f[n] \in L[n]
    <2>1. n - 1 \in 0..N /\ n \in 0..N /\ n \in Int
      BY <1>2
    <2> DEFINE t == f[n - 1]
    <2>2. t \in T /\ (t.count <= s.max \/ t.count <= N - (n - 1))
      BY <1>13, <2>1
    <2>3. f[n] = TrimPass(t, conn) /\ f[n] \in T
      BY <1>4, <1>11, <2>2
    <2>4. f[n].count <= s.max \/ f[n].count <= N - n
      <3> HIDE DEF t
      <3>1. t.count \in 0..N
        BY <1>3, <2>2
      <3>2. CASE t.count <= s.max
        BY <1>4, <2>2, <2>3, <3>2
      <3>3. CASE t.count > s.max
        <4>1. f[n].count = t.count - 1 /\ t.count <= N - (n - 1)
          BY <1>2, <1>4, <2>2, <2>3, <3>1, <3>3
        <4> QED BY <1>2, <2>1, <3>1, <4>1
      <3> QED BY <1>2, <3>1, <3>2, <3>3
    <2> QED BY <2>1, <2>3, <2>4
  <1>14. f[N] \in L[N]
    <2> HIDE DEF L, N
    <2> QED BY <1>2, <1>12, <1>13, Passes
  <1>15. f[N] \in T /\ (f[N].count <= s.max \/ f[N].count <= N - N)
    BY <1>2, <1>14
  <1>16. f[N].count <= s.max
    BY <1>2, <1>3, <1>15
  <1>17. Fewer(s, f[N]) /\ (Heads(s, conn) <= s.max => Spares(s, f[N]))
    BY <1>15 DEF T
  <1> QED BY <1>1, <1>16, <1>17

\* The rules do not touch the tables.
LEMMA RulesChange ==
    ASSUME NEW s, Sound(s), NEW t \in Squads,
           t.slots = s.slots, t.roster = s.roster, t.count = s.count
    PROVE  Taken(s, t)
  <1>1. Filled(t) = Filled(s) /\ Selected(t) = Selected(s)
    BY DEF Filled, Selected
  <1>2. Sound(t)
    BY <1>1 DEF Sound
  <1>3. t.count <= s.count
    BY FilledCounted
  <1> QED BY <1>1, <1>2, <1>3 DEF Taken

LEMMA NewMaxFits ==
    ASSUME NEW s, NEW counted \in SUBSET Clients, NEW rdy
    PROVE  /\ NewMax(s, counted, rdy) \in Nat /\ NewMax(s, counted, rdy) <= PlayerStarts
           /\ IsFair(s, counted, rdy) \in BOOLEAN
           /\ MaxClients <= PlayerStarts => Heads(s, counted) <= NewMax(s, counted, rdy)
  <1> DEFINE A == {p \in counted : NumMarines(s, p) > 0 \/ ~rdy[p]}
             n == NumActive(s, counted, rdy)
             m == IF n < SquadSize THEN SquadSize ELSE n
             H == {q \in counted : MarinesOf(s, q) # {}}
  <1>1. n \in Nat /\ Heads(s, counted) <= n
    <2>1. IsFiniteSet(Clients)
      BY LobbyConstants, FS_Interval DEF Clients
    <2>2. A \in SUBSET Clients
      OBVIOUS
    <2>3. H \in SUBSET A
      <3>1. \A q \in H : NumMarines(s, q) > 0
        <4> TAKE q \in H
        <4>1. NumMarines(s, q) \in 0..MaxResources /\ NumMarines(s, q) # 0
          BY MarinesCounted
        <4> QED BY <4>1
      <3> QED BY <3>1
    <2>4. n = Cardinality(A) /\ Heads(s, counted) = Cardinality(H)
      BY DEF NumActive, Heads
    <2> HIDE DEF A, H
    <2>5. IsFiniteSet(A) /\ Cardinality(A) \in Nat /\ Cardinality(H) <= Cardinality(A)
      BY <2>1, <2>2, <2>3, FS_Subset, FS_CardinalityType
    <2> QED BY <2>4, <2>5
  <1> HIDE DEF n, H
  <1>2. m \in Nat /\ n <= m /\ PlayerStarts \in Nat
    BY <1>1, LobbyConstants
  <1>3. Heads(s, counted) \in Nat /\ Heads(s, counted) <= MaxClients /\ MaxClients \in Nat
    BY HeadsCounted, LobbyConstants, Zenon
  <1>4. NewMax(s, counted, rdy) = Min({m, PlayerStarts})
    BY DEF NewMax, n
  <1> HIDE DEF m
  <1>5. Min({m, PlayerStarts}) \in {m, PlayerStarts} /\ Min({m, PlayerStarts}) <= PlayerStarts
    BY <1>2, LeastIsMin
  <1>6. IsFair(s, counted, rdy) \in BOOLEAN
    BY <1>1, LobbyConstants DEF IsFair, n
  <1>7. ASSUME MaxClients <= PlayerStarts PROVE Heads(s, counted) <= NewMax(s, counted, rdy)
    <2>1. Heads(s, counted) <= m /\ Heads(s, counted) <= PlayerStarts
      BY <1>1, <1>2, <1>3, <1>7
    <2> QED BY <1>4, <1>5, <2>1
  <1> QED BY <1>2, <1>4, <1>5, <1>6, <1>7

\* SetMaxMarines only takes marines, and when it is done the limit is kept, on
\* a map with a place for every one of them.  If there is a place for each player
\* and those who have marines are counted, it takes nobody's last.
LEMMA SetMaxMarinesKeepsLimit ==
    ASSUME NEW s, Sound(s), NEW conn \in SUBSET Clients, Commanded(s, conn),
           NEW counted \in SUBSET Clients, NEW rdy
    PROVE  LET t == SetMaxMarines(s, conn, counted, rdy) IN
           /\ Taken(s, t) /\ Commanded(t, conn)
           /\ t.count <= t.max /\ t.max <= PlayerStarts
           /\ t.oneEach => OneEach(t)
           /\ MaxClients <= PlayerStarts /\ Commanded(s, counted) => Spares(s, t)
  <1> DEFINE fair == IsFair(s, counted, rdy)
             max == NewMax(s, counted, rdy)
             r == IF fair THEN EnforceFair(s, conn) ELSE s
             u == [r EXCEPT !.max = max, !.oneEach = fair]
             t == SetMaxMarines(s, conn, counted, rdy)
  <1>1. u = Limited(s, conn, counted, rdy)
    BY DEF Limited
  <1>2. max \in Nat /\ max <= PlayerStarts /\ fair \in BOOLEAN
    BY NewMaxFits
  <1>3. Taken(s, r) /\ Sound(r) /\ Commanded(r, conn) /\ Spares(s, r)
    <2>1. Taken(s, r) /\ Spares(s, r)
      BY EnforceFairLeavesOne, FewerItself DEF Fewer, Spares
    <2> QED BY <2>1, TakenOrders DEF Taken
  <1>4. fair => OneEach(r)
    <2>1. ASSUME fair PROVE Greedy(r, conn) = {}
      BY <2>1, EnforceFairLeavesOne
    <2> QED BY <1>3, <2>1, FairMeansOneEach
  <1>5. t = Trimmed(u, conn)
    BY <1>1, SetMaxMarinesIs
  <1> HIDE DEF fair, max, r
  <1>6. Taken(r, u) /\ u.max = max /\ u.oneEach = fair
    <2>1. /\ u \in Squads /\ u.max = max /\ u.oneEach = fair
          /\ u.slots = r.slots /\ u.roster = r.roster /\ u.count = r.count
      BY <1>2, <1>3 DEF Sound, Squads
    <2> HIDE DEF u
    <2> QED BY <1>3, <2>1, RulesChange
  <1>7. Spares(r, u)
    <2>1. u.slots = r.slots
      BY <1>3 DEF Sound, Squads
    <2> HIDE DEF u
    <2> QED BY <2>1 DEF Spares, MarinesOf, Filled
  <1> HIDE DEF u, t
  <1>8. Sound(u) /\ Commanded(u, conn) /\ (fair => OneEach(u))
    BY <1>3, <1>4, <1>6, TakenOrders DEF Taken
  <1>9. Fewer(u, t) /\ t.count <= u.max /\ (Heads(u, conn) <= u.max => Spares(u, t))
    BY <1>5, <1>8, TrimmedWithinLimit
  <1>10. ASSUME MaxClients <= PlayerStarts, Commanded(s, counted) PROVE Spares(s, t)
    <2>1. Heads(s, counted) <= max
      BY <1>10, NewMaxFits DEF max
    <2>2. Taken(s, u)
      BY <1>3, <1>6, TakenAgain
    <2>3. Heads(u, conn) <= Heads(s, conn)
      BY <2>2, FewerHeads
    <2>4. Heads(s, conn) <= Heads(s, counted)
      <3>1. {q \in conn : MarinesOf(s, q) # {}} \in SUBSET {q \in counted : MarinesOf(s, q) # {}}
        BY <1>10 DEF Commanded, MarinesOf
      <3>2. IsFiniteSet({q \in counted : MarinesOf(s, q) # {}})
        BY HeadsCounted
      <3> QED BY <3>1, <3>2, FS_Subset DEF Heads
    <2>5. Heads(u, conn) \in Nat /\ Heads(s, conn) \in Nat /\ Heads(s, counted) \in Nat
      BY HeadsCounted, Zenon
    <2>6. Heads(u, conn) <= u.max
      BY <1>2, <1>6, <2>1, <2>3, <2>4, <2>5
    <2> QED BY <1>3, <1>9, <1>7, <2>6 DEF Spares
  <1>11. Taken(s, t) /\ Commanded(t, conn) /\ t.max = max /\ t.oneEach = fair /\ (fair => OneEach(t))
    BY <1>3, <1>6, <1>8, <1>9, TakenAgain, TakenOrders DEF Fewer
  <1>12. /\ Taken(s, t) /\ Commanded(t, conn)
         /\ t.count <= t.max /\ t.max <= PlayerStarts
         /\ t.oneEach => OneEach(t)
         /\ MaxClients <= PlayerStarts /\ Commanded(s, counted) => Spares(s, t)
    BY <1>2, <1>6, <1>9, <1>11, <1>10
  <1> QED BY <1>12, Zenon DEF t

-----------------------------------------------------------------------------
(* Players leave.                                                           *)

DropPass(t, p) == IF MarinesOf(t, p) = {} THEN t ELSE Dismiss(t, Max(MarinesOf(t, p)))

\* RosterDeselectAll leaves the player no marine and takes none of others.
LEMMA DeselectAllLeavesNone ==
    ASSUME NEW s, Sound(s), NEW p
    PROVE  /\ Fewer(s, RosterDeselectAll(s, p)) /\ HisOnly(s, RosterDeselectAll(s, p), p)
           /\ MarinesOf(RosterDeselectAll(s, p), p) = {}
  <1> DEFINE N == MaxResources
             T == {t \in Squads : Fewer(s, t) /\ HisOnly(s, t, p)}
             g == [n \in 1..N |-> [t \in T |-> DropPass(t, p)]]
             Is(f) == f = [n \in 0..N |-> IF n = 0 THEN s ELSE DropPass(f[n - 1], p)]
             f == CHOOSE f : Is(f)
             L == [n \in 0..N |-> {t \in T : MarinesOf(t, p) = {} \/ t.count <= N - n}]
  <1>1. RosterDeselectAll(s, p) = f[N]
    BY Zenon DEF RosterDeselectAll, DropPass
  <1>2. N \in Nat /\ s \in T
    BY LobbyConstants, FewerItself DEF Sound, HisOnly
  <1>3. \A t \in T : Sound(t) /\ t.count \in 0..N
    BY FilledCounted DEF Fewer, Taken
  <1>4. \A t \in T : /\ DropPass(t, p) \in T
                     /\ MarinesOf(t, p) # {} => DropPass(t, p).count = t.count - 1
    <2> TAKE t \in T
    <2>1. Fewer(s, t) /\ Sound(t) /\ t \in T /\ HisOnly(s, t, p)
      BY <1>3
    <2> HIDE DEF T
    <2>2. CASE MarinesOf(t, p) = {}
      BY <2>1, <2>2 DEF DropPass
    <2>3. CASE MarinesOf(t, p) # {}
      <3> DEFINE k == Max(MarinesOf(t, p))
      <3>1. MarinesOf(t, p) \in SUBSET Slots /\ MarinesOf(t, p) \subseteq Filled(t)
        BY DEF MarinesOf, Filled
      <3>2. k \in Filled(t) /\ k \in MarinesOf(t, p)
        BY <2>3, <3>1, FirstAndLast
      <3>3. DropPass(t, p) = Dismiss(t, k)
        BY <2>3 DEF DropPass
      <3> HIDE DEF k
      <3>4. Fewer(t, Dismiss(t, k)) /\ Dismiss(t, k).count = t.count - 1
        BY <2>1, <3>2, DismissTakesOne
      <3>5. Fewer(s, Dismiss(t, k)) /\ HisOnly(s, Dismiss(t, k), p)
        <4>1. HisOnly(t, Dismiss(t, k), p)
          BY <2>1, <3>2, DismissTakesOne, SparedIsHis
        <4> QED BY <2>1, <3>4, <4>1, FewerAgain, HisOnlyAgain
      <3>6. Dismiss(t, k) \in T
        BY <3>5 DEF T, Fewer, Taken, Sound
      <3> QED BY <3>3, <3>4, <3>6
    <2> QED BY <2>2, <2>3
  <1> HIDE DEF T
  <1>5. g \in [1..N -> [T -> T]]
    BY <1>4
  <1>6. PICK h : Run(h, N, T, s, g)
    <2> HIDE DEF g, N
    <2> QED BY <1>2, <1>5, RunExists
  <1>7. \A n \in 1..N : h[n - 1] \in T /\ g[n][h[n - 1]] = DropPass(h[n - 1], p)
    <2> TAKE n \in 1..N
    <2>1. n - 1 \in 0..N
      BY <1>2
    <2> QED BY <1>6, <2>1 DEF Run
  <1>8. \A n \in 0..N : n = 0 \/ n \in 1..N
    BY <1>2
  <1> HIDE DEF g
  <1>9. Is(h)
    BY <1>6, <1>7, <1>8 DEF Run
  <1> HIDE DEF Is
  <1>10. Is(f)
    BY <1>9
  <1> HIDE DEF f
  <1>11. f[0] = s /\ \A n \in 1..N : f[n] = DropPass(f[n - 1], p)
    BY <1>2, <1>8, <1>10 DEF Is
  <1>12. f[0] \in L[0]
    BY <1>2, <1>3, <1>11
  <1>13. ASSUME NEW n \in 1..N, f[n - 1] \in L[n - 1] PROVE f[n] \in L[n]
    <2>1. n - 1 \in 0..N /\ n \in 0..N /\ n \in Int
      BY <1>2
    <2> DEFINE t == f[n - 1]
    <2>2. t \in T /\ (MarinesOf(t, p) = {} \/ t.count <= N - (n - 1))
      BY <1>13, <2>1
    <2>3. f[n] = DropPass(t, p) /\ f[n] \in T
      BY <1>4, <1>11, <2>2
    <2>4. MarinesOf(f[n], p) = {} \/ f[n].count <= N - n
      <3> HIDE DEF t
      <3>1. CASE MarinesOf(t, p) = {}
        BY <2>3, <3>1 DEF DropPass
      <3>2. CASE MarinesOf(t, p) # {}
        <4>1. f[n].count = t.count - 1 /\ t.count <= N - (n - 1) /\ t.count \in 0..N
          BY <1>3, <1>4, <2>2, <2>3, <3>2
        <4> QED BY <1>2, <2>1, <4>1
      <3> QED BY <3>1, <3>2
    <2> QED BY <2>1, <2>3, <2>4
  <1>14. f[N] \in L[N]
    <2> HIDE DEF L, N
    <2> QED BY <1>2, <1>12, <1>13, Passes
  <1>15. f[N] \in T /\ (MarinesOf(f[N], p) = {} \/ f[N].count <= N - N)
    BY <1>2, <1>14
  <1>16. MarinesOf(f[N], p) = {}
    <2>1. ASSUME f[N].count <= N - N PROVE Filled(f[N]) = {}
      <3>1. f[N].count = 0 /\ Sound(f[N])
        BY <1>2, <1>3, <1>15, <2>1
      <3> QED BY <3>1, FilledCounted, SelectedFinite, FS_EmptySet
    <2> QED BY <1>15, <2>1 DEF MarinesOf
  <1>17. Fewer(s, f[N]) /\ HisOnly(s, f[N], p)
    BY <1>15 DEF T
  <1> QED BY <1>1, <1>16, <1>17

\* Among finitely many numbers there is one that n others are smaller than, for
\* each n less than how many they are.
LEMMA InOrder ==
    ASSUME NEW S \in SUBSET Nat, IsFiniteSet(S), NEW n \in Nat, n < Cardinality(S)
    PROVE  \E q \in S : Cardinality({o \in S : o < q}) = n
  <1> DEFINE Below(q) == {o \in S : o < q}
             R == {m \in Nat : m < Cardinality(S) => \E q \in S : Cardinality(Below(q)) = m}
  <1>1. 0 \in R
    <2> SUFFICES ASSUME 0 < Cardinality(S) PROVE \E q \in S : Cardinality(Below(q)) = 0
      OBVIOUS
    <2>1. S # {}
      BY FS_EmptySet
    <2>2. PICK q \in S : \A y \in S : q <= y
      BY <2>1, LeastNatural
    <2>3. Below(q) = {}
      <3>1. \A y \in S : y \in Nat /\ q \in Nat /\ ~(y < q)
        BY <2>2
      <3> QED BY <3>1
    <2> QED BY <2>3, FS_EmptySet
  <1>2. ASSUME NEW m \in R PROVE m + 1 \in R
    <2> SUFFICES ASSUME m \in Nat, m + 1 < Cardinality(S)
                 PROVE  \E q \in S : Cardinality(Below(q)) = m + 1
      OBVIOUS
    <2>1. Cardinality(S) \in Nat
      BY FS_CardinalityType
    <2>2. PICK q \in S : Cardinality(Below(q)) = m
      BY <2>1
    <2>3. Below(q) \in SUBSET S /\ q \notin Below(q)
      OBVIOUS
    <2> DEFINE After == S \ (Below(q) \cup {q})
    <2>4. IsFiniteSet(Below(q) \cup {q}) /\ Cardinality(Below(q) \cup {q}) = m + 1
      <3> HIDE DEF Below
      <3>1. IsFiniteSet(Below(q))
        BY <2>3, FS_Subset
      <3> QED BY <2>2, <2>3, <3>1, FS_AddElement
    <2>5. After # {}
      <3> SUFFICES ASSUME After = {} PROVE FALSE
        OBVIOUS
      <3>1. S = Below(q) \cup {q}
        OBVIOUS
      <3>2. Cardinality(S) = m + 1
        <4> HIDE DEF Below
        <4> QED BY <2>4, <3>1
      <3> QED BY <2>1, <3>2
    <2>6. PICK r \in After : \A y \in After : r <= y
      <3>1. After \in SUBSET Nat
        OBVIOUS
      <3> HIDE DEF After
      <3> QED BY <2>5, <3>1, LeastNatural
    <2>7. r \in S /\ r \in Nat /\ q \in Nat /\ r > q
      BY <2>6
    <2>8. Below(r) = Below(q) \cup {q}
      <3>1. ASSUME NEW o \in S PROVE o < r <=> (o < q \/ o = q)
        <4>1. CASE o < q \/ o = q
          BY <2>7, <4>1
        <4>2. CASE ~(o < q \/ o = q)
          <5>1. o \in After
            BY <4>2
          <5>2. r <= o
            BY <2>6, <5>1
          <5> QED BY <2>7, <4>2, <5>2
        <4> QED BY <4>1, <4>2
      <3> QED BY <2>7, <3>1
    <2>9. Cardinality(Below(r)) = m + 1
      <3> HIDE DEF Below
      <3> QED BY <2>4, <2>8
    <2> QED BY <2>7, <2>9
  <1>3. R = Nat
    <2>1. R \in SUBSET Nat
      OBVIOUS
    <2> HIDE DEF R
    <2> QED BY <1>1, <1>2, <2>1, Inductive
  <1>4. n \in R
    BY <1>3
  <1> QED BY <1>4

\* ReassignMarines gives the marines of the player to the others, if there are
\* any, and changes nothing else.
LEMMA ReassignChangesCommanders ==
    ASSUME NEW s, Sound(s), NEW p, NEW others \in SUBSET Clients
    PROVE  LET t == ReassignMarines(s, p, others) IN
           /\ Sound(t) /\ t.count = s.count /\ t.max = s.max /\ t.oneEach = s.oneEach
           /\ t.roster = s.roster
           /\ \A k \in Slots : t.slots[k].profile = s.slots[k].profile
           /\ \A k \in Slots : IF k \notin MarinesOf(s, p) THEN t.slots[k] = s.slots[k]
                               ELSE IF others = {} THEN t.slots[k].commander = None
                               ELSE t.slots[k].commander \in others
  <1> DEFINE place(k) == Cardinality({j \in MarinesOf(s, p) : j > k})
             nth(n) == CHOOSE q \in others : Cardinality({o \in others : o < q}) = n
             heir(k) == IF others = {} THEN None ELSE nth(place(k) % Cardinality(others))
             new == [k \in Slots |-> IF k \in MarinesOf(s, p)
                                     THEN [s.slots[k] EXCEPT !.commander = heir(k)] ELSE s.slots[k]]
             Place == [profile : Profiles \cup {None}, commander : Clients \cup {None}]
             t == [s EXCEPT !.slots = new]
  <1>1. ReassignMarines(s, p, others) = t
    BY Zenon DEF ReassignMarines
  <1>2. s \in Squads /\ s.slots \in [Slots -> Place]
    BY DEF Sound, Squads
  <1>3. \A k \in Slots : heir(k) \in IF others = {} THEN {None} ELSE others
    <2> TAKE k \in Slots
    <2>1. CASE others = {}
      BY <2>1
    <2>2. CASE others # {}
      <3> DEFINE P == {j \in MarinesOf(s, p) : j > k}
      <3>1. Cardinality(P) \in Nat
        <4>1. P \in SUBSET Filled(s)
          BY DEF MarinesOf
        <4> HIDE DEF P
        <4> QED BY <4>1, SelectedFinite, FS_Subset, FS_CardinalityType
      <3>2. others \in SUBSET Nat /\ IsFiniteSet(others)
        <4>1. IsFiniteSet(Clients) /\ Clients \in SUBSET Nat
          BY LobbyConstants, FS_Interval DEF Clients
        <4> QED BY <4>1, FS_Subset
      <3>3. Cardinality(others) \in Nat /\ Cardinality(others) # 0
        BY <2>2, <3>2, FS_CardinalityType, FS_EmptySet
      <3> DEFINE n == place(k) % Cardinality(others)
      <3>4. n \in Nat /\ n < Cardinality(others)
        <4> HIDE DEF P
        <4>1. place(k) = Cardinality(P)
          BY DEF P
        <4> HIDE DEF place
        <4> QED BY <3>1, <3>3, <4>1
      <3>5. heir(k) = nth(n)
        BY <2>2
      <3> HIDE DEF n
      <3>6. \E q \in others : Cardinality({o \in others : o < q}) = n
        BY <3>2, <3>4, InOrder
      <3>7. nth(n) \in others
        BY <3>6
      <3> HIDE DEF heir, nth
      <3> QED BY <2>2, <3>5, <3>7
    <2> QED BY <2>1, <2>2
  <1> HIDE DEF heir
  <1>4. new \in [Slots -> Place] /\ \A k \in Slots : new[k].profile = s.slots[k].profile
    <2>1. ASSUME NEW k \in Slots PROVE new[k] \in Place /\ new[k].profile = s.slots[k].profile
      <3>1. s.slots[k] \in Place /\ heir(k) \in Clients \cup {None}
        BY <1>2, <1>3
      <3>2. CASE k \in MarinesOf(s, p)
        <4>1. new[k] = [s.slots[k] EXCEPT !.commander = heir(k)]
          BY <3>2
        <4> QED BY <3>1, <4>1
      <3>3. CASE k \notin MarinesOf(s, p)
        BY <3>1, <3>3
      <3> QED BY <3>2, <3>3
    <2> QED BY <2>1
  <1>5. \A k \in Slots : IF k \notin MarinesOf(s, p) THEN new[k] = s.slots[k]
                          ELSE new[k].commander = heir(k)
    BY <1>2
  <1> HIDE DEF new, Place
  <1>6. /\ t \in Squads /\ t.slots = new /\ t.roster = s.roster /\ t.count = s.count
        /\ t.max = s.max /\ t.oneEach = s.oneEach
    BY <1>2, <1>4 DEF Squads, Place
  <1> HIDE DEF t
  <1>7. Filled(t) = Filled(s) /\ Selected(t) = Selected(s)
    BY <1>4, <1>6 DEF Filled, Selected
  <1>8. \A k \in Slots : t.slots[k].profile = s.slots[k].profile
    BY <1>4, <1>6
  <1>9. Sound(t)
    <2>1. \A i \in Profiles : t.roster[i] = "selected" <=> \E k \in Slots : t.slots[k].profile = i
      BY <1>6, <1>8 DEF Sound
    <2>2. \A j, k \in Filled(t) : t.slots[j].profile = t.slots[k].profile => j = k
      BY <1>7, <1>8 DEF Sound, Filled
    <2> QED BY <1>6, <1>7, <2>1, <2>2 DEF Sound
  <1>10. /\ Sound(t) /\ t.count = s.count /\ t.max = s.max /\ t.oneEach = s.oneEach
         /\ t.roster = s.roster
         /\ \A k \in Slots : t.slots[k].profile = s.slots[k].profile
         /\ \A k \in Slots : IF k \notin MarinesOf(s, p) THEN t.slots[k] = s.slots[k]
                             ELSE IF others = {} THEN t.slots[k].commander = None
                             ELSE t.slots[k].commander \in others
    BY <1>3, <1>6, <1>8, <1>9, <1>5
  <1> QED BY <1>1, <1>10, Zenon

-----------------------------------------------------------------------------
(* A marine is taken.                                                       *)

\* From s to t, the player p has taken the marine i into the slot k.
TakenInto(s, t, p, i, k) ==
    /\ Sound(t) /\ t.max = s.max /\ t.oneEach = s.oneEach
    /\ t.slots = [s.slots EXCEPT ![k] = [profile |-> i, commander |-> p]]
    /\ t.count = IF k \in Filled(s) THEN s.count ELSE s.count + 1
    /\ t.roster[i] = "selected"
    /\ \A j \in Profiles \ {i} : t.roster[j] # s.roster[j] => s.roster[j] = "selected" /\ t.roster[j] = "free"

\* The three tables still agree when the marine of a filled slot is marked free
\* (from s to m), the slot is written (to v) and the new marine marked selected.
LEMMA SlotTaken ==
    ASSUME NEW s, Sound(s), NEW p \in Clients, NEW i \in Profiles, s.roster[i] # "selected",
           NEW k \in Slots, NEW m \in Squads, NEW v \in Squads, NEW w,
           IF k \in Filled(s) THEN Marked(s, m, s.slots[k].profile, "free") ELSE m = s,
           v.slots = [s.slots EXCEPT ![k] = [profile |-> i, commander |-> p]],
           v.roster = m.roster, v.count = m.count, v.max = m.max, v.oneEach = m.oneEach,
           Marked(v, w, i, "selected")
    PROVE  TakenInto(s, w, p, i, k)
  <1> DEFINE old == s.slots[k].profile
             Place == [profile : Profiles \cup {None}, commander : Clients \cup {None}]
             mine == [profile |-> i, commander |-> p]
             new == [s.slots EXCEPT ![k] = mine]
             freed == k \in Filled(s)
  <1>1. s.slots \in [Slots -> Place] /\ s.count \in Int
    BY DEF Sound, Squads
  <1>2. None \notin Profiles
    BY LobbyConstants DEF None, Profiles
  <1>3. freed => old \in Profiles /\ s.roster[old] = "selected" /\ old # i
    BY FilledCounted DEF Selected
  <1>4. mine \in Place /\ mine.profile = i
    OBVIOUS
  <1> HIDE DEF mine, Place
  <1>5. new \in [Slots -> Place] /\ new[k] = mine /\ \A l \in Slots \ {k} : new[l] = s.slots[l]
    BY <1>1, <1>4
  <1> HIDE DEF old, new, freed
  <1>6. /\ m.max = s.max /\ m.oneEach = s.oneEach
        /\ m.count = IF freed THEN s.count - 1 ELSE s.count
        /\ \A q \in Profiles : m.roster[q] = IF freed /\ q = old THEN "free" ELSE s.roster[q]
    <2>1. CASE freed
      <3>1. Marked(s, m, old, "free")
        BY <2>1 DEF old, freed
      <3> QED BY <1>3, <2>1, <3>1 DEF Marked
    <2>2. CASE ~freed
      BY <2>2 DEF freed
    <2> QED BY <2>1, <2>2
  <1>7. v.roster[i] # "selected"
    BY <1>6
  <1>8. /\ w \in Squads /\ w.slots = new /\ w.max = s.max /\ w.oneEach = s.oneEach
        /\ w.roster[i] = "selected" /\ \A j \in Profiles \ {i} : w.roster[j] = v.roster[j]
        /\ w.count = Cardinality(Selected(w)) /\ w.count = v.count + 1
    <2>1. v.slots = new
      BY DEF new, mine
    <2> QED BY <1>6, <1>7, <2>1 DEF Marked
  <1>9. w.count = IF freed THEN s.count ELSE s.count + 1
    <2>1. w.count = m.count + 1
      BY <1>8
    <2> QED BY <1>1, <1>6, <2>1
  <1>10. /\ w.roster[i] = "selected"
         /\ \A q \in Profiles \ {i} : w.roster[q] = IF freed /\ q = old THEN "free" ELSE s.roster[q]
    BY <1>6, <1>8
  <1>11. \A q \in Profiles \ {i} : w.roster[q] # s.roster[q] => s.roster[q] = "selected" /\ w.roster[q] = "free"
    BY <1>3, <1>10
  <1>12. \A a, b \in Filled(w) : w.slots[a].profile = w.slots[b].profile => a = b
    <2>1. \A a \in Filled(w) : a \in Slots /\ (a # k => a \in Filled(s) /\ w.slots[a] = s.slots[a])
      BY <1>5, <1>8 DEF Filled
    <2>2. \A a \in Filled(s) : s.slots[a].profile # i
      BY DEF Filled, Sound
    <2>3. w.slots[k].profile = i
      BY <1>4, <1>5, <1>8
    <2> QED BY <2>1, <2>2, <2>3 DEF Sound
  <1>13. ASSUME NEW q \in Profiles
         PROVE  w.roster[q] = "selected" <=> \E l \in Slots : w.slots[l].profile = q
    <2>1. CASE q = i
      BY <1>4, <1>5, <1>8, <1>10, <2>1
    <2>2. CASE q # i
      <3>1. s.roster[q] = "selected" <=> \E l \in Slots : s.slots[l].profile = q
        BY DEF Sound
      <3>2. w.slots[k].profile # q
        BY <1>4, <1>5, <1>8, <2>2
      <3>3. (\E l \in Slots : w.slots[l].profile = q) <=> \E l \in Slots \ {k} : s.slots[l].profile = q
        BY <1>5, <1>8, <3>2
      <3>4. CASE freed /\ q = old
        <4>1. w.roster[q] = "free"
          BY <1>10, <2>2, <3>4
        <4>2. \A l \in Slots \ {k} : s.slots[l].profile # q
          <5> SUFFICES ASSUME NEW l \in Slots \ {k}, s.slots[l].profile = q PROVE FALSE
            OBVIOUS
          <5>1. l \in Filled(s)
            BY <1>2 DEF Filled
          <5> QED BY <3>4, <5>1 DEF Sound, old, freed
        <4> QED BY <3>3, <4>1, <4>2
      <3>5. CASE ~(freed /\ q = old)
        <4>1. w.roster[q] = s.roster[q]
          BY <1>10, <2>2, <3>5
        <4>2. s.slots[k].profile # q
          BY <1>2, <3>5 DEF Filled, old, freed
        <4> QED BY <3>1, <3>3, <4>1, <4>2
      <3> QED BY <3>4, <3>5
    <2> QED BY <2>1, <2>2
  <1>14. Sound(w)
    BY <1>8, <1>12, <1>13 DEF Sound
  <1>15. w.slots = [s.slots EXCEPT ![k] = [profile |-> i, commander |-> p]]
    BY <1>8 DEF new, mine
  <1>16. w.count = IF k \in Filled(s) THEN s.count ELSE s.count + 1
    BY <1>9 DEF freed
  <1> QED BY <1>8, <1>10, <1>11, <1>14, <1>15, <1>16 DEF TakenInto

\* What SetRosterMarine does with the tables.
LEMMA TablesAgree ==
    ASSUME NEW s, Sound(s), NEW p \in Clients, NEW i \in Profiles, s.roster[i] # "selected",
           NEW k \in Slots, NEW m, NEW w,
           m = IF k \in Filled(s) THEN SetRosterSelected(s, s.slots[k].profile, "free") ELSE s,
           w = SetRosterSelected([m EXCEPT !.slots[k] = [profile |-> i, commander |-> p]], i, "selected")
    PROVE  TakenInto(s, w, p, i, k)
  <1> DEFINE old == s.slots[k].profile
             new == [s.slots EXCEPT ![k] = [profile |-> i, commander |-> p]]
             v == [m EXCEPT !.slots[k] = [profile |-> i, commander |-> p]]
  <1>1. /\ s \in Squads /\ s.count = Cardinality(Selected(s))
        /\ k \in Filled(s) => old \in Profiles /\ s.roster[old] = "selected"
    BY FilledCounted DEF Sound, Selected
  <1>2. ASSUME k \in Filled(s) PROVE Marked(s, m, old, "free")
    <2>1. m = SetRosterSelected(s, old, "free")
      BY <1>2
    <2> HIDE DEF old
    <2> QED BY <1>1, <1>2, <2>1, RosterMarked
  <1>3. IF k \in Filled(s) THEN Marked(s, m, old, "free") ELSE m = s
    BY <1>2
  <1>4. m \in Squads /\ m.slots = s.slots /\ m.count = Cardinality(Selected(m)) /\ m.roster[i] # "selected"
    BY <1>1, <1>3 DEF Marked
  <1>5. new \in [Slots -> [profile : Profiles \cup {None}, commander : Clients \cup {None}]]
    BY <1>1 DEF Squads
  <1>6. v = [m EXCEPT !.slots = new]
    BY <1>4 DEF Squads
  <1> HIDE DEF v, new
  <1>7. /\ v \in Squads /\ v.slots = new /\ v.roster = m.roster /\ v.count = m.count
        /\ v.max = m.max /\ v.oneEach = m.oneEach
    BY <1>4, <1>5, <1>6 DEF Squads
  <1>8. v.count = Cardinality(Selected(v)) /\ v.roster[i] # "selected"
    BY <1>4, <1>7 DEF Selected
  <1>9. w = SetRosterSelected(v, i, "selected")
    BY DEF v
  <1>10. Marked(v, w, i, "selected")
    BY <1>7, <1>8, <1>9, RosterMarked
  <1> QED BY <1>3, <1>4, <1>7, <1>10, SlotTaken DEF new

\* The player p, who is that person, has taken marines, and perhaps some were
\* taken away: what he took of the reserved ones was his.
Grown(s, t, p, person) ==
    /\ Sound(t)
    /\ \A k \in Filled(t) : t.slots[k].commander = p \/ \E j \in Filled(s) : t.slots[k] = s.slots[j]
    /\ \A i \in Profiles : s.roster[i] = "reserved" /\ t.roster[i] # "reserved"
                              => LastCommander[i] = person

\* Under the same rules the limit is kept as it was.
KeepsLimit(s, t) ==
    /\ t.max = s.max /\ t.oneEach = s.oneEach
    /\ s.count <= s.max => t.count <= t.max
    /\ s.oneEach /\ OneEach(s) => OneEach(t)

LEMMA GrownItself ==
    ASSUME NEW s, Sound(s), NEW p, NEW person
    PROVE  Grown(s, s, p, person) /\ KeepsLimit(s, s)
  BY DEF Grown, KeepsLimit

LEMMA TakenGrows ==
    ASSUME NEW s, Sound(s), NEW t, Taken(s, t), NEW p, NEW person
    PROVE  Grown(s, t, p, person)
  BY DEF Grown, Taken

LEMMA FewerKeepsLimit ==
    ASSUME NEW s, Sound(s), NEW t, Fewer(s, t)
    PROVE  KeepsLimit(s, t)
  <1>1. s.count \in Int /\ s.max \in Int /\ t.count \in Int /\ t.count <= s.count /\ t.max = s.max
    BY DEF Sound, Fewer, Taken, Squads
  <1>2. OneEach(s) => OneEach(t)
    BY TakenOrders DEF Fewer
  <1> QED BY <1>1, <1>2 DEF KeepsLimit, Fewer

LEMMA GrownAgain ==
    ASSUME NEW s, NEW t, NEW u, NEW p, NEW person,
           Sound(s), Grown(s, t, p, person), Grown(t, u, p, person)
    PROVE  Grown(s, u, p, person)
  <1>1. ASSUME NEW k \in Filled(u)
        PROVE  u.slots[k].commander = p \/ \E j \in Filled(s) : u.slots[k] = s.slots[j]
    <2>1. u.slots[k].commander = p \/ \E l \in Filled(t) : u.slots[k] = t.slots[l]
      BY DEF Grown
    <2>2. ASSUME NEW l \in Filled(t), u.slots[k] = t.slots[l]
          PROVE  u.slots[k].commander = p \/ \E j \in Filled(s) : u.slots[k] = s.slots[j]
      BY <2>2 DEF Grown
    <2> QED BY <2>1, <2>2
  <1>2. ASSUME NEW i \in Profiles, s.roster[i] = "reserved", u.roster[i] # "reserved"
        PROVE  LastCommander[i] = person
    BY <1>2 DEF Grown
  <1> QED BY <1>1, <1>2 DEF Grown

LEMMA KeepsLimitAgain ==
    ASSUME NEW s, NEW t, NEW u, KeepsLimit(s, t), KeepsLimit(t, u)
    PROVE  KeepsLimit(s, u)
  BY DEF KeepsLimit

\* Selecting takes a marine into a vacant slot or for one of the player's own.
LEMMA SelectTakes ==
    ASSUME NEW s, Sound(s), NEW p \in Clients, NEW person, NEW i \in Profiles,
           NEW slot \in Slots \cup {None}, NEW t, t = RosterSelect(s, p, person, i, slot), t # s
    PROVE  /\ MayTake(s, p, person, i, slot)
           /\ \E k \in Slots : /\ TakenInto(s, t, p, i, k)
                               /\ k \in Filled(s) => slot # None /\ s.slots[k].commander = p
                               /\ slot # None => k = slot
  <1> DEFINE k == IF slot # None THEN slot ELSE Min(Slots \ Filled(s))
             m == IF k \in Filled(s) THEN SetRosterSelected(s, s.slots[k].profile, "free") ELSE s
             w == SetRosterSelected([m EXCEPT !.slots[k] = [profile |-> i, commander |-> p]], i, "selected")
             full == (slot = None /\ Filled(s) = Slots) \/ (slot # None /\ ~CanSwap(s, p, slot))
  <1>1. MayTake(s, p, person, i, slot) /\ t = AddMarineResource(s, p, i, slot)
    BY DEF RosterSelect
  <1>2. AddMarineResource(s, p, i, slot) = IF full THEN s ELSE w
    BY DEF AddMarineResource
  <1>3. t = w /\ ~full
    BY <1>1, <1>2
  <1>4. k \in Slots /\ (slot # None => k = slot) /\ (slot = None => k \notin Filled(s))
    <2>1. CASE slot # None
      BY <2>1
    <2>2. CASE slot = None
      <3>1. Filled(s) \subseteq Slots /\ Filled(s) # Slots
        BY <1>3, <2>2 DEF Filled
      <3>2. Slots \ Filled(s) \in SUBSET Slots /\ Slots \ Filled(s) # {}
        BY <3>1
      <3>3. Min(Slots \ Filled(s)) \in Slots \ Filled(s)
        BY <3>2, FirstAndLast
      <3> QED BY <2>2, <3>3
    <2> QED BY <2>1, <2>2
  <1>5. k \in Filled(s) => slot # None /\ s.slots[k].commander = p
    BY <1>3, <1>4 DEF CanSwap
  <1>6. TakenInto(s, t, p, i, k)
    <2>1. s.roster[i] # "selected"
      BY <1>1 DEF MayTake
    <2> HIDE DEF k
    <2>2. m = IF k \in Filled(s) THEN SetRosterSelected(s, s.slots[k].profile, "free") ELSE s
      OBVIOUS
    <2>3. w = SetRosterSelected([m EXCEPT !.slots[k] = [profile |-> i, commander |-> p]], i, "selected")
      OBVIOUS
    <2> HIDE DEF m, w
    <2>4. TakenInto(s, w, p, i, k)
      BY <1>4, <2>1, <2>2, <2>3, TablesAgree
    <2> QED BY <1>3, <2>4
  <1> HIDE DEF k
  <1> QED BY <1>1, <1>4, <1>5, <1>6

LEMMA SelectIsHis ==
    ASSUME NEW s, Sound(s), NEW p \in Clients, NEW person, NEW i \in Profiles,
           NEW slot \in Slots \cup {None}
    PROVE  HisOnly(s, RosterSelect(s, p, person, i, slot), p)
  <1> DEFINE t == RosterSelect(s, p, person, i, slot)
  <1>1. CASE t = s
    BY <1>1 DEF HisOnly
  <1>2. CASE t # s
    <2> HIDE DEF t
    <2>1. t = RosterSelect(s, p, person, i, slot)
      BY DEF t
    <2>2. PICK k \in Slots : /\ TakenInto(s, t, p, i, k)
                             /\ k \in Filled(s) => slot # None /\ s.slots[k].commander = p
                             /\ slot # None => k = slot
      BY <1>2, <2>1, SelectTakes
    <2>3. Sound(t) /\ t.slots = [s.slots EXCEPT ![k] = [profile |-> i, commander |-> p]]
      BY <2>2 DEF TakenInto
    <2>4. s.slots \in [Slots -> [profile : Profiles \cup {None}, commander : Clients \cup {None}]]
      BY DEF Sound, Squads
    <2>5. t.slots[k].commander = p /\ \A l \in Slots \ {k} : t.slots[l] = s.slots[l]
      BY <2>3, <2>4
    <2>6. \A l \in Filled(t) : t.slots[l].commander = p \/ \E j \in Filled(s) : t.slots[l] = s.slots[j]
      BY <2>5 DEF Filled
    <2>7. \A j \in Filled(s) : s.slots[j].commander = p \/ \E l \in Filled(t) : t.slots[l] = s.slots[j]
      BY <2>2, <2>5 DEF Filled
    <2> QED BY <2>3, <2>6, <2>7, OthersUntouched DEF t
  <1> QED BY <1>1, <1>2

LEMMA SelectGrows ==
    ASSUME NEW s, Sound(s), NEW p \in Clients, NEW person, NEW i \in Profiles,
           NEW slot \in Slots \cup {None}
    PROVE  /\ Grown(s, RosterSelect(s, p, person, i, slot), p, person)
           /\ RosterSelect(s, p, person, i, slot).max = s.max
           /\ slot \in Filled(s) \cup {None} => KeepsLimit(s, RosterSelect(s, p, person, i, slot))
  <1> DEFINE t == RosterSelect(s, p, person, i, slot)
  <1>1. CASE t = s
    BY <1>1, GrownItself
  <1>2. CASE t # s
    <2> HIDE DEF t
    <2>1. t = RosterSelect(s, p, person, i, slot)
      BY DEF t
    <2>2. MayTake(s, p, person, i, slot)
      BY <1>2, <2>1, SelectTakes
    <2>3. PICK k \in Slots : /\ TakenInto(s, t, p, i, k)
                             /\ k \in Filled(s) => slot # None /\ s.slots[k].commander = p
                             /\ slot # None => k = slot
      BY <1>2, <2>1, SelectTakes
    <2>4. /\ Sound(t) /\ t.max = s.max /\ t.oneEach = s.oneEach
          /\ t.count = IF k \in Filled(s) THEN s.count ELSE s.count + 1
          /\ t.roster[i] = "selected"
          /\ \A j \in Profiles \ {i} : t.roster[j] # s.roster[j] => s.roster[j] = "selected"
      BY <2>3 DEF TakenInto
    <2>5. t.slots[k] = [profile |-> i, commander |-> p] /\ \A l \in Slots \ {k} : t.slots[l] = s.slots[l]
      <3>1. t.slots = [s.slots EXCEPT ![k] = [profile |-> i, commander |-> p]]
        BY <2>3 DEF TakenInto
      <3>2. s.slots \in [Slots -> [profile : Profiles \cup {None}, commander : Clients \cup {None}]]
        BY DEF Sound, Squads
      <3> QED BY <3>1, <3>2
    <2>6. \A l \in Filled(t) : l = k \/ (l \in Filled(s) /\ t.slots[l] = s.slots[l])
      BY <2>5 DEF Filled
    <2>7. t.slots[k].commander = p
      BY <2>5
    <2>8. Grown(s, t, p, person)
      <3>1. \A l \in Filled(t) : t.slots[l].commander = p \/ \E j \in Filled(s) : t.slots[l] = s.slots[j]
        BY <2>6, <2>7
      <3>2. ASSUME NEW j \in Profiles, s.roster[j] = "reserved", t.roster[j] # "reserved"
            PROVE  LastCommander[j] = person
        <4>1. j = i
          BY <2>4, <3>2
        <4> QED BY <2>2, <3>2, <4>1 DEF MayTake
      <3> QED BY <2>4, <3>1, <3>2 DEF Grown
    <2>9. ASSUME slot \in Filled(s) \cup {None} PROVE KeepsLimit(s, t)
      <3>1. s.count \in Int /\ s.max \in Int
        BY DEF Sound, Squads
      <3>2. slot # None => k \in Filled(s)
        BY <2>3, <2>9
      <3>3. CanSwap(s, p, slot) => slot # None
        BY DEF CanSwap
      <3>4. s.count <= s.max => t.count <= t.max
        <4>1. CASE k \in Filled(s)
          BY <2>4, <3>1, <4>1
        <4>2. CASE k \notin Filled(s)
          BY <2>2, <2>4, <3>1, <3>2, <3>3, <4>2 DEF MayTake
        <4> QED BY <4>1, <4>2
      <3>5. ASSUME s.oneEach, OneEach(s) PROVE OneEach(t)
        <4>1. \A l \in Filled(s) : l # k => s.slots[l].commander # p
          <5>1. CASE k \in Filled(s)
            BY <2>3, <3>5, <5>1 DEF OneEach
          <5>2. CASE k \notin Filled(s)
            <6>1. NumMarines(s, p) = 0
              BY <2>2, <3>2, <3>3, <3>5, <5>2 DEF MayTake
            <6>2. MarinesOf(s, p) = {}
              BY <6>1, MarinesCounted
            <6> QED BY <6>2 DEF MarinesOf
          <5> QED BY <5>1, <5>2
        <4> SUFFICES ASSUME NEW a \in Filled(t), NEW b \in Filled(t),
                            t.slots[a].commander = t.slots[b].commander
                     PROVE  a = b
          BY DEF OneEach
        <4>2. CASE a = k \/ b = k
          BY <2>6, <2>7, <4>1, <4>2
        <4>3. CASE a # k /\ b # k
          BY <2>6, <3>5, <4>3 DEF OneEach
        <4> QED BY <4>2, <4>3
      <3> QED BY <2>4, <3>4, <3>5 DEF KeepsLimit
    <2> QED BY <2>4, <2>8, <2>9 DEF t
  <1> QED BY <1>1, <1>2

-----------------------------------------------------------------------------
(* The loops of the commands.                                               *)

AutoPass(t, p, person, n) ==
    LET slot == ((n - 1) \div NumProfiles) + 1
        i == ((n - 1) % NumProfiles) + 1
    IN IF LastSlot[i] = slot /\ LastCommander[i] = person THEN RosterSelect(t, p, person, i, None) ELSE t

LEMMA AutoselectGrows ==
    ASSUME NEW s, Sound(s), NEW p \in Clients, NEW person
    PROVE  /\ Grown(s, AutoselectMarines(s, p, person), p, person)
           /\ KeepsLimit(s, AutoselectMarines(s, p, person))
           /\ HisOnly(s, AutoselectMarines(s, p, person), p)
  <1> DEFINE N == MaxResources * NumProfiles
             T == {t \in Squads : Grown(s, t, p, person) /\ KeepsLimit(s, t) /\ HisOnly(s, t, p)}
             g == [n \in 1..N |-> [t \in T |-> AutoPass(t, p, person, n)]]
             Is(f) == f = [n \in 0..N |-> IF n = 0 THEN s ELSE AutoPass(f[n - 1], p, person, n)]
             f == CHOOSE f : Is(f)
             L == [n \in 0..N |-> T]
  <1>1. AutoselectMarines(s, p, person) = f[N]
    BY Zenon DEF AutoselectMarines, AutoPass
  <1>2. N \in Nat /\ s \in T
    <2>1. N \in Nat
      BY LobbyConstants
    <2>2. s \in T
      BY GrownItself DEF Sound, HisOnly
    <2> QED BY <2>1, <2>2
  <1>3. \A n \in 1..N, t \in T : AutoPass(t, p, person, n) \in T
    <2> TAKE n \in 1..N, t \in T
    <2> DEFINE i == ((n - 1) % NumProfiles) + 1
               u == RosterSelect(t, p, person, i, None)
    <2>1. Grown(s, t, p, person) /\ KeepsLimit(s, t) /\ Sound(t) /\ t \in T /\ HisOnly(s, t, p)
      BY DEF Grown
    <2>2. i \in Profiles
      <3>1. NumProfiles \in Nat /\ MaxResources \in Nat
        BY LobbyConstants
      <3>2. n \in Int /\ n >= 1 /\ n <= MaxResources * NumProfiles
        BY <1>2
      <3>3. NumProfiles # 0
        <4> SUFFICES ASSUME NumProfiles = 0 PROVE FALSE
          OBVIOUS
        <4>1. MaxResources * NumProfiles = 0
          BY <3>1
        <4> QED BY <3>2, <4>1
      <3>4. (n - 1) % NumProfiles \in 0..(NumProfiles - 1)
        BY <3>1, <3>2, <3>3
      <3> QED BY <3>1, <3>4 DEF Profiles
    <2> HIDE DEF T, i, N
    <2>3. Grown(t, u, p, person) /\ KeepsLimit(t, u) /\ HisOnly(t, u, p)
      BY <2>1, <2>2, SelectGrows, SelectIsHis
    <2>4. Grown(s, u, p, person) /\ KeepsLimit(s, u) /\ HisOnly(s, u, p)
      BY <2>1, <2>3, GrownAgain, KeepsLimitAgain, HisOnlyAgain
    <2>5. u \in T
      BY <2>4 DEF T, Grown, Sound
    <2>6. AutoPass(t, p, person, n) \in {t, u}
      BY DEF AutoPass, i
    <2> QED BY <2>1, <2>5, <2>6
  <1> HIDE DEF T
  <1>4. g \in [1..N -> [T -> T]]
    BY <1>3
  <1>5. PICK h : Run(h, N, T, s, g)
    <2> HIDE DEF g, N
    <2> QED BY <1>2, <1>4, RunExists
  <1> HIDE DEF N
  <1>6. \A n \in 1..N : h[n - 1] \in T /\ g[n][h[n - 1]] = AutoPass(h[n - 1], p, person, n)
    <2> TAKE n \in 1..N
    <2>1. n - 1 \in 0..N
      BY <1>2
    <2> QED BY <1>5, <2>1 DEF Run
  <1>7. \A n \in 0..N : n = 0 \/ n \in 1..N
    BY <1>2
  <1> HIDE DEF g
  <1>8. Is(h)
    BY <1>5, <1>6, <1>7 DEF Run
  <1> HIDE DEF Is
  <1>9. Is(f)
    BY <1>8
  <1> HIDE DEF f
  <1>10. f[0] = s /\ \A n \in 1..N : f[n] = AutoPass(f[n - 1], p, person, n)
    BY <1>2, <1>7, <1>9 DEF Is
  <1>11. f[0] \in L[0]
    BY <1>2, <1>10
  <1>12. ASSUME NEW n \in 1..N, f[n - 1] \in L[n - 1] PROVE f[n] \in L[n]
    <2>1. n - 1 \in 0..N /\ n \in 0..N
      BY <1>2
    <2> QED BY <1>3, <1>10, <1>12, <2>1
  <1>13. f[N] \in L[N]
    <2> HIDE DEF L
    <2> QED BY <1>2, <1>11, <1>12, Passes
  <1>14. f[N] \in T
    BY <1>2, <1>13
  <1> QED BY <1>1, <1>14 DEF T

VisitPass(v, k, p) ==
    IF v.done \/ k \notin Filled(v.squad) THEN [v EXCEPT !.done = TRUE]
    ELSE IF v.squad.slots[k].commander = p
         THEN [v EXCEPT !.squad = RosterDeselect(@, p, @.slots[k].profile)]
    ELSE v

Visited(s, p) ==
    LET visit[k \in 0..MaxResources] ==
            IF k = 0 THEN [squad |-> s, done |-> FALSE] ELSE VisitPass(visit[k - 1], k, p)
    IN visit[MaxResources].squad

LEMMA VisitedIsFewer ==
    ASSUME NEW s, Sound(s), NEW p
    PROVE  Fewer(s, Visited(s, p)) /\ HisOnly(s, Visited(s, p), p)
  <1> DEFINE N == MaxResources
             T == {v \in [squad : Squads, done : BOOLEAN] : Fewer(s, v.squad) /\ HisOnly(s, v.squad, p)}
             v0 == [squad |-> s, done |-> FALSE]
             g == [k \in 1..N |-> [v \in T |-> VisitPass(v, k, p)]]
             Is(f) == f = [k \in 0..N |-> IF k = 0 THEN v0 ELSE VisitPass(f[k - 1], k, p)]
             f == CHOOSE f : Is(f)
             L == [k \in 0..N |-> T]
  <1>1. Visited(s, p) = f[N].squad
    BY Zenon DEF Visited
  <1>2. N \in Nat /\ v0 \in T
    <2>1. s \in Squads /\ Fewer(s, s) /\ HisOnly(s, s, p)
      BY FewerItself DEF Sound, HisOnly
    <2> QED BY <2>1, LobbyConstants
  <1> HIDE DEF v0
  <1>3. \A k \in 1..N, v \in T : VisitPass(v, k, p) \in T
    <2> TAKE k \in 1..N, v \in T
    <2> DEFINE t == v.squad
               u == RosterDeselect(t, p, t.slots[k].profile)
    <2>1. /\ v \in [squad : Squads, done : BOOLEAN] /\ v \in T
          /\ Fewer(s, t) /\ HisOnly(s, t, p) /\ Sound(t) /\ t \in Squads
      BY DEF Fewer, Taken
    <2> HIDE DEF T
    <2>2. CASE v.done \/ k \notin Filled(t)
      <3> DEFINE w == [v EXCEPT !.done = TRUE]
      <3>1. VisitPass(v, k, p) = w
        BY <2>2 DEF VisitPass
      <3>2. w \in [squad : Squads, done : BOOLEAN] /\ w.squad = t
        BY <2>1
      <3> HIDE DEF w, t
      <3>3. w \in T
        BY <2>1, <3>2 DEF T
      <3> QED BY <3>1, <3>3
    <2>3. CASE ~(v.done \/ k \notin Filled(t)) /\ t.slots[k].commander = p
      <3> DEFINE w == [v EXCEPT !.squad = u]
      <3>1. VisitPass(v, k, p) = w
        BY <2>3 DEF VisitPass
      <3>2. t.slots[k].profile \in Profiles
        BY <2>1, <2>3, FilledCounted DEF Selected
      <3> HIDE DEF t
      <3>3. Fewer(t, u) /\ HisOnly(t, u, p)
        BY <2>1, <3>2, DeselectTakesOne, DeselectIsHis
      <3>4. Fewer(s, u) /\ HisOnly(s, u, p)
        BY <2>1, <3>3, FewerAgain, HisOnlyAgain
      <3>5. u \in Squads
        BY <3>4 DEF Fewer, Taken, Sound
      <3> HIDE DEF u
      <3>6. w \in [squad : Squads, done : BOOLEAN] /\ w.squad = u
        BY <2>1, <3>5
      <3> HIDE DEF w
      <3>7. w \in T
        BY <3>4, <3>6 DEF T
      <3> QED BY <3>1, <3>7
    <2>4. CASE ~(v.done \/ k \notin Filled(t)) /\ t.slots[k].commander # p
      BY <2>1, <2>4 DEF VisitPass
    <2> QED BY <2>2, <2>3, <2>4
  <1> HIDE DEF T
  <1>4. g \in [1..N -> [T -> T]]
    BY <1>3
  <1>5. PICK h : Run(h, N, T, v0, g)
    <2> HIDE DEF g, N
    <2> QED BY <1>2, <1>4, RunExists
  <1>6. \A k \in 1..N : h[k - 1] \in T /\ g[k][h[k - 1]] = VisitPass(h[k - 1], k, p)
    <2> TAKE k \in 1..N
    <2>1. k - 1 \in 0..N
      BY <1>2
    <2> QED BY <1>5, <2>1 DEF Run
  <1>7. \A k \in 0..N : k = 0 \/ k \in 1..N
    BY <1>2
  <1> HIDE DEF g
  <1>8. Is(h)
    BY <1>5, <1>6, <1>7 DEF Run
  <1> HIDE DEF Is
  <1>9. Is(f)
    BY <1>8
  <1> HIDE DEF f
  <1>10. f[0] = v0 /\ \A k \in 1..N : f[k] = VisitPass(f[k - 1], k, p)
    BY <1>2, <1>7, <1>9 DEF Is
  <1>11. f[0] \in L[0]
    BY <1>2, <1>10
  <1>12. ASSUME NEW k \in 1..N, f[k - 1] \in L[k - 1] PROVE f[k] \in L[k]
    <2>1. k - 1 \in 0..N /\ k \in 0..N
      BY <1>2
    <2> QED BY <1>3, <1>10, <1>12, <2>1
  <1>13. f[N] \in L[N]
    <2> HIDE DEF L, N
    <2> QED BY <1>2, <1>11, <1>12, Passes
  <1>14. f[N] \in T
    BY <1>2, <1>13
  <1> QED BY <1>1, <1>14 DEF T

-----------------------------------------------------------------------------
(* The invariant.                                                           *)

\* What holds of the tables in a briefing.
Ordered(s, conn) ==
    /\ Sound(s) /\ Commanded(s, conn) /\ s.max <= PlayerStarts
    /\ ~EmptySlotsPreferred => s.count <= s.max /\ (s.oneEach => OneEach(s))

\* The limit outlasts the briefing: only those who command change after it, so
\* that all who were selected have landed when one has.
LobbyInv ==
    /\ TypeOK
    /\ Sound(squad) /\ squad.max <= PlayerStarts
    /\ ~EmptySlotsPreferred => squad.count <= squad.max
    /\ gameState = "BRIEFING" => Ordered(squad, Connected) /\ landed = {}
    /\ ~EmptySlotsPreferred /\ (landed # {} \/ gameState = "INGAME")
          => \A k \in Filled(squad) : squad.slots[k].profile \in landed

LEMMA SetMaxOrders ==
    ASSUME NEW s, Sound(s), NEW conn \in SUBSET Clients, Commanded(s, conn),
           NEW counted \in SUBSET Clients, NEW rdy
    PROVE  Ordered(SetMaxMarines(s, conn, counted, rdy), conn)
  BY SetMaxMarinesKeepsLimit DEF Ordered, Taken

LEMMA GrownOrdered ==
    ASSUME NEW s, NEW conn, Ordered(s, conn), NEW p \in conn, NEW person, NEW t,
           Grown(s, t, p, person), t.max = s.max, ~EmptySlotsPreferred => KeepsLimit(s, t)
    PROVE  Ordered(t, conn)
  <1>1. Sound(t) /\ Commanded(t, conn)
    BY DEF Grown, Ordered, Commanded
  <1> QED BY <1>1 DEF Ordered, KeepsLimit

LEMMA FewerOrdered ==
    ASSUME NEW s, NEW conn, Ordered(s, conn), NEW t, Fewer(s, t)
    PROVE  Ordered(t, conn)
  <1>1. Sound(s) /\ Sound(t) /\ Commanded(t, conn) /\ t.max = s.max
    BY TakenOrders DEF Ordered, Fewer, Taken
  <1>2. KeepsLimit(s, t)
    BY <1>1, FewerKeepsLimit
  <1> QED BY <1>1, <1>2 DEF Ordered, KeepsLimit

LEMMA InitEstablishes == Init => LobbyInv
  <1> SUFFICES ASSUME Init PROVE LobbyInv
    OBVIOUS
  <1> DEFINE r == [i \in Profiles |-> IF i \in Reserved THEN "reserved" ELSE "free"]
             sl == [k \in Slots |-> Vacant]
             max == Min({SquadSize, PlayerStarts})
  <1>1. squad = [roster |-> r, count |-> 0, slots |-> sl, max |-> max, oneEach |-> FALSE]
    BY DEF Init
  <1>2. max \in Nat /\ max <= PlayerStarts
    <2>1. SquadSize \in Nat /\ PlayerStarts \in Nat
      BY LobbyConstants
    <2>2. max \in {SquadSize, PlayerStarts} /\ max <= PlayerStarts
      BY <2>1, LeastIsMin
    <2> QED BY <2>1, <2>2
  <1>3. /\ r \in [Profiles -> {"free", "selected", "reserved"}] /\ \A i \in Profiles : r[i] # "selected"
        /\ sl \in [Slots -> [profile : Profiles \cup {None}, commander : Clients \cup {None}]]
        /\ \A k \in Slots : sl[k].profile = None
    BY DEF Vacant
  <1> HIDE DEF r, sl, max
  <1>4. /\ squad \in Squads /\ squad.roster = r /\ squad.slots = sl /\ squad.count = 0
        /\ squad.max = max /\ squad.oneEach = FALSE
    BY <1>1, <1>2, <1>3 DEF Squads
  <1>5. Filled(squad) = {} /\ Selected(squad) = {}
    BY <1>3, <1>4 DEF Filled, Selected
  <1>6. Sound(squad)
    <2>1. squad.count = Cardinality(Selected(squad))
      BY <1>4, <1>5, FS_EmptySet
    <2>2. \A i \in Profiles, k \in Slots : squad.slots[k].profile # i
      BY <1>3, <1>4, LobbyConstants DEF None, Profiles
    <2> QED BY <1>3, <1>4, <1>5, <2>1, <2>2 DEF Sound
  <1>7. Ordered(squad, Connected)
    BY <1>2, <1>4, <1>5, <1>6 DEF Ordered, Commanded
  <1>8. TypeOK /\ landed = {} /\ gameState = "BRIEFING"
    BY <1>4 DEF Init, TypeOK, None
  <1> QED BY <1>2, <1>4, <1>5, <1>6, <1>7, <1>8 DEF LobbyInv

\* A step within the briefing only has to leave the tables in order.
LEMMA BriefingGoesOn ==
    ASSUME LobbyInv, TypeOK', gameState = "BRIEFING", gameState' = "BRIEFING",
           Ordered(squad', Connected'), landed' = landed
    PROVE  LobbyInv'
  <1>1. Sound(squad') /\ squad'.max <= PlayerStarts /\ (~EmptySlotsPreferred => squad'.count <= squad'.max)
    BY DEF Ordered
  <1>2. landed' = {}
    BY DEF LobbyInv
  <1> QED BY <1>1, <1>2 DEF LobbyInv

\* A step after it may change who commands, and nothing else of the tables.
LEMMA MissionGoesOn ==
    ASSUME LobbyInv, TypeOK', gameState # "BRIEFING", gameState' = gameState,
           Sound(squad'), squad'.max = squad.max, squad'.count = squad.count,
           \A k \in Slots : squad'.slots[k].profile = squad.slots[k].profile, landed' = landed
    PROVE  LobbyInv'
  <1>1. Filled(squad') = Filled(squad) /\ Filled(squad) \subseteq Slots
    BY DEF Filled
  <1> QED BY <1>1 DEF LobbyInv

LEMMA TypesAfter ==
    ASSUME TypeOK, Sound(squad'), gameState' \in {"BRIEFING", "LAUNCHING", "INGAME"},
           occupant' \in [Clients -> Persons \cup {Nobody}], ready' \in [Clients -> BOOLEAN],
           leader' \in Clients \cup {None}, reserving' \in BOOLEAN, shouldStart' \in BOOLEAN,
           landed' \subseteq Profiles
    PROVE  TypeOK'
  BY DEF TypeOK, Sound

LEMMA JoinStep ==
    ASSUME LobbyInv, NEW p \in Clients, NEW person \in Seats[p], Join(p, person)
    PROVE  LobbyInv'
  <1>1. TypeOK /\ Sound(squad) /\ squad \in Squads /\ person \in Persons /\ person # Nobody
    BY LobbyConstants DEF LobbyInv, Sound
  <1>2. /\ occupant' = [occupant EXCEPT ![p] = person] /\ occupant' \in [Clients -> Persons \cup {Nobody}]
        /\ ready' \in [Clients -> BOOLEAN] /\ leader' \in Clients \cup {None}
        /\ UNCHANGED <<gameState, reserving, shouldStart, landed>>
    BY <1>1, LobbyConstants DEF Join, TypeOK
  <1>3. Connected' \in SUBSET Clients /\ p \in Connected' /\ Connected \subseteq Connected'
    BY <1>1, <1>2 DEF Connected, TypeOK
  <1>4. CASE gameState = "BRIEFING"
    <2> DEFINE s == AutoselectMarines(squad, p, person)
    <2>1. squad' = SetMaxMarines(s, Connected', Connected', ready')
      BY <1>4 DEF Join
    <2>2. Grown(squad, s, p, person)
      BY <1>1, AutoselectGrows
    <2>3. Commanded(squad, Connected)
      BY <1>4 DEF LobbyInv, Ordered
    <2> HIDE DEF s
    <2>4. Sound(s) /\ Commanded(s, Connected')
      BY <1>3, <2>2, <2>3 DEF Grown, Commanded
    <2>5. Ordered(squad', Connected')
      BY <1>3, <2>1, <2>4, SetMaxOrders
    <2>6. TypeOK'
      BY <1>1, <1>2, <2>5, TypesAfter DEF Ordered, TypeOK
    <2> QED BY <1>2, <1>4, <2>5, <2>6, BriefingGoesOn
  <1>5. CASE gameState # "BRIEFING"
    <2>1. squad' = squad
      BY <1>5 DEF Join
    <2>2. TypeOK'
      BY <1>1, <1>2, <2>1, TypesAfter DEF TypeOK
    <2> QED BY <1>1, <1>2, <1>5, <2>1, <2>2, MissionGoesOn
  <1> QED BY <1>4, <1>5

LEMMA LeaveStep ==
    ASSUME LobbyInv, NEW p \in Clients, Leave(p)
    PROVE  LobbyInv'
  <1> DEFINE others == Connected \ {p}
  <1>1. TypeOK /\ Sound(squad) /\ squad \in Squads
    BY DEF LobbyInv, Sound
  <1>2. Connected \in SUBSET Clients /\ others \in SUBSET Clients
    BY DEF Connected
  <1>3. ready' \in [Clients -> BOOLEAN] /\ leader' \in Clients \cup {None}
    <2>1. CASE leader # p
      BY <1>1, <2>1 DEF Leave, TypeOK
    <2>2. CASE leader = p
      <3>1. PICK heir \in IF others = {} THEN {None} ELSE others : SetLeader(heir)
        BY <2>2 DEF Leave
      <3>2. heir \in Clients \cup {None}
        BY <1>2
      <3>3. ready' \in [Clients -> BOOLEAN] /\ leader' = heir
        BY <1>1, <3>1, LobbyConstants DEF SetLeader, TypeOK
      <3> QED BY <3>2, <3>3
    <2> QED BY <2>1, <2>2
  <1>4. /\ occupant' = [occupant EXCEPT ![p] = Nobody] /\ occupant' \in [Clients -> Persons \cup {Nobody}]
        /\ UNCHANGED <<gameState, reserving, shouldStart, landed>>
    BY <1>1 DEF Leave, TypeOK
  <1>5. Connected' = others
    BY <1>1, <1>4 DEF Connected, TypeOK
  <1>6. CASE gameState = "BRIEFING"
    <2> DEFINE a == RosterDeselectAll(squad, p)
               b == SetMaxMarines(a, Connected, others, ready')
    <2>1. squad' = SetMaxMarines(b, others, others, ready')
      BY <1>6 DEF Leave
    <2>2. Commanded(squad, Connected)
      BY <1>6 DEF LobbyInv, Ordered
    <2>3. Fewer(squad, a) /\ MarinesOf(a, p) = {}
      BY <1>1, DeselectAllLeavesNone
    <2> HIDE DEF a
    <2>4. Sound(a) /\ Commanded(a, Connected)
      BY <1>1, <2>2, <2>3, TakenOrders DEF Fewer, Taken
    <2>5. Commanded(a, others)
      BY <2>3, <2>4 DEF Commanded, MarinesOf
    <2>6. Taken(a, b)
      BY <1>2, <2>4, SetMaxMarinesKeepsLimit
    <2> HIDE DEF b, others
    <2>7. Sound(b) /\ Commanded(b, others)
      BY <2>4, <2>5, <2>6, TakenOrders DEF Taken
    <2>8. Ordered(squad', Connected')
      BY <1>2, <1>5, <2>1, <2>7, SetMaxOrders
    <2>9. TypeOK'
      BY <1>1, <1>3, <1>4, <2>8, TypesAfter DEF Ordered, TypeOK
    <2> QED BY <1>4, <1>6, <2>8, <2>9, BriefingGoesOn
  <1>7. CASE gameState # "BRIEFING"
    <2>1. squad' = ReassignMarines(squad, p, others)
      BY <1>7 DEF Leave
    <2> HIDE DEF others
    <2>2. /\ Sound(squad') /\ squad'.count = squad.count /\ squad'.max = squad.max
          /\ \A k \in Slots : squad'.slots[k].profile = squad.slots[k].profile
      BY <1>1, <1>2, <2>1, ReassignChangesCommanders
    <2>3. TypeOK'
      BY <1>1, <1>3, <1>4, <2>2, TypesAfter DEF TypeOK
    <2> QED BY <1>4, <1>7, <2>2, <2>3, MissionGoesOn
  <1> QED BY <1>6, <1>7

LEMMA LeaderElectedStep ==
    ASSUME LobbyInv, NEW p \in Clients, LeaderElected(p)
    PROVE  LobbyInv'
  <1>1. TypeOK /\ Sound(squad) /\ squad' = squad /\ Connected' = Connected
    BY DEF LobbyInv, LeaderElected, Connected
  <1>2. /\ ready' \in [Clients -> BOOLEAN] /\ leader' \in Clients \cup {None}
        /\ UNCHANGED <<gameState, occupant, reserving, shouldStart, landed>>
    BY <1>1, LobbyConstants DEF LeaderElected, SetLeader, TypeOK
  <1>3. TypeOK'
    BY <1>1, <1>2, TypesAfter DEF TypeOK
  <1>4. CASE gameState = "BRIEFING"
    <2>1. Ordered(squad', Connected')
      BY <1>1, <1>4 DEF LobbyInv
    <2> QED BY <1>2, <1>3, <1>4, <2>1, BriefingGoesOn
  <1>5. CASE gameState # "BRIEFING"
    BY <1>1, <1>2, <1>3, <1>5, MissionGoesOn
  <1> QED BY <1>4, <1>5

\* In a briefing, if the players stay.
LEMMA CommandStep ==
    ASSUME LobbyInv, gameState = "BRIEFING", UNCHANGED <<gameState, occupant, leader, landed>>,
           ready' \in [Clients -> BOOLEAN], reserving' \in BOOLEAN, shouldStart' \in BOOLEAN,
           Ordered(squad', Connected)
    PROVE  LobbyInv'
  <1>1. Connected' = Connected
    BY DEF Connected
  <1>2. TypeOK'
    BY TypesAfter DEF LobbyInv, TypeOK, Ordered
  <1> QED BY <1>1, <1>2, BriefingGoesOn

LEMMA SelectStep ==
    ASSUME LobbyInv, NEW p \in Clients, NEW i \in Profiles, NEW slot \in Slots \cup {None},
           Select(p, i, slot)
    PROVE  LobbyInv'
  <1> DEFINE t == RosterSelect(squad, p, occupant[p], i, slot)
  <1>1. /\ gameState = "BRIEFING" /\ p \in Connected /\ squad' = t
        /\ slot \in Filled(squad) \cup {None} \/ EmptySlotsPreferred
        /\ UNCHANGED <<gameState, players, reserving, shouldStart, landed>>
    BY DEF Select
  <1>2. Ordered(squad, Connected) /\ Sound(squad) /\ TypeOK
    BY <1>1 DEF LobbyInv
  <1>3. /\ Grown(squad, t, p, occupant[p]) /\ t.max = squad.max
        /\ ~EmptySlotsPreferred => KeepsLimit(squad, t)
    BY <1>1, <1>2, SelectGrows
  <1> HIDE DEF t
  <1>4. Ordered(squad', Connected)
    BY <1>1, <1>2, <1>3, GrownOrdered
  <1> QED BY <1>1, <1>2, <1>4, CommandStep DEF players, TypeOK

LEMMA DeselectStep ==
    ASSUME LobbyInv, NEW p \in Clients, NEW i \in Profiles, Deselect(p, i)
    PROVE  LobbyInv'
  <1>1. /\ gameState = "BRIEFING" /\ squad' = RosterDeselect(squad, p, i)
        /\ UNCHANGED <<gameState, players, reserving, shouldStart, landed>>
    BY DEF Deselect
  <1>2. Ordered(squad, Connected) /\ Sound(squad) /\ TypeOK
    BY <1>1 DEF LobbyInv
  <1>3. Ordered(squad', Connected)
    BY <1>1, <1>2, DeselectTakesOne, FewerOrdered
  <1> QED BY <1>1, <1>2, <1>3, CommandStep DEF players, TypeOK

LEMMA SelectSingleIs ==
    ASSUME NEW p, NEW i, SelectSingle(p, i)
    PROVE  squad' = RosterSelect(Visited(squad, p), p, occupant[p], i, None)
  BY Zenon DEF SelectSingle, Visited, VisitPass

LEMMA SelectSingleStep ==
    ASSUME LobbyInv, NEW p \in Clients, NEW i \in Profiles, SelectSingle(p, i)
    PROVE  LobbyInv'
  <1> DEFINE v == Visited(squad, p)
             t == RosterSelect(v, p, occupant[p], i, None)
  <1>1. /\ gameState = "BRIEFING" /\ p \in Connected
        /\ UNCHANGED <<gameState, players, reserving, shouldStart, landed>>
    BY DEF SelectSingle
  <1>2. squad' = t
    BY SelectSingleIs
  <1>3. Ordered(squad, Connected) /\ Sound(squad) /\ TypeOK
    BY <1>1 DEF LobbyInv
  <1>4. Ordered(v, Connected) /\ Sound(v)
    BY <1>3, VisitedIsFewer, FewerOrdered DEF Ordered
  <1> HIDE DEF v
  <1>5. Grown(v, t, p, occupant[p]) /\ t.max = v.max /\ KeepsLimit(v, t)
    BY <1>4, SelectGrows
  <1> HIDE DEF t
  <1>6. Ordered(squad', Connected)
    BY <1>1, <1>2, <1>4, <1>5, GrownOrdered
  <1> QED BY <1>1, <1>3, <1>6, CommandStep DEF players, TypeOK

\* The players make themselves ready, or the leader starts: the limit is set.
LEMMA LimitSetStep ==
    ASSUME LobbyInv, gameState = "BRIEFING", UNCHANGED <<gameState, occupant, leader, landed>>,
           ready' \in [Clients -> BOOLEAN], reserving' \in BOOLEAN, shouldStart' \in BOOLEAN,
           NEW rdy, squad' = SetMaxMarines(squad, Connected, Connected, rdy)
    PROVE  LobbyInv'
  <1>1. Sound(squad) /\ Commanded(squad, Connected) /\ Connected \in SUBSET Clients
    BY DEF LobbyInv, Ordered, Connected
  <1>2. Ordered(squad', Connected)
    BY <1>1, SetMaxOrders
  <1> QED BY <1>2, CommandStep

LEMMA ToggleReadyStep ==
    ASSUME LobbyInv, NEW p \in Clients, ToggleReady(p)
    PROVE  LobbyInv'
  <1>1. ready \in [Clients -> BOOLEAN] /\ reserving \in BOOLEAN /\ shouldStart \in BOOLEAN
    BY DEF LobbyInv, TypeOK
  <1> QED BY <1>1, LimitSetStep DEF ToggleReady

LEMMA SpectateStep ==
    ASSUME LobbyInv, NEW p \in Clients, Spectate(p)
    PROVE  LobbyInv'
  <1>1. ready \in [Clients -> BOOLEAN] /\ reserving \in BOOLEAN /\ shouldStart \in BOOLEAN
    BY DEF LobbyInv, TypeOK
  <1> QED BY <1>1, LimitSetStep DEF Spectate

LEMMA ForceStartStep ==
    ASSUME LobbyInv, ForceStart
    PROVE  LobbyInv'
  <1>1. ready \in [Clients -> BOOLEAN] /\ reserving \in BOOLEAN /\ shouldStart \in BOOLEAN
    BY DEF LobbyInv, TypeOK
  <1> QED BY <1>1, LimitSetStep DEF ForceStart, players

LEMMA RequestStartStep ==
    ASSUME LobbyInv, NEW p \in Clients, RequestStart(p)
    PROVE  LobbyInv'
  <1>1. ready \in [Clients -> BOOLEAN] /\ reserving \in BOOLEAN /\ shouldStart \in BOOLEAN
    BY DEF LobbyInv, TypeOK
  <1>2. Ordered(squad, Connected)
    BY DEF LobbyInv, RequestStart
  <1> QED BY <1>1, <1>2, CommandStep DEF RequestStart, players

LEMMA ReserveTimeUpStep ==
    ASSUME LobbyInv, ReserveTimeUp
    PROVE  LobbyInv'
  <1> DEFINE r == [i \in Profiles |-> IF squad.roster[i] = "reserved" THEN "free" ELSE squad.roster[i]]
             t == [squad EXCEPT !.roster = r]
  <1>1. /\ gameState = "BRIEFING" /\ reserving' = FALSE
        /\ UNCHANGED <<gameState, players, shouldStart, landed>>
    BY DEF ReserveTimeUp
  <1>2. Ordered(squad, Connected) /\ Sound(squad) /\ TypeOK /\ squad \in Squads
    BY <1>1 DEF LobbyInv, Sound
  <1>3. squad' = t
    BY <1>2 DEF ReserveTimeUp, Squads
  <1>4. /\ r \in [Profiles -> {"free", "selected", "reserved"}]
        /\ \A i \in Profiles : r[i] = "selected" <=> squad.roster[i] = "selected"
    BY <1>2 DEF Squads
  <1> HIDE DEF r
  <1>5. /\ t \in Squads /\ t.roster = r /\ t.slots = squad.slots /\ t.count = squad.count
        /\ t.max = squad.max /\ t.oneEach = squad.oneEach
    BY <1>2, <1>4 DEF Squads
  <1> HIDE DEF t
  <1>6. Selected(t) = Selected(squad) /\ Filled(t) = Filled(squad)
    BY <1>4, <1>5 DEF Selected, Filled
  <1>7. Sound(t)
    BY <1>2, <1>4, <1>5, <1>6 DEF Sound
  <1>8. Ordered(t, Connected)
    BY <1>2, <1>5, <1>6, <1>7 DEF Ordered, Commanded, OneEach
  <1> QED BY <1>1, <1>2, <1>3, <1>8, CommandStep DEF players, TypeOK

LEMMA StartMissionStep ==
    ASSUME LobbyInv, StartMission
    PROVE  LobbyInv'
  <1>1. /\ gameState = "BRIEFING" /\ gameState' = "LAUNCHING" /\ squad' = squad /\ landed' = landed
        /\ UNCHANGED <<players, reserving, shouldStart>>
    BY DEF StartMission
  <1>2. landed = {} /\ Sound(squad) /\ TypeOK
    BY <1>1 DEF LobbyInv
  <1>3. TypeOK'
    BY <1>1, <1>2, TypesAfter DEF TypeOK, players
  <1> QED BY <1>1, <1>2, <1>3 DEF LobbyInv

\* With the limit kept there is a place for every slot.
LEMMA RoomForAll ==
    ASSUME Sound(squad), squad.count <= squad.max, squad.max <= PlayerStarts,
           NEW k \in Filled(squad)
    PROVE  Cardinality({j \in Filled(squad) : j < k}) < PlayerStarts
  <1> DEFINE B == {j \in Filled(squad) : j < k}
  <1>1. /\ squad.count = Cardinality(Filled(squad)) /\ squad.count \in Nat /\ squad.max \in Nat
        /\ PlayerStarts \in Nat
    BY FilledCounted, LobbyConstants DEF Sound, Squads
  <1>2. B \in SUBSET (Filled(squad) \ {k})
    BY LobbyConstants DEF Filled, Slots
  <1>3. IsFiniteSet(Filled(squad) \ {k}) /\ Cardinality(Filled(squad) \ {k}) = squad.count - 1
    BY <1>1, SelectedFinite, FS_RemoveElement
  <1> HIDE DEF B
  <1>4. IsFiniteSet(B) /\ Cardinality(B) <= squad.count - 1
    BY <1>2, <1>3, FS_Subset
  <1>5. Cardinality(B) \in Nat
    BY <1>4, FS_CardinalityType
  <1>6. Cardinality(B) < PlayerStarts
    BY <1>1, <1>4, <1>5
  <1> QED BY <1>6 DEF B

LEMMA UpdateLaunchingStep ==
    ASSUME LobbyInv, UpdateLaunching
    PROVE  LobbyInv'
  <1> DEFINE room == {k \in Filled(squad) : Cardinality({j \in Filled(squad) : j < k}) < PlayerStarts}
  <1>1. /\ gameState = "LAUNCHING" /\ squad' = squad /\ gameState' \in {"LAUNCHING", "INGAME"}
        /\ landed' = IF landed = {} THEN {squad.slots[k].profile : k \in room} ELSE landed
        /\ UNCHANGED <<players, reserving, shouldStart>>
    BY DEF UpdateLaunching
  <1>2. TypeOK /\ Sound(squad)
    BY DEF LobbyInv
  <1>3. landed' \subseteq Profiles
    BY <1>1, <1>2, FilledCounted DEF TypeOK, Selected
  <1>4. TypeOK'
    BY <1>1, <1>2, <1>3, TypesAfter DEF TypeOK, players
  <1>5. ASSUME ~EmptySlotsPreferred PROVE \A k \in Filled(squad) : squad.slots[k].profile \in landed'
    <2>1. CASE landed = {}
      <3>1. \A k \in Filled(squad) : k \in room
        BY <1>2, <1>5, RoomForAll DEF LobbyInv
      <3> HIDE DEF room
      <3> QED BY <1>1, <2>1, <3>1
    <2>2. CASE landed # {}
      BY <1>1, <1>5, <2>2 DEF LobbyInv
    <2> QED BY <2>1, <2>2
  <1> QED BY <1>1, <1>4, <1>5 DEF LobbyInv

LEMMA StutterStep ==
    ASSUME LobbyInv, UNCHANGED vars
    PROVE  LobbyInv'
  BY DEF LobbyInv, vars, players, TypeOK, Connected

\* The tables agree and, if nobody asks for an empty slot, no more marines are
\* selected than the map has places, so that all of them land.
THEOREM Invariance == Spec => []LobbyInv
  <1>1. ASSUME LobbyInv, [Next]_vars PROVE LobbyInv'
    <2>1. CASE \E p \in Clients : \E person \in Seats[p] : Join(p, person)
      BY <1>1, <2>1, JoinStep
    <2>2. CASE \E p \in Clients : Leave(p)
      BY <1>1, <2>2, LeaveStep
    <2>3. CASE \E p \in Clients : LeaderElected(p)
      BY <1>1, <2>3, LeaderElectedStep
    <2>4. CASE \E p \in Clients, i \in Profiles, slot \in Slots \cup {None} : Select(p, i, slot)
      BY <1>1, <2>4, SelectStep
    <2>5. CASE \E p \in Clients, i \in Profiles : Deselect(p, i)
      BY <1>1, <2>5, DeselectStep
    <2>6. CASE \E p \in Clients, i \in Profiles : SelectSingle(p, i)
      BY <1>1, <2>6, SelectSingleStep
    <2>7. CASE \E p \in Clients : ToggleReady(p)
      BY <1>1, <2>7, ToggleReadyStep
    <2>8. CASE \E p \in Clients : Spectate(p)
      BY <1>1, <2>8, SpectateStep
    <2>9. CASE \E p \in Clients : RequestStart(p)
      BY <1>1, <2>9, RequestStartStep
    <2>10. CASE ForceStart
      BY <1>1, <2>10, ForceStartStep
    <2>11. CASE ReserveTimeUp
      BY <1>1, <2>11, ReserveTimeUpStep
    <2>12. CASE StartMission
      BY <1>1, <2>12, StartMissionStep
    <2>13. CASE UpdateLaunching
      BY <1>1, <2>13, UpdateLaunchingStep
    <2>14. CASE UNCHANGED vars
      BY <1>1, <2>14, StutterStep
    <2> QED BY <1>1, <2>1, <2>2, <2>3, <2>4, <2>5, <2>6, <2>7, <2>8, <2>9, <2>10, <2>11,
               <2>12, <2>13, <2>14, Zenon DEF Next, Think
  <1> QED BY <1>1, InitEstablishes, PTL DEF Spec

\* Every variable keeps its type, the tables after each loop of the limit too.
THEOREM LobbyTypes == Spec => []TypeOK
  BY Invariance, PTL DEF LobbyInv

\* The count, the roster and the slots agree however marines are taken, swapped
\* and dismissed.
THEOREM TablesAlwaysAgree == Spec => []RosterMatchesSlots
  <1>1. LobbyInv => RosterMatchesSlots
    <2> SUFFICES ASSUME LobbyInv PROVE RosterMatchesSlots
      OBVIOUS
    <2>1. Sound(squad)
      BY DEF LobbyInv
    <2> QED BY <2>1, FilledCounted DEF RosterMatchesSlots, Sound
  <1> QED BY <1>1, Invariance, PTL

\* The limit is kept, whatever it becomes, if nobody asks for an empty slot.
THEOREM LimitIsKept == ~EmptySlotsPreferred => (Spec => []LimitKept)
  <1> SUFFICES ASSUME ~EmptySlotsPreferred PROVE Spec => []LimitKept
    OBVIOUS
  <1>1. ASSUME LobbyInv PROVE LimitKept
    <2>1. squad.count <= squad.max
      BY <1>1 DEF LobbyInv
    <2>2. ASSUME gameState = "BRIEFING", squad.oneEach, NEW p \in Clients PROVE NumMarines(squad, p) <= 1
      <3>1. OneEach(squad)
        BY <1>1, <2>2 DEF LobbyInv, Ordered
      <3> QED BY <3>1, MarinesCounted DEF OneEach, MarinesOf
    <2> QED BY <2>1, <2>2 DEF LimitKept
  <1> QED BY <1>1, Invariance, PTL

\* All marines who were selected stand in the game, under the same condition.
THEOREM MarinesLand == ~EmptySlotsPreferred => (Spec => []EveryMarineLands)
  <1> SUFFICES ASSUME ~EmptySlotsPreferred PROVE Spec => []EveryMarineLands
    OBVIOUS
  <1>1. ASSUME LobbyInv PROVE EveryMarineLands
    BY <1>1 DEF LobbyInv, EveryMarineLands
  <1> QED BY <1>1, Invariance, PTL

-----------------------------------------------------------------------------
(* The reserved marines.                                                    *)

\* In the step no reserved marine is taken.
LeavesReserved ==
    \A i \in Profiles : squad.roster[i] = "reserved" => squad'.roster[i] # "selected"

\* In the step somebody takes marines, and reserved ones only if they were his.
TakesHis ==
    \E p \in Clients : Sound(squad) /\ Grown(squad, squad', p, occupant'[p])

LEMMA HisAreCommanded ==
    ASSUME TakesHis, NEW i \in Profiles, squad.roster[i] = "reserved", squad'.roster[i] = "selected"
    PROVE  occupant'[CommanderOf(i)'] = LastCommander[i]
  <1>1. PICK p \in Clients : Sound(squad) /\ Grown(squad, squad', p, occupant'[p])
    BY DEF TakesHis
  <1> DEFINE its == {k \in Filled(squad') : squad'.slots[k].profile = i}
  <1>2. its # {}
    <2>1. PICK k \in Slots : squad'.slots[k].profile = i
      BY <1>1 DEF Grown, Sound
    <2>2. i # None
      BY LobbyConstants DEF None, Profiles
    <2> QED BY <2>1, <2>2 DEF Filled
  <1>3. Min(its) \in its
    <2>1. its \in SUBSET Slots
      BY DEF Filled
    <2> HIDE DEF its
    <2> QED BY <1>2, <2>1, FirstAndLast
  <1>4. CommanderOf(i)' = squad'.slots[Min(its)].commander
    BY <1>2 DEF CommanderOf, Filled
  <1>5. \A j \in Filled(squad) : squad.slots[j].profile # i
    BY <1>1 DEF Filled, Sound
  <1>6. squad'.slots[Min(its)].commander = p
    <2>1. Min(its) \in Filled(squad') /\ squad'.slots[Min(its)].profile = i
      BY <1>3
    <2> HIDE DEF its
    <2> QED BY <1>1, <1>5, <2>1 DEF Grown
  <1>7. occupant'[p] = LastCommander[i]
    BY <1>1 DEF Grown
  <1> QED BY <1>4, <1>6, <1>7

LEMMA TakenLeavesReserved ==
    ASSUME Taken(squad, squad')
    PROVE  LeavesReserved
  BY DEF Taken, LeavesReserved

LEMMA JoinTakesHis ==
    ASSUME LobbyInv, NEW p \in Clients, NEW person \in Seats[p], Join(p, person)
    PROVE  TakesHis \/ LeavesReserved
  <1>1. Sound(squad) /\ occupant \in [Clients -> Persons \cup {Nobody}] /\ person \in Persons
    BY LobbyConstants DEF LobbyInv, TypeOK
  <1>2. occupant' = [occupant EXCEPT ![p] = person]
    BY DEF Join
  <1>3. occupant'[p] = person
    BY <1>1, <1>2
  <1>4. CASE gameState = "BRIEFING"
    <2> DEFINE s == AutoselectMarines(squad, p, person)
    <2>1. squad' = SetMaxMarines(s, Connected', Connected', ready')
      BY <1>4 DEF Join
    <2>2. Grown(squad, s, p, person)
      BY <1>1, AutoselectGrows
    <2> HIDE DEF s
    <2>3. Connected' \in SUBSET Clients /\ p \in Connected' /\ Connected \subseteq Connected'
      BY <1>1, <1>2, LobbyConstants DEF Connected
    <2>4. Sound(s) /\ Commanded(s, Connected')
      BY <1>4, <2>2, <2>3 DEF Grown, Commanded, LobbyInv, Ordered
    <2>5. Taken(s, squad')
      BY <2>1, <2>3, <2>4, SetMaxMarinesKeepsLimit
    <2>6. Grown(squad, squad', p, person)
      BY <1>1, <2>2, <2>4, <2>5, TakenGrows, GrownAgain
    <2> QED BY <1>1, <1>3, <2>6 DEF TakesHis
  <1>5. CASE gameState # "BRIEFING"
    <2>1. squad' = squad
      BY <1>5 DEF Join
    <2> QED BY <2>1 DEF LeavesReserved
  <1> QED BY <1>4, <1>5

LEMMA SelectTakesHis ==
    ASSUME LobbyInv, NEW p \in Clients, NEW i \in Profiles, NEW slot \in Slots \cup {None},
           Select(p, i, slot)
    PROVE  TakesHis
  <1>1. /\ Sound(squad) /\ squad' = RosterSelect(squad, p, occupant[p], i, slot)
        /\ occupant' = occupant
    BY DEF LobbyInv, Select, players
  <1>2. Grown(squad, squad', p, occupant'[p])
    BY <1>1, SelectGrows
  <1> QED BY <1>1, <1>2 DEF TakesHis

LEMMA SelectSingleTakesHis ==
    ASSUME LobbyInv, NEW p \in Clients, NEW i \in Profiles, SelectSingle(p, i)
    PROVE  TakesHis
  <1> DEFINE v == Visited(squad, p)
  <1>1. Sound(squad) /\ occupant' = occupant /\ squad' = RosterSelect(v, p, occupant[p], i, None)
    BY SelectSingleIs DEF LobbyInv, SelectSingle, players
  <1>2. Taken(squad, v) /\ Sound(v)
    BY <1>1, VisitedIsFewer DEF Fewer, Taken
  <1> HIDE DEF v
  <1>3. Grown(squad, v, p, occupant'[p]) /\ Grown(v, squad', p, occupant'[p])
    BY <1>1, <1>2, TakenGrows, SelectGrows
  <1>4. Grown(squad, squad', p, occupant'[p])
    BY <1>1, <1>3, GrownAgain
  <1> QED BY <1>1, <1>4 DEF TakesHis

LEMMA LeaveLeavesReserved ==
    ASSUME LobbyInv, NEW p \in Clients, Leave(p)
    PROVE  LeavesReserved
  <1> DEFINE others == Connected \ {p}
  <1>1. Sound(squad) /\ Connected \in SUBSET Clients /\ others \in SUBSET Clients
    BY DEF LobbyInv, Connected
  <1>2. CASE gameState = "BRIEFING"
    <2> DEFINE a == RosterDeselectAll(squad, p)
               b == SetMaxMarines(a, Connected, others, ready')
    <2>1. squad' = SetMaxMarines(b, others, others, ready')
      BY <1>2 DEF Leave
    <2>2. Commanded(squad, Connected)
      BY <1>2 DEF LobbyInv, Ordered
    <2>3. Taken(squad, a) /\ MarinesOf(a, p) = {}
      BY <1>1, DeselectAllLeavesNone DEF Fewer
    <2> HIDE DEF a
    <2>4. Sound(a) /\ Commanded(a, Connected)
      BY <1>1, <2>2, <2>3, TakenOrders DEF Taken
    <2>5. Commanded(a, others)
      BY <2>3, <2>4 DEF Commanded, MarinesOf
    <2>6. Taken(a, b)
      BY <1>1, <2>4, SetMaxMarinesKeepsLimit
    <2> HIDE DEF b, others
    <2>7. Sound(b) /\ Commanded(b, others)
      BY <2>4, <2>5, <2>6, TakenOrders DEF Taken
    <2>8. Taken(b, squad')
      BY <1>1, <2>1, <2>7, SetMaxMarinesKeepsLimit
    <2>9. Taken(squad, squad')
      BY <1>1, <2>3, <2>4, <2>6, <2>7, <2>8, TakenAgain
    <2> QED BY <2>9, TakenLeavesReserved
  <1>3. CASE gameState # "BRIEFING"
    <2>1. squad' = ReassignMarines(squad, p, others)
      BY <1>3 DEF Leave
    <2> HIDE DEF others
    <2>2. squad'.roster = squad.roster
      BY <1>1, <2>1, ReassignChangesCommanders
    <2> QED BY <2>2 DEF LeavesReserved
  <1> QED BY <1>2, <1>3

LEMMA SetMaxLeavesReserved ==
    ASSUME LobbyInv, gameState = "BRIEFING", NEW rdy,
           squad' = SetMaxMarines(squad, Connected, Connected, rdy)
    PROVE  LeavesReserved
  <1>1. Sound(squad) /\ Commanded(squad, Connected) /\ Connected \in SUBSET Clients
    BY DEF LobbyInv, Ordered, Connected
  <1>2. Taken(squad, squad')
    BY <1>1, SetMaxMarinesKeepsLimit
  <1> QED BY <1>2, TakenLeavesReserved

LEMMA OtherStepsLeaveReserved ==
    ASSUME LobbyInv,
           \/ \E p \in Clients : LeaderElected(p) \/ RequestStart(p)
           \/ \E p \in Clients, i \in Profiles : Deselect(p, i)
           \/ \E p \in Clients : ToggleReady(p) \/ Spectate(p)
           \/ ForceStart \/ ReserveTimeUp \/ StartMission \/ UpdateLaunching
    PROVE  LeavesReserved
  <1>1. CASE \E p \in Clients : LeaderElected(p) \/ RequestStart(p)
    BY <1>1 DEF LeaderElected, RequestStart, LeavesReserved
  <1>2. CASE \E p \in Clients, i \in Profiles : Deselect(p, i)
    <2>1. PICK p \in Clients, i \in Profiles : Deselect(p, i)
      BY <1>2
    <2>2. Sound(squad) /\ squad' = RosterDeselect(squad, p, i)
      BY <2>1 DEF LobbyInv, Deselect
    <2>3. Taken(squad, squad')
      BY <2>2, DeselectTakesOne DEF Fewer
    <2> QED BY <2>3, TakenLeavesReserved
  <1>3. CASE \E p \in Clients : ToggleReady(p) \/ Spectate(p)
    BY <1>3, SetMaxLeavesReserved DEF ToggleReady, Spectate
  <1>4. CASE ForceStart
    BY <1>4, SetMaxLeavesReserved DEF ForceStart
  <1>5. CASE ReserveTimeUp
    <2> DEFINE r == [i \in Profiles |-> IF squad.roster[i] = "reserved" THEN "free" ELSE squad.roster[i]]
    <2>1. squad \in Squads /\ squad' = [squad EXCEPT !.roster = r]
      BY <1>5 DEF LobbyInv, TypeOK, ReserveTimeUp, Squads
    <2>2. squad'.roster = r
      BY <2>1 DEF Squads
    <2> QED BY <2>2 DEF LeavesReserved
  <1>6. CASE StartMission \/ UpdateLaunching
    BY <1>6 DEF StartMission, UpdateLaunching, LeavesReserved
  <1> QED BY <1>1, <1>2, <1>3, <1>4, <1>5, <1>6

\* Whoever takes a reserved marine had it in the last mission, in every step.
THEOREM ReservationsHold == Spec => ReservationHonoured
  <1> DEFINE Honoured == \A i \in Profiles :
                 squad.roster[i] = "reserved" /\ squad'.roster[i] = "selected"
                     => occupant'[CommanderOf(i)'] = LastCommander[i]
  <1>1. ASSUME TakesHis \/ LeavesReserved PROVE Honoured
    BY <1>1, HisAreCommanded DEF LeavesReserved
  <1>2. ASSUME LobbyInv, Next PROVE TakesHis \/ LeavesReserved
    <2>1. CASE \E p \in Clients : \E person \in Seats[p] : Join(p, person)
      BY <1>2, <2>1, JoinTakesHis
    <2>2. CASE \E p \in Clients : Leave(p)
      BY <1>2, <2>2, LeaveLeavesReserved
    <2>3. CASE \E p \in Clients, i \in Profiles, slot \in Slots \cup {None} : Select(p, i, slot)
      BY <1>2, <2>3, SelectTakesHis
    <2>4. CASE \E p \in Clients, i \in Profiles : SelectSingle(p, i)
      BY <1>2, <2>4, SelectSingleTakesHis
    <2>5. CASE \/ \E p \in Clients : LeaderElected(p) \/ RequestStart(p)
               \/ \E p \in Clients, i \in Profiles : Deselect(p, i)
               \/ \E p \in Clients : ToggleReady(p) \/ Spectate(p)
               \/ ForceStart \/ ReserveTimeUp \/ StartMission \/ UpdateLaunching
      BY <1>2, <2>5, OtherStepsLeaveReserved
    <2> QED BY <1>2, <2>1, <2>2, <2>3, <2>4, <2>5, Zenon DEF Next, Think
  <1> HIDE DEF Honoured
  <1>3. LobbyInv /\ [Next]_vars => [Honoured]_vars
    BY <1>1, <1>2
  <1>4. Spec => [][Honoured]_vars
    BY <1>3, Invariance, PTL DEF Spec
  <1> QED BY <1>4 DEF ReservationHonoured, Honoured

-----------------------------------------------------------------------------
(* The lobby implements MarineCommand.                                      *)

LEMMA CommanderIsOwner ==
    ASSUME NEW i
    PROVE  CommanderOf(i) = Owner(squad, i) /\ CommanderOf(i)' = Owner(squad', i)
  <1>1. CommanderOf(i) = Owner(squad, i)
    BY Zenon DEF CommanderOf, Owner
  <1>2. CommanderOf(i)' = Owner(squad', i)
    BY Zenon DEF CommanderOf, Owner, Filled
  <1> QED BY <1>1, <1>2

\* Others keep one of their marines, and p has only taken what was free.
Chosen(s, t, p) ==
    /\ \A q \in Clients \ {p} : MarinesOf(s, q) # {} => MarinesOf(t, q) # {}
    /\ \A i \in Profiles : \/ Owner(t, i) = Owner(s, i)
                           \/ Owner(t, i) = None
                           \/ Owner(s, i) = None /\ Owner(t, i) = p

LEMMA HisAreChosen ==
    ASSUME NEW s, NEW t, Sound(s), Sound(t), NEW p \in Clients, HisOnly(s, t, p)
    PROVE  Chosen(s, t, p)
  <1>1. \A q \in Clients \ {p} : MarinesOf(s, q) # {} => MarinesOf(t, q) # {}
    BY HisOnlySpares
  <1>2. \A i \in Profiles : \/ Owner(t, i) = Owner(s, i)
                            \/ Owner(t, i) = None
                            \/ Owner(s, i) = None /\ Owner(t, i) = p
    BY DEF HisOnly
  <1> QED BY <1>1, <1>2 DEF Chosen

\* What the limit takes afterwards changes nothing in that.
LEMMA TakenAreChosen ==
    ASSUME NEW s, NEW a, NEW t, NEW p \in Clients, Chosen(s, a, p), Sound(a), Taken(a, t), Spares(a, t)
    PROVE  Chosen(s, t, p)
  <1>1. \A q \in Clients \ {p} : MarinesOf(s, q) # {} => MarinesOf(t, q) # {}
    BY DEF Chosen, Spares
  <1>2. \A i \in Profiles : Owner(t, i) \in {Owner(a, i), None}
    BY TakenOwners
  <1>3. \A i \in Profiles : \/ Owner(t, i) = Owner(s, i)
                            \/ Owner(t, i) = None
                            \/ Owner(s, i) = None /\ Owner(t, i) = p
    BY <1>2 DEF Chosen
  <1> QED BY <1>1, <1>3 DEF Chosen

LEMMA OthersKeepTheirs ==
    ASSUME NEW p, Sound(squad), Sound(squad'),
           \A q \in Clients \ {p} : MarinesOf(squad, q) # {} => MarinesOf(squad', q) # {}
    PROVE  Command!OthersKeepOne(p)
  <1> SUFFICES ASSUME NEW q \in Clients \ {p}, \E i \in Profiles : CommanderOf(i) = q
               PROVE  \E i \in Profiles : CommanderOf(i)' = q
    BY DEF Command!OthersKeepOne
  <1>1. MarinesOf(squad, q) # {}
    BY OwnersHaveMarines, CommanderIsOwner
  <1>2. MarinesOf(squad', q) # {}
    BY <1>1
  <1> QED BY <1>2, OwnersHaveMarines, CommanderIsOwner

LEMMA ChosenIsChoose ==
    ASSUME NEW p \in Clients, gameState = "BRIEFING", gameState' = gameState, Sound(squad), Sound(squad'),
           Chosen(squad, squad', p), Connected' \in {Connected, Connected \cup {p}}, p \in Connected'
    PROVE  Command!Choose(p)
  <1>1. Command!OthersKeepOne(p)
    BY OthersKeepTheirs DEF Chosen
  <1>2. \A i \in Profiles : \/ CommanderOf(i)' = CommanderOf(i)
                            \/ CommanderOf(i)' = None
                            \/ CommanderOf(i) = None /\ CommanderOf(i)' = p
    BY CommanderIsOwner DEF Chosen
  <1> QED BY <1>1, <1>2 DEF Command!Choose

\* The players stay, and the limit is set anew: somebody has chosen nothing.
LEMMA LimitIsChoose ==
    ASSUME LobbyInv, MaxClients <= PlayerStarts, gameState = "BRIEFING", UNCHANGED <<gameState, occupant>>,
           NEW p \in Connected, NEW rdy, squad' = SetMaxMarines(squad, Connected, Connected, rdy)
    PROVE  Command!Choose(p)
  <1>1. /\ Sound(squad) /\ Commanded(squad, Connected) /\ Connected \in SUBSET Clients
        /\ Connected' = Connected /\ p \in Clients
    BY DEF LobbyInv, Ordered, Connected
  <1>2. Taken(squad, squad') /\ Spares(squad, squad')
    BY <1>1, SetMaxMarinesKeepsLimit
  <1>3. Sound(squad') /\ Chosen(squad, squad, p)
    BY <1>2 DEF Taken, Chosen
  <1>4. Chosen(squad, squad', p)
    BY <1>1, <1>2, <1>3, TakenAreChosen
  <1> QED BY <1>1, <1>3, <1>4, ChosenIsChoose

LEMMA JoinRefines ==
    ASSUME LobbyInv, MaxClients <= PlayerStarts, NEW p \in Clients, NEW person \in Seats[p], Join(p, person)
    PROVE  Command!Choose(p) \/ Command!Arrive(p)
  <1>1. Sound(squad) /\ occupant \in [Clients -> Persons \cup {Nobody}] /\ person # Nobody
    BY LobbyConstants DEF LobbyInv, TypeOK
  <1>2. occupant' = [occupant EXCEPT ![p] = person] /\ gameState' = gameState
    BY DEF Join
  <1>3. Connected' = Connected \cup {p} /\ Connected' \in SUBSET Clients
    BY <1>1, <1>2 DEF Connected
  <1>4. CASE gameState = "BRIEFING"
    <2> DEFINE s == AutoselectMarines(squad, p, person)
    <2>1. squad' = SetMaxMarines(s, Connected', Connected', ready')
      BY <1>4 DEF Join
    <2>2. Grown(squad, s, p, person) /\ HisOnly(squad, s, p)
      BY <1>1, AutoselectGrows
    <2> HIDE DEF s
    <2>3. Sound(s) /\ Commanded(s, Connected')
      BY <1>3, <1>4, <2>2 DEF Grown, Commanded, LobbyInv, Ordered
    <2>4. Taken(s, squad') /\ Spares(s, squad')
      BY <1>3, <2>1, <2>3, SetMaxMarinesKeepsLimit
    <2>5. Chosen(squad, squad', p)
      BY <1>1, <2>2, <2>3, <2>4, HisAreChosen, TakenAreChosen
    <2>6. Sound(squad')
      BY <2>4 DEF Taken
    <2> QED BY <1>1, <1>2, <1>3, <1>4, <2>5, <2>6, ChosenIsChoose
  <1>5. CASE gameState # "BRIEFING"
    <2>1. squad' = squad
      BY <1>5 DEF Join
    <2>2. \A i \in Profiles : CommanderOf(i)' = CommanderOf(i)
      BY <2>1, CommanderIsOwner
    <2> QED BY <1>2, <1>3, <1>5, <2>2 DEF Command!Arrive
  <1> QED BY <1>4, <1>5

LEMMA BriefingLeftRefines ==
    ASSUME LobbyInv, MaxClients <= PlayerStarts, NEW p \in Clients, Leave(p), gameState = "BRIEFING"
    PROVE  Command!Retire(p)
  <1> DEFINE others == Connected \ {p}
             a == RosterDeselectAll(squad, p)
             b == SetMaxMarines(a, Connected, others, ready')
  <1>1. /\ Sound(squad) /\ Commanded(squad, Connected)
        /\ Connected \in SUBSET Clients /\ others \in SUBSET Clients /\ p \in Connected
    BY DEF LobbyInv, Ordered, Connected, Leave
  <1>2. gameState' = gameState /\ Connected' = Connected \ {p}
    BY DEF Leave, Connected, LobbyInv, TypeOK
  <1>3. squad' = SetMaxMarines(b, others, others, ready')
    BY DEF Leave
  <1>4. Taken(squad, a) /\ HisOnly(squad, a, p) /\ MarinesOf(a, p) = {}
    BY <1>1, DeselectAllLeavesNone DEF Fewer
  <1> HIDE DEF a
  <1>5. Sound(a) /\ Commanded(a, Connected)
    BY <1>1, <1>4, TakenOrders DEF Taken
  <1>6. Commanded(a, others)
    BY <1>4, <1>5 DEF Commanded, MarinesOf
  <1>7. Taken(a, b) /\ Spares(a, b)
    BY <1>1, <1>5, <1>6, SetMaxMarinesKeepsLimit
  <1> HIDE DEF b, others
  <1>8. Sound(b) /\ Commanded(b, others)
    BY <1>5, <1>6, <1>7, TakenOrders DEF Taken
  <1>9. Taken(b, squad') /\ Spares(b, squad')
    BY <1>1, <1>3, <1>8, SetMaxMarinesKeepsLimit
  <1>10. Sound(squad')
    BY <1>9 DEF Taken
  <1>11. Command!OthersKeepOne(p)
    <2>1. Chosen(squad, squad', p)
      BY <1>1, <1>4, <1>5, <1>7, <1>8, <1>9, HisAreChosen, TakenAreChosen
    <2> QED BY <1>1, <1>10, <2>1, OthersKeepTheirs DEF Chosen
  <1>12. ASSUME NEW i \in Profiles
         PROVE  \/ CommanderOf(i)' = CommanderOf(i) /\ CommanderOf(i) # p
                \/ CommanderOf(i)' = None
    <2>1. Owner(a, i) # p
      BY <1>4, <1>5, OwnersHaveMarines
    <2>2. Owner(a, i) = Owner(squad, i) \/ Owner(a, i) = None
      BY <1>4, <2>1 DEF HisOnly
    <2>3. Owner(b, i) \in {Owner(a, i), None} /\ Owner(squad', i) \in {Owner(b, i), None}
      BY <1>5, <1>7, <1>8, <1>9, TakenOwners
    <2> QED BY <2>1, <2>2, <2>3, CommanderIsOwner
  <1> QED BY <1>1, <1>2, <1>11, <1>12 DEF Command!Retire

LEMMA GameLeftRefines ==
    ASSUME LobbyInv, NEW p \in Clients, Leave(p), gameState # "BRIEFING"
    PROVE  Command!HandOver(p)
  <1> DEFINE others == Connected \ {p}
  <1>1. Sound(squad) /\ others \in SUBSET Clients /\ p \in Connected
    BY DEF LobbyInv, Connected, Leave
  <1>2. gameState' = gameState /\ Connected' = others
    BY DEF Leave, Connected, LobbyInv, TypeOK
  <1>3. squad' = ReassignMarines(squad, p, others)
    BY DEF Leave
  <1> HIDE DEF others
  <1>4. /\ Sound(squad')
        /\ \A k \in Slots : squad'.slots[k].profile = squad.slots[k].profile
        /\ \A k \in Slots : IF k \notin MarinesOf(squad, p) THEN squad'.slots[k] = squad.slots[k]
                            ELSE IF others = {} THEN squad'.slots[k].commander = None
                            ELSE squad'.slots[k].commander \in others
    BY <1>1, <1>3, ReassignChangesCommanders
  <1>5. Filled(squad') = Filled(squad)
    BY <1>4 DEF Filled
  <1>6. p # None
    BY LobbyConstants DEF Clients, None
  <1>7. ASSUME NEW i \in Profiles
        PROVE  IF Owner(squad, i) # p THEN Owner(squad', i) = Owner(squad, i)
               ELSE IF others = {} THEN Owner(squad', i) = None
               ELSE Owner(squad', i) \in others
    <2>1. CASE \A k \in Filled(squad) : squad.slots[k].profile # i
      <3>1. \A k \in Filled(squad') : squad'.slots[k].profile # i
        BY <1>4, <1>5, <2>1 DEF Filled
      <3>2. Owner(squad, i) = None /\ Owner(squad', i) = None
        BY <1>1, <1>4, <2>1, <3>1, OwnerIs
      <3> QED BY <1>6, <3>2
    <2>2. CASE \E k \in Filled(squad) : squad.slots[k].profile = i
      <3>1. PICK k \in Filled(squad) : squad.slots[k].profile = i
        BY <2>2
      <3>2. k \in Slots /\ k \in Filled(squad') /\ squad'.slots[k].profile = i
        BY <1>4, <1>5, <3>1 DEF Filled
      <3>3. Owner(squad, i) = squad.slots[k].commander /\ Owner(squad', i) = squad'.slots[k].commander
        BY <1>1, <1>4, <3>1, <3>2, OwnerIs
      <3>4. k \in MarinesOf(squad, p) <=> Owner(squad, i) = p
        BY <3>3 DEF MarinesOf
      <3> QED BY <1>4, <3>2, <3>3, <3>4
    <2> QED BY <2>1, <2>2
  <1>8. ASSUME NEW i \in Profiles
        PROVE  IF CommanderOf(i) # p THEN CommanderOf(i)' = CommanderOf(i)
               ELSE IF Connected' = {} THEN CommanderOf(i)' = None
               ELSE CommanderOf(i)' \in Connected'
    BY <1>2, <1>7, CommanderIsOwner
  <1>9. Connected' = Connected \ {p}
    BY <1>2 DEF others
  <1> QED BY <1>1, <1>2, <1>8, <1>9 DEF Command!HandOver

\* The players choose.
LEMMA ChoicesRefine ==
    ASSUME LobbyInv, NEW p \in Clients, NEW i \in Profiles,
           Deselect(p, i) \/ SelectSingle(p, i) \/ \E slot \in Slots \cup {None} : Select(p, i, slot)
    PROVE  Command!Choose(p)
  <1>1. gameState = "BRIEFING" /\ p \in Connected /\ UNCHANGED <<gameState, occupant>>
    BY DEF Deselect, SelectSingle, Select, players
  <1>2. Sound(squad) /\ Connected' = Connected
    BY <1>1 DEF LobbyInv, Connected
  <1>3. Sound(squad') /\ HisOnly(squad, squad', p)
    <2>1. CASE Deselect(p, i)
      <3>1. squad' = RosterDeselect(squad, p, i)
        BY <2>1 DEF Deselect
      <3>2. HisOnly(squad, squad', p) /\ Fewer(squad, squad')
        BY <1>2, <3>1, DeselectIsHis, DeselectTakesOne
      <3> QED BY <3>2 DEF Fewer, Taken
    <2>2. CASE SelectSingle(p, i)
      <3> DEFINE v == Visited(squad, p)
      <3>1. squad' = RosterSelect(v, p, occupant[p], i, None)
        BY <2>2, SelectSingleIs
      <3>2. Sound(v) /\ HisOnly(squad, v, p)
        BY <1>2, VisitedIsFewer DEF Fewer, Taken
      <3> HIDE DEF v
      <3>3. HisOnly(v, squad', p) /\ Grown(v, squad', p, occupant[p])
        BY <3>1, <3>2, SelectIsHis, SelectGrows
      <3> QED BY <3>2, <3>3, HisOnlyAgain DEF Grown
    <2>3. CASE \E slot \in Slots \cup {None} : Select(p, i, slot)
      <3>1. PICK slot \in Slots \cup {None} : Select(p, i, slot)
        BY <2>3
      <3>2. squad' = RosterSelect(squad, p, occupant[p], i, slot)
        BY <3>1 DEF Select
      <3>3. HisOnly(squad, squad', p) /\ Grown(squad, squad', p, occupant[p])
        BY <1>2, <3>2, SelectIsHis, SelectGrows
      <3> QED BY <3>3 DEF Grown
    <2> QED BY <2>1, <2>2, <2>3
  <1>4. Chosen(squad, squad', p)
    BY <1>2, <1>3, HisAreChosen
  <1> QED BY <1>1, <1>2, <1>3, <1>4, ChosenIsChoose

LEMMA StartIsBegin ==
    ASSUME LobbyInv, StartMission
    PROVE  Command!Begin
  <1>1. /\ gameState = "BRIEFING" /\ gameState' = "LAUNCHING" /\ Sound(squad)
        /\ Commanded(squad, Connected) /\ squad' = squad /\ Connected' = Connected
    BY DEF LobbyInv, Ordered, StartMission, players, Connected
  <1>2. PICK k \in Filled(squad) : squad.slots[k].commander \in Connected
    BY <1>1 DEF StartMission, Commanded
  <1>3. squad.slots[k].profile \in Profiles
    BY <1>1, <1>2, FilledCounted DEF Selected
  <1>4. CommanderOf(squad.slots[k].profile) # None
    <2>1. squad.slots[k].commander # None
      BY <1>2, LobbyConstants DEF Connected, Clients, None
    <2> QED BY <1>1, <2>1, OwnerIs, CommanderIsOwner
  <1>5. \A i \in Profiles : CommanderOf(i)' = CommanderOf(i)
    BY <1>1, CommanderIsOwner
  <1> QED BY <1>1, <1>3, <1>4, <1>5 DEF Command!Begin

\* A leader, a request and the passing of time change no commander.
LEMMA OthersStutter ==
    ASSUME LobbyInv,
           \/ \E p \in Clients : LeaderElected(p) \/ RequestStart(p)
           \/ ReserveTimeUp \/ UpdateLaunching \/ UNCHANGED vars
    PROVE  UNCHANGED <<gameState # "BRIEFING", Connected, [i \in Profiles |-> CommanderOf(i)]>>
  <1>1. occupant' = occupant /\ (gameState # "BRIEFING")' = (gameState # "BRIEFING")
    BY DEF LeaderElected, RequestStart, ReserveTimeUp, UpdateLaunching, players, vars
  <1>2. squad'.slots = squad.slots
    <2>1. CASE ReserveTimeUp
      BY <2>1 DEF ReserveTimeUp, LobbyInv, TypeOK, Squads
    <2>2. CASE ~ReserveTimeUp
      BY <2>2 DEF LeaderElected, RequestStart, UpdateLaunching, vars
    <2> QED BY <2>1, <2>2
  <1>3. \A i \in Profiles : CommanderOf(i)' = CommanderOf(i)
    <2>1. Filled(squad') = Filled(squad)
      BY <1>2 DEF Filled
    <2>2. \A i \in Profiles : Owner(squad', i) = Owner(squad, i)
      BY <1>2, <2>1 DEF Owner
    <2> QED BY <2>2, CommanderIsOwner
  <1> QED BY <1>1, <1>3 DEF Connected

\* The lobby implements MarineCommand where the map has a place for each player:
\* nobody is robbed of his last marine by what others do, who left commands none,
\* and marines are orphaned only when the server empties.
THEOREM LobbyImplementsCommand == MaxClients <= PlayerStarts => (Spec => FollowsCommand)
  <1> SUFFICES ASSUME MaxClients <= PlayerStarts PROVE Spec => FollowsCommand
    OBVIOUS
  <1>1. Init => Command!Init
    <2> SUFFICES ASSUME Init PROVE Command!Init
      OBVIOUS
    <2>1. Connected = {} /\ gameState = "BRIEFING"
      BY DEF Init, Connected
    <2>2. Filled(squad) = {}
      BY DEF Init, Filled, Vacant
    <2>3. \A i \in Profiles : CommanderOf(i) = None
      BY <2>2 DEF CommanderOf
    <2> QED BY <2>1, <2>3 DEF Command!Init
  <1>2. ASSUME LobbyInv, [Next]_vars
        PROVE  [Command!Next]_<<gameState # "BRIEFING", Connected, [i \in Profiles |-> CommanderOf(i)]>>
    <2>1. CASE \E p \in Clients : \E person \in Seats[p] : Join(p, person)
      BY <1>2, <2>1, JoinRefines DEF Command!Next
    <2>2. CASE \E p \in Clients : Leave(p)
      BY <1>2, <2>2, BriefingLeftRefines, GameLeftRefines DEF Command!Next
    <2>3. CASE \E p \in Clients, i \in Profiles :
                  \/ Deselect(p, i) \/ SelectSingle(p, i)
                  \/ \E slot \in Slots \cup {None} : Select(p, i, slot)
      BY <1>2, <2>3, ChoicesRefine DEF Command!Next
    <2>4. CASE \E p \in Clients : ToggleReady(p) \/ Spectate(p)
      <3>1. PICK p \in Clients : ToggleReady(p) \/ Spectate(p)
        BY <2>4
      <3>2. Command!Choose(p)
        BY <1>2, <3>1, LimitIsChoose DEF ToggleReady, Spectate
      <3> QED BY <3>2 DEF Command!Next
    <2>5. CASE ForceStart
      <3>1. gameState = "BRIEFING" /\ Filled(squad) # {}
        BY <2>5 DEF ForceStart
      <3>2. PICK p \in Connected : TRUE
        BY <1>2, <3>1 DEF LobbyInv, Ordered, Commanded
      <3>3. Command!Choose(p) /\ p \in Clients
        BY <1>2, <2>5, <3>2, LimitIsChoose DEF ForceStart, players, Connected
      <3> QED BY <3>3 DEF Command!Next
    <2>6. CASE StartMission
      BY <1>2, <2>6, StartIsBegin DEF Command!Next
    <2>7. CASE \/ \E p \in Clients : LeaderElected(p) \/ RequestStart(p)
               \/ ReserveTimeUp \/ UpdateLaunching \/ UNCHANGED vars
      BY <1>2, <2>7, OthersStutter
    <2> QED BY <1>2, <2>1, <2>2, <2>3, <2>4, <2>5, <2>6, <2>7, Zenon DEF Next, Think
  <1> QED BY Invariance, <1>1, <1>2, PTL DEF Spec, FollowsCommand, Command!Spec

=============================================================================
