----------------------------- MODULE MarineCommand -----------------------------
(***************************************************************************)
(* What the lobby promises: a marine has at most one commander, and he is   *)
(* there.  Nobody takes a marine from somebody else, and nobody loses his    *)
(* last one to what others do; in the game a marine only changes hands when *)
(* its commander leaves, and goes to a player who stays.                    *)
(***************************************************************************)
CONSTANTS Marines, Players, NoOne

VARIABLES
    playing,
    present,        \* the players who are there
    commander       \* of each marine, or NoOne

Init ==
    /\ playing = FALSE
    /\ present = {}
    /\ commander = [m \in Marines |-> NoOne]

\* A marine at least for everybody who had one: the limit takes no more.
OthersKeepOne(p) ==
    \A q \in Players \ {p} : (\E m \in Marines : commander[m] = q)
                                => \E m \in Marines : commander'[m] = q

\* A player takes marines that are free; others may lose some to the limit.
Choose(p) ==
    /\ ~playing /\ UNCHANGED playing
    /\ present' \in {present, present \cup {p}}
    /\ p \in present' /\ OthersKeepOne(p)
    /\ \A m \in Marines : \/ commander'[m] = commander[m]
                          \/ commander'[m] = NoOne
                          \/ commander[m] = NoOne /\ commander'[m] = p

\* Who leaves the briefing gives his marines up.
Retire(p) ==
    /\ ~playing /\ p \in present
    /\ UNCHANGED playing
    /\ present' = present \ {p} /\ OthersKeepOne(p)
    /\ \A m \in Marines : \/ commander'[m] = commander[m] /\ commander[m] # p
                          \/ commander'[m] = NoOne

Begin ==
    /\ ~playing /\ \E m \in Marines : commander[m] # NoOne
    /\ playing' = TRUE
    /\ UNCHANGED <<present, commander>>

Arrive(p) ==
    /\ playing /\ present' = present \cup {p}
    /\ UNCHANGED <<playing, commander>>

\* Who leaves the game passes his marines on, if there is anybody.
HandOver(p) ==
    /\ playing /\ p \in present
    /\ UNCHANGED playing
    /\ present' = present \ {p}
    /\ \A m \in Marines : IF commander[m] # p THEN commander'[m] = commander[m]
                          ELSE IF present' = {} THEN commander'[m] = NoOne
                          ELSE commander'[m] \in present'

Next == Begin \/ \E p \in Players : Choose(p) \/ Retire(p) \/ Arrive(p) \/ HandOver(p)

Spec == Init /\ [][Next]_<<playing, present, commander>>
=============================================================================
