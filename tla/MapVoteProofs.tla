------------------------------ MODULE MapVoteProofs ------------------------------
(***************************************************************************)
(* Proofs about MapVote, for every finite set of persons, every fraction    *)
(* and every duration.  A tally is wrong only when somebody is remembered   *)
(* under both of his network IDs, and even then it counts nobody too few;   *)
(* MInv states both, with the ID under which everybody whose vote stands is *)
(* remembered, and is inductive.  What the code promises where nobody was   *)
(* validated late follows from it.                                          *)
(***************************************************************************)
EXTENDS MapVote, FiniteSetTheorems, TLAPS

VotedFor(players, voted, choice) == {p \in players : voted[p] = choice}

\* Somebody has voted under his address and under his Steam ID.
Twice(ids) == \E p \in Persons : <<p, "address">> \in ids /\ <<p, "steam">> \in ids

Remembered(players, valid, voted, ids) ==
    \A p \in players : voted[p] # NotVoted =>
        <<p, "address">> \in ids \/ (p \in valid /\ <<p, "steam">> \in ids)

\* No vote is missing, and unless somebody is remembered twice none is too many.
Counted(players, voted, y, n) ==
    /\ y = Cardinality(VotedFor(players, voted, VotedYes))
    /\ n = Cardinality(VotedFor(players, voted, VotedNo))

Ballots(players, valid, voted, y, n, ids) ==
    /\ Remembered(players, valid, voted, ids)
    /\ y >= Cardinality(VotedFor(players, voted, VotedYes))
    /\ n >= Cardinality(VotedFor(players, voted, VotedNo))
    /\ ~Twice(ids) => Counted(players, voted, y, n)

Choices == {NotVoted, VotedNo, VotedYes}
IDs == Persons \X {"steam", "address"}

MInv ==
    /\ TypeOK
    /\ \A p \in Persons \ connected : mapVoted[p] = NotVoted
    /\ voteType # "none" => Ballots(connected, validated, mapVoted, yes, no, playersVoted)

-----------------------------------------------------------------------------
(* Counting.                                                                *)

LEMMA FiniteVoters ==
    ASSUME NEW S \in SUBSET Persons
    PROVE  IsFiniteSet(S) /\ Cardinality(S) \in Nat
  BY VoteConstants, FS_Subset, FS_CardinalityType

\* A vote that is cast joins those for its choice; the voter leaves the others.
LEMMA CastCount ==
    ASSUME NEW players \in SUBSET Persons, NEW voted \in [Persons -> Choices], NEW p \in players,
           NEW choice \in {VotedNo, VotedYes}, NEW c \in {VotedNo, VotedYes}
    PROVE  LET before == Cardinality(VotedFor(players, voted, c))
               after == Cardinality(VotedFor(players, [voted EXCEPT ![p] = choice], c))
           IN  /\ before \in Nat /\ after \in Nat
               /\ after <= before + (IF choice = c THEN 1 ELSE 0)
               /\ voted[p] = NotVoted => after = before + (IF choice = c THEN 1 ELSE 0)
  <1> DEFINE B == VotedFor(players, voted, c)
             A == VotedFor(players, [voted EXCEPT ![p] = choice], c)
  <1>1. /\ IsFiniteSet(A) /\ IsFiniteSet(B)
        /\ Cardinality(A) \in Nat /\ Cardinality(B) \in Nat
    BY FiniteVoters DEF VotedFor
  <1>2. CASE choice = c
    <2>1. A = B \cup {p} /\ (voted[p] = NotVoted => p \notin B)
      BY <1>2 DEF VotedFor, NotVoted, VotedNo, VotedYes
    <2> HIDE DEF A, B
    <2>2. Cardinality(A) = IF p \in B THEN Cardinality(B) ELSE Cardinality(B) + 1
      BY <1>1, <2>1, FS_AddElement
    <2> QED BY <1>1, <1>2, <2>1, <2>2 DEF A, B
  <1>3. CASE choice # c
    <2>1. A = B \ {p} /\ (voted[p] = NotVoted => A = B)
      BY <1>3 DEF VotedFor, NotVoted, VotedNo, VotedYes
    <2>2. A \subseteq B
      BY <2>1
    <2> HIDE DEF A, B
    <2>3. Cardinality(A) <= Cardinality(B)
      BY <1>1, <2>2, FS_Subset
    <2> QED BY <1>1, <1>3, <2>1, <2>3 DEF A, B
  <1> QED BY <1>2, <1>3

\* Who leaves takes his vote with him and no other.
LEMMA RemoveCount ==
    ASSUME NEW players \in SUBSET Persons, NEW voted \in [Persons -> Choices], NEW p \in players,
           NEW c \in {VotedNo, VotedYes}
    PROVE  LET before == Cardinality(VotedFor(players, voted, c))
               new == [voted EXCEPT ![p] = NotVoted]
           IN  /\ before \in Nat
               /\ before - (IF voted[p] = c THEN 1 ELSE 0) \in Nat
               /\ VotedFor(players \ {p}, new, c) = VotedFor(players, new, c)
               /\ Cardinality(VotedFor(players, new, c)) = before - (IF voted[p] = c THEN 1 ELSE 0)
  <1> DEFINE B == VotedFor(players, voted, c)
             new == [voted EXCEPT ![p] = NotVoted]
             A == VotedFor(players, new, c)
  <1>1. /\ IsFiniteSet(B) /\ Cardinality(B) \in Nat /\ Cardinality(A) \in Nat
    BY FiniteVoters DEF VotedFor
  <1>2. A = B \ {p} /\ (p \in B <=> voted[p] = c) /\ VotedFor(players \ {p}, new, c) = A
    BY DEF VotedFor, NotVoted, VotedNo, VotedYes
  <1> HIDE DEF A, B
  <1>3. Cardinality(A) = IF p \in B THEN Cardinality(B) - 1 ELSE Cardinality(B)
    BY <1>1, <1>2, FS_RemoveElement
  <1> QED BY <1>1, <1>2, <1>3 DEF A, B

-----------------------------------------------------------------------------
(* The votes needed are the ceiling of the fraction, and one at least.      *)

LEMMA Ceiling ==
    ASSUME NEW n \in Nat
    PROVE  /\ NeededVotes(n) \in Nat \ {0}
           /\ \A y \in Nat : y >= NeededVotes(n) => FractionDen * y >= FractionNum * n
           /\ \A y \in Nat : y < NeededVotes(n) /\ FractionNum * n > 0 => FractionDen * y < FractionNum * n
  <1> DEFINE m == FractionNum * n
             r == m \div FractionDen
             floor == IF r < 1 THEN 1 ELSE r
             needed == IF m > floor * FractionDen THEN floor + 1 ELSE floor
  <1>1. FractionDen \in Nat \ {0} /\ m \in Nat
    BY VoteConstants
  <1>2. NeededVotes(n) = needed
    BY DEF NeededVotes
  <1> HIDE DEF m
  <1>3. r \in Nat /\ FractionDen * r <= m /\ m < FractionDen * r + FractionDen
    BY <1>1
  <1> HIDE DEF r
  <1>4. floor \in Nat \ {0} /\ (floor = r \/ (r = 0 /\ floor = 1))
    BY <1>3
  <1> HIDE DEF floor
  <1>5. floor * FractionDen = FractionDen * floor /\ FractionDen * (floor + 1) = FractionDen * floor + FractionDen
    BY <1>1, <1>4
  <1>6. needed \in Nat \ {0} /\ FractionDen * needed >= m
    BY <1>1, <1>3, <1>4, <1>5
  <1>7. m > 0 => FractionDen * (needed - 1) < m
    BY <1>1, <1>3, <1>4, <1>5
  <1> HIDE DEF needed
  <1>8. ASSUME NEW y \in Nat, y >= needed PROVE FractionDen * y >= m
    <2>1. FractionDen * y >= FractionDen * needed
      BY <1>1, <1>6, <1>8
    <2> QED BY <1>1, <1>6, <2>1
  <1>9. ASSUME NEW y \in Nat, y < needed, m > 0 PROVE FractionDen * y < m
    <2>1. y <= needed - 1 /\ needed - 1 \in Nat
      BY <1>6, <1>9
    <2>2. FractionDen * y <= FractionDen * (needed - 1)
      BY <1>1, <2>1
    <2> QED BY <1>1, <1>7, <1>9, <2>1, <2>2
  <1> QED BY <1>2, <1>6, <1>8, <1>9 DEF m

-----------------------------------------------------------------------------
(* UpdateVote.                                                              *)

\* UpdateVote ends the vote or keeps it with the tallies it was given.
LEMMA UpdateOutcome ==
    ASSUME NEW type \in VoteTypes, NEW y, NEW n, NEW left, NEW ids, UpdateVote(type, y, n, left, ids)
    PROVE  \/ voteType' = "none" /\ yes' = 0 /\ no' = 0 /\ timeLeft' = 0 /\ playersVoted' = {}
           \/ voteType' = type /\ yes' = y /\ no' = n /\ timeLeft' = left /\ playersVoted' = ids
  BY DEF UpdateVote, PassVote, ClearVote, KeepVote

LEMMA UpdateLevelChange ==
    ASSUME TypeOK, NEW type, NEW y, NEW n, NEW left, NEW ids, UpdateVote(type, y, n, left, ids),
           saveExists' \in BOOLEAN
    PROVE  levelChange' \in BOOLEAN
  BY DEF UpdateVote, PassVote, ClearVote, KeepVote, TypeOK

\* What keeps MInv: a vote that is updated with ballots that are in order.
LEMMA Updated ==
    ASSUME TypeOK, NEW type \in VoteTypes, NEW y \in Nat, NEW n \in Nat, NEW left \in 0..VoteDuration,
           NEW ids \in SUBSET IDs, UpdateVote(type, y, n, left, ids),
           saveExists' \in BOOLEAN,
           connected' \subseteq Persons, validated' \subseteq connected', mapVoted' \in [Persons -> Choices],
           \A p \in Persons \ connected' : mapVoted'[p] = NotVoted,
           Ballots(connected', validated', mapVoted', y, n, ids)
    PROVE  MInv'
  <1>1. levelChange' \in BOOLEAN
    BY UpdateLevelChange
  <1>2. 0 \in 0..VoteDuration /\ "none" \notin VoteTypes
    BY VoteConstants DEF VoteTypes
  <1>3. CASE voteType' = "none" /\ yes' = 0 /\ no' = 0 /\ timeLeft' = 0 /\ playersVoted' = {}
    BY <1>1, <1>2, <1>3 DEF MInv, TypeOK, Choices
  <1>4. CASE voteType' = type /\ yes' = y /\ no' = n /\ timeLeft' = left /\ playersVoted' = ids
    <2>1. Ballots(connected', validated', mapVoted', yes', no', playersVoted')
      BY <1>4, Zenon
    <2>2. TypeOK'
      BY <1>1, <1>4 DEF TypeOK, Choices, IDs
    <2> QED BY <2>1, <2>2 DEF MInv
  <1> QED BY <1>3, <1>4, UpdateOutcome

-----------------------------------------------------------------------------
(* Ballots that are in order stay so.                                       *)

\* StartVote: one vote, remembered.
LEMMA FirstBallot ==
    ASSUME TypeOK, NEW p \in connected
    PROVE  LET voted == [q \in Persons |-> IF q = p THEN VotedYes ELSE NotVoted] IN
           /\ voted \in [Persons -> Choices] /\ {NetworkID(p)} \in SUBSET IDs
           /\ Counted(connected, voted, 1, 0)
           /\ Ballots(connected, validated, voted, 1, 0, {NetworkID(p)})
  <1> DEFINE voted == [q \in Persons |-> IF q = p THEN VotedYes ELSE NotVoted]
  <1>1. p \in Persons /\ connected \subseteq Persons
    BY DEF TypeOK
  <1>2. VotedFor(connected, voted, VotedYes) = {p} /\ VotedFor(connected, voted, VotedNo) = {}
    BY <1>1 DEF VotedFor, NotVoted, VotedNo, VotedYes
  <1>3. Cardinality({p}) = 1 /\ Cardinality({}) = 0
    BY FS_Singleton, FS_EmptySet
  <1>4. Remembered(connected, validated, voted, {NetworkID(p)})
    BY <1>1 DEF Remembered, NetworkID
  <1>5. voted \in [Persons -> Choices] /\ {NetworkID(p)} \in SUBSET IDs
    BY <1>1 DEF NetworkID, IDs, Choices
  <1>6. Counted(connected, voted, 1, 0)
    BY <1>2, <1>3 DEF Counted
  <1>7. Ballots(connected, validated, voted, 1, 0, {NetworkID(p)})
    BY <1>2, <1>3, <1>4, <1>6 DEF Ballots
  <1> QED BY <1>5, <1>6, <1>7, Zenon

\* CastVote counts the vote once, unless the voter is remembered twice by then.
LEMMA BallotCast ==
    ASSUME MInv, voteType # "none", NEW p \in connected, NEW choice \in {VotedNo, VotedYes},
           NetworkID(p) \notin playersVoted
    PROVE  LET voted == [mapVoted EXCEPT ![p] = choice]
               y == yes + (IF choice = VotedYes THEN 1 ELSE 0)
               n == no + (IF choice = VotedNo THEN 1 ELSE 0)
               ids == playersVoted \cup {NetworkID(p)}
           IN  /\ voted \in [Persons -> Choices] /\ ids \in SUBSET IDs /\ y \in Nat /\ n \in Nat
               /\ Ballots(connected, validated, voted, y, n, ids)
               /\ ~LateVoter => Counted(connected, voted, y, n)
  <1> DEFINE voted == [mapVoted EXCEPT ![p] = choice]
             y == yes + (IF choice = VotedYes THEN 1 ELSE 0)
             n == no + (IF choice = VotedNo THEN 1 ELSE 0)
             ids == playersVoted \cup {NetworkID(p)}
  <1>1. /\ p \in Persons /\ connected \in SUBSET Persons /\ validated \subseteq connected
        /\ mapVoted \in [Persons -> Choices]
        /\ yes \in Nat /\ no \in Nat /\ playersVoted \in SUBSET IDs
    BY DEF MInv, TypeOK, Choices, IDs
  <1>2. Ballots(connected, validated, mapVoted, yes, no, playersVoted)
    BY DEF MInv
  <1>3. voted \in [Persons -> Choices] /\ ids \in SUBSET IDs /\ y \in Nat /\ n \in Nat
    BY <1>1 DEF NetworkID, IDs, Choices
  <1>4. VotedYes \in {VotedNo, VotedYes} /\ VotedNo \in {VotedNo, VotedYes}
    OBVIOUS
  <1>5. Remembered(connected, validated, voted, ids)
    BY <1>1, <1>2 DEF Ballots, Remembered, NetworkID
  <1>6. /\ y >= Cardinality(VotedFor(connected, voted, VotedYes))
        /\ n >= Cardinality(VotedFor(connected, voted, VotedNo))
    <2> DEFINE Before(c) == Cardinality(VotedFor(connected, mapVoted, c))
               After(c) == Cardinality(VotedFor(connected, voted, c))
    <2>1. /\ Before(VotedYes) \in Nat /\ After(VotedYes) \in Nat
          /\ After(VotedYes) <= Before(VotedYes) + (IF choice = VotedYes THEN 1 ELSE 0)
      BY <1>1, <1>4, CastCount
    <2>2. /\ Before(VotedNo) \in Nat /\ After(VotedNo) \in Nat
          /\ After(VotedNo) <= Before(VotedNo) + (IF choice = VotedNo THEN 1 ELSE 0)
      BY <1>1, <1>4, CastCount
    <2>3. yes >= Before(VotedYes) /\ no >= Before(VotedNo)
      BY <1>2 DEF Ballots
    <2> HIDE DEF Before, After
    <2>4. y >= After(VotedYes) /\ n >= After(VotedNo)
      BY <1>1, <2>1, <2>2, <2>3
    <2> QED BY <2>4 DEF After
  <1>7. ASSUME mapVoted[p] = NotVoted, Counted(connected, mapVoted, yes, no)
        PROVE  Counted(connected, voted, y, n)
    BY <1>1, <1>4, <1>7, CastCount DEF Counted
  <1>8. ASSUME ~Twice(ids) PROVE Counted(connected, voted, y, n)
    <2>1. mapVoted[p] = NotVoted
      BY <1>1, <1>2, <1>8 DEF Ballots, Remembered, Twice, NetworkID
    <2>2. ~Twice(playersVoted)
      BY <1>8 DEF Twice
    <2> QED BY <1>2, <1>7, <2>1, <2>2 DEF Ballots
  <1>9. ASSUME ~LateVoter PROVE Counted(connected, voted, y, n)
    <2>1. mapVoted[p] = NotVoted
      BY <1>1, <1>2, <1>9 DEF Ballots, Remembered, LateVoter, NetworkID
    <2>2. ~Twice(playersVoted)
      BY <1>9 DEF Twice, LateVoter
    <2> QED BY <1>2, <1>7, <2>1, <2>2 DEF Ballots
  <1>10. Ballots(connected, validated, voted, y, n, ids)
    BY <1>5, <1>6, <1>8, Zenon DEF Ballots
  <1> QED BY <1>3, <1>9, <1>10, Zenon

\* RemoveVote takes back the vote of the player who leaves, and no other.
LEMMA BallotRemoved ==
    ASSUME MInv, voteType # "none", NEW p \in connected
    PROVE  LET voted == [mapVoted EXCEPT ![p] = NotVoted]
               y == yes - (IF mapVoted[p] = VotedYes THEN 1 ELSE 0)
               n == no - (IF mapVoted[p] = VotedNo THEN 1 ELSE 0)
           IN  /\ y \in Nat /\ n \in Nat
               /\ Ballots(connected \ {p}, validated \ {p}, voted, y, n, playersVoted)
               /\ ~LateVoter => Counted(connected, voted, y, n)
  <1> DEFINE voted == [mapVoted EXCEPT ![p] = NotVoted]
             y == yes - (IF mapVoted[p] = VotedYes THEN 1 ELSE 0)
             n == no - (IF mapVoted[p] = VotedNo THEN 1 ELSE 0)
             Y == VotedFor(connected, mapVoted, VotedYes)
             N == VotedFor(connected, mapVoted, VotedNo)
             Y2 == VotedFor(connected, voted, VotedYes)
             N2 == VotedFor(connected, voted, VotedNo)
  <1>1. /\ p \in Persons /\ connected \in SUBSET Persons /\ validated \subseteq connected
        /\ mapVoted \in [Persons -> Choices] /\ yes \in Nat /\ no \in Nat
    BY DEF MInv, TypeOK, Choices
  <1>2. Ballots(connected, validated, mapVoted, yes, no, playersVoted)
    BY DEF MInv
  <1>3. /\ Cardinality(Y) \in Nat /\ Cardinality(Y) - (IF mapVoted[p] = VotedYes THEN 1 ELSE 0) \in Nat
        /\ VotedFor(connected \ {p}, voted, VotedYes) = Y2
        /\ Cardinality(Y2) = Cardinality(Y) - (IF mapVoted[p] = VotedYes THEN 1 ELSE 0)
    BY <1>1, RemoveCount
  <1>4. /\ Cardinality(N) \in Nat /\ Cardinality(N) - (IF mapVoted[p] = VotedNo THEN 1 ELSE 0) \in Nat
        /\ VotedFor(connected \ {p}, voted, VotedNo) = N2
        /\ Cardinality(N2) = Cardinality(N) - (IF mapVoted[p] = VotedNo THEN 1 ELSE 0)
    BY <1>1, RemoveCount
  <1>5. Remembered(connected \ {p}, validated \ {p}, voted, playersVoted)
    BY <1>1, <1>2 DEF Ballots, Remembered
  <1>6. yes >= Cardinality(Y) /\ no >= Cardinality(N)
    BY <1>2 DEF Ballots
  <1>7. ~Twice(playersVoted) => yes = Cardinality(Y) /\ no = Cardinality(N)
    BY <1>2 DEF Ballots, Counted
  <1> HIDE DEF Y, N, Y2, N2
  <1>8. y \in Nat /\ n \in Nat /\ y >= Cardinality(Y2) /\ n >= Cardinality(N2)
    BY <1>1, <1>3, <1>4, <1>6
  <1>9. ~Twice(playersVoted) => y = Cardinality(Y2) /\ n = Cardinality(N2)
    BY <1>3, <1>4, <1>7
  <1> HIDE DEF y, n, voted
  <1>10. Ballots(connected \ {p}, validated \ {p}, voted, y, n, playersVoted)
    BY <1>3, <1>4, <1>5, <1>8, <1>9 DEF Ballots, Counted
  <1>11. ~LateVoter => Counted(connected, voted, y, n)
    BY <1>9 DEF Counted, Twice, LateVoter, Y2, N2
  <1> QED BY <1>8, <1>10, <1>11, Zenon DEF voted, y, n

-----------------------------------------------------------------------------
(* The actions.                                                             *)

LEMMA RequestVoteStep == MInv /\ RequestVote => MInv'
  <1> SUFFICES ASSUME MInv, RequestVote PROVE MInv'
    OBVIOUS
  <1>1. PICK p \in connected, type \in VoteTypes : saveExists' = (type = "saved") /\ StartVote(p, type)
    BY DEF RequestVote
  <1> DEFINE voted == [q \in Persons |-> IF q = p THEN VotedYes ELSE NotVoted]
  <1>2. TypeOK /\ UNCHANGED <<connected, validated>>
    BY DEF MInv, RequestVote
  <1>3. mapVoted' = voted /\ UpdateVote(type, 1, 0, VoteDuration, {NetworkID(p)})
    BY <1>1, Zenon DEF StartVote
  <1>4. /\ voted \in [Persons -> Choices] /\ {NetworkID(p)} \in SUBSET IDs
        /\ Ballots(connected, validated, voted, 1, 0, {NetworkID(p)})
    BY <1>2, FirstBallot, Zenon
  <1>5. Ballots(connected', validated', mapVoted', 1, 0, {NetworkID(p)})
    BY <1>2, <1>3, <1>4, Zenon
  <1>6. \A q \in Persons \ connected' : mapVoted'[q] = NotVoted
    BY <1>2, <1>3
  <1>7. VoteDuration \in 0..VoteDuration /\ saveExists' \in BOOLEAN /\ 1 \in Nat /\ 0 \in Nat
    BY <1>1, VoteConstants
  <1>8. connected' \subseteq Persons /\ validated' \subseteq connected' /\ mapVoted' \in [Persons -> Choices]
    BY <1>2, <1>3, <1>4, Zenon DEF TypeOK
  <1> HIDE DEF voted
  <1> QED BY <1>2, <1>3, <1>4, <1>5, <1>6, <1>7, <1>8, Updated, Zenon

LEMMA VoteStep == MInv /\ Vote => MInv'
  <1> SUFFICES ASSUME MInv, Vote PROVE MInv'
    OBVIOUS
  <1>1. PICK p \in connected, choice \in {VotedNo, VotedYes} : CastVote(p, choice)
    BY DEF Vote
  <1> DEFINE voted == [mapVoted EXCEPT ![p] = choice]
             y == yes + (IF choice = VotedYes THEN 1 ELSE 0)
             n == no + (IF choice = VotedNo THEN 1 ELSE 0)
             ids == playersVoted \cup {NetworkID(p)}
  <1>2. TypeOK /\ voteType # "none" /\ UNCHANGED <<connected, validated, saveExists>>
    BY DEF MInv, Vote
  <1>3. NetworkID(p) \notin playersVoted /\ mapVoted' = voted /\ UpdateVote(voteType, y, n, timeLeft, ids)
    BY <1>1, Zenon DEF CastVote
  <1>4. /\ voted \in [Persons -> Choices] /\ ids \in SUBSET IDs /\ y \in Nat /\ n \in Nat
        /\ Ballots(connected, validated, voted, y, n, ids)
    BY <1>2, <1>3, BallotCast, Zenon
  <1>5. \A q \in Persons \ connected' : mapVoted'[q] = NotVoted
    BY <1>2, <1>3 DEF MInv, TypeOK
  <1>6. voteType \in VoteTypes /\ timeLeft \in 0..VoteDuration /\ saveExists' \in BOOLEAN
    BY <1>2 DEF TypeOK
  <1>7. connected' \subseteq Persons /\ validated' \subseteq connected' /\ mapVoted' \in [Persons -> Choices]
    BY <1>2, <1>3, <1>4, Zenon DEF TypeOK
  <1> HIDE DEF voted, y, n, ids
  <1>8. Ballots(connected', validated', mapVoted', y, n, ids)
    BY <1>2, <1>3, <1>4, Zenon
  <1> QED BY <1>2, <1>3, <1>4, <1>5, <1>6, <1>7, <1>8, Updated, Zenon

LEMMA DisconnectStep == MInv /\ Disconnect => MInv'
  <1> SUFFICES ASSUME MInv, NEW p \in connected, ClientDisconnected(p) PROVE MInv'
    BY DEF Disconnect
  <1> DEFINE voted == [mapVoted EXCEPT ![p] = NotVoted]
             y == yes - (IF mapVoted[p] = VotedYes THEN 1 ELSE 0)
             n == no - (IF mapVoted[p] = VotedNo THEN 1 ELSE 0)
  <1>1. /\ TypeOK /\ UNCHANGED saveExists /\ mapVoted' = voted
        /\ connected' = connected \ {p} /\ validated' = validated \ {p}
    BY DEF MInv, ClientDisconnected
  <1>2. \A q \in Persons \ connected' : mapVoted'[q] = NotVoted
    BY <1>1 DEF MInv, TypeOK
  <1>3. connected' \subseteq Persons /\ validated' \subseteq connected' /\ mapVoted' \in [Persons -> Choices]
    BY <1>1 DEF TypeOK, Choices, NotVoted
  <1>4. voteType # "none" =>
           /\ y \in Nat /\ n \in Nat
           /\ Ballots(connected', validated', mapVoted', y, n, playersVoted)
    BY <1>1, BallotRemoved, Zenon
  <1>5. CASE voteType # "none" /\ RemoveVote(p)
    <2>1. UpdateVote(voteType, y, n, timeLeft, playersVoted)
      BY <1>5, Zenon DEF RemoveVote
    <2>2. /\ voteType \in VoteTypes /\ timeLeft \in 0..VoteDuration /\ saveExists' \in BOOLEAN
          /\ playersVoted \in SUBSET IDs
      BY <1>1, <1>5 DEF TypeOK, IDs
    <2> HIDE DEF voted, y, n
    <2> QED BY <1>1, <1>2, <1>3, <1>4, <1>5, <2>1, <2>2, Updated, Zenon
  <1>6. CASE /\ voteType = "none" \/ mapVoted[p] = NotVoted
             /\ UNCHANGED <<vote, levelChange>>
    <2>1. UNCHANGED <<voteType, yes, no, timeLeft, playersVoted, levelChange>>
      BY <1>6 DEF vote, tally
    <2>2. ASSUME voteType # "none" PROVE y = yes /\ n = no
      BY <1>1, <1>6, <2>2 DEF TypeOK, NotVoted, VotedNo, VotedYes
    <2>3. TypeOK'
      BY <1>1, <1>3, <2>1 DEF TypeOK, Choices
    <2> HIDE DEF y, n
    <2>4. voteType # "none" => Ballots(connected', validated', mapVoted', yes, no, playersVoted)
      BY <1>4, <2>2, Zenon
    <2> QED BY <1>2, <2>1, <2>3, <2>4 DEF MInv
  <1> QED BY <1>5, <1>6 DEF ClientDisconnected

LEMMA ThinkStep == MInv /\ Think => MInv'
  <1> SUFFICES ASSUME MInv, Think PROVE MInv'
    OBVIOUS
  <1>1. /\ TypeOK /\ voteType # "none" /\ UNCHANGED <<connected, validated, mapVoted, saveExists>>
        /\ UpdateVote(voteType, yes, no, timeLeft, playersVoted)
    BY DEF MInv, Think
  <1>2. /\ Ballots(connected', validated', mapVoted', yes, no, playersVoted)
        /\ \A q \in Persons \ connected' : mapVoted'[q] = NotVoted
    BY <1>1 DEF MInv
  <1>3. /\ voteType \in VoteTypes /\ timeLeft \in 0..VoteDuration /\ saveExists' \in BOOLEAN
        /\ playersVoted \in SUBSET IDs /\ yes \in Nat /\ no \in Nat
        /\ connected' \subseteq Persons /\ validated' \subseteq connected' /\ mapVoted' \in [Persons -> Choices]
    BY <1>1 DEF TypeOK, IDs, Choices
  <1> QED BY <1>1, <1>2, <1>3, Updated, Zenon

\* Who comes has no vote yet; who is validated stays remembered.
LEMMA PersonStep == MInv /\ (PlayerSpawn \/ Validate) => MInv'
  <1> SUFFICES ASSUME MInv, PlayerSpawn \/ Validate PROVE MInv'
    OBVIOUS
  <1>1. PICK p \in Persons :
           /\ connected' = connected \/ (p \notin connected /\ connected' = connected \cup {p})
           /\ validated' = validated \/ (p \in connected' /\ validated' = validated \cup {p})
    BY DEF PlayerSpawn, Validate, MInv, TypeOK
  <1>2. UNCHANGED <<mapVoted, voteType, yes, no, timeLeft, playersVoted, saveExists, levelChange>>
    BY DEF PlayerSpawn, Validate, vote, tally
  <1>3. TypeOK'
    BY <1>1, <1>2 DEF MInv, TypeOK
  <1>4. \A c \in {VotedYes, VotedNo} : VotedFor(connected', mapVoted, c) = VotedFor(connected, mapVoted, c)
    BY <1>1 DEF MInv, VotedFor, NotVoted, VotedYes, VotedNo
  <1>5. ASSUME voteType # "none" PROVE Ballots(connected', validated', mapVoted, yes, no, playersVoted)
    <2>1. Ballots(connected, validated, mapVoted, yes, no, playersVoted)
      BY <1>5 DEF MInv
    <2>2. Remembered(connected', validated', mapVoted, playersVoted)
      BY <1>1, <2>1 DEF Ballots, Remembered, MInv
    <2> QED BY <1>4, <2>1, <2>2 DEF Ballots, Counted
  <1> QED BY <1>1, <1>2, <1>3, <1>5 DEF MInv

LEMMA TickStep == MInv /\ Tick => MInv'
  <1> SUFFICES ASSUME MInv, Tick PROVE MInv'
    OBVIOUS
  <1>1. UNCHANGED <<connected, validated, mapVoted, voteType, yes, no, playersVoted, saveExists, levelChange>>
    BY DEF Tick, tally
  <1>2. timeLeft' \in 0..VoteDuration
    BY VoteConstants DEF MInv, TypeOK, Tick
  <1> QED BY <1>1, <1>2 DEF MInv, TypeOK

LEMMA ChangeLevelStep == MInv /\ ChangeLevel => MInv'
  <1> SUFFICES ASSUME MInv, ChangeLevel PROVE MInv'
    OBVIOUS
  <1>1. 0 \in 0..VoteDuration
    BY VoteConstants
  <1> QED BY <1>1 DEF MInv, TypeOK, ChangeLevel, ClearVote

-----------------------------------------------------------------------------
(* The specification.                                                       *)

LEMMA InitInv == Init => MInv
  <1> SUFFICES ASSUME Init PROVE MInv
    OBVIOUS
  <1>1. 0 \in 0..VoteDuration
    BY VoteConstants
  <1>2. mapVoted \in [Persons -> {NotVoted, VotedNo, VotedYes}] /\ \A p \in Persons : mapVoted[p] = NotVoted
    BY DEF Init
  <1> QED BY <1>1, <1>2 DEF Init, MInv, TypeOK

LEMMA StepInv == MInv /\ [Next]_vars => MInv'
  <1> SUFFICES ASSUME MInv, [Next]_vars PROVE MInv'
    OBVIOUS
  <1>1. CASE SaveDeleted
    BY <1>1 DEF SaveDeleted, MInv, TypeOK, vote, tally
  <1>2. CASE UNCHANGED vars
    BY <1>2 DEF vars, vote, tally, MInv, TypeOK
  <1> QED BY <1>1, <1>2, RequestVoteStep, VoteStep, DisconnectStep, ThinkStep, PersonStep, TickStep,
             ChangeLevelStep DEF Next

\* The ballots are in order whoever votes, leaves, returns or is validated.
THEOREM Invariance == Spec => []MInv
  BY InitInv, StepInv, PTL DEF Spec

\* Every variable keeps its shape; a tally never goes below zero.
THEOREM MapVoteTypes == Spec => []TypeOK
  BY Invariance, PTL DEF MInv

\* The tallies of an open vote are the votes of the players who are there,
\* unless somebody was validated after he had voted.
THEOREM TalliesMatch == Spec => []TallyMatchesVotes
  <1>1. MInv => TallyMatchesVotes
    BY DEF MInv, TallyMatchesVotes, Ballots, Counted, Twice, LateVoter, Voters, VotedFor
  <1> QED BY <1>1, Invariance, PTL

-----------------------------------------------------------------------------
(* Decisions.                                                               *)

\* The step decides the vote: the level changes, or the vote is over.
Decides == ~levelChange /\ (levelChange' \/ (voteType # "none" /\ voteType' = "none"))

\* Who decides is UpdateVote, with the votes of those who are connected, the
\* one who is leaving included.
LEMMA DecidedOnCount ==
    ASSUME MInv, Next, Decides, ~LateVoter
    PROVE  \E type \in VoteTypes, y \in Nat, n \in Nat : \E left, ids :
              /\ UpdateVote(type, y, n, left, ids)
              /\ Counted(connected, mapVoted', y, n)
              /\ voteType # "none" => type = voteType /\ left = timeLeft
  <1>1. TypeOK
    BY DEF MInv
  <1>2. CASE RequestVote
    <2>1. PICK p \in connected, type \in VoteTypes : StartVote(p, type)
      BY <1>2 DEF RequestVote
    <2> DEFINE voted == [q \in Persons |-> IF q = p THEN VotedYes ELSE NotVoted]
    <2>2. mapVoted' = voted /\ UpdateVote(type, 1, 0, VoteDuration, {NetworkID(p)})
      BY <2>1, Zenon DEF StartVote
    <2>3. Counted(connected, voted, 1, 0)
      BY <1>1, FirstBallot, Zenon
    <2>4. Counted(connected, mapVoted', 1, 0) /\ voteType = "none" /\ 1 \in Nat /\ 0 \in Nat
      BY <1>2, <2>2, <2>3 DEF RequestVote
    <2> QED BY <2>2, <2>4, Zenon
  <1>3. CASE Vote
    <2>1. PICK p \in connected, choice \in {VotedNo, VotedYes} : CastVote(p, choice)
      BY <1>3 DEF Vote
    <2> DEFINE voted == [mapVoted EXCEPT ![p] = choice]
               y == yes + (IF choice = VotedYes THEN 1 ELSE 0)
               n == no + (IF choice = VotedNo THEN 1 ELSE 0)
               ids == playersVoted \cup {NetworkID(p)}
    <2>2. /\ voteType # "none" /\ NetworkID(p) \notin playersVoted /\ mapVoted' = voted
          /\ UpdateVote(voteType, y, n, timeLeft, ids)
      BY <1>3, <2>1, Zenon DEF Vote, CastVote
    <2>3. y \in Nat /\ n \in Nat /\ Counted(connected, voted, y, n)
      BY <2>2, BallotCast, Zenon
    <2>4. voteType \in VoteTypes
      BY <1>1, <2>2 DEF TypeOK
    <2> HIDE DEF voted, y, n, ids
    <2> QED BY <2>2, <2>3, <2>4, Zenon
  <1>4. CASE Disconnect
    <2>1. PICK p \in connected : ClientDisconnected(p)
      BY <1>4 DEF Disconnect
    <2> DEFINE voted == [mapVoted EXCEPT ![p] = NotVoted]
               y == yes - (IF mapVoted[p] = VotedYes THEN 1 ELSE 0)
               n == no - (IF mapVoted[p] = VotedNo THEN 1 ELSE 0)
    <2>2. ~(UNCHANGED <<vote, levelChange>>)
      BY DEF Decides, vote
    <2>3. mapVoted' = voted /\ voteType # "none" /\ RemoveVote(p)
      BY <2>1, <2>2, Zenon DEF ClientDisconnected
    <2>4. UpdateVote(voteType, y, n, timeLeft, playersVoted)
      BY <2>3, Zenon DEF RemoveVote
    <2>5. y \in Nat /\ n \in Nat /\ Counted(connected, voted, y, n)
      BY <2>3, BallotRemoved, Zenon
    <2>6. voteType \in VoteTypes
      BY <1>1, <2>3 DEF TypeOK
    <2> HIDE DEF voted, y, n
    <2> QED BY <2>3, <2>4, <2>5, <2>6, Zenon
  <1>5. CASE Think
    <2>1. ~Twice(playersVoted)
      BY DEF Twice, LateVoter
    <2>2. /\ voteType # "none" /\ mapVoted' = mapVoted
          /\ UpdateVote(voteType, yes, no, timeLeft, playersVoted)
      BY <1>5 DEF Think
    <2>3. Counted(connected, mapVoted', yes, no)
      BY <2>1, <2>2, Zenon DEF MInv, Ballots
    <2>4. voteType \in VoteTypes /\ yes \in Nat /\ no \in Nat
      BY <1>1, <2>2 DEF TypeOK
    <2> QED BY <2>2, <2>3, <2>4, Zenon
  <1>6. CASE PlayerSpawn \/ Validate \/ Tick \/ SaveDeleted \/ ChangeLevel
    BY <1>6 DEF PlayerSpawn, Validate, Tick, SaveDeleted, ChangeLevel, Decides, vote
  <1> QED BY <1>2, <1>3, <1>4, <1>5, <1>6 DEF Next

\* A level change is asked for only on enough votes of those who are there.
THEOREM LevelChangesAreVoted == Spec => EnoughVoters
  <1> DEFINE Voted ==
          ~levelChange /\ levelChange' /\ ~LateVoter =>
             FractionDen * Cardinality({p \in connected : mapVoted'[p] = VotedYes})
                   >= FractionNum * Cardinality(connected)
  <1>1. MInv /\ [Next]_vars => [Voted]_vars
    <2> SUFFICES ASSUME MInv, Next, ~levelChange, levelChange', ~LateVoter
                 PROVE  FractionDen * Cardinality({p \in connected : mapVoted'[p] = VotedYes})
                             >= FractionNum * Cardinality(connected)
      OBVIOUS
    <2>1. PICK type \in VoteTypes, y \in Nat, n \in Nat :
             /\ \E left, ids : UpdateVote(type, y, n, left, ids)
             /\ Counted(connected, mapVoted', y, n)
      BY DecidedOnCount DEF Decides
    <2>2. y >= NeededVotes(Cardinality(connected))
      BY <2>1 DEF UpdateVote, KeepVote
    <2>3. Cardinality(connected) \in Nat
      BY FiniteVoters DEF MInv, TypeOK
    <2>4. FractionDen * y >= FractionNum * Cardinality(connected)
      BY <2>2, <2>3, Ceiling
    <2> QED BY <2>1, <2>4 DEF Counted, VotedFor
  <1> QED BY <1>1, Invariance, PTL DEF Spec, EnoughVoters

\* Where more than half of the votes are needed, a vote that is rejected in time
\* could not have passed any more.  (With half of them or less, the votes
\* against reach what is needed while those for may still do so too.)
THEOREM RejectionsAreHopeless ==
    FractionDen < 2 * FractionNum => (Spec => RejectedOnlyWhenHopeless)
  <1> SUFFICES ASSUME FractionDen < 2 * FractionNum PROVE Spec => RejectedOnlyWhenHopeless
    OBVIOUS
  <1> DEFINE Hopeless ==
          /\ voteType \in {"mission", "campaign"} /\ voteType' = "none"
          /\ timeLeft > 0 /\ connected # {} /\ ~LateVoter
          /\ ~levelChange /\ ~levelChange'
          => FractionDen * Cardinality({p \in connected : mapVoted'[p] # VotedNo})
                < FractionNum * Cardinality(connected)
  <1>1. MInv /\ [Next]_vars => [Hopeless]_vars
    <2> SUFFICES ASSUME MInv, Next, voteType \in {"mission", "campaign"}, voteType' = "none",
                        timeLeft > 0, connected # {}, ~LateVoter, ~levelChange, ~levelChange'
                 PROVE  FractionDen * Cardinality({p \in connected : mapVoted'[p] # VotedNo})
                             < FractionNum * Cardinality(connected)
      OBVIOUS
    <2> DEFINE players == Cardinality(connected)
               needed == NeededVotes(players)
               against == VotedFor(connected, mapVoted', VotedNo)
               others == {p \in connected : mapVoted'[p] # VotedNo}
    <2>1. PICK type \in VoteTypes, y \in Nat, n \in Nat :
             /\ \E ids : UpdateVote(type, y, n, timeLeft, ids)
             /\ Counted(connected, mapVoted', y, n)
             /\ type = voteType
      BY DecidedOnCount DEF Decides
    <2>2. ~(y >= needed) /\ Rejected(y, n, timeLeft)
      BY <2>1 DEF UpdateVote, PassVote, KeepVote
    <2>3. timeLeft \in Nat /\ ~(timeLeft <= 0)
      BY VoteConstants DEF MInv, TypeOK
    <2>4. FractionNum <= FractionDen /\ (n >= needed \/ n + y >= players)
      BY <2>2, <2>3 DEF Rejected
    <2>5. /\ IsFiniteSet(connected) /\ players \in Nat /\ players # 0
          /\ IsFiniteSet(against) /\ against \subseteq connected
      BY FiniteVoters, FS_EmptySet DEF MInv, TypeOK, VotedFor
    <2>6. others = connected \ against /\ connected \cap against = against
      BY DEF VotedFor
    <2>7. Cardinality(others) = players - n /\ n <= players
      <3> HIDE DEF players, against, others
      <3>1. Cardinality(against) = n
        BY <2>1 DEF Counted, against
      <3>2. Cardinality(others) = Cardinality(connected) - Cardinality(connected \cap against)
        BY <2>5, <2>6, FS_Difference
      <3>3. Cardinality(against) <= Cardinality(connected)
        BY <2>5, FS_Subset
      <3> QED BY <2>6, <3>1, <3>2, <3>3 DEF players
    <2>8. FractionNum \in Nat /\ FractionDen \in Nat \ {0}
      BY VoteConstants
    <2>9. needed \in Nat
      BY <2>5, Ceiling
    <2>10. FractionNum * players \in Nat /\ FractionNum * players > 0
      BY <2>5, <2>8
    <2>11. FractionDen * y < FractionNum * players
      BY <2>2, <2>5, <2>9, <2>10, Ceiling
    <2>12. n >= needed => FractionDen * n >= FractionNum * players
      BY <2>5, Ceiling
    <2> HIDE DEF players, needed, against, others
    <2>13. CASE n + y >= players
      <3>1. players - n \in Nat /\ players - n <= y
        BY <2>5, <2>7, <2>13
      <3>2. FractionDen * (players - n) <= FractionDen * y
        BY <2>8, <3>1
      <3>3. FractionDen * (players - n) < FractionNum * players
        BY <2>8, <2>10, <2>11, <3>1, <3>2
      <3> QED BY <2>7, <3>3 DEF others, players
    <2>14. CASE n >= needed
      <3>1. FractionDen * (players - n) = FractionDen * players - FractionDen * n
        BY <2>5, <2>8
      <3>2. FractionDen * players < 2 * (FractionNum * players)
        <4>1. FractionDen * players < (2 * FractionNum) * players
          BY <2>5, <2>8
        <4> QED BY <2>5, <2>8, <4>1
      <3>3. FractionDen * (players - n) < FractionNum * players
        BY <2>5, <2>8, <2>10, <2>12, <2>14, <3>1, <3>2
      <3> QED BY <2>7, <3>3 DEF others, players
    <2> QED BY <2>4, <2>13, <2>14
  <1> QED BY <1>1, Invariance, PTL DEF Spec, RejectedOnlyWhenHopeless
=============================================================================
