---------------------------- MODULE LeaderKickProofs ----------------------------
(***************************************************************************)
(* Proofs about LeaderKickVote, for every number of slots and every         *)
(* fraction, votes for index 0 included.  LInv is inductive: types, that    *)
(* the leader is a player, and that the totals are exact in every slot      *)
(* below MaxReady, which is what the bounds of SetLeaderVote, SetKickVote   *)
(* and ClearLeaderKickVotes leave true, and what a leader vote counted      *)
(* before its array cannot disturb.  What is promised of all slots follows  *)
(* where the server has fewer slots than the arrays.                        *)
(***************************************************************************)
EXTENDS LeaderKickVote, FiniteSetTheorems, WellFoundedInduction, TLAPS

\* The totals of the slots that every loop of the code reaches are exact.
Exact(voters, votes, totals) ==
    \A s \in Slots : s < MaxReady => totals[s] = Cardinality({p \in voters : votes[p] = s})

Votes == [Slots -> Targets]

\* The leader totals begin with element 1, the kick totals with element 0.
Totals(first) == [first..MaxReady -> Nat]

Poll(voters, votes, totals, first) ==
    /\ votes \in Votes /\ totals \in Totals(first)
    /\ \A p \in Slots \ voters : votes[p] = NoVote
    /\ Exact(voters, votes, totals)

LInv ==
    /\ TypeOK /\ LeaderIsAPlayer
    /\ Poll(connected, leaderVote, leaderVotes, 1)
    /\ Poll(connected, kickVote, kickVotes, 0)

-----------------------------------------------------------------------------
(* Least and greatest slots.                                                *)

NatLess == {p \in Nat \X Nat : p[1] < p[2]}

LEMMA LeastNatural ==
    ASSUME NEW T \in SUBSET Nat, T # {}
    PROVE  \E x \in T : \A y \in T : x <= y
  <1>1. NatLess = OpToRel(<, Nat)
    BY Zenon DEF NatLess, OpToRel
  <1>2. IsWellFoundedOn(NatLess, Nat)
    BY <1>1, NatLessThanWellFounded, Zenon
  <1>3. PICK x \in T : \A y \in T : ~(<<y, x>> \in NatLess)
    BY <1>2, WFMin, Zenon
  <1>4. \A y \in T : ~(y < x)
    BY <1>3 DEF NatLess
  <1> QED BY <1>4

LEMMA SlotFacts ==
    /\ MaxClients \in Nat /\ MaxReady \in Nat /\ MaxClients <= MaxReady
    /\ NoVote \notin Slots /\ NoPlayer \notin Slots /\ Away \notin Slots
    /\ Slots \subseteq Targets /\ NoVote \in Targets
  BY SlotConstants DEF Slots, Targets, NoVote, NoPlayer, Away

LEMMA FirstSlot ==
    ASSUME NEW S \in SUBSET Slots, S # {}
    PROVE  \E s \in S : \A t \in S : s <= t
  <1>1. S \in SUBSET Nat
    BY SlotFacts DEF Slots
  <1> QED BY <1>1, LeastNatural

LEMMA LastSlot ==
    ASSUME NEW S \in SUBSET Slots, S # {}
    PROVE  \E s \in S : \A t \in S : s >= t
  <1> DEFINE Above == {MaxClients - s : s \in S}
  <1>1. Above \in SUBSET Nat /\ Above # {}
    <2>1. \A s \in S : MaxClients - s \in Nat
      BY SlotFacts DEF Slots
    <2> QED BY <2>1
  <1>2. PICK a \in Above : \A b \in Above : a <= b
    BY <1>1, LeastNatural
  <1>3. PICK s \in S : a = MaxClients - s
    BY <1>2
  <1>4. ASSUME NEW t \in S PROVE s >= t
    <2>1. MaxClients - s <= MaxClients - t
      BY <1>2, <1>3
    <2> QED BY <2>1, SlotFacts DEF Slots
  <1> QED BY <1>4

\* Whoever follows a leader who leaves is one of the others, if there are any.
LEMMA SuccessorIsThere ==
    ASSUME TypeOK, NEW p \in connected
    PROVE  IF connected \ {p} = {} THEN Successor(p) = NoPlayer
           ELSE Successor(p) \in connected \ {p}
  <1> DEFINE others == connected \ {p}
             active == others \ spectators
  <1>1. others \in SUBSET Slots /\ active \in SUBSET Slots
    BY DEF TypeOK
  <1>2. CASE others = {}
    BY <1>2 DEF Successor
  <1>3. CASE others # {} /\ active # {}
    BY <1>1, <1>3, FirstSlot DEF Successor
  <1>4. CASE others # {} /\ active = {}
    BY <1>1, <1>4, LastSlot DEF Successor
  <1> QED BY <1>2, <1>3, <1>4

-----------------------------------------------------------------------------
(* Counting.                                                                *)

LEMMA FiniteVoters ==
    ASSUME NEW voters \in SUBSET Slots
    PROVE  /\ IsFiniteSet(voters) /\ Cardinality(voters) \in Nat
           /\ \A V \in SUBSET voters : IsFiniteSet(V) /\ Cardinality(V) \in Nat
  <1>1. IsFiniteSet(Slots)
    BY SlotFacts, FS_Interval DEF Slots
  <1>2. \A V \in SUBSET Slots : IsFiniteSet(V) /\ Cardinality(V) \in Nat
    BY <1>1, FS_Subset, FS_CardinalityType
  <1> QED BY <1>2

LEMMA CountTypes ==
    ASSUME TypeOK, NEW votes, NEW target
    PROVE  Count(votes, target) \in Nat
  BY FiniteVoters DEF TypeOK, Count

\* A vote moves: its old and its new slot are counted anew and no other changes.
LEMMA MovedVote ==
    ASSUME TypeOK, NEW first \in {0, 1}, NEW votes \in Votes, NEW totals \in Totals(first),
           Exact(connected, votes, totals),
           NEW p \in connected, NEW target \in Targets, NEW range,
           \A s \in Slots : s < MaxReady /\ s \in {votes[p], target} => s \in range
    PROVE  LET new == [votes EXCEPT ![p] = target]
               counted == Recount(totals, new, range)
           IN  new \in Votes /\ counted \in Totals(first) /\ Exact(connected, new, counted)
  <1> DEFINE new == [votes EXCEPT ![p] = target]
             counted == Recount(totals, new, range)
  <1>1. p \in Slots
    BY DEF TypeOK
  <1>2. new \in Votes
    BY <1>1 DEF Votes
  <1>3. counted = [s \in first..MaxReady |-> IF s \in range THEN Count(new, s) ELSE totals[s]]
    BY DEF Recount, Totals
  <1> HIDE DEF counted
  <1>4. counted \in Totals(first)
    BY <1>3, CountTypes DEF Totals
  <1>5. ASSUME NEW s \in Slots, s < MaxReady
        PROVE  counted[s] = Cardinality({q \in connected : new[q] = s})
    <2>1. counted[s] = IF s \in range THEN Count(new, s) ELSE totals[s]
      BY <1>3, SlotFacts DEF Slots
    <2>2. CASE s \in range
      BY <2>1, <2>2 DEF Count
    <2>3. CASE s \notin range
      <3>1. votes[p] # s /\ target # s
        BY <1>5, <2>3
      <3>2. {q \in connected : new[q] = s} = {q \in connected : votes[q] = s}
        BY <3>1 DEF Votes, TypeOK
      <3> QED BY <1>5, <2>1, <2>3, <3>2 DEF Exact
    <2> QED BY <2>2, <2>3
  <1>6. Exact(connected, new, counted)
    BY <1>5, Zenon DEF Exact
  <1> QED BY <1>2, <1>4, <1>6, Zenon DEF counted

\* The votes aimed at a slot below MaxReady are cleared together with its total.
LEMMA ClearedSlot ==
    ASSUME NEW voters \in SUBSET Slots, NEW first \in {0, 1}, NEW votes \in Votes,
           NEW totals \in Totals(first), Exact(voters, votes, totals), NEW target \in Slots
    PROVE  LET new == ClearedVotes(votes, target)
               cleared == ClearedTotals(totals, target)
           IN  new \in Votes /\ cleared \in Totals(first) /\ Exact(voters, new, cleared)
  <1> DEFINE new == ClearedVotes(votes, target)
             cleared == ClearedTotals(totals, target)
  <1>1. new \in Votes
    BY SlotFacts DEF ClearedVotes, Votes
  <1>2. cleared = [s \in first..MaxReady |-> IF ClearsSlot(target) /\ s = target THEN 0 ELSE totals[s]]
    BY DEF ClearedTotals, Totals
  <1>3. cleared \in Totals(first)
    BY <1>2 DEF Totals
  <1>4. ASSUME NEW s \in Slots, s < MaxReady
        PROVE  cleared[s] = Cardinality({q \in voters : new[q] = s})
    <2>1. cleared[s] = IF ClearsSlot(target) /\ s = target THEN 0 ELSE totals[s]
      BY <1>2, SlotFacts DEF Slots
    <2>2. CASE s = target
      <3>1. ClearsSlot(target)
        BY <1>4, <2>2 DEF ClearsSlot
      <3>2. {q \in voters : new[q] = s} = {}
        BY <2>2, <3>1, SlotFacts DEF ClearedVotes
      <3> QED BY <2>1, <2>2, <3>1, <3>2, FS_EmptySet
    <2>3. CASE s # target
      <3>1. {q \in voters : new[q] = s} = {q \in voters : votes[q] = s}
        BY <2>3, SlotFacts DEF ClearedVotes
      <3> QED BY <1>4, <2>1, <2>3, <3>1 DEF Exact
    <2> QED BY <2>2, <2>3
  <1>5. Exact(voters, new, cleared)
    BY <1>4, Zenon DEF Exact
  <1> QED BY <1>1, <1>3, <1>5, Zenon

\* What SetLeaderVote and SetKickVote count anew is enough below MaxReady.
LEMMA RangesSuffice ==
    ASSUME NEW old \in Targets, NEW new \in Targets
    PROVE  \A s \in Slots : s < MaxReady /\ s \in {old, new} =>
              s \in LeaderRecount(old, new) /\ s \in KickRecount(old, new)
  BY SlotFacts DEF LeaderRecount, KickRecount, Slots

-----------------------------------------------------------------------------
(* What the operations do to a poll.                                        *)

LEMMA VoteMoves ==
    ASSUME TypeOK, NEW first \in {0, 1}, NEW votes, NEW totals, Poll(connected, votes, totals, first),
           NEW p \in connected, NEW target \in Targets, NEW range,
           \A s \in Slots : s < MaxReady /\ s \in {votes[p], target} => s \in range
    PROVE  LET new == [votes EXCEPT ![p] = target] IN
           Poll(connected, new, Recount(totals, new, range), first)
  <1> DEFINE new == [votes EXCEPT ![p] = target]
             counted == Recount(totals, new, range)
  <1>1. new \in Votes /\ counted \in Totals(first) /\ Exact(connected, new, counted)
    BY MovedVote, Zenon DEF Poll
  <1>2. \A q \in Slots \ connected : new[q] = NoVote
    BY DEF Poll, Votes
  <1> QED BY <1>1, <1>2, Zenon DEF Poll

LEMMA SlotIsCleared ==
    ASSUME NEW voters \in SUBSET Slots, NEW first \in {0, 1}, NEW votes, NEW totals,
           Poll(voters, votes, totals, first), NEW target \in Slots
    PROVE  Poll(voters, ClearedVotes(votes, target), ClearedTotals(totals, target), first)
  <1> DEFINE new == ClearedVotes(votes, target)
             cleared == ClearedTotals(totals, target)
  <1>1. new \in Votes /\ cleared \in Totals(first) /\ Exact(voters, new, cleared)
    BY ClearedSlot, Zenon DEF Poll
  <1>2. \A q \in Slots \ voters : new[q] = NoVote
    BY DEF Poll, ClearedVotes
  <1> QED BY <1>1, <1>2, Zenon DEF Poll

LEMMA VoterJoins ==
    ASSUME NEW voters \in SUBSET Slots, NEW first \in {0, 1}, NEW votes, NEW totals,
           Poll(voters, votes, totals, first), NEW p \in Slots \ voters
    PROVE  Poll(voters \cup {p}, [ClearedVotes(votes, p) EXCEPT ![p] = NoVote],
                ClearedTotals(totals, p), first)
  <1> DEFINE new == [ClearedVotes(votes, p) EXCEPT ![p] = NoVote]
             cleared == ClearedTotals(totals, p)
  <1>1. Poll(voters, ClearedVotes(votes, p), cleared, first)
    BY SlotIsCleared, Zenon
  <1>2. new = ClearedVotes(votes, p)
    BY <1>1 DEF Poll, Votes
  <1> HIDE DEF new, cleared
  <1>3. Poll(voters, new, cleared, first)
    BY <1>1, <1>2, Zenon
  <1>4. new[p] = NoVote
    BY <1>3 DEF Poll
  <1>5. \A s \in Slots : {q \in voters \cup {p} : new[q] = s} = {q \in voters : new[q] = s}
    BY <1>4, SlotFacts
  <1>6. Exact(voters \cup {p}, new, cleared)
    BY <1>3, <1>5 DEF Poll, Exact
  <1>7. Poll(voters \cup {p}, new, cleared, first)
    BY <1>3, <1>6 DEF Poll
  <1> QED BY <1>7, Zenon DEF new, cleared

LEMMA VoterLeaves ==
    ASSUME TypeOK, NEW first \in {0, 1}, NEW votes, NEW totals, Poll(connected, votes, totals, first),
           NEW p \in connected, NEW range,
           \A s \in Slots : s < MaxReady /\ s \in {votes[p], NoVote} => s \in range
    PROVE  LET new == [votes EXCEPT ![p] = NoVote] IN
           Poll(connected \ {p}, new, Recount(totals, new, range), first)
  <1> DEFINE new == [votes EXCEPT ![p] = NoVote]
             counted == Recount(totals, new, range)
  <1>1. Poll(connected, new, counted, first)
    BY VoteMoves, SlotFacts, Zenon
  <1>2. new[p] = NoVote
    BY DEF Poll, Votes, TypeOK
  <1> HIDE DEF new, counted
  <1>3. \A s \in Slots : {q \in connected \ {p} : new[q] = s} = {q \in connected : new[q] = s}
    BY <1>2, SlotFacts
  <1>4. Exact(connected \ {p}, new, counted)
    BY <1>1, <1>3 DEF Poll, Exact
  <1>5. \A q \in Slots \ (connected \ {p}) : new[q] = NoVote
    BY <1>1, <1>2 DEF Poll
  <1>6. Poll(connected \ {p}, new, counted, first)
    BY <1>1, <1>4, <1>5, Zenon DEF Poll
  <1> QED BY <1>6, Zenon DEF new, counted

\* A leader vote counted before its array lands in the last element, if anywhere.
LEMMA OverrunKept ==
    ASSUME NEW voters \in SUBSET Slots, NEW votes, NEW totals, Poll(voters, votes, totals, 0),
           NEW other, NEW range, Count(other, NoTarget) \in Nat
    PROVE  Poll(voters, votes, Overrun(totals, other, range), 0)
  <1> DEFINE landed == Overrun(totals, other, range)
  <1>1. totals \in [0..MaxReady -> Nat]
    BY DEF Poll, Totals
  <1>2. landed \in [0..MaxReady -> Nat] /\ \A s \in 0..MaxReady : s < MaxReady => landed[s] = totals[s]
    BY <1>1, SlotFacts DEF Overrun
  <1> HIDE DEF landed
  <1>3. Exact(voters, votes, landed)
    <2>1. \A s \in Slots : s \in 0..MaxReady
      BY SlotFacts DEF Slots
    <2> QED BY <1>2, <2>1 DEF Poll, Exact
  <1>4. landed \in Totals(0)
    BY <1>2, Zenon DEF Totals
  <1>5. Poll(voters, votes, landed, 0)
    BY <1>3, <1>4, Zenon DEF Poll
  <1> QED BY <1>5, Zenon DEF landed

LEMMA NewPoll ==
    ASSUME NEW first \in {0, 1}
    PROVE  Poll({}, [p \in Slots |-> NoVote], [s \in first..MaxReady |-> 0], first)
  <1> DEFINE votes == [p \in Slots |-> NoVote]
             totals == [s \in first..MaxReady |-> 0]
  <1>1. votes \in Votes /\ totals \in Totals(first) /\ \A p \in Slots \ {} : votes[p] = NoVote
    BY SlotFacts DEF Votes, Totals
  <1>2. ASSUME NEW s \in Slots PROVE totals[s] = Cardinality({p \in {} : votes[p] = s})
    <2>1. totals[s] = 0
      BY SlotFacts DEF Slots
    <2>2. {p \in {} : votes[p] = s} = {}
      OBVIOUS
    <2> QED BY <2>1, <2>2, FS_EmptySet
  <1>3. Exact({}, votes, totals)
    BY <1>2, Zenon DEF Exact
  <1> QED BY <1>1, <1>3, Zenon DEF Poll

-----------------------------------------------------------------------------
(* The actions.                                                             *)

\* What the types ask for besides those of the polls.
LEMMA Assembled ==
    ASSUME connected' \subseteq Slots, spectators' \subseteq connected', joined' \subseteq connected',
           kicking' \subseteq connected', meant' \in connected' \cup {NoPlayer, Away},
           LeaderIsAPlayer',
           Poll(connected', leaderVote', leaderVotes', 1), Poll(connected', kickVote', kickVotes', 0)
    PROVE  LInv'
  <1>1. leader' \in Slots \cup {NoPlayer}
    BY DEF LeaderIsAPlayer
  <1> QED BY <1>1 DEF LInv, TypeOK, Poll, Votes, Totals

LEMMA SetLeaderVoteStep == LInv /\ SetLeaderVote => LInv'
  <1> SUFFICES ASSUME LInv, SetLeaderVote PROVE LInv'
    OBVIOUS
  <1>1. PICK p \in connected, target \in Targets :
           HandOver(p, target) \/ VoteForLeader(p, target)
    BY DEF SetLeaderVote
  <1>2. TypeOK /\ LeaderIsAPlayer /\ connected # {}
    BY DEF LInv
  <1>3. UNCHANGED <<connected, spectators, joined, kicking, meant, kickVote>>
    BY DEF SetLeaderVote, players
  <1>4. leader' \in {leader} \cup connected
    BY <1>1 DEF HandOver, VoteForLeader
  <1>5. LeaderIsAPlayer'
    BY <1>2, <1>3, <1>4 DEF LeaderIsAPlayer
  <1>6. Poll(connected, leaderVote', leaderVotes', 1)
    <2>1. CASE HandOver(p, target)
      <3>1. target \in Slots
        BY <1>2, <2>1 DEF HandOver, TypeOK
      <3> QED BY <1>2, <2>1, <3>1, SlotIsCleared DEF LInv, HandOver, TypeOK
    <2>2. CASE VoteForLeader(p, target)
      <3> DEFINE votes == [leaderVote EXCEPT ![p] = target]
                 totals == Recount(leaderVotes, votes, LeaderRecount(leaderVote[p], target))
      <3>1. leaderVote[p] \in Targets
        BY <1>2 DEF TypeOK
      <3>2. \A s \in Slots : s < MaxReady /\ s \in {leaderVote[p], target} =>
               s \in LeaderRecount(leaderVote[p], target)
        BY <3>1, RangesSuffice
      <3>3. Poll(connected, votes, totals, 1)
        BY <1>2, <3>2, VoteMoves, Zenon DEF LInv
      <3>4. CASE leaderVote' = votes /\ leaderVotes' = totals
        BY <3>3, <3>4
      <3>5. CASE /\ target \in connected
                 /\ leaderVote' = ClearedVotes(votes, target)
                 /\ leaderVotes' = ClearedTotals(totals, target)
        <4>1. target \in Slots /\ connected \in SUBSET Slots
          BY <1>2, <3>5 DEF TypeOK
        <4> QED BY <3>3, <3>5, <4>1, SlotIsCleared, Zenon
      <3> QED BY <2>2, <3>4, <3>5, Zenon DEF VoteForLeader
    <2> QED BY <1>1, <2>1, <2>2
  <1>7. Poll(connected, kickVote', kickVotes', 0)
    <2>1. CASE HandOver(p, target)
      BY <1>3, <2>1 DEF HandOver, LInv
    <2>2. CASE VoteForLeader(p, target)
      <3> DEFINE votes == [leaderVote EXCEPT ![p] = target]
                 range == LeaderRecount(leaderVote[p], target)
      <3>1. kickVotes' = Overrun(kickVotes, votes, range) /\ kickVote' = kickVote
        BY <1>3, <2>2, Zenon DEF VoteForLeader
      <3>2. Count(votes, NoTarget) \in Nat
        BY <1>2, CountTypes, Zenon
      <3>3. connected \in SUBSET Slots
        BY <1>2 DEF TypeOK
      <3>4. Poll(connected, kickVote, Overrun(kickVotes, votes, range), 0)
        BY <3>2, <3>3, OverrunKept, Zenon DEF LInv
      <3> QED BY <3>1, <3>4, Zenon
    <2> QED BY <1>1, <2>1, <2>2
  <1> QED BY <1>2, <1>3, <1>5, <1>6, <1>7, Assembled DEF LInv, TypeOK

LEMMA SetKickVoteStep == LInv /\ SetKickVote => LInv'
  <1> SUFFICES ASSUME LInv, SetKickVote PROVE LInv'
    OBVIOUS
  <1>1. PICK p \in connected, target \in Targets :
          LET votes == [kickVote EXCEPT ![p] = target]
              totals == Recount(kickVotes, votes, KickRecount(kickVote[p], target))
              votedOut == target \in connected /\ Count(votes, target) >= VotesNeeded
          IN  \/ /\ votedOut
                 /\ kickVote' = ClearedVotes(votes, target)
                 /\ kickVotes' = ClearedTotals(totals, target)
                 /\ kicking' \in {kicking, kicking \cup {target}}
              \/ /\ ~votedOut
                 /\ kickVote' = votes /\ kickVotes' = totals
                 /\ UNCHANGED kicking
    BY Zenon DEF SetKickVote
  <1> DEFINE votes == [kickVote EXCEPT ![p] = target]
             totals == Recount(kickVotes, votes, KickRecount(kickVote[p], target))
  <1>2. TypeOK
    BY DEF LInv
  <1>3. UNCHANGED <<connected, spectators, joined, leader, meant, leaderVote, leaderVotes>>
    BY DEF SetKickVote, leadership, leaderPoll
  <1>4. kickVote[p] \in Targets
    BY <1>2 DEF TypeOK
  <1>5. \A s \in Slots : s < MaxReady /\ s \in {kickVote[p], target} =>
           s \in KickRecount(kickVote[p], target)
    BY <1>4, RangesSuffice
  <1>6. Poll(connected, votes, totals, 0)
    BY <1>2, <1>5, VoteMoves, Zenon DEF LInv
  <1>7. CASE UNCHANGED kicking /\ kickVote' = votes /\ kickVotes' = totals
    <2>1. Poll(connected, kickVote', kickVotes', 0)
      BY <1>6, <1>7, Zenon
    <2> QED BY <1>2, <1>3, <1>7, <2>1, Assembled DEF LInv, TypeOK, LeaderIsAPlayer
  <1>8. CASE /\ target \in connected
             /\ kickVote' = ClearedVotes(votes, target)
             /\ kickVotes' = ClearedTotals(totals, target)
             /\ kicking' \in {kicking, kicking \cup {target}}
    <2>1. target \in Slots /\ connected \in SUBSET Slots
      BY <1>2, <1>8 DEF TypeOK
    <2>2. Poll(connected, kickVote', kickVotes', 0)
      BY <1>6, <1>8, <2>1, SlotIsCleared, Zenon
    <2>3. kicking' \subseteq connected
      BY <1>2, <1>8 DEF TypeOK
    <2> QED BY <1>2, <1>3, <2>2, <2>3, Assembled DEF LInv, TypeOK, LeaderIsAPlayer
  <1> QED BY <1>1, <1>7, <1>8, Zenon

LEMMA PlayerSpawnStep == LInv /\ PlayerSpawn => LInv'
  <1> SUFFICES ASSUME LInv, PlayerSpawn PROVE LInv'
    OBVIOUS
  <1>1. PICK p \in Slots \ connected :
          /\ connected' = connected \cup {p}
          /\ leader' = LeaderAfterJoin(p)
          /\ meant' \in {meant} \cup (IF meant = Away THEN {p} ELSE {})
          /\ leaderVote' = [ClearedVotes(leaderVote, p) EXCEPT ![p] = NoVote]
          /\ kickVote' = [ClearedVotes(kickVote, p) EXCEPT ![p] = NoVote]
          /\ leaderVotes' = ClearedTotals(leaderVotes, p)
          /\ kickVotes' = ClearedTotals(kickVotes, p)
    BY Zenon DEF PlayerSpawn
  <1>2. TypeOK /\ LeaderIsAPlayer /\ connected \in SUBSET Slots
    BY DEF LInv, TypeOK
  <1>3. UNCHANGED <<spectators, joined, kicking>>
    BY DEF PlayerSpawn
  <1>4. Poll(connected', leaderVote', leaderVotes', 1) /\ Poll(connected', kickVote', kickVotes', 0)
    BY <1>1, <1>2, VoterJoins, Zenon DEF LInv
  <1>5. LeaderIsAPlayer'
    BY <1>1, <1>2, SlotFacts DEF LeaderIsAPlayer, LeaderAfterJoin
  <1>6. meant' \in connected' \cup {NoPlayer, Away}
    BY <1>1, <1>2 DEF TypeOK
  <1> QED BY <1>1, <1>2, <1>3, <1>4, <1>5, <1>6, Assembled DEF TypeOK

LEMMA DisconnectStep == LInv /\ Disconnect => LInv'
  <1> SUFFICES ASSUME LInv, NEW p \in connected, ClientDisconnected(p) PROVE LInv'
    BY DEF Disconnect
  <1>1. TypeOK /\ LeaderIsAPlayer
    BY DEF LInv
  <1>2. connected' = connected \ {p}
    BY DEF ClientDisconnected
  <1>3. leaderVote[p] \in Targets /\ kickVote[p] \in Targets /\ NoVote \in Targets
    BY <1>1, SlotFacts DEF TypeOK
  <1>4. Poll(connected', leaderVote', leaderVotes', 1)
    <2>1. \A s \in Slots : s < MaxReady /\ s \in {leaderVote[p], NoVote} =>
             s \in LeaderRecount(leaderVote[p], NoVote)
      BY <1>3, RangesSuffice
    <2> DEFINE new == [leaderVote EXCEPT ![p] = NoVote]
    <2>2. Poll(connected \ {p}, new, Recount(leaderVotes, new, LeaderRecount(leaderVote[p], NoVote)), 1)
      BY <1>1, <2>1, VoterLeaves, Zenon DEF LInv
    <2>3. leaderVote' = new /\ leaderVotes' = Recount(leaderVotes, new, LeaderRecount(leaderVote[p], NoVote))
      BY DEF ClientDisconnected
    <2> QED BY <1>2, <2>2, <2>3, Zenon
  <1>5. Poll(connected', kickVote', kickVotes', 0)
    <2>1. \A s \in Slots : s < MaxReady /\ s \in {kickVote[p], NoVote} =>
             s \in KickRecount(kickVote[p], NoVote)
      BY <1>3, RangesSuffice
    <2> DEFINE new == [kickVote EXCEPT ![p] = NoVote]
               others == [leaderVote EXCEPT ![p] = NoVote]
               landed == Overrun(kickVotes, others, LeaderRecount(leaderVote[p], NoVote))
    <2>2. Poll(connected, kickVote, landed, 0)
      <3>1. Count(others, NoTarget) \in Nat /\ connected \in SUBSET Slots
        BY <1>1, CountTypes DEF TypeOK
      <3> QED BY <3>1, OverrunKept, Zenon DEF LInv
    <2>3. /\ kickVote' = new
          /\ kickVotes' = Recount(landed, new, KickRecount(kickVote[p], NoVote))
      BY Zenon DEF ClientDisconnected
    <2> HIDE DEF landed
    <2>4. Poll(connected \ {p}, new, Recount(landed, new, KickRecount(kickVote[p], NoVote)), 0)
      BY <1>1, <2>1, <2>2, VoterLeaves, Zenon
    <2> QED BY <1>2, <2>3, <2>4, Zenon
  <1>6. LeaderIsAPlayer'
    BY <1>1, <1>2, SuccessorIsThere DEF LeaderIsAPlayer, ClientDisconnected
  <1>7. meant' \in connected' \cup {NoPlayer, Away}
    BY <1>1, <1>2 DEF TypeOK, ClientDisconnected
  <1> QED BY <1>1, <1>2, <1>4, <1>5, <1>6, <1>7, Assembled DEF TypeOK, ClientDisconnected

LEMMA ChangeLevelStep == LInv /\ ChangeLevel => LInv'
  <1> SUFFICES ASSUME ChangeLevel PROVE LInv'
    OBVIOUS
  <1> QED BY NewPoll, Assembled DEF ChangeLevel, LeaderIsAPlayer

\* The actions that leave the votes and who is there alone.
LEMMA OtherStep ==
    ASSUME LInv, UNCHANGED <<connected, leaderPoll, kickPoll>>,
           spectators' \subseteq connected, joined' \subseteq connected, kicking' = kicking,
           leader' \in {leader} \cup connected, meant' \in {meant} \cup connected
    PROVE  LInv'
  <1>1. UNCHANGED <<leaderVote, leaderVotes, kickVote, kickVotes>>
    BY DEF leaderPoll, kickPoll
  <1>2. LeaderIsAPlayer'
    BY DEF LInv, LeaderIsAPlayer
  <1> QED BY <1>1, <1>2, Assembled DEF LInv, TypeOK

-----------------------------------------------------------------------------
(* The specification.                                                       *)

LEMMA InitInv == Init => LInv
  <1> SUFFICES ASSUME Init PROVE LInv
    OBVIOUS
  <1>1. Poll(connected, leaderVote, leaderVotes, 1) /\ Poll(connected, kickVote, kickVotes, 0)
    BY NewPoll, Zenon DEF Init
  <1> QED BY <1>1 DEF Init, LInv, LeaderIsAPlayer, TypeOK, Poll, Votes, Totals

LEMMA StepInv == LInv /\ [Next]_vars => LInv'
  <1> SUFFICES ASSUME LInv, [Next]_vars PROVE LInv'
    OBVIOUS
  <1>1. TypeOK /\ LeaderIsAPlayer
    BY DEF LInv
  <1>2. CASE FullyJoined
    BY <1>1, <1>2, OtherStep DEF FullyJoined, TypeOK
  <1>3. CASE RememberLeader
    <2>1. UNCHANGED <<connected, spectators, joined, kicking, leader, leaderPoll, kickPoll>>
      BY <1>3, Zenon DEF RememberLeader, players
    <2>2. meant' \in connected
      BY <1>1, <1>3 DEF RememberLeader, LeaderIsAPlayer
    <2> QED BY <1>1, <2>1, <2>2, OtherStep DEF TypeOK
  <1>4. CASE RequestSpectator
    BY <1>1, <1>4, OtherStep DEF RequestSpectator, leadership, TypeOK
  <1>5. CASE TakeMarine
    BY <1>1, <1>5, OtherStep DEF TakeMarine, leadership, TypeOK
  <1>6. CASE ChatSetLeader
    <2>1. UNCHANGED <<connected, spectators, joined, kicking, meant, leaderPoll, kickPoll>>
      BY <1>6, Zenon DEF ChatSetLeader, players
    <2>2. leader' \in connected
      BY <1>6 DEF ChatSetLeader
    <2> QED BY <1>1, <2>1, <2>2, OtherStep DEF TypeOK
  <1>7. CASE UNCHANGED vars
    <2>1. UNCHANGED <<connected, spectators, joined, kicking, leader, meant, leaderPoll, kickPoll>>
      BY <1>7, Zenon DEF vars, players, leadership
    <2> QED BY <1>1, <2>1, OtherStep DEF TypeOK
  <1> QED BY <1>2, <1>3, <1>4, <1>5, <1>6, <1>7, SetLeaderVoteStep, SetKickVoteStep,
             PlayerSpawnStep, DisconnectStep, ChangeLevelStep DEF Next

\* LInv holds throughout, also where the server has as many slots as the arrays.
THEOREM Invariance == Spec => []LInv
  BY InitInv, StepInv, PTL DEF Spec

\* Every variable keeps its shape, and only players have votes.
THEOREM LeaderKickTypes == Spec => []TypeOK
  BY Invariance, PTL DEF LInv

\* As long as there are players one of them is the leader.
THEOREM LeaderPresent == Spec => []LeaderIsAPlayer
  BY Invariance, PTL DEF LInv

\* Where the server has fewer slots than ASW_MAX_READY_PLAYERS, the totals the
\* players are shown are the votes of those who are there, although votes for
\* index 0 are counted before the first element of either array.
THEOREM TalliesMatch == MaxClients < MaxReady => (Spec => []TallyMatchesVotes)
  <1> SUFFICES ASSUME MaxClients < MaxReady PROVE Spec => []TallyMatchesVotes
    OBVIOUS
  <1>1. LInv => TallyMatchesVotes
    <2>1. \A s \in Slots : s < MaxReady
      BY SlotFacts DEF Slots
    <2> QED BY <2>1 DEF LInv, Poll, Exact, TallyMatchesVotes, Count
  <1> QED BY <1>1, Invariance, PTL

\* There, who joins finds no vote aimed at him.
THEOREM NewcomersNotAccused == MaxClients < MaxReady => (Spec => NewcomerIsNotAccused)
  <1> SUFFICES ASSUME MaxClients < MaxReady PROVE Spec => NewcomerIsNotAccused
    OBVIOUS
  <1> DEFINE Spared ==
          \A s \in connected' \ connected :
             /\ \A p \in connected' : leaderVote'[p] # s /\ kickVote'[p] # s
             /\ leaderVotes'[s] = 0 /\ kickVotes'[s] = 0
  <1>1. LInv /\ [Next]_vars => [Spared]_vars
    <2> SUFFICES ASSUME LInv, Next, NEW s \in connected' \ connected
                 PROVE  /\ \A p \in connected' : leaderVote'[p] # s /\ kickVote'[p] # s
                        /\ leaderVotes'[s] = 0 /\ kickVotes'[s] = 0
      OBVIOUS
    <2>1. PlayerSpawn
      BY DEF Next, SetLeaderVote, SetKickVote, Disconnect, ClientDisconnected, FullyJoined, RememberLeader,
             RequestSpectator, TakeMarine, ChatSetLeader, ChangeLevel, players
    <2>2. /\ s \in Slots /\ connected \subseteq Slots /\ connected' = connected \cup {s}
          /\ leaderVote' = [ClearedVotes(leaderVote, s) EXCEPT ![s] = NoVote]
          /\ kickVote' = [ClearedVotes(kickVote, s) EXCEPT ![s] = NoVote]
          /\ leaderVotes' = ClearedTotals(leaderVotes, s)
          /\ kickVotes' = ClearedTotals(kickVotes, s)
      BY <2>1 DEF PlayerSpawn, LInv, TypeOK
    <2>3. ClearsSlot(s) /\ s \in 1..MaxReady
      BY <2>2, SlotFacts DEF ClearsSlot, Slots
    <2>4. leaderVotes'[s] = 0 /\ kickVotes'[s] = 0
      BY <2>2, <2>3 DEF ClearedTotals, LInv, TypeOK
    <2>5. ASSUME NEW p \in connected' PROVE leaderVote'[p] # s /\ kickVote'[p] # s
      <3>1. p \in Slots /\ s # NoVote
        BY <2>2, SlotFacts
      <3> QED BY <2>2, <2>3, <3>1 DEF ClearedVotes
    <2> QED BY <2>4, <2>5
  <1> QED BY <1>1, Invariance, PTL DEF Spec, NewcomerIsNotAccused

-----------------------------------------------------------------------------
(* Being voted out.                                                         *)

\* VotesNeeded is the fraction rounded up, and two at least.
LEMMA NeededIsEnough ==
    ASSUME TypeOK, NEW n \in Nat, n >= VotesNeeded
    PROVE  n >= 2 /\ FractionDen * n >= FractionNum * Cardinality(connected)
  <1> DEFINE exact == FractionNum * Cardinality(connected)
             r == (exact + FractionDen - 1) \div FractionDen
  <1>1. FractionNum \in Nat /\ FractionDen \in Nat \ {0} /\ Cardinality(connected) \in Nat
    BY SlotConstants, FiniteVoters DEF TypeOK
  <1>2. exact \in Nat
    BY <1>1
  <1>3. VotesNeeded = IF r < 2 THEN 2 ELSE r
    BY DEF VotesNeeded
  <1> HIDE DEF exact
  <1>4. r \in Nat /\ FractionDen * r >= exact
    BY <1>1, <1>2
  <1> HIDE DEF r
  <1>5. n >= 2 /\ n >= r
    BY <1>3, <1>4
  <1>6. FractionDen * n >= FractionDen * r
    BY <1>1, <1>4, <1>5
  <1>7. FractionDen * n >= exact
    BY <1>1, <1>2, <1>4, <1>6
  <1> QED BY <1>5, <1>7 DEF exact

\* Whoever is about to be kicked has the votes of enough of those who are there,
\* the one who just voted among them.
THEOREM KicksAreVoted == Spec => KickedByEnough
  <1> DEFINE VotedOut ==
          \A s \in kicking' \ kicking : \E p \in connected :
             LET accusers == {q \in connected : kickVote[q] = s} \cup {p}
             IN  /\ Cardinality(accusers) >= 2
                 /\ FractionDen * Cardinality(accusers) >= FractionNum * Cardinality(connected)
  <1>1. LInv /\ [Next]_vars => [VotedOut]_vars
    <2> SUFFICES ASSUME LInv, Next, NEW s \in kicking' \ kicking
                 PROVE  \E p \in connected :
                           LET accusers == {q \in connected : kickVote[q] = s} \cup {p}
                           IN  /\ Cardinality(accusers) >= 2
                               /\ FractionDen * Cardinality(accusers)
                                    >= FractionNum * Cardinality(connected)
      OBVIOUS
    <2>1. SetKickVote
      BY DEF Next, SetLeaderVote, PlayerSpawn, Disconnect, ClientDisconnected, FullyJoined, RememberLeader,
             RequestSpectator, TakeMarine, ChatSetLeader, ChangeLevel, players
    <2>2. PICK p \in connected :
             s \in connected /\ Count([kickVote EXCEPT ![p] = s], s) >= VotesNeeded
      BY <2>1 DEF SetKickVote
    <2> DEFINE accusers == {q \in connected : kickVote[q] = s} \cup {p}
    <2>3. {q \in connected : [kickVote EXCEPT ![p] = s][q] = s} = accusers
      BY <2>2 DEF LInv, TypeOK
    <2>4. Cardinality(accusers) \in Nat /\ Cardinality(accusers) >= VotesNeeded
      BY <2>2, <2>3, FiniteVoters DEF Count, LInv, TypeOK
    <2> HIDE DEF accusers
    <2>5. /\ Cardinality(accusers) >= 2
          /\ FractionDen * Cardinality(accusers) >= FractionNum * Cardinality(connected)
      BY <2>4, NeededIsEnough DEF LInv
    <2> QED BY <2>2, <2>5, Zenon DEF accusers
  <1> QED BY <1>1, Invariance, PTL DEF Spec, KickedByEnough
=============================================================================
