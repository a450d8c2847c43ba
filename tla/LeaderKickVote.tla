---------------------------- MODULE LeaderKickVote ----------------------------
(***************************************************************************)
(* The leader of the players and the standing votes on a new leader and on  *)
(* kicking a player (game/shared/swarm/asw_gamerules.cpp: SetLeaderVote,    *)
(* SetKickVote, ClearLeaderKickVotes, PlayerSpawn, ClientDisconnected).     *)
(* A vote is the slot of the player it is aimed at, kept in the voter's     *)
(* entity; the game resource keeps the totals that the clients are shown.   *)
(*                                                                          *)
(* Slots are entity indices, from 1; the totals of slot s are element s - 1 *)
(* of the code's arrays.  A slot without a player has no player entity.     *)
(* A vote may be aimed at index 0, where nobody ever is: its count is then  *)
(* written to element -1, the member that lies before the array.  Before    *)
(* m_iLeaderVotes that is the last element of m_iKickVotes; before          *)
(* m_iKickVotes it is the last of m_iszPlayerMedals, which is kept here as  *)
(* element 0 of kickVotes and has no further part.  CNetworkArray::Set only *)
(* asserts its bounds, in a debug build.                                    *)
(***************************************************************************)
EXTENDS Integers, FiniteSets

CONSTANTS
    MaxClients,                 \* gpGlobals->maxClients
    MaxReady,                   \* ASW_MAX_READY_PLAYERS
    FractionNum, FractionDen,   \* asw_vote_kick_fraction, asw_vote_leader_fraction
    PollsAtOnce,                \* bound: how many of the two votes are in use at a time
    StraysAtOnce,               \* bound: how many votes for index 0 stand in a poll
    KicksAtOnce                 \* bound: how many kickids wait

ASSUME SlotConstants ==
    /\ MaxReady \in Nat \ {0}
    /\ MaxClients \in 1..MaxReady
    /\ FractionNum \in Nat /\ FractionDen \in Nat \ {0}
    /\ PollsAtOnce \in 1..2 /\ StraysAtOnce \in Nat /\ KicksAtOnce \in Nat

Slots == 1..MaxClients
NoPlayer == 0
NoVote == -1
Away == -1
NoTarget == 0
Targets == NoVote..MaxClients   \* what cl_leadervote and cl_kickvote clamp to

VARIABLES
    connected,      \* the slots with a connected player
    spectators,     \* m_bRequestedSpectator
    joined,         \* m_bSentJoinedMessage
    leader,         \* m_Leader of the game resource
    meant,          \* who has the ID in s_szLastLeaderNetworkID: a slot, Away or NoPlayer
    leaderVote,     \* m_iLeaderVoteIndex
    kickVote,       \* m_iKickVoteIndex
    leaderVotes,    \* m_iLeaderVotes of the game resource
    kickVotes,      \* m_iKickVotes of the game resource, and what lies before it
    kicking         \* the players whose kickid waits in the engine's command buffer

leadership == <<leader, meant>>
leaderPoll == <<leaderVote, leaderVotes>>
kickPoll == <<kickVote, kickVotes>>
players == <<connected, spectators, joined, kicking>>
vars == <<players, leadership, leaderPoll, kickPoll>>

-----------------------------------------------------------------------------
(* Counting.                                                                *)

Count(votes, target) == Cardinality({p \in connected : votes[p] = target})

StraysBounded(votes) == Cardinality({p \in Slots : votes[p] = NoTarget}) <= StraysAtOnce

\* Faulty variant: the fraction is rounded down.
VotesNeeded_RoundedDown ==
    LET exact == (FractionNum * Cardinality(connected)) \div FractionDen
    IN  IF exact < 2 THEN 2 ELSE exact

\* The fraction of the players, rounded up, and two at least.
VotesNeeded ==
    LET exact == FractionNum * Cardinality(connected)
        rounded == (exact + FractionDen - 1) \div FractionDen
    IN  IF rounded < 2 THEN 2 ELSE rounded

\* The totals once those of the slots in range are counted anew.
Recount(totals, votes, range) ==
    [s \in DOMAIN totals |-> IF s \in range THEN Count(votes, s) ELSE totals[s]]

\* Faulty variant: a vote that moves is not taken back.
LeaderRecount_NewOnly(old, new) == {new} \cap (1..MaxReady)

\* The slots whose totals SetLeaderVote counts anew for a vote that moves from
\* old to new, and those of SetKickVote: the two bounds differ.
LeaderRecount(old, new) ==
    ({old} \cap (0..(MaxReady - 1))) \cup ({new} \cap (1..MaxReady))

KickRecount(old, new) ==
    ({old} \cap (1..MaxReady)) \cup ({new} \cap (0..(MaxReady - 1)))

\* The kick totals once the leader votes in range are counted: the number of
\* those for NoTarget lands in the last of them.
Overrun(totals, votes, range) ==
    IF NoTarget \in range THEN [totals EXCEPT ![MaxReady] = Count(votes, NoTarget)] ELSE totals

\* Faulty variant: no slot is cleared.
ClearsSlot_Never(s) == FALSE

\* ClearLeaderKickVotes does nothing for the last slot of the arrays.
ClearsSlot(s) == s < MaxReady

ClearedVotes(votes, target) ==
    [p \in Slots |-> IF ClearsSlot(target) /\ votes[p] = target THEN NoVote ELSE votes[p]]

ClearedTotals(totals, target) ==
    [s \in DOMAIN totals |-> IF ClearsSlot(target) /\ s = target THEN 0 ELSE totals[s]]

-----------------------------------------------------------------------------
(* Votes.                                                                   *)

\* SetLeaderVote of the leader for another player: leadership is handed over.
HandOver(p, target) ==
    /\ leader = p /\ target \in connected \ {p}
    /\ leader' = target
    /\ leaderVote' = ClearedVotes(leaderVote, target)
    /\ leaderVotes' = ClearedTotals(leaderVotes, target)
    /\ UNCHANGED kickVotes

\* SetLeaderVote of anybody else.
VoteForLeader(p, target) ==
    LET votes == [leaderVote EXCEPT ![p] = target]
        range == LeaderRecount(leaderVote[p], target)
        totals == Recount(leaderVotes, votes, range)
        elected == target \in connected /\ Count(votes, target) >= VotesNeeded
    IN  /\ ~(leader = p /\ target \in connected \ {p})
        /\ \/ /\ elected
              /\ leader' = target
              /\ leaderVote' = ClearedVotes(votes, target)
              /\ leaderVotes' = ClearedTotals(totals, target)
           \/ /\ ~elected
              /\ leaderVote' = votes /\ leaderVotes' = totals
              /\ UNCHANGED leader
        /\ kickVotes' = Overrun(kickVotes, votes, range)

\* cl_leadervote; a vote may be aimed at a slot where nobody is.
SetLeaderVote ==
    /\ PollsAtOnce = 2 \/ \A p \in Slots : kickVote[p] = NoVote
    /\ \E p \in connected, target \in Targets :
          HandOver(p, target) \/ VoteForLeader(p, target)
    /\ StraysBounded(leaderVote')
    /\ UNCHANGED <<players, meant, kickVote>>

\* cl_kickvote.  The votes against a player who is voted out are cleared, then
\* kickid is sent unless he is an admin or his Steam ID is not to be had.
SetKickVote ==
    /\ PollsAtOnce = 2 \/ \A p \in Slots : leaderVote[p] = NoVote
    /\ \E p \in connected, target \in Targets :
          LET votes == [kickVote EXCEPT ![p] = target]
              totals == Recount(kickVotes, votes, KickRecount(kickVote[p], target))
              votedOut == target \in connected /\ Count(votes, target) >= VotesNeeded
          IN  \/ /\ votedOut
                 /\ kickVote' = ClearedVotes(votes, target)
                 /\ kickVotes' = ClearedTotals(totals, target)
                 /\ kicking' \in {kicking, kicking \cup {target}}
              \/ /\ ~votedOut
                 /\ kickVote' = votes /\ kickVotes' = totals
                 /\ UNCHANGED kicking
    /\ StraysBounded(kickVote') /\ Cardinality(kicking') <= KicksAtOnce
    /\ UNCHANGED <<connected, spectators, joined, leadership, leaderPoll>>

-----------------------------------------------------------------------------
(* Players come and go.                                                     *)

\* PlayerSpawn assigns the leader if there is none.
LeaderAfterJoin(p) == IF leader = NoPlayer THEN p ELSE leader

\* ClientPutInServer: the constructor of the player clears the votes aimed at
\* its slot, Spawn resets its own, PlayerSpawn makes it leader if need be.  It
\* may be the player who is remembered as leader.
PlayerSpawn ==
    /\ \E p \in Slots \ connected :
          /\ connected' = connected \cup {p}
          /\ leader' = LeaderAfterJoin(p)
          /\ meant' \in {meant} \cup (IF meant = Away THEN {p} ELSE {})
          /\ leaderVote' = [ClearedVotes(leaderVote, p) EXCEPT ![p] = NoVote]
          /\ kickVote' = [ClearedVotes(kickVote, p) EXCEPT ![p] = NoVote]
          /\ leaderVotes' = ClearedTotals(leaderVotes, p)
          /\ kickVotes' = ClearedTotals(kickVotes, p)
    /\ UNCHANGED <<spectators, joined, kicking>>

\* Faulty variant: the player who leaves is a candidate.
Successor_Self(p) ==
    LET active == connected \ spectators
        candidates == IF active = {} THEN connected ELSE active
    IN  CHOOSE s \in candidates : \A t \in candidates : s <= t

\* Who follows a leader that leaves: the first player who is not a spectator,
\* or else the last one who is.
Successor(p) ==
    LET others == connected \ {p}
        active == others \ spectators
    IN  IF others = {} THEN NoPlayer
        ELSE IF active # {} THEN CHOOSE s \in active : \A t \in active : s <= t
        ELSE CHOOSE s \in others : \A t \in others : s >= t

\* ClientDisconnected: leadership passes on, then both votes are withdrawn.
ClientDisconnected(p) ==
    LET withdrawn == LeaderRecount(leaderVote[p], NoVote) IN
    /\ leader' = IF leader = p THEN Successor(p) ELSE leader
    /\ meant' = IF meant = p THEN Away ELSE meant
    /\ leaderVote' = [leaderVote EXCEPT ![p] = NoVote]
    /\ leaderVotes' = Recount(leaderVotes, leaderVote', withdrawn)
    /\ kickVote' = [kickVote EXCEPT ![p] = NoVote]
    /\ kickVotes' = Recount(Overrun(kickVotes, leaderVote', withdrawn),
                            kickVote', KickRecount(kickVote[p], NoVote))
    /\ connected' = connected \ {p} /\ spectators' = spectators \ {p}
    /\ joined' = joined \ {p} /\ kicking' = kicking \ {p}

\* A player leaves, whether of his own accord or because kickid is executed.
Disconnect == \E p \in connected : ClientDisconnected(p)

\* cl_fullyjoined, once a connection: the player remembered as leader is given
\* the leadership back.
FullyJoined ==
    /\ \E p \in connected \ joined :
          /\ joined' = joined \cup {p}
          /\ leader' = IF meant = p THEN p ELSE leader
    /\ UNCHANGED <<connected, spectators, kicking, meant, leaderPoll, kickPoll>>

\* RememberLeaderID: at the start of a mission, before a change of level.
RememberLeader ==
    /\ leader # NoPlayer
    /\ meant' = leader
    /\ UNCHANGED <<players, leader, leaderPoll, kickPoll>>

\* cl_spectating; taking a marine ends it.
RequestSpectator ==
    /\ \E p \in connected : spectators' = spectators \cup {p}
    /\ UNCHANGED <<connected, joined, kicking, leadership, leaderPoll, kickPoll>>

TakeMarine ==
    /\ \E p \in spectators : spectators' = spectators \ {p}
    /\ UNCHANGED <<connected, joined, kicking, leadership, leaderPoll, kickPoll>>

\* The chat command /setleader of an admin.  Its search for a name runs over
\* the indices below maxClients, so the player in the last slot is not found.
ChatSetLeader ==
    /\ \E p \in connected :
          \E target \in {p} \cup (connected \ {MaxClients}) : leader' = target
    /\ UNCHANGED <<players, meant, leaderPoll, kickPoll>>

\* A change of level: new entities, nobody has joined yet; only the remembered
\* network ID survives.
ChangeLevel ==
    /\ connected' = {} /\ spectators' = {} /\ joined' = {} /\ kicking' = {}
    /\ leader' = NoPlayer
    /\ meant' = IF meant = NoPlayer THEN NoPlayer ELSE Away
    /\ leaderVote' = [p \in Slots |-> NoVote]
    /\ kickVote' = [p \in Slots |-> NoVote]
    /\ leaderVotes' = [s \in 1..MaxReady |-> 0]
    /\ kickVotes' = [s \in 0..MaxReady |-> 0]

Init ==
    /\ connected = {} /\ spectators = {} /\ joined = {} /\ kicking = {}
    /\ leader = NoPlayer /\ meant = NoPlayer
    /\ leaderVote = [p \in Slots |-> NoVote]
    /\ kickVote = [p \in Slots |-> NoVote]
    /\ leaderVotes = [s \in 1..MaxReady |-> 0]
    /\ kickVotes = [s \in 0..MaxReady |-> 0]

Next ==
    \/ SetLeaderVote
    \/ SetKickVote
    \/ PlayerSpawn
    \/ Disconnect
    \/ FullyJoined
    \/ RememberLeader
    \/ RequestSpectator
    \/ TakeMarine
    \/ ChatSetLeader
    \/ ChangeLevel

Spec == Init /\ [][Next]_vars

-----------------------------------------------------------------------------
(* Properties.                                                              *)

\* Every variable keeps the shape the code gives it; only players vote.
TypeOK ==
    /\ connected \subseteq Slots /\ spectators \subseteq connected
    /\ joined \subseteq connected /\ kicking \subseteq connected
    /\ leader \in Slots \cup {NoPlayer}
    /\ meant \in connected \cup {NoPlayer, Away}
    /\ leaderVote \in [Slots -> Targets]
    /\ kickVote \in [Slots -> Targets]
    /\ \A p \in Slots \ connected : leaderVote[p] = NoVote /\ kickVote[p] = NoVote
    /\ leaderVotes \in [1..MaxReady -> Nat]
    /\ kickVotes \in [0..MaxReady -> Nat]

\* As long as there are players one of them is the leader, however the leader
\* came to office and whoever leaves.
LeaderIsAPlayer ==
    IF connected = {} THEN leader = NoPlayer ELSE leader \in connected

\* The totals shown to the players ("the number of kick votes against him") are
\* the votes cast by the players who are there: a vote for nobody, counted before
\* the first element, must not show up as a vote against somebody else.
TallyMatchesVotes ==
    \A s \in Slots :
        /\ leaderVotes[s] = Count(leaderVote, s)
        /\ kickVotes[s] = Count(kickVote, s)

\* ClearLeaderKickVotes, "clears out any kick/leader votes aimed at this
\* player": who joins finds no vote aimed at him, although the votes against
\* the player who had his slot before were never withdrawn.
NewcomerIsNotAccused ==
    [][\A s \in connected' \ connected :
          /\ \A p \in connected' : leaderVote'[p] # s /\ kickVote'[p] # s
          /\ leaderVotes'[s] = 0 /\ kickVotes'[s] = 0]_vars

\* A player is kicked only on the votes of enough of the connected players, his
\* own slot's earlier occupants and players who left not counted.
KickedByEnough ==
    [][\A s \in kicking' \ kicking : \E p \in connected :
          LET accusers == {q \in connected : kickVote[q] = s} \cup {p}
          IN  /\ Cardinality(accusers) >= 2
              /\ FractionDen * Cardinality(accusers) >= FractionNum * Cardinality(connected)]_vars
=============================================================================
