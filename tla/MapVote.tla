-------------------------------- MODULE MapVote --------------------------------
(***************************************************************************)
(* The vote on a change of map (game/shared/swarm/asw_gamerules.cpp:        *)
(* StartVote, CastVote, RemoveVote, UpdateVote).  One vote at a time is     *)
(* open; players vote once each, are remembered by their network ID, and    *)
(* may leave and come back while it lasts.  Think, every cast and every     *)
(* removed vote compare the tallies with the number of connected players.   *)
(* A vote that passes asks the engine for a level change, which comes       *)
(* later and starts the game rules anew.                                    *)
(*                                                                          *)
(* A person is whoever sits behind a network ID.  Until Steam has validated *)
(* a person GetASWNetworkID gives the address in place of the Steam ID.     *)
(* The time left is counted in ticks.                                       *)
(***************************************************************************)
EXTENDS Integers, FiniteSets

CONSTANTS
    Persons,
    FractionNum, FractionDen,   \* asw_vote_map_fraction as a fraction
    VoteDuration,               \* asw_vote_duration
    LateValidation,             \* Steam may validate a person after the vote
    SaveOutcomes                \* what ASW_Campaign_CreateNewSaveGame may return

ASSUME VoteConstants ==
    /\ IsFiniteSet(Persons)
    /\ FractionNum \in Nat /\ FractionDen \in Nat \ {0}
    /\ VoteDuration \in Nat
    /\ LateValidation \in BOOLEAN
    /\ SaveOutcomes \in SUBSET BOOLEAN \ {{}}

\* What is voted on: a mission, a mission of a campaign (which needs a new
\* saved game), or a saved campaign.
VoteTypes == {"mission", "campaign", "saved"}

NotVoted == 0
VotedNo == 1
VotedYes == 2

VARIABLES
    connected,      \* the persons with a player entity
    validated,      \* those whose Steam ID is known
    mapVoted,       \* m_iMapVoted of their players
    voteType,       \* m_iCurrentVoteType
    yes, no,        \* m_iCurrentVoteYes, m_iCurrentVoteNo
    timeLeft,       \* m_fVoteEndTime - curtime
    playersVoted,   \* m_PlayersVoted: network IDs
    saveExists,     \* the saved campaign that is voted on is still on disk
    levelChange     \* a level change waits in the engine's command buffer

tally == <<yes, no>>
vote == <<voteType, tally, timeLeft, playersVoted>>
vars == <<connected, validated, mapVoted, vote, saveExists, levelChange>>

\* GetASWNetworkID.
NetworkID(p) == <<p, IF p \in validated THEN "steam" ELSE "address">>

-----------------------------------------------------------------------------
\* Faulty variant: the fraction is rounded down.
NeededVotes_RoundedDown(n) ==
    LET floor == (FractionNum * n) \div FractionDen
    IN  IF floor < 1 THEN 1 ELSE floor

\* The votes that decide among n players: the fraction of them, rounded up, and
\* one at least.
NeededVotes(n) ==
    LET rounded == (FractionNum * n) \div FractionDen
        floor == IF rounded < 1 THEN 1 ELSE rounded
    IN  IF FractionNum * n > floor * FractionDen THEN floor + 1 ELSE floor

ClearVote ==
    /\ voteType' = "none"
    /\ yes' = 0 /\ no' = 0 /\ timeLeft' = 0
    /\ playersVoted' = {}

KeepVote(type, y, n, left, ids) ==
    /\ voteType' = type
    /\ yes' = y /\ no' = n /\ timeLeft' = left
    /\ playersVoted' = ids
    /\ UNCHANGED levelChange

\* What a vote that passes does: it is cleared and the level changes.  Without
\* a new saved game the function returns and leaves it as it is; a saved
\* campaign that is gone changes nothing.
PassVote(type, y, n, left, ids) ==
    \/ /\ \/ type = "mission"
          \/ type = "campaign" /\ TRUE \in SaveOutcomes
       /\ ClearVote
       /\ levelChange' = TRUE
    \/ /\ type = "campaign" /\ FALSE \in SaveOutcomes
       /\ KeepVote(type, y, n, left, ids)
    \/ /\ type = "saved"
       /\ ClearVote
       /\ levelChange' = (levelChange \/ saveExists')

\* Faulty variants: a vote that everybody but one took part in is rejected;
\* one whose time is up is not.
Rejected_OneShort(y, n, left) ==
    LET players == Cardinality(connected) IN
    /\ FractionNum <= FractionDen
    /\ n >= NeededVotes(players) \/ left <= 0 \/ n + y >= players - 1

Rejected_NoTimeout(y, n, left) ==
    LET players == Cardinality(connected) IN
    /\ FractionNum <= FractionDen
    /\ n >= NeededVotes(players) \/ n + y >= players

\* A fraction above 1 means that a vote is never rejected.
Rejected(y, n, left) ==
    LET players == Cardinality(connected) IN
    /\ FractionNum <= FractionDen
    /\ n >= NeededVotes(players) \/ left <= 0 \/ n + y >= players

\* UpdateVote, for a vote of this type with these tallies.
UpdateVote(type, y, n, left, ids) ==
    LET passes == y >= NeededVotes(Cardinality(connected)) IN
    \/ /\ passes
       /\ PassVote(type, y, n, left, ids)
    \/ /\ ~passes /\ Rejected(y, n, left)
       /\ ClearVote
       /\ UNCHANGED levelChange
    \/ /\ ~passes /\ ~Rejected(y, n, left)
       /\ KeepVote(type, y, n, left, ids)

-----------------------------------------------------------------------------
\* StartVote by p: the tallies and everybody's vote are reset and p votes yes.
StartVote(p, type) ==
    /\ mapVoted' = [q \in Persons |-> IF q = p THEN VotedYes ELSE NotVoted]
    /\ UpdateVote(type, 1, 0, VoteDuration, {NetworkID(p)})

\* A vote for what exists is started while none is in progress.
RequestVote ==
    /\ voteType = "none"
    /\ \E p \in connected, type \in VoteTypes :
          /\ saveExists' = (type = "saved")
          /\ StartVote(p, type)
    /\ UNCHANGED <<connected, validated>>

\* Faulty variant: who voted is not looked up.
CastVote_Again(p, choice) ==
    /\ mapVoted' = [mapVoted EXCEPT ![p] = choice]
    /\ UpdateVote(voteType,
                  yes + (IF choice = VotedYes THEN 1 ELSE 0),
                  no + (IF choice = VotedNo THEN 1 ELSE 0),
                  timeLeft, playersVoted \cup {NetworkID(p)})

\* CastVote, by somebody who is not remembered as having voted.
CastVote(p, choice) ==
    /\ NetworkID(p) \notin playersVoted
    /\ mapVoted' = [mapVoted EXCEPT ![p] = choice]
    /\ UpdateVote(voteType,
                  yes + (IF choice = VotedYes THEN 1 ELSE 0),
                  no + (IF choice = VotedNo THEN 1 ELSE 0),
                  timeLeft, playersVoted \cup {NetworkID(p)})

Vote ==
    /\ voteType # "none"
    /\ UNCHANGED <<connected, validated, saveExists>>
    /\ \E p \in connected, choice \in {VotedNo, VotedYes} : CastVote(p, choice)

\* RemoveVote: the vote no longer counts, its network ID stays remembered.
RemoveVote(p) ==
    UpdateVote(voteType,
               yes - (IF mapVoted[p] = VotedYes THEN 1 ELSE 0),
               no - (IF mapVoted[p] = VotedNo THEN 1 ELSE 0),
               timeLeft, playersVoted)

\* ClientDisconnected: the vote is removed while the player still counts as
\* connected; then the player entity goes.
ClientDisconnected(p) ==
    /\ UNCHANGED saveExists
    /\ \/ /\ voteType # "none" /\ mapVoted[p] # NotVoted
          /\ RemoveVote(p)
       \/ /\ voteType = "none" \/ mapVoted[p] = NotVoted
          /\ UNCHANGED <<vote, levelChange>>
    /\ connected' = connected \ {p}
    /\ validated' = validated \ {p}
    /\ mapVoted' = [mapVoted EXCEPT ![p] = NotVoted]

Disconnect == \E p \in connected : ClientDisconnected(p)

\* A player entity of a person joins: it has not voted.
PlayerSpawn ==
    /\ \E p \in Persons \ connected :
          /\ connected' = connected \cup {p}
          /\ \/ validated' = validated \cup {p}
             \/ LateValidation /\ UNCHANGED validated
    /\ UNCHANGED <<mapVoted, vote, saveExists, levelChange>>

Validate ==
    /\ \E p \in connected \ validated : validated' = validated \cup {p}
    /\ UNCHANGED <<connected, mapVoted, vote, saveExists, levelChange>>

\* Think updates an open vote.
Think ==
    /\ voteType # "none"
    /\ UNCHANGED <<connected, validated, mapVoted, saveExists>>
    /\ UpdateVote(voteType, yes, no, timeLeft, playersVoted)

Tick ==
    /\ voteType # "none" /\ timeLeft > 0
    /\ timeLeft' = timeLeft - 1
    /\ UNCHANGED <<connected, validated, mapVoted, voteType, tally, playersVoted, saveExists,
                   levelChange>>

\* Old saved games are deleted while the game runs.
SaveDeleted ==
    /\ saveExists
    /\ saveExists' = FALSE
    /\ UNCHANGED <<connected, validated, mapVoted, vote, levelChange>>

\* The engine changes the level: new game rules, and everybody joins anew.
ChangeLevel ==
    /\ levelChange
    /\ levelChange' = FALSE
    /\ ClearVote
    /\ connected' = {} /\ validated' = {}
    /\ mapVoted' = [p \in Persons |-> NotVoted]
    /\ UNCHANGED saveExists

Init ==
    /\ connected = {} /\ validated = {}
    /\ mapVoted = [p \in Persons |-> NotVoted]
    /\ voteType = "none" /\ yes = 0 /\ no = 0 /\ timeLeft = 0
    /\ playersVoted = {}
    /\ saveExists = FALSE
    /\ levelChange = FALSE

Next ==
    \/ RequestVote
    \/ Vote
    \/ Disconnect
    \/ PlayerSpawn
    \/ Validate
    \/ Think
    \/ Tick
    \/ SaveDeleted
    \/ ChangeLevel

Spec == Init /\ [][Next]_vars

\* The server thinks in every frame, and time passes.
FairSpec == Spec /\ WF_vars(Think) /\ WF_vars(Tick)

-----------------------------------------------------------------------------
(* Properties.                                                              *)

\* Every variable keeps the shape the code gives it; in particular a tally
\* never goes below zero when votes are removed.
TypeOK ==
    /\ connected \subseteq Persons /\ validated \subseteq connected
    /\ mapVoted \in [Persons -> {NotVoted, VotedNo, VotedYes}]
    /\ voteType \in VoteTypes \cup {"none"}
    /\ yes \in Nat /\ no \in Nat
    /\ timeLeft \in 0..VoteDuration
    /\ playersVoted \subseteq Persons \X {"steam", "address"}
    /\ saveExists \in BOOLEAN /\ levelChange \in BOOLEAN

Voters(choice) == {p \in connected : mapVoted[p] = choice}

\* Somebody voted under his address and has a Steam ID by now (or has used it):
\* CastVote does not find him among those who voted, so he may count twice.
LateVoter ==
    \E p \in Persons : /\ <<p, "address">> \in playersVoted
                       /\ p \in validated \/ <<p, "steam">> \in playersVoted

\* While a vote is open its tallies are the votes of the players who are
\* there: CastVote counts nobody twice and RemoveVote takes back what a player
\* who leaves had voted, whoever left, came back or was validated before.
TallyMatchesVotes ==
    voteType # "none" /\ ~LateVoter =>
        /\ yes = Cardinality(Voters(VotedYes))
        /\ no = Cardinality(Voters(VotedNo))

\* A level is changed only on the votes of enough of the connected players:
\* votes of players who left, and votes of an earlier vote, do not count.
EnoughVoters ==
    [][~levelChange /\ levelChange' /\ ~LateVoter =>
          FractionDen * Cardinality({p \in connected : mapVoted'[p] = VotedYes})
                >= FractionNum * Cardinality(connected)]_vars

\* A vote is rejected before its time is up only when the players who have not
\* voted against it are too few to pass it.
RejectedOnlyWhenHopeless ==
    [][/\ voteType \in {"mission", "campaign"} /\ voteType' = "none"
       /\ timeLeft > 0 /\ connected # {} /\ ~LateVoter
       /\ ~levelChange /\ ~levelChange'
       => FractionDen * Cardinality({p \in connected : mapVoted'[p] # VotedNo})
             < FractionNum * Cardinality(connected)]_vars

\* The vote has passed, but the saved game it needs was not created.
SaveMissing == voteType = "campaign" /\ yes >= NeededVotes(Cardinality(connected))

\* Every vote is decided by the players, by their leaving or by the clock,
\* unless it passes and its saved game cannot be created.
EveryVoteIsDecided == voteType # "none" ~> voteType = "none" \/ SaveMissing

\* asw_vote_duration, "Time allowed to vote on a map/campaign/saved game
\* change": a vote does not stay open for ever.
EveryVoteEnds == voteType # "none" ~> voteType = "none"

\* CastVote, "check this player hasn't voted already": only who has a vote that
\* counts is turned away, and nobody counts twice.
OnlyVotersTurnedAway ==
    voteType # "none" =>
        \A p \in connected : NetworkID(p) \in playersVoted => mapVoted[p] # NotVoted

OneVoteEach ==
    voteType # "none" => yes + no = Cardinality({p \in connected : mapVoted[p] # NotVoted})
=============================================================================
