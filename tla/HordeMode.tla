------------------------------- MODULE HordeMode -------------------------------
(***************************************************************************)
(* Horde mode: which alien the next horde is made of, how many there may be *)
(* and how strong they are (game/server/ASW_Horde_Mode.cpp).                *)
(*                                                                          *)
(* The settings of a horde are console variables of the whole server, which *)
(* the mode overwrites whenever a horde has finished spawning, or by the    *)
(* clock.  They outlive the level.  An administrator may set the variables  *)
(* of the beta models at any time; one he set to mix the models is left to  *)
(* him.                                                                     *)
(***************************************************************************)
EXTENDS Integers, FiniteSets, FiniteSetsExt

CONSTANTS
    NumKinds,       \* ALIEN_INDEX_COUNT, the rows of the table of aliens
    Allowed,        \* the kinds whose flag asw_hordemode_aliens has
    SizeMin,        \* m_pMinCvar, for each kind
    SizeMax,        \* m_pMaxCvar, for each kind
    Beta,           \* the kinds with m_bBeta
    BetaCvar,       \* m_pBetaAlienCvar: a name, or NoCvar
    HealthCvar,     \* m_pAlienHealthCvar: kinds may share it
    GivenModels,    \* bound: what an administrator sets the beta variables to
    UpdateMode,     \* asw_hordemode_update_mode: "finished" (0) or "timed"
    Mode            \* asw_hordemode_mode

Kinds == 1..NumKinds
Drone == 1
Unchosen == 0
NoCvar == "none"

\* "mixed" is the value 2, "random all"; "on" is 1, but 0 for the variables that
\* ask for a new model instead of an old one (~m_bBetaAlienCvarReversed).
BetaModels == {"off", "on", "mixed"}

Choosable == {k \in Kinds \cap Allowed : SizeMax[k] # 0}

\* A server that allows no alien hangs in GetRandomValidAlien.
ASSUME HordeModeConstants ==
    /\ NumKinds \in Nat \ {0} /\ Allowed \subseteq Kinds /\ Beta \subseteq Kinds
    /\ SizeMin \in [Kinds -> Nat] /\ SizeMax \in [Kinds -> Nat]
    /\ \A k \in Kinds : SizeMin[k] <= SizeMax[k]
    /\ Drone \notin Beta /\ \A k \in Beta : BetaCvar[k] # NoCvar
    /\ GivenModels \subseteq BetaModels
    /\ UpdateMode \in {"finished", "timed"} /\ Mode \in 0..2
    /\ Choosable # {}

VARIABLES
    hordeMode,      \* asw_hordemode
    override,       \* asw_horde_override
    chosen,         \* the kind that asw_horde_class and asw_horde_size_* are set to
    betaModel,      \* for each beta variable, which model it asks for
    configured,     \* history: what the administrator last set each beta variable to
    healthFrom      \* for each health variable, the kind by whose limits it was drawn

hordeSettings == <<chosen, betaModel, healthFrom>>
hordeModeVars == <<hordeMode, override, configured, hordeSettings>>

HealthCvars == {HealthCvar[k] : k \in Kinds}
BetaCvars == {BetaCvar[k] : k \in Kinds} \ {NoCvar}

-----------------------------------------------------------------------------

\* Every row is drawn in turn: of those who share a variable the last one wins.
RandomizeHealth ==
    healthFrom' = [c \in HealthCvars |-> Max({k \in Kinds : HealthCvar[k] = c})]

\* A beta variable is set to what a kind asks for, unless it mixes the models.
AskFor(models, kind, model) ==
    IF BetaCvar[kind] # NoCvar /\ models[BetaCvar[kind]] # "mixed"
    THEN [models EXCEPT ![BetaCvar[kind]] = model] ELSE models

ModelOf(kind) == IF kind \in Beta THEN "on" ELSE "off"

\* Faulty variant: the beta model of the last kind stays on.
SetBeta_KeepLast(kind) == betaModel' = AskFor(betaModel, kind, ModelOf(kind))

\* The beta model of the last kind is turned off (m_iLastAlienClass is the drone
\* at first), then that of the new kind on or off.
SetBeta(kind) ==
    LET last == IF chosen = Unchosen THEN Drone ELSE chosen
        cleared == IF last \in Beta THEN AskFor(betaModel, last, "off") ELSE betaModel
    IN  betaModel' = AskFor(cleared, kind, ModelOf(kind))

UpdateHordeMode ==
    \E kind \in Choosable :
       /\ SetBeta(kind)
       /\ IF Mode \in {0, 1} THEN RandomizeHealth ELSE UNCHANGED healthFrom
       /\ chosen' = kind

\* HordeFinishedSpawning, whether the mode is on or not.
HordeFinishedSpawning ==
    IF UpdateMode = "finished" /\ Mode = 1 THEN UpdateHordeMode
    ELSE IF UpdateMode = "finished" /\ Mode = 0 THEN RandomizeHealth /\ UNCHANGED <<chosen, betaModel>>
    ELSE UNCHANGED hordeSettings

\* FrameUpdatePostEntityThink of the mode.  due: the time of the last update by
\* the clock, m_flLastThinkTime, is up.
HordeModeFrame ==
    /\ hordeMode
    /\ override' = TRUE
    /\ \E due \in BOOLEAN :
          IF UpdateMode = "timed" /\ due THEN UpdateHordeMode ELSE UNCHANGED hordeSettings
    /\ UNCHANGED <<hordeMode, configured>>

\* An administrator switches the mode.
SwitchHordeMode ==
    /\ hordeMode' = ~hordeMode
    /\ UNCHANGED <<override, configured, hordeSettings>>

\* An administrator sets a beta variable.
SetBetaVariable ==
    /\ \E c \in BetaCvars, model \in GivenModels :
          /\ betaModel' = [betaModel EXCEPT ![c] = model]
          /\ configured' = [configured EXCEPT ![c] = model]
    /\ UNCHANGED <<hordeMode, override, chosen, healthFrom>>

\* The lobby's onslaught option.
SetOnslaught ==
    /\ override' \in BOOLEAN
    /\ UNCHANGED <<hordeMode, configured, hordeSettings>>

\* The server's configuration may have set the variables.
HordeModeInit ==
    /\ hordeMode \in BOOLEAN /\ override \in BOOLEAN
    /\ chosen = Unchosen
    /\ betaModel \in [BetaCvars -> GivenModels] /\ configured = betaModel
    /\ healthFrom = [c \in HealthCvars |-> Unchosen]

HordeModeNext == HordeModeFrame \/ SwitchHordeMode \/ SetBetaVariable \/ SetOnslaught

HordeModeTypeOK ==
    /\ hordeMode \in BOOLEAN /\ override \in BOOLEAN
    /\ chosen \in Choosable \cup {Unchosen}
    /\ betaModel \in [BetaCvars -> BetaModels] /\ configured \in [BetaCvars -> BetaModels]
    /\ healthFrom \in [HealthCvars -> Kinds \cup {Unchosen}]
=============================================================================
