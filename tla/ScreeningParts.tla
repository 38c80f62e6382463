---------------------------- MODULE ScreeningParts ----------------------------
(***************************************************************************)
(* Screening, and, each with variables of its own, what it rests on: the   *)
(* inputs of the policy engine, the behavioural baseline, the anomaly      *)
(* score and the simulator.  The parts share no state, and a behaviour is  *)
(* one of a single part.                                                   *)
(***************************************************************************)
EXTENDS Screening

CONSTANTS
    Parts,                                                           \* the parts a run looks at
    Contacts, Amounts, Counts, Minutes, Gases, Thresholds, MaxRules, \* of PolicyTightening
    Screenings, Fresh, Stale, Window, MaxTime,                       \* of Baseline
    Histories, Means, Stds, Days, Shares, Values, MaxRecent,         \* of Scorer
    Sims, Ports, RawGases, Ceilings,                                 \* of Simulator
    MaxFaults                                                        \* of Baseline and Simulator

VARIABLES
    part,
    ePolicy, eRequest, eContext,
    bNow, bPc, bSeen, bRow, bTxs, bProfiles, bMissed, bFaults,
    aBaseline, aValue, aRecent, aIsNew,
    fTx, fPc, fPort, fAlive, fListener, fStatus, fGas, fResult, fFaults

eVars == <<ePolicy, eRequest, eContext>>
bVars == <<bNow, bPc, bSeen, bRow, bTxs, bProfiles, bMissed, bFaults>>
aVars == <<aBaseline, aValue, aRecent, aIsNew>>
fVars == <<fTx, fPc, fPort, fAlive, fListener, fStatus, fGas, fResult, fFaults>>

Engine == INSTANCE PolicyTightening WITH
    Addresses <- Contacts, Scores <- Thresholds,
    policy <- ePolicy, request <- eRequest, context <- eContext

Profile == INSTANCE Baseline WITH
    now <- bNow, pc <- bPc, seen <- bSeen, row <- bRow, txs <- bTxs,
    profiles <- bProfiles, missed <- bMissed, faults <- bFaults

Anomaly == INSTANCE Scorer WITH
    Counts <- Histories,
    baseline <- aBaseline, value <- aValue, recent <- aRecent, isNew <- aIsNew

Forks == INSTANCE Simulator WITH
    Gases <- RawGases,
    tx <- fTx, pc <- fPc, port <- fPort, alive <- fAlive, listener <- fListener,
    status <- fStatus, gas <- fGas, result <- fResult, faults <- fFaults

ASSUME PartConstants ==
    /\ Engine!InputsAreNumbers /\ Null \notin Contacts
    /\ Profile!BaselineConstants /\ Anomaly!ScorerConstants /\ Forks!SimulatorConstants

-----------------------------------------------------------------------------
\* A part that has no input of its own to choose starts as it always does; the
\* variables of an idle part that has are Null.
PartsInit ==
    /\ part \in Parts
    /\ Init /\ Profile!Init
    /\ IF part = "engine" THEN Engine!Init
       ELSE ePolicy = Null /\ eRequest = Null /\ eContext = Null
    /\ IF part = "anomaly" THEN Anomaly!Init
       ELSE aBaseline = Null /\ aValue = Null /\ aRecent = Null /\ aIsNew = Null
    /\ IF part = "forks" THEN Forks!Init
       ELSE /\ fTx = Null /\ fPc = Null /\ fPort = Null /\ fAlive = Null /\ fListener = Null
            /\ fStatus = Null /\ fGas = Null /\ fResult = Null /\ fFaults = Null

PartsNext ==
    /\ UNCHANGED part
    /\ \/ part = "pipeline" /\ Next /\ UNCHANGED <<eVars, bVars, aVars, fVars>>
       \/ part = "engine" /\ Engine!Next /\ UNCHANGED <<vars, bVars, aVars, fVars>>
       \/ part = "baseline" /\ Profile!Next /\ UNCHANGED <<vars, eVars, aVars, fVars>>
       \/ part = "anomaly" /\ Anomaly!Next /\ UNCHANGED <<vars, eVars, bVars, fVars>>
       \/ part = "forks" /\ Forks!Next /\ UNCHANGED <<vars, eVars, bVars, aVars>>

PartsSpec == PartsInit /\ [][PartsNext]_<<part, vars, eVars, bVars, aVars, fVars>>

-----------------------------------------------------------------------------
(* The properties of the parts, see their modules *)

\* The engine's decision is the harshest of the rules that apply.
HarshestWins == part = "engine" => Engine!HarshestWins

\* No tightening of its inputs earns a milder decision.
NoMilder == part = "engine" => Engine!NoMilder
NeverMilder == [][NoMilder]_eVars

\* What the newest baseline lacks came after its reading and soon after its date.
FreshOrRecent == Profile!FreshOrRecent

\* A more unusual transaction scores no less.
UnusualScoresNoLess == part = "anomaly" => Anomaly!UnusualScoresNoLess
NeverScoresLess == [][UnusualScoresNoLess]_aVars

\* A simulation leaves no process and no port behind, but for a wait cut short.
ForkLeftOnlyIfCut == part = "forks" => Forks!ForkLeftOnlyIfCut

\* A gas ceiling exceeded is never a silent success.
CeilingNeverPassed == part = "forks" => Forks!CeilingNeverPassed
=============================================================================
