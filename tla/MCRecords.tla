------------------------------ MODULE MCRecords ------------------------------
(***************************************************************************)
(* Five parts with nothing in common but that what they wrote must stay:   *)
(* the identity made at the first start, the enrolment of machines, the    *)
(* history kept of everything, the agent's operation ledger, and a stream  *)
(* through the edge relay.  A behaviour follows one of them; the others    *)
(* stand at a first state.                                                 *)
(***************************************************************************)
EXTENDS MCEnrollment

CONSTANTS Garbage

VARIABLES part,
          deployment, disk, command,
          scope, clock, event, work, record, prune, exports, erased,
          order, lines, tail, up, acked, kills,
          fallback, valid, sent, queue, task, writer, first, got, over, pump, out, open, left

setupVars == <<deployment, disk, command>>
enrolVars == <<token, server, request, run, file, issued>>
historyVars == <<scope, clock, event, work, record, prune, exports, erased>>
ledgerVars == <<order, lines, tail, up, acked, kills>>
relayVars == <<fallback, valid, sent, queue, task, writer, first, got, over, pump, out, open, left>>

Setup == INSTANCE Bootstrap WITH MaxRuns <- 3, file <- disk, run <- command

\* Three audit events, an operation and a mail.
Past == INSTANCE History WITH
    Events <- {1, 2, 3}, Works <- {11, 12}, Mails <- {12}, Settle <- 1, LongestWrite <- 1,
    AuditDays <- 2, OperationalDays <- 1, MaxClock <- 3

\* Four keys (the model values of tokens and labels), a ledger that keeps three.
Ledger == INSTANCE OperationLedger WITH
    Idems <- Tokens \cup Labels, MaxEntries <- 3, MaxKills <- 2, MaxLines <- 5, Nil <- None

Relay == INSTANCE EdgeRelay WITH MaxFrames <- 4, MaxAnswers <- 2

MCInit ==
    /\ part \in {"setup", "machines", "history", "ledger", "relay"}
    /\ Setup!Init /\ Init /\ Past!Init /\ Ledger!Init /\ Relay!Init
    /\ part # "setup" => deployment = None
    /\ part # "history" => scope = "audit"
    /\ part # "relay" => fallback /\ valid = {}

MCNext ==
    \/ part = "setup" /\ Setup!Next /\ UNCHANGED <<part, enrolVars, historyVars, ledgerVars, relayVars>>
    \/ part = "machines" /\ Next /\ UNCHANGED <<part, setupVars, historyVars, ledgerVars, relayVars>>
    \/ part = "history" /\ Past!Next /\ UNCHANGED <<part, setupVars, enrolVars, ledgerVars, relayVars>>
    \/ part = "ledger" /\ Ledger!Next /\ UNCHANGED <<part, setupVars, enrolVars, historyVars, relayVars>>
    \/ part = "relay" /\ Relay!Next /\ UNCHANGED <<part, setupVars, enrolVars, historyVars, ledgerVars>>

MCSpec == MCInit /\ [][MCNext]_<<part, setupVars, enrolVars, historyVars, ledgerVars, relayVars>>

-----------------------------------------------------------------------------
\* However the starts overlap and wherever one is killed, the files never mix the
\* halves of two runs, and a start that ended well left everything in place
\* (Bootstrap!PairsBelongTogether, Bootstrap!DoneMeansReady).
IdentityIsWhole == part = "setup" => Setup!PairsBelongTogether /\ Setup!DoneMeansReady

\* Each export extends the one before, up to what retention deleted, and an altered
\* copy is not accepted in its place (History!ExportsExtend,
\* History!AcceptedMeansUnchanged).
ExportsHold == part = "history" => Past!ExportsExtend /\ Past!AcceptedMeansUnchanged

\* Retention deletes nothing unfinished, young or still referred to
\* (History!PruneSparesWhatCounts).
PruneSparesWhatCounts == Past!PruneSparesWhatCounts

\* The operations answered last are remembered across restarts, each once; a kill costs
\* at most one of them (OperationLedger!TypeOK, OperationLedger!LossBounded).
LedgerRemembers == part = "ledger" => Ledger!TypeOK /\ Ledger!LossBounded

\* Through the relay the frame that opened the stream leads, the others keep their order,
\* and the client hears one far side (EdgeRelay!NothingOvertakes, EdgeRelay!OneVoice).
StreamIsWhole == part = "relay" => Relay!NothingOvertakes /\ Relay!OneVoice
=============================================================================
