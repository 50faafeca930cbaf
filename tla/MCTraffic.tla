------------------------------ MODULE MCTraffic ------------------------------
(***************************************************************************)
(* Three loops: the usage poll, the quota sweep, and the app that keeps    *)
(* its session going.  A behaviour follows one of them; the others stand   *)
(* at a first state.                                                       *)
(***************************************************************************)
EXTENDS Naturals, FiniteSets

CONSTANTS Nil, s1, s2, g1, g2, p1, c1, q1, q2

VARIABLES loop,
          served, counter, row, pc, at, val, had, crossed, restarts, faults,
          total, user, cred, sweep, grant, connect, cuts,
          state, stored, call, inFlight, tok, over, bye, left, lost, raced, trouble

usageVars == <<served, counter, row, pc, at, val, had, crossed, restarts, faults>>
quotaVars == <<total, user, cred, sweep, grant, connect, cuts>>
appVars == <<state, stored, call, inFlight, tok, over, bye, left, lost, raced, trouble>>
vars == <<loop, usageVars, quotaVars, appVars>>

Usage == INSTANCE UsageLedger WITH
    Polls <- {p1}, Changers <- {c1}, MaxServed <- 3, MaxRestarts <- 2, MaxFaults <- 1

\* An allowance of 0 is spent at once, 1 takes recorded traffic to spend, Nil never is.
Quotas == INSTANCE Quota WITH
    Sweeps <- {s1, s2}, Grants <- {g1, g2}, Allowances <- {Nil, 0, 1}, MaxTotal <- 2

App == INSTANCE AppSession WITH
    Requests <- {q1, q2}, MaxTokens <- 4, MaxFaults <- 2, None <- Nil, faults <- trouble

Init ==
    /\ loop \in {"usage", "quota", "app"}
    /\ Usage!Init /\ Quotas!Init /\ App!Init
    /\ loop # "quota" => user.quota = Nil /\ \A g \in {g1, g2} : grant[g].quota = Nil

Next ==
    \/ loop = "usage" /\ Usage!Next /\ UNCHANGED <<loop, quotaVars, appVars>>
    \/ loop = "quota" /\ Quotas!Next /\ UNCHANGED <<loop, usageVars, appVars>>
    \/ loop = "app" /\ App!Next /\ UNCHANGED <<loop, usageVars, quotaVars>>

\* Each loop's own fairness: a pass that has begun goes on.
Fairness ==
    /\ WF_usageVars(loop = "usage" /\ Usage!PollStep(p1))
    /\ WF_usageVars(loop = "usage" /\ pc[c1] # "idle" /\ Usage!ChangeStep(c1))
    /\ \A s \in {s1, s2} : WF_quotaVars(loop = "quota" /\ Quotas!SweepStep(s))

Spec == Init /\ [][Next]_vars /\ Fairness

-----------------------------------------------------------------------------
\* No byte is counted twice, however readings and restarts interleave
\* (UsageLedger!NeverCountsTwice).
NeverCountsTwice == loop = "usage" => Usage!NeverCountsTwice

\* Once traffic stops, and with no restart, the total comes to be what was served
\* (UsageLedger!EventuallyExact).
EventuallyExact == Usage!EventuallyExact

\* Sweeps racing for one account cut it off once per allowance
\* (Quota!OneCutPerAllowance).
OneCutPerAllowance == loop = "quota" => Quotas!OneCutPerAllowance

\* A spent allowance is noticed, unless a new one comes first (Quota!SpentIsMarked).
SpentIsMarked == Quotas!SpentIsMarked

\* The app uses no refresh token twice and keeps a session that is alive, offline or
\* not, unless an answer was lost (AppSession!NoNeedlessReuse, AppSession!KeepsItsSession).
AppKeepsItsSession == loop = "app" => App!NoNeedlessReuse /\ App!KeepsItsSession
=============================================================================
