-------------------------------- MODULE Quota --------------------------------
(***************************************************************************)
(* One account's traffic allowance: the enforcement sweep, which measures  *)
(* in one transaction and cuts off in another, an operator's grant, which  *)
(* reads usage before the transaction that applies it, and a connect,      *)
(* which reads the sweep's mark and inserts its credential later in its    *)
(* own transaction (usage/quota.py, usage/enforcement.py,                  *)
(* provisioning/service.py).  Transactions are READ COMMITTED and only     *)
(* SELECT ... FOR UPDATE makes one wait for another.                       *)
(***************************************************************************)
EXTENDS Naturals, FiniteSets

CONSTANTS Sweeps,     \* the usage loop and the timer's collect-usage
          Grants,     \* grant operations, each carried out at most once
          Allowances, \* what may be granted; Nil is unmetered
          MaxTotal,   \* recorded traffic in a behaviour
          Nil

VARIABLES
    total,     \* the account's recorded lifetime traffic
    user,      \* users row: quota, baseline, mark (quota_exhausted_at is set)
    cred,      \* the device's credential: "none", "live", "revoking"
    sweep,     \* each sweep's place and the users row it measured
    grant,     \* each grant's place, what it grants, the usage it read
    connect,   \* "idle", or "admitted" with its insert still to come
    cuts       \* accounts cut off, as the audit log counts them

vars == <<total, user, cred, sweep, grant, connect, cuts>>

Used(u) == IF total > u.baseline THEN total - u.baseline ELSE 0
IsExhausted(u) == u.quota # Nil /\ Used(u) >= u.quota

Init ==
    /\ total = 0
    /\ user \in {[quota |-> q, baseline |-> 0, mark |-> FALSE] : q \in Allowances}
    /\ cred = "none"
    /\ sweep = [s \in Sweeps |-> [pc |-> "idle", seen |-> Nil]]
    /\ grant \in [Grants -> {[pc |-> "idle", quota |-> q, before |-> 0] : q \in Allowances}]
    /\ connect = "idle"
    /\ cuts = 0

\* A poll records traffic of the credential.
RecordTraffic ==
    /\ cred # "none" /\ total < MaxTotal
    /\ total' = total + 1
    /\ UNCHANGED <<user, cred, sweep, grant, connect, cuts>>

-----------------------------------------------------------------------------
(* enforce_traffic_quotas.                                                 *)

At(s, place, seen) == sweep' = [sweep EXCEPT ![s] = [pc |-> place, seen |-> seen]]

List(s) ==
    /\ sweep[s].pc = "idle"
    /\ user.quota # Nil /\ ~user.mark
    /\ At(s, "listed", Nil)
    /\ UNCHANGED <<total, user, cred, grant, connect, cuts>>

\* usage_for_user reads the account, then its counters.
ReadUser(s) ==
    /\ sweep[s].pc = "listed"
    /\ At(s, "measuring", user)
    /\ UNCHANGED <<total, user, cred, grant, connect, cuts>>

\* Mutant of Measure: spent only once the allowance is exceeded.
MeasureBeyond(s) ==
    /\ sweep[s].pc = "measuring"
    /\ IF sweep[s].seen.quota # Nil /\ Used(sweep[s].seen) > sweep[s].seen.quota
       THEN At(s, "cutting", Nil)
       ELSE At(s, "idle", Nil)
    /\ UNCHANGED <<total, user, cred, grant, connect, cuts>>

Measure(s) ==
    /\ sweep[s].pc = "measuring"
    /\ IF IsExhausted(sweep[s].seen)
       THEN At(s, "cutting", Nil)
       ELSE At(s, "idle", Nil)
    /\ UNCHANGED <<total, user, cred, grant, connect, cuts>>

\* Mutant of CutOff: it does not look whether another sweep was faster.
CutOffAgain(s) ==
    /\ sweep[s].pc = "cutting"
    /\ At(s, "idle", Nil)
    /\ user' = [user EXCEPT !.mark = TRUE]
    /\ cred' = IF cred = "live" THEN "revoking" ELSE cred
    /\ cuts' = cuts + 1
    /\ UNCHANGED <<total, grant, connect>>

\* _cut_off, holding the lock of the users row.
CutOff(s) ==
    /\ sweep[s].pc = "cutting"
    /\ At(s, "idle", Nil)
    /\ IF user.mark
       THEN UNCHANGED <<user, cred, cuts>>
       ELSE /\ user' = [user EXCEPT !.mark = TRUE]
            /\ cred' = IF cred = "live" THEN "revoking" ELSE cred
            /\ cuts' = cuts + 1
    /\ UNCHANGED <<total, grant, connect>>

-----------------------------------------------------------------------------
(* grant_traffic_quota.                                                    *)

GrantRead(g) ==
    /\ grant[g].pc = "idle"
    /\ grant' = [grant EXCEPT ![g].pc = "read", ![g].before = total]
    /\ UNCHANGED <<total, user, cred, sweep, connect, cuts>>

GrantCommit(g) ==
    /\ grant[g].pc = "read"
    /\ user' = [quota |-> grant[g].quota, baseline |-> grant[g].before, mark |-> FALSE]
    /\ grant' = [grant EXCEPT ![g].pc = "done"]
    /\ UNCHANGED <<total, cred, sweep, connect, cuts>>

-----------------------------------------------------------------------------
(* request_peer: _require_traffic_allowance, then the insert.              *)

Admit ==
    /\ connect = "idle" /\ cred = "none"
    /\ ~user.mark
    /\ connect' = "admitted"
    /\ UNCHANGED <<total, user, cred, sweep, grant, cuts>>

Insert ==
    /\ connect = "admitted"
    /\ connect' = "idle"
    /\ cred' = "live"
    /\ UNCHANGED <<total, user, sweep, grant, cuts>>

\* Reconciliation takes a credential marked REVOKING off its server.
Remove ==
    /\ cred = "revoking"
    /\ cred' = "none"
    /\ UNCHANGED <<total, user, sweep, grant, connect, cuts>>

-----------------------------------------------------------------------------

SweepStep(s) == List(s) \/ ReadUser(s) \/ Measure(s) \/ CutOff(s)
Next ==
    \/ RecordTraffic \/ Admit \/ Insert \/ Remove
    \/ \E s \in Sweeps : SweepStep(s)
    \/ \E g \in Grants : GrantRead(g) \/ GrantCommit(g)

Spec == Init /\ [][Next]_vars

\* The usage pass runs every fifteen seconds and enforces each time.
FairSpec == Spec /\ \A s \in Sweeps : WF_vars(SweepStep(s))

-----------------------------------------------------------------------------

\* Sweeps that race for one account cut it off once: there is at most one cut-off,
\* and one audit event, per allowance the account has held (_cut_off's second look
\* at quota_exhausted_at under the lock).
OneCutPerAllowance ==
    cuts <= Cardinality({g \in Grants : grant[g].pc = "done"}) + (IF user.mark THEN 1 ELSE 0)

\* A spent allowance is noticed: the account is marked, unless a new allowance
\* comes first (enforce_traffic_quotas after every poll).
SpentIsMarked == IsExhausted(user) ~> (user.mark \/ ~IsExhausted(user))
=============================================================================
