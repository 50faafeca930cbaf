-------------------------- MODULE XrayProvisioning --------------------------
(***************************************************************************)
(* The Xray half of nebula_api/provisioning on one server: xray_clients    *)
(* rows and their operations, the handlers of service.py, the passes of    *)
(* reconciliation.py and the orphan prune that follows the timer's pass.   *)
(*                                                                         *)
(* It differs from the WireGuard half (Provisioning) in what decides: a    *)
(* client is known by a UUID that the row holds encrypted, so a key ring   *)
(* that cannot decrypt it stops every operation on it; the agent keeps two *)
(* views, its record and the file Xray reads, and calls a client on which  *)
(* they differ ambiguous; capacity is a count; and whatever no live row    *)
(* accounts for is pruned from the server in one request.                  *)
(*                                                                         *)
(* A row id stands for its UUID.  An idempotency key is forgotten once no  *)
(* running operation and no request carries it: keys are never issued      *)
(* twice, and only a running operation lends its key to a repair.          *)
(***************************************************************************)
EXTENDS Naturals, FiniteSets, FiniteSetsExt

CONSTANTS
    Devices,      \* registered devices
    Profiles,     \* Xray protocol profiles the server offers
    Capacity,     \* min(maximum_devices, capacity_limit)
    ClientIds,    \* ids, and UUIDs, of xray_clients rows (bounds their number)
    Keys,         \* idempotency keys in use at a time
    Batch,        \* reconciliation_batch_size
    Passes,       \* "timer": reconcile-xray and the prune; "usage": the usage loop
    MaxRequests,  \* bound: requests to the API
    MaxFaults,    \* bound: faults of network, agent and processes
    Nil

ASSUME XrayRowsAssumption ==
    /\ ClientIds \subseteq Nat /\ Keys \subseteq Nat
    /\ Passes \subseteq {"timer", "usage"}
    /\ Batch \in Nat \ {0}

VARIABLES
    gone,      \* revoked devices
    client,    \* xray_clients
    older,     \* <<i, j>>: live row i was last updated before live row j
    lost,      \* rows whose UUID the key ring cannot decrypt
    running,   \* the key of a row's running agent_operations row
    calls,     \* requests to the agent that nobody has consumed
    record,    \* the agent's last-known-good client set
    file,      \* the client set in the configuration Xray reads
    ledger,    \* the agent's answers by idempotency key
    pass,      \* each reconciliation pass
    requests, faults

vars == <<gone, client, older, lost, running, calls, record, file, ledger, pass, requests, faults>>
rows == <<client, older>>
agent == <<record, file>>
bounds == <<requests, faults>>

Live == {"applying", "active", "revoking"}
Stuck == {"applying", "revoking"}
NoClient == [state |-> "absent", device |-> Nil, profile |-> Nil]
Resting == [pc |-> "idle", todo |-> {}, cur |-> Nil, keep |-> {}, read |-> {}]

LiveIds == {i \in ClientIds : client[i].state \in Live}
Slot(row) == <<row.device, row.profile>>

\* The rows is are written: updated_at takes the time of the transaction, the
\* same for all of them.
Touch(is) == older' = {e \in older \cup ((LiveIds \ is) \X is) :
                         e[1] \in LiveIds' \ is /\ e[2] \in LiveIds'}

\* uq_xray_clients_live_device_profile.
Fits(i, row) ==
    row.state \in Live => \A j \in LiveIds \ {i} : Slot(client[j]) # Slot(row)

Init ==
    /\ gone = {} /\ older = {} /\ lost = {} /\ calls = {} /\ record = {} /\ file = {}
    /\ client = [i \in ClientIds |-> NoClient]
    /\ running = [i \in ClientIds |-> Nil]
    /\ ledger = [k \in Keys |-> Nil]
    /\ pass = [s \in Passes |-> Resting]
    /\ requests = 0 /\ faults = 0

Fault == faults < MaxFaults /\ faults' = faults + 1

---------------------------------------------------------------------------
(* Operations and their keys.                                              *)

InUse(ops, cs) == {ops[i] : i \in ClientIds} \cup {c.key : c \in cs}
Forget(answers, ops) ==
    ledger' = [k \in Keys |-> IF k \in InUse(ops, calls') THEN answers[k] ELSE Nil]

Call(k, by, kind, i) == [key |-> k, by |-> by, kind |-> kind, id |-> i, stage |-> "sent"]

\* A new RUNNING operation for row i, committed with it, and its request.
Begin(by, kind, i) ==
    /\ running[i] = Nil /\ Keys \ InUse(running, calls) # {}
    /\ LET k == Min(Keys \ InUse(running, calls)) IN
       /\ running' = [running EXCEPT ![i] = k]
       /\ calls' = calls \cup {Call(k, by, kind, i)}

Requested == requests < MaxRequests /\ requests' = requests + 1

---------------------------------------------------------------------------
(* The handlers, up to their call of the agent.                            *)

\* A new client: under the server's allocation lock, within the capacity.
RequestXrayClient(d, p) ==
    /\ Requested /\ d \notin gone
    /\ \A i \in LiveIds : Slot(client[i]) # <<d, p>>
    /\ Cardinality(LiveIds) < Capacity
    /\ \E i \in ClientIds :
         /\ client[i] = NoClient /\ \A j \in ClientIds : j < i => client[j] # NoClient
         /\ client' = [client EXCEPT ![i] = [state |-> "applying", device |-> d, profile |-> p]]
         /\ Touch({i})
         /\ Begin("api", "provision", i)
    /\ UNCHANGED <<gone, lost, agent, ledger, pass, faults>>

\* An active client is asked for again: the row and its UUID are used again.
ReconnectXrayClient(i) ==
    /\ Requested /\ client[i].device \notin gone
    /\ client[i].state = "active" /\ i \notin lost
    /\ client' = [client EXCEPT ![i].state = "applying"] /\ Touch({i})
    /\ Begin("api", "provision", i)
    /\ UNCHANGED <<gone, lost, agent, ledger, pass, faults>>

RevokeXrayClient(i) ==
    /\ Requested /\ client[i].state = "active" /\ i \notin lost
    /\ client' = [client EXCEPT ![i].state = "revoking"] /\ Touch({i})
    /\ Begin("api", "revoke", i)
    /\ UNCHANGED <<gone, lost, agent, ledger, pass, faults>>

---------------------------------------------------------------------------
(* Rows handed over for removal.                                           *)

\* revoke_device_credentials, revoke_credential_row.
MarkRevoking(ds) ==
    LET marked == {i \in ClientIds : client[i].state \in {"applying", "active"}
                                     /\ client[i].device \in ds} IN
    /\ client' = [i \in ClientIds |-> IF i \in marked THEN [client[i] EXCEPT !.state = "revoking"]
                                      ELSE client[i]]
    /\ Touch(marked)

RevokeDevice(d) ==
    /\ Requested /\ d \notin gone
    /\ gone' = gone \cup {d}
    /\ MarkRevoking({d})
    /\ UNCHANGED <<lost, running, calls, agent, ledger, pass, faults>>

\* A logout, a spent allowance or a lapsed grant: the device itself stays.
HandOver(d) ==
    /\ Requested /\ d \notin gone
    /\ MarkRevoking({d}) /\ client' # client
    /\ UNCHANGED <<gone, lost, running, calls, agent, ledger, pass, faults>>

\* The key ring no longer decrypts what it sealed, until the key is back.
KeyReplaced ==
    /\ Fault /\ lost' = {i \in ClientIds : client[i] # NoClient} /\ lost' # lost
    /\ UNCHANGED <<gone, rows, running, calls, agent, ledger, pass, requests>>
KeyRestored ==
    /\ lost # {} /\ lost' = {}
    /\ UNCHANGED <<gone, rows, running, calls, agent, ledger, pass, bounds>>

---------------------------------------------------------------------------
(* The agent.                                                              *)

\* The answer goes to its caller, if that still waits.
Answer(c, stage) ==
    calls' = (calls \ {c}) \cup
             (IF c.by = "gone" THEN {} ELSE {[c EXCEPT !.stage = stage]})
Applied(c) == IF c.kind = "provision" THEN record \cup {c.id} ELSE record \ {c.id}
Remember(c, result) == Forget([ledger EXCEPT ![c.key] = [kind |-> c.kind, result |-> result]], running)
New(c) == c.stage = "sent" /\ ledger[c.key] = Nil

AgentReplays(c) ==
    /\ c.stage = "sent" /\ ledger[c.key] # Nil
    /\ Answer(c, IF ledger[c.key].kind = c.kind THEN ledger[c.key].result ELSE "rejected")
    /\ Forget(ledger, running)
    /\ UNCHANGED <<gone, rows, lost, running, agent, pass, bounds>>

\* provision_client, revoke_client: the record with or without the client is
\* rendered, served and becomes the record.
AgentApplies(c) ==
    /\ New(c)
    /\ record' = Applied(c) /\ file' = record'
    /\ Answer(c, "ok") /\ Remember(c, "ok")
    /\ UNCHANGED <<gone, rows, lost, running, pass, bounds>>

\* Xray refuses the configuration: the file goes back to the record.
AgentFails(c) ==
    /\ New(c) /\ Fault
    /\ file' = record
    /\ Answer(c, "failed") /\ Remember(c, "failed")
    /\ UNCHANGED <<gone, rows, lost, running, record, pass, requests>>

\* A subprocess of the apply overruns its time: the file is written, nothing
\* is rolled back or recorded, and the answer is an error.
AgentOverruns(c) ==
    /\ New(c) /\ Fault
    /\ file' = Applied(c)
    /\ Answer(c, "rejected") /\ Forget(ledger, running)
    /\ UNCHANGED <<gone, rows, lost, running, record, pass, requests>>

\* The connection is refused.
Unreachable(c) ==
    /\ c.stage = "sent" /\ c.by # "gone" /\ Fault
    /\ Answer(c, "unreachable") /\ Forget(ledger, running)
    /\ UNCHANGED <<gone, rows, lost, running, agent, pass, requests>>

\* resync_served_config, when the agent starts.
AgentRestarts ==
    /\ file # record
    /\ file' = record
    /\ UNCHANGED <<gone, rows, lost, running, calls, record, ledger, pass, bounds>>

---------------------------------------------------------------------------
(* The caller consumes the answer.                                         *)

FinalState(c) ==
    CASE c.kind = "provision" -> IF c.stage = "ok" THEN "active" ELSE "failed"
      [] OTHER                -> IF c.stage = "ok" THEN "revoked" ELSE "revoking"

\* The row takes the state whatever it has become meanwhile; an index
\* violation aborts the transaction.
Finalize(c, closed) ==
    LET row == [client[c.id] EXCEPT !.state = FinalState(c)] IN
    /\ calls' = calls \ {c}
    /\ IF Fits(c.id, row)
       THEN /\ client' = [client EXCEPT ![c.id] = row]
            /\ Touch(IF c.stage = "ok" \/ row # client[c.id] THEN {c.id} ELSE {})
            /\ running' = [running EXCEPT ![c.id] = IF @ \in closed THEN Nil ELSE @]
       ELSE UNCHANGED <<rows, running>>
    /\ Forget(ledger, running')

\* _finalize_xray_provision_success, _revoke_success and _failure close the
\* operation the handler started.
HandlerFinalizes(c) ==
    /\ c.by = "api" /\ c.stage # "sent"
    /\ Finalize(c, {c.key})
    /\ UNCHANGED <<gone, lost, agent, pass, bounds>>

\* A caller that stops waiting: the request is lost, or still under way.
Abandon(c) ==
    /\ \/ calls' = calls \ {c}
       \/ c.stage = "sent" /\ calls' = (calls \ {c}) \cup {[c EXCEPT !.by = "gone"]}
    /\ Forget(ledger, running)

\* The answer is ambiguous, or the API dies: row and operation stay.
HandlerGivesUp(c) ==
    /\ c.by = "api" /\ Fault
    /\ Abandon(c)
    /\ UNCHANGED <<gone, rows, lost, running, agent, pass, requests>>

---------------------------------------------------------------------------
(* A reconciliation pass.                                                  *)

At(s, pc) == pass[s].pc = pc
Goto(s, pc) == pass' = [pass EXCEPT ![s].pc = pc, ![s].cur = IF pc = "loop" THEN Nil ELSE @]

\* The timer's pass takes reconciliation_lock; the usage loop's does not, and
\* runs only when some credential awaits removal.
PassBegins(s) ==
    /\ At(s, "idle")
    /\ s = "usage" => \E i \in ClientIds : client[i].state = "revoking"
    /\ MarkRevoking(gone)
    /\ Goto(s, "select")
    /\ UNCHANGED <<gone, lost, running, calls, agent, ledger, bounds>>

\* What order_by(updated_at) and limit let through: at most Batch rows, and
\* none that a row left behind is older than.
Batches == {is \in SUBSET LiveIds :
              /\ Cardinality(is) = Min({Cardinality(LiveIds), Batch})
              /\ \A i \in is, j \in LiveIds \ is : <<j, i>> \notin older}

\* Candidates as they are now; the pass works from this copy.
PassSelects(s) ==
    /\ At(s, "select")
    /\ \E is \in Batches :
         pass' = [pass EXCEPT ![s] = [Resting EXCEPT !.pc = "loop", !.todo =
                     {[id |-> i, state |-> client[i].state] : i \in is}]]
    /\ UNCHANGED <<gone, rows, lost, running, calls, agent, ledger, bounds>>

\* reconcile_client: both views have the client, neither has, or they differ.
AgentView(i) ==
    IF i \in record /\ i \in file THEN "in_sync"
    ELSE IF i \in record \cup file THEN "ambiguous" ELSE "drift_detected"
WantsPresent(t) == t.state # "revoking"

\* Mutants: active rows are not repaired; rows are not recovered.
DecisionStuckOnly(t) ==
    CASE t.id \in lost \/ AgentView(t.id) = "ambiguous" \/ t.state = "active" -> "loop"
      [] (AgentView(t.id) = "in_sync") # WantsPresent(t)                       -> "repair"
      [] OTHER                                                                 -> "recover"
DecisionNoRecovery(t) ==
    CASE t.id \in lost \/ AgentView(t.id) = "ambiguous"  -> "loop"
      [] (AgentView(t.id) = "in_sync") # WantsPresent(t) -> "repair"
      [] OTHER                                           -> "loop"

\* _reconcile_one_xray_client up to its decision.
Decision(t) ==
    CASE t.id \in lost \/ AgentView(t.id) = "ambiguous"  -> "loop"
      [] (AgentView(t.id) = "in_sync") # WantsPresent(t) -> "repair"
      [] t.state \in Stuck                               -> "recover"
      [] OTHER                                           -> "loop"

PassChecks(s) ==
    /\ At(s, "loop")
    /\ \E t \in pass[s].todo :
         pass' = [pass EXCEPT ![s].pc = Decision(t), ![s].todo = @ \ {t},
                              ![s].cur = IF Decision(t) = "loop" THEN Nil ELSE t]
    /\ UNCHANGED <<gone, rows, lost, running, calls, agent, ledger, bounds>>

\* The agent gives no usable answer: the row is skipped.
PassSkips(s) ==
    /\ At(s, "loop") /\ Fault
    /\ \E t \in pass[s].todo : pass' = [pass EXCEPT ![s].todo = @ \ {t}]
    /\ UNCHANGED <<gone, rows, lost, running, calls, agent, ledger, requests>>

\* _recover_stuck_xray_client: the row as it is now decides, not the copy.
PassRecovers(s) ==
    LET i == pass[s].cur.id IN
    /\ At(s, "recover")
    /\ IF client[i].state \in Stuck
       THEN /\ client' = [client EXCEPT ![i].state =
                             IF @ = "applying" THEN "active" ELSE "revoked"]
            /\ Touch({i})
            /\ running' = [running EXCEPT ![i] = Nil]
       ELSE UNCHANGED <<rows, running>>
    /\ Goto(s, "loop")
    /\ UNCHANGED <<gone, lost, calls, agent, bounds>>
    /\ Forget(ledger, running')

\* _repair_xray_client: the row's running operation lends its key, else a new
\* operation is recorded.
PassRepairs(s) ==
    LET t == pass[s].cur
        kind == IF WantsPresent(t) THEN "provision" ELSE "revoke" IN
    /\ At(s, "repair")
    /\ \/ /\ running[t.id] # Nil
          /\ calls' = calls \cup {Call(running[t.id], s, kind, t.id)}
          /\ UNCHANGED running
       \/ Begin(s, kind, t.id)
    /\ Goto(s, "calling")
    /\ UNCHANGED <<gone, rows, lost, agent, ledger, bounds>>

\* _finalize_xray_repair closes the operation running by then.
PassFinalizes(s) ==
    /\ At(s, "calling")
    /\ \E c \in calls : c.by = s /\ c.stage # "sent" /\ Finalize(c, Keys)
    /\ Goto(s, "loop")
    /\ UNCHANGED <<gone, lost, agent, bounds>>

PassGivesUp(s) ==
    /\ At(s, "calling") /\ Fault
    /\ \E c \in calls : c.by = s /\ Abandon(c)
    /\ Goto(s, "loop")
    /\ UNCHANGED <<gone, rows, lost, running, agent, requests>>

\* The timer goes on to prune-xray-orphans.
PassEnds(s) ==
    /\ At(s, "loop") /\ pass[s].todo = {}
    /\ Goto(s, IF s = "timer" THEN "read" ELSE "idle")
    /\ UNCHANGED <<gone, rows, lost, running, calls, agent, ledger, bounds>>

PassDies(s) ==
    /\ ~At(s, "idle") /\ Fault
    /\ \/ ~At(s, "calling") /\ UNCHANGED <<calls, ledger>>
       \/ \E c \in calls : c.by = s /\ Abandon(c)
    /\ pass' = [pass EXCEPT ![s] = Resting]
    /\ UNCHANGED <<gone, rows, lost, running, agent, requests>>

---------------------------------------------------------------------------
(* The orphan prune.                                                       *)

\* Mutants: whatever has a row is expected; what cannot be decrypted is left
\* out of the expected set instead of stopping the prune.
PruneReadsAll(s) ==
    /\ At(s, "read")
    /\ pass' = [pass EXCEPT ![s] =
                  IF lost \cap LiveIds # {} THEN Resting
                  ELSE [Resting EXCEPT !.pc = "prune", !.keep = ClientIds, !.read = LiveIds]]
    /\ UNCHANGED <<gone, rows, lost, running, calls, agent, ledger, bounds>>
PruneReadsReadable(s) ==
    /\ At(s, "read")
    /\ pass' = [pass EXCEPT ![s] =
                  [Resting EXCEPT !.pc = "prune", !.keep = LiveIds \ lost, !.read = LiveIds]]
    /\ UNCHANGED <<gone, rows, lost, running, calls, agent, ledger, bounds>>

\* _prune_one_server: every live row's UUID, or no prune at all.
PruneReads(s) ==
    /\ At(s, "read")
    /\ pass' = [pass EXCEPT ![s] =
                  IF lost \cap LiveIds # {} THEN Resting
                  ELSE [Resting EXCEPT !.pc = "prune", !.keep = LiveIds, !.read = LiveIds]]
    /\ UNCHANGED <<gone, rows, lost, running, calls, agent, ledger, bounds>>

\* _prune_clients at the agent: nothing is applied when nothing is to go.
Survivors(s) == record \cap pass[s].keep
Unaccounted(s) == file \ (pass[s].keep \cup record)
PruneApplies(s) ==
    /\ At(s, "prune")
    /\ IF Survivors(s) # record \/ Unaccounted(s) # {}
       THEN record' = Survivors(s) /\ file' = Survivors(s)
       ELSE UNCHANGED agent
    /\ pass' = [pass EXCEPT ![s] = Resting]
    /\ UNCHANGED <<gone, rows, lost, running, calls, ledger, bounds>>

\* The agent is unreachable, rolls the apply back, or overruns its time in it.
PruneFails(s) ==
    /\ At(s, "prune") /\ Fault
    /\ file' \in {file, record, Survivors(s)} /\ UNCHANGED record
    /\ pass' = [pass EXCEPT ![s] = Resting]
    /\ UNCHANGED <<gone, rows, lost, running, calls, ledger, requests>>

---------------------------------------------------------------------------
PassStep(s) == PassBegins(s) \/ PassSelects(s) \/ PassChecks(s) \/ PassRecovers(s)
               \/ PassRepairs(s) \/ PassFinalizes(s) \/ PassEnds(s)
               \/ PruneReads(s) \/ PruneApplies(s)
AgentRuns == \E c \in calls : AgentReplays(c) \/ AgentApplies(c)
HandlerEnds == \E c \in calls : HandlerFinalizes(c)

Next ==
    \/ \E d \in Devices : \/ RevokeDevice(d) \/ HandOver(d)
                          \/ \E p \in Profiles : RequestXrayClient(d, p)
    \/ \E i \in ClientIds : ReconnectXrayClient(i) \/ RevokeXrayClient(i)
    \/ KeyReplaced \/ KeyRestored
    \/ AgentRuns \/ HandlerEnds \/ AgentRestarts
    \/ \E c \in calls : AgentFails(c) \/ AgentOverruns(c) \/ Unreachable(c) \/ HandlerGivesUp(c)
    \/ \E s \in Passes : PassStep(s) \/ PassSkips(s) \/ PassGivesUp(s) \/ PassDies(s)
                         \/ PruneFails(s)

\* The timers start pass after pass, a pass moves on, the agent works through
\* its requests and a handler with an answer commits it.
Fairness == WF_vars(AgentRuns) /\ WF_vars(HandlerEnds) /\ \A s \in Passes : WF_vars(PassStep(s))
Spec == Init /\ [][Next]_vars /\ Fairness

---------------------------------------------------------------------------
(* Properties.                                                             *)

\* What no pass changes: a row that older live rows keep out of every batch, one
\* whose UUID cannot be decrypted, one on which the agent's two views differ.
Crowded(i) == Cardinality({j \in LiveIds \ {i} : <<i, j>> \notin older}) >= Batch
OutOfReach(i) == Crowded(i) \/ i \in lost \/ AgentView(i) = "ambiguous"

\* A client awaiting removal does not wait for ever: the passes that can reach
\* it drive it off the server (run_xray_reconciliation).
RemovalsSettle ==
    \A i \in ClientIds :
        (client[i].state = "revoking") ~> (client[i].state # "revoking" \/ OutOfReach(i))

\* What revocation.py says of a row handed over: reconciliation "drives it to
\* REVOKED through the agent, retrying until it succeeds".
RemovalsSucceed ==
    \A i \in ClientIds :
        (client[i].state = "revoking") ~> (client[i].state # "revoking" \/ i \in lost)

\* Once requests and faults stop, the server serves every active client a pass
\* can reach, although a prune that read the rows before a client's was there,
\* or a late answer, may have taken it off (run_xray_reconciliation repairs it).
ActiveIsServed ==
    <>[](\A i \in ClientIds : client[i].state = "active" => i \in file \/ OutOfReach(i))

\* Once requests and faults stop, the server serves no client without a live
\* row, whatever left it behind: a request that reached the agent after its
\* row was closed, or a recovery that closed a row whose client was still
\* there (run_xray_orphan_prune).
UntrackedIsPruned ==
    <>[](file \subseteq LiveIds \/ lost \cap LiveIds # {})

\* A prune takes no client off the server whose row was live when the prune
\* read them, decryptable or not ("an incomplete set would revoke working
\* clients", reconciliation.py).
PruneSparesWhatItRead ==
    [][\A s \in Passes : At(s, "prune") /\ pass'[s].pc = "idle"
                         => (file \ file') \cap pass[s].read \subseteq file \ record]_vars
=============================================================================
