---------------------------- MODULE Provisioning ----------------------------
(***************************************************************************)
(* The WireGuard credential lifecycle of the control plane                 *)
(* (nebula_api/provisioning) together with the agent it drives: the rows   *)
(* wireguard_peers and agent_operations, the three phases of request_peer  *)
(* and revoke_peer (transaction, agent call outside any transaction,       *)
(* finalizing transaction), the marking of credentials for removal, and    *)
(* the reconciliation passes.                                              *)
(*                                                                         *)
(* One server.  A transaction that takes row locks is one action; every    *)
(* await between two transactions is a place where other actions run.      *)
(* Generations and audit rows decide nothing here and are left out.  Of    *)
(* the timestamps, updated_at orders the rows a pass takes and is kept as  *)
(* that order; the CHECK that revoked_at follows applied_at can only abort *)
(* a finalizing transaction, which looks like the caller giving up.  The   *)
(* credential row moves with its peer row and is not a second state.  The  *)
(* agent's own steps are the subject of WireGuardAgent; here it answers    *)
(* one request at a time.                                                  *)
(***************************************************************************)
EXTENDS Naturals, FiniteSets

CONSTANTS
    Devices,        \* registered devices of the server's users
    Keys,           \* WireGuard public keys a client may present
    KeyOwner,       \* [Keys -> Devices]: the device that holds the private key
    PoolSize,       \* usable addresses of the client pool
    Capacity,       \* min(maximum_devices, capacity_limit)
    PeerIds,        \* ids of wireguard_peers rows (bounds their number)
    OpIds,          \* ids, and idempotency keys, of agent_operations rows
    MaxApiOps,      \* bound: API handlers start an operation only below it
    Batch,          \* reconciliation_batch_size
    Sweeps,         \* reconciliation passes that may run concurrently
    LockedSweeps,   \* those that take reconciliation_lock
    MaxFaults,      \* bound: faults of network, agent, host and processes
    Nil

ASSUME ConstantsAssumption ==
    /\ KeyOwner \in [Keys -> Devices]
    /\ PeerIds \subseteq Nat /\ OpIds \subseteq Nat /\ PoolSize \in Nat
    /\ LockedSweeps \subseteq Sweeps
    /\ {"api", "gone"} \cap Sweeps = {}
    /\ Nil \notin Devices \cup Keys \cup Nat
    /\ Capacity \in Nat /\ MaxApiOps \in Nat /\ MaxFaults \in Nat
    /\ Batch \in Nat \ {0}

VARIABLES
    device,     \* Device.state (and the owner's account), per device
    access,     \* the owner's traffic allowance and grants, per device
    peers,      \* wireguard_peers
    older,      \* <<p, q>>: live row p was last updated before live row q
    ops,        \* agent_operations
    calls,      \* agent requests not yet consumed by their caller
    lkg,        \* the agent's last-known-good configuration
    kernel,     \* the peers the WireGuard interface really has
    ledger,     \* the agent's idempotency ledger
    sweep,      \* each reconciliation pass
    faults

vars == <<device, access, peers, older, ops, calls, lkg, kernel, ledger, sweep, faults>>
people == <<device, access>>
rows == <<peers, older>>
agent == <<lkg, kernel, ledger>>

Addresses == 1..PoolSize        \* in the order _allocate_address tries them
Live == {"applying", "active", "revoking"}
Stuck == {"applying", "revoking"}
Kinds == {"provision", "revoke"}
Results == {"ok", "failed"}

PeerRow == [state: Live \cup {"absent", "failed", "revoked"},
            device: Devices \cup {Nil}, key: Keys \cup {Nil}, addr: Addresses \cup {Nil}]
OpRow == [state: {"absent", "running", "succeeded", "failed"},
          kind: Kinds, peer: PeerIds \cup {Nil}]
Call == [op: OpIds, by: {"api", "gone"} \cup Sweeps, kind: Kinds, peer: PeerIds,
         key: Keys \cup {Nil}, addr: Addresses \cup {Nil},
         stage: Results \cup {"sent", "rejected", "unreachable"}]
Snapshot == [peer: PeerIds, state: Live, key: Keys \cup {Nil}, addr: Addresses \cup {Nil}]
SweepState == [pc: {"idle", "select", "loop", "recover", "repair", "calling"},
               todo: SUBSET Snapshot, cur: Snapshot \cup {Nil}]

NoPeer == [state |-> "absent", device |-> Nil, key |-> Nil, addr |-> Nil]
NoOp == [state |-> "absent", kind |-> "provision", peer |-> Nil]
Resting == [pc |-> "idle", todo |-> {}, cur |-> Nil]

Init ==
    /\ device = [d \in Devices |-> "active"]
    /\ access = [d \in Devices |-> "granted"]
    /\ peers = [p \in PeerIds |-> NoPeer]
    /\ older = {}
    /\ ops = [o \in OpIds |-> NoOp]
    /\ calls = {}
    /\ lkg = [k \in Keys |-> Nil]
    /\ kernel = [k \in Keys |-> Nil]
    /\ ledger = [o \in OpIds |-> Nil]
    /\ sweep = [s \in Sweeps |-> Resting]
    /\ faults = 0

(***************************************************************************)
(* The tables and their partial unique indexes.                            *)
(***************************************************************************)
LivePeers == {p \in PeerIds : peers[p].state \in Live}
LiveOf(d) == {p \in LivePeers : peers[p].device = d}

\* The rows ps are written: updated_at takes the time of the transaction, the
\* same for all of them.
Touch(ps) == older' = {e \in older \cup ((LivePeers \ ps) \X ps) :
                         e[1] \in LivePeers' \ ps /\ e[2] \in LivePeers'}

Clash(r, s) == r.device = s.device \/ r.key = s.key \/ r.addr = s.addr
\* Mutant: only the device index.
FitsDeviceOnly(p, row) == row.state \in Live
                          => \A q \in LivePeers \ {p} : row.device # peers[q].device
\* uq_wireguard_peers_live_device, _public_key_live and _server_address_live.
Fits(p, row) == row.state \in Live => \A q \in LivePeers \ {p} : ~Clash(row, peers[q])

\* uq_agent_operations_inflight_target: the running operation of a row.
RunningOps(p) == {o \in OpIds : ops[o].state = "running" /\ ops[o].peer = p}

Fresh(table, ids, i) == table[i].state = "absent"
                        /\ \A j \in ids : j < i => table[j].state # "absent"
UsedOps == {o \in OpIds : ops[o].state # "absent"}

\* A new RUNNING operation for row p, committed with the row's new state, and
\* the request it stands for on its way to the agent; a process that dies
\* between commit and send is a request that is lost (Abandon).
Begin(o, by, kind, p, row) ==
    /\ Fresh(ops, OpIds, o)
    /\ RunningOps(p) = {}
    /\ ops' = [ops EXCEPT ![o] = [state |-> "running", kind |-> kind, peer |-> p]]
    /\ calls' = calls \cup {[op |-> o, by |-> by, kind |-> kind, peer |-> p,
                             key |-> row.key, addr |-> row.addr, stage |-> "sent"]}

(***************************************************************************)
(* Phase A of the API handlers.                                            *)
(***************************************************************************)
Api(o) == Fresh(ops, OpIds, o) /\ Cardinality(UsedOps) < MaxApiOps
MayConnect(d) == device[d] = "active" /\ access[d] = "granted"

\* request_peer for a device whose live peer is active: the row keeps its
\* address and takes the key of this request.
Reconnect(d, k, o) ==
    /\ MayConnect(d) /\ KeyOwner[k] = d /\ Api(o)
    /\ \E p \in LiveOf(d) :
         LET row == [peers[p] EXCEPT !.state = "applying", !.key = k] IN
         /\ peers[p].state = "active"
         /\ Fits(p, row)
         /\ peers' = [peers EXCEPT ![p] = row] /\ Touch({p})
         /\ Begin(o, "api", "provision", p, row)
    /\ UNCHANGED <<people, agent, sweep, faults>>

FreeAddresses == Addresses \ {peers[p].addr : p \in LivePeers}
\* Mutant: any free address.
AllocateAny(a) == a \in FreeAddresses
\* _allocate_address: the lowest address no live peer of the server holds.
AllocateAddress(a) == a \in FreeAddresses /\ \A b \in FreeAddresses : a <= b

\* request_peer for a device with no live peer, under _lock_server_allocation.
RequestPeer(d, k, o) ==
    /\ MayConnect(d) /\ KeyOwner[k] = d /\ Api(o)
    /\ LiveOf(d) = {}
    /\ Cardinality(LivePeers) < Capacity
    /\ \E p \in PeerIds, a \in Addresses :
         LET row == [state |-> "applying", device |-> d, key |-> k, addr |-> a] IN
         /\ Fresh(peers, PeerIds, p)
         /\ AllocateAddress(a)
         /\ Fits(p, row)
         /\ peers' = [peers EXCEPT ![p] = row] /\ Touch({p})
         /\ Begin(o, "api", "provision", p, row)
    /\ UNCHANGED <<people, agent, sweep, faults>>

\* revoke_peer: only an active peer; the device may be in any state.
RevokePeer(d, o) ==
    /\ Api(o)
    /\ \E p \in LiveOf(d) :
         /\ peers[p].state = "active"
         /\ peers' = [peers EXCEPT ![p].state = "revoking"] /\ Touch({p})
         /\ Begin(o, "api", "revoke", p, peers[p])
    /\ UNCHANGED <<people, agent, sweep, faults>>

(***************************************************************************)
(* Credentials handed over for removal.                                    *)
(***************************************************************************)
\* revoke_device_credentials, _mark_orphaned_revoking, enforce_access_expiry.
MarkRevoking(ds) ==
    LET marked == {p \in PeerIds : peers[p].state \in {"applying", "active"}
                                   /\ peers[p].device \in ds} IN
    /\ peers' = [p \in PeerIds |-> IF p \in marked THEN [peers[p] EXCEPT !.state = "revoking"]
                                   ELSE peers[p]]
    /\ Touch(marked)

Logout(d) ==
    /\ LiveOf(d) # {}
    /\ MarkRevoking({d})
    /\ UNCHANGED <<people, ops, calls, agent, sweep, faults>>

RevokeDevice(d) ==
    /\ device[d] = "active"
    /\ device' = [device EXCEPT ![d] = "revoked"]
    /\ MarkRevoking({d})
    /\ UNCHANGED <<access, ops, calls, agent, sweep, faults>>

\* _cut_off: the allowance is used up.
CutOff(d) ==
    /\ access[d] # "exhausted"
    /\ access' = [access EXCEPT ![d] = "exhausted"]
    /\ MarkRevoking({d})
    /\ UNCHANGED <<device, ops, calls, agent, sweep, faults>>

\* A permission, an assignment or the account's time runs out, unannounced.
Lapse(d) ==
    /\ access[d] = "granted"
    /\ access' = [access EXCEPT ![d] = "lapsed"]
    /\ UNCHANGED <<device, rows, ops, calls, agent, sweep, faults>>

\* A grant or an allowance is renewed.
Renew(d) ==
    /\ access[d] # "granted"
    /\ access' = [access EXCEPT ![d] = "granted"]
    /\ UNCHANGED <<device, rows, ops, calls, agent, sweep, faults>>

Gone(d) == device[d] = "revoked"
EnforceAccessExpiry ==
    /\ MarkRevoking({d \in Devices : Gone(d) \/ access[d] = "lapsed"})
    /\ peers' # peers
    /\ UNCHANGED <<people, ops, calls, agent, sweep, faults>>

(***************************************************************************)
(* The agent's answer to one request (dispatch_ledgered around the driver).*)
(***************************************************************************)
Answer(c, stage) ==
    calls' = (calls \ {c}) \cup
             (IF c.by = "gone" THEN {} ELSE {[c EXCEPT !.stage = stage]})
Fault == faults < MaxFaults /\ faults' = faults + 1

\* A key the ledger knows is answered from it, or refused when the recorded
\* operation is of another kind.
AgentReplays(c) ==
    /\ c.stage = "sent" /\ ledger[c.op] # Nil
    /\ Answer(c, IF ledger[c.op].kind = c.kind THEN ledger[c.op].result ELSE "rejected")
    /\ UNCHANGED <<people, rows, ops, agent, sweep, faults>>

\* The whole configuration, rendered from the last-known-good one with this
\* peer added or taken out.
Configured(c) == [lkg EXCEPT ![c.key] = IF c.kind = "provision" THEN c.addr ELSE Nil]

\* The kernel is synchronised to it, and it becomes the last-known-good one.
AgentApplies(c) ==
    /\ c.stage = "sent" /\ ledger[c.op] = Nil
    /\ lkg' = Configured(c)
    /\ kernel' = lkg'
    /\ ledger' = [ledger EXCEPT ![c.op] = [kind |-> c.kind, result |-> "ok"]]
    /\ Answer(c, "ok")
    /\ UNCHANGED <<people, rows, ops, sweep, faults>>

\* wg syncconf fails: the kernel is rolled back to the last-known-good peers
\* and the failure is what the ledger remembers.
AgentFails(c) ==
    /\ c.stage = "sent" /\ ledger[c.op] = Nil /\ Fault
    /\ kernel' = lkg
    /\ ledger' = [ledger EXCEPT ![c.op] = [kind |-> c.kind, result |-> "failed"]]
    /\ Answer(c, "failed")
    /\ UNCHANGED <<people, rows, ops, lkg, sweep>>

\* The agent answers 500 (DriverError): before it touched the kernel, or after
\* a syncconf that overran its time, which is not rolled back.
AgentErrors(c) ==
    /\ c.stage = "sent" /\ ledger[c.op] = Nil /\ Fault
    /\ kernel' \in {kernel, Configured(c)}
    /\ Answer(c, "rejected")
    /\ UNCHANGED <<people, rows, ops, lkg, ledger, sweep>>

\* The connection is refused: the agent never saw the request.
Unreachable(c) ==
    /\ c.stage = "sent" /\ c.by # "gone" /\ Fault
    /\ Answer(c, "unreachable")
    /\ UNCHANGED <<people, rows, ops, agent, sweep>>

\* The host restarts: the interface comes up without peers.
Reboot ==
    /\ Fault
    /\ kernel' = [k \in Keys |-> Nil]
    /\ UNCHANGED <<people, rows, ops, calls, lkg, ledger, sweep>>

(***************************************************************************)
(* Phase C: the caller consumes the answer.                                *)
(***************************************************************************)
\* Mutants: the error becomes the state; a failed attempt stays applying.
FinalStateError(c) == IF c.stage = "ok" THEN "active" ELSE c.stage
FinalStateRetries(c) == IF c.kind = "provision"
                        THEN IF c.stage = "ok" THEN "active" ELSE "applying"
                        ELSE IF c.stage = "ok" THEN "revoked" ELSE "revoking"
\* Where an answer takes the row; a failed removal stays pending.
FinalState(c) == IF c.kind = "provision"
                 THEN IF c.stage = "ok" THEN "active" ELSE "failed"
                 ELSE IF c.stage = "ok" THEN "revoked" ELSE "revoking"

CloseOps(os, state) ==
    ops' = [o \in OpIds |-> IF o \in os THEN [ops[o] EXCEPT !.state = state] ELSE ops[o]]

\* The finalizing transaction writes whatever the row has become meanwhile.
\* An index violation aborts it: nothing is written.
Finalize(c, os) ==
    LET row == [peers[c.peer] EXCEPT !.state = FinalState(c)] IN
    /\ calls' = calls \ {c}
    /\ \/ /\ Fits(c.peer, row)
          /\ peers' = [peers EXCEPT ![c.peer] = row]
          /\ Touch(IF c.stage = "ok" \/ row # peers[c.peer] THEN {c.peer} ELSE {})
          /\ CloseOps(os, IF c.stage = "ok" THEN "succeeded" ELSE "failed")
       \/ /\ ~Fits(c.peer, row)
          /\ UNCHANGED <<rows, ops>>

\* _finalize_provision_success, _finalize_revoke_success, _finalize_failure:
\* the handler closes the operation it started.
HandlerFinalizes(c) ==
    /\ c.by = "api" /\ c.stage # "sent"
    /\ Finalize(c, {c.op})
    /\ UNCHANGED <<people, agent, sweep, faults>>

\* A caller that stops waiting: its request is lost, or still under way.
Abandon(c) ==
    \/ calls' = calls \ {c}
    \/ c.stage = "sent" /\ calls' = (calls \ {c}) \cup {[c EXCEPT !.by = "gone"]}

\* AgentResponseAmbiguous, AgentResponseInvalid, or the API process dies.
HandlerGivesUp(c) ==
    /\ c.by = "api" /\ Fault
    /\ Abandon(c)
    /\ UNCHANGED <<people, rows, ops, agent, sweep>>

(***************************************************************************)
(* A reconciliation pass.                                                  *)
(***************************************************************************)
At(s, pc) == sweep[s].pc = pc
Goto(s, pc) == sweep' = [sweep EXCEPT ![s].pc = pc, ![s].cur = IF pc = "loop" THEN Nil ELSE @]

\* Mutant: nobody looks for credentials whose owner is gone.
SweepBeginUnmarked(s) ==
    /\ At(s, "idle")
    /\ IF s \in LockedSweeps
       THEN \A t \in LockedSweeps : At(t, "idle")
       ELSE \E p \in PeerIds : peers[p].state = "revoking"
    /\ Goto(s, "select")
    /\ UNCHANGED <<people, rows, ops, calls, agent, faults>>

\* reconciliation_lock; _collect_usage_once starts a pass without it, and only
\* when some credential awaits removal.
SweepBegin(s) ==
    /\ At(s, "idle")
    /\ IF s \in LockedSweeps
       THEN \A t \in LockedSweeps : At(t, "idle")
       ELSE \E p \in PeerIds : peers[p].state = "revoking"
    /\ MarkRevoking({d \in Devices : Gone(d)})
    /\ Goto(s, "select")
    /\ UNCHANGED <<people, ops, calls, agent, faults>>

\* What order_by(updated_at) and limit let through: at most Batch rows, and
\* none that a row left behind is older than.
Batches == {ps \in SUBSET LivePeers :
              /\ Cardinality(ps) = IF Cardinality(LivePeers) < Batch
                                   THEN Cardinality(LivePeers) ELSE Batch
              /\ \A p \in ps, q \in LivePeers \ ps : <<q, p>> \notin older}

\* The candidates as they are now; the rest of the pass works from this copy.
SweepSelect(s) ==
    /\ At(s, "select")
    /\ \E ps \in Batches :
         sweep' = [sweep EXCEPT ![s] = [pc |-> "loop", cur |-> Nil, todo |->
                     {[peer |-> p, state |-> peers[p].state, key |-> peers[p].key,
                       addr |-> peers[p].addr] : p \in ps}]]
    /\ UNCHANGED <<people, rows, ops, calls, agent, faults>>

WantsPresent(t) == t.state # "revoking"

\* The driver's reconcile: interface and record are compared with the row.
AgentView(k, a) ==
    IF kernel[k] = Nil \/ lkg[k] = Nil THEN "drift_detected"
    ELSE IF kernel[k] # a \/ lkg[k] # a THEN "ambiguous" ELSE "in_sync"

\* Mutants: no recovery of stuck rows; no repair of active rows.
DecisionNoRecovery(t) ==
    LET view == AgentView(t.key, t.addr) IN
    IF view # "ambiguous" /\ (view = "in_sync") # WantsPresent(t) THEN "repair" ELSE "loop"
DecisionStuckOnly(t) ==
    LET view == AgentView(t.key, t.addr) IN
    IF view = "ambiguous" \/ t.state \notin Stuck THEN "loop"
    ELSE IF (view = "in_sync") # WantsPresent(t) THEN "repair" ELSE "recover"

\* _reconcile_one up to its decision.
Decision(t) ==
    LET view == AgentView(t.key, t.addr) IN
    IF view = "ambiguous" THEN "loop"
    ELSE IF (view = "in_sync") # WantsPresent(t) THEN "repair"
    ELSE IF t.state \in Stuck THEN "recover" ELSE "loop"

SweepCheck(s) ==
    /\ At(s, "loop")
    /\ \E t \in sweep[s].todo :
         sweep' = [sweep EXCEPT ![s] = [pc |-> Decision(t), todo |-> @.todo \ {t},
                                        cur |-> IF Decision(t) = "loop" THEN Nil ELSE t]]
    /\ UNCHANGED <<people, rows, ops, calls, agent, faults>>

\* The reconcile request gets no usable answer: the row is skipped.
SweepSkips(s) ==
    /\ At(s, "loop") /\ Fault
    /\ \E t \in sweep[s].todo : sweep' = [sweep EXCEPT ![s].todo = @ \ {t}]
    /\ UNCHANGED <<people, rows, ops, calls, agent>>

\* _recover_if_stuck: the row as it is now decides, not the copy.
SweepRecovers(s) ==
    LET p == sweep[s].cur.peer IN
    /\ At(s, "recover")
    /\ IF peers[p].state \in Stuck
       THEN /\ peers' = [peers EXCEPT ![p].state = IF @ = "applying" THEN "active" ELSE "revoked"]
            /\ Touch({p})
            /\ CloseOps(RunningOps(p), "succeeded")
       ELSE UNCHANGED <<rows, ops>>
    /\ Goto(s, "loop")
    /\ UNCHANGED <<people, calls, agent, faults>>

\* _repair up to the agent call: the row's running operation, whatever its
\* kind, lends its idempotency key, else a new operation is recorded.
SweepRepairs(s) ==
    LET t == sweep[s].cur
        kind == IF WantsPresent(t) THEN "provision" ELSE "revoke" IN
    /\ At(s, "repair")
    /\ \/ \E o \in RunningOps(t.peer) :
            /\ calls' = calls \cup {[op |-> o, by |-> s, kind |-> kind, peer |-> t.peer,
                                     key |-> t.key, addr |-> t.addr, stage |-> "sent"]}
            /\ UNCHANGED ops
       \/ \E o \in OpIds : Begin(o, s, kind, t.peer, t)
    /\ Goto(s, "calling")
    /\ UNCHANGED <<people, rows, agent, faults>>

\* _finalize_repair closes the operation running by then.
SweepFinalizes(s) ==
    /\ At(s, "calling")
    /\ \E c \in calls : c.by = s /\ c.stage # "sent" /\ Finalize(c, RunningOps(c.peer))
    /\ Goto(s, "loop")
    /\ UNCHANGED <<people, agent, faults>>

\* The repair's answer is ambiguous: row and operation stay as they are.
SweepGivesUp(s) ==
    /\ At(s, "calling") /\ Fault
    /\ \E c \in calls : c.by = s /\ Abandon(c)
    /\ Goto(s, "loop")
    /\ UNCHANGED <<people, rows, ops, agent>>

SweepEnds(s) ==
    /\ At(s, "loop") /\ sweep[s].todo = {}
    /\ Goto(s, "idle")
    /\ UNCHANGED <<people, rows, ops, calls, agent, faults>>

\* The pass is killed, or runs out of its time budget, between two steps.
SweepDies(s) ==
    /\ ~At(s, "idle") /\ Fault
    /\ \/ ~At(s, "calling") /\ UNCHANGED calls
       \/ \E c \in calls : c.by = s /\ Abandon(c)
    /\ sweep' = [sweep EXCEPT ![s] = Resting]
    /\ UNCHANGED <<people, rows, ops, agent>>

SweepStep(s) == SweepBegin(s) \/ SweepSelect(s) \/ SweepCheck(s) \/ SweepRecovers(s)
                \/ SweepRepairs(s) \/ SweepFinalizes(s) \/ SweepEnds(s)
AgentRuns == \E c \in calls : AgentReplays(c) \/ AgentApplies(c)
HandlerEnds == \E c \in calls : HandlerFinalizes(c)

Next ==
    \/ \E d \in Devices, o \in OpIds : \/ \E k \in Keys : Reconnect(d, k, o) \/ RequestPeer(d, k, o)
                                       \/ RevokePeer(d, o)
    \/ \E d \in Devices : Logout(d) \/ RevokeDevice(d) \/ CutOff(d) \/ Lapse(d) \/ Renew(d)
    \/ EnforceAccessExpiry
    \/ AgentRuns \/ HandlerEnds \/ Reboot
    \/ \E c \in calls : AgentFails(c) \/ AgentErrors(c) \/ Unreachable(c) \/ HandlerGivesUp(c)
    \/ \E s \in Sweeps : SweepStep(s) \/ SweepSkips(s) \/ SweepGivesUp(s) \/ SweepDies(s)

Spec == Init /\ [][Next]_vars

\* The timers start pass after pass, a running pass moves on, the agent works
\* through its requests, and a handler with an answer commits it.
Fairness == WF_vars(AgentRuns) /\ WF_vars(HandlerEnds) /\ \A s \in Sweeps : WF_vars(SweepStep(s))
FairSpec == Spec /\ Fairness

(***************************************************************************)
(* Properties.                                                             *)
(***************************************************************************)
TypeOK ==
    /\ device \in [Devices -> {"active", "revoked"}]
    /\ access \in [Devices -> {"granted", "lapsed", "exhausted"}]
    /\ peers \in [PeerIds -> PeerRow]
    /\ older \subseteq PeerIds \X PeerIds
    /\ ops \in [OpIds -> OpRow]
    /\ calls \subseteq Call
    /\ lkg \in [Keys -> Addresses \cup {Nil}]
    /\ kernel \in [Keys -> Addresses \cup {Nil}]
    /\ ledger \in [OpIds -> [kind: Kinds, result: Results] \cup {Nil}]
    /\ sweep \in [Sweeps -> SweepState]
    /\ faults \in 0..MaxFaults

\* A row that says applying always has a running operation behind it, so a
\* sweep that retries it finds the idempotency key of the attempt that may
\* already have reached the agent (_running_operation in _repair).
ApplyingHasOperation ==
    \A p \in PeerIds : peers[p].state = "applying" => RunningOps(p) # {}

\* Live peers never exceed what _require_capacity admits, although finalizers
\* revive failed and revoked rows without asking again: lowest-address-first
\* allocation and the address index leave no room for one more.
CapacityRespected == Cardinality(LivePeers) <= Capacity

\* What no pass changes: a row that older live rows keep out of every batch (a
\* row found in order is never written, and stays old), and a row whose key the
\* agent has at another address, which is recorded as ambiguous and left.
Crowded(p) == Cardinality({q \in LivePeers \ {p} : <<p, q>> \notin older}) >= Batch
OutOfReach(p) == Crowded(p) \/ AgentView(peers[p].key, peers[p].addr) = "ambiguous"

\* Neither a removal that was asked for nor a request whose answer was lost stays
\* in between for ever while a pass can reach it: the sweeps carry the row on
\* (revoke_device_credentials hands over to reconciliation; _recover_if_stuck).
Waits(p) == peers[p].state \in Stuck /\ ~OutOfReach(p)
StuckRowsSettle == \A p \in PeerIds : Waits(p) ~> ~Waits(p)

\* Once faults and requests stop, what the rows call active is what the
\* interface carries, for the rows a pass can reach.
Served(p) == kernel[peers[p].key] = peers[p].addr
ActiveIsServed ==
    <>[](\A p \in PeerIds : peers[p].state = "active" => Served(p) \/ OutOfReach(p))

\* A revoked device loses its peer for good, although a handler that was waiting
\* for the agent when the row was marked writes it back to active afterwards:
\* every pass looks for owners that are gone before it chooses its rows
\* (_mark_orphaned_revoking).  Only a row out of their reach may remain.
RevokedDeviceIsCut ==
    \A d \in Devices :
        <>(device[d] = "revoked") => <>[](\A p \in LiveOf(d) : OutOfReach(p))

\* Marking a row is the whole handover: no later write takes a row that awaits
\* removal back into service or out of the sweeps' sight.
RemovalIsFinal ==
    [][\A p \in PeerIds : peers[p].state = "revoking"
                          => peers'[p].state \in {"revoking", "revoked"}]_vars

=============================================================================
