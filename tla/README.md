# A formal model of Nebula VPN

TLA+ specifications of the control plane, the node agent, the mail worker, the edge relay
and the app's session, model-checked with TLC on small instances, and theorems about seven
of them with proofs that TLAPS checks. `PROJECT.json` ties every definition to the source
lines it models.

    tlc -workers 2 -config prov_safety.cfg MCProvisioning     # one run
    tlapm ProvisioningProofs.tla                               # the proofs of a module

## 1. The system

| Part | State | Operations | What makes it hard |
|---|---|---|---|
| Provisioning (`provisioning/service.py`, `revocation.py`) | `wireguard_peers`, `xray_clients`, `agent_operations`, devices, grants | connect, reconnect, revoke, remove a device, lapse of access | one transaction before the agent call and one after; rows change in between |
| Reconciliation (`reconciliation.py`, `cli.py`) | a snapshot of rows per pass | mark, compare with the agent, recover, repair, prune orphans | works from a copy, dies anywhere, two kinds of pass |
| Agent: WireGuard (`drivers/wireguard.py`, `config_store.py`, `_dispatch.py`) | candidate file, last-known-good file, interface | provision, revoke, enable, disable, boot resync | one event loop, no apply lock, `wg` that fails or overruns, kills |
| Agent: ledger (`ledger.py`) | dictionary and append-only file | record, load, compact | torn appends |
| Agent: Xray and Hysteria2 (`drivers/xray.py`) | record, two files, two processes, watch set | provision, revoke, prune, resync, cut off | two processes change together; connections outlive their client |
| Usage (`usage/service.py`, `counters.py`, `poll.py`) | a total and a last reading per credential | poll, bracket a change, record | counters reset, readings cross |
| Allowances (`usage/quota.py`, `enforcement.py`) | allowance, baseline, mark | sweep, cut off, grant, connect | measure in one transaction, act in another |
| Access (`access/service.py`, `expiry.py`, `topology_seed.py`, `servers/service.py`) | permissions, assignments, capabilities | grant, assign, revoke, to one or to all; list, connect, sweep | advisory locks, row locks and unlocked reads over the same rows |
| Sign-in (`auth/user_service.py`, `session_revocation.py`, `user_management/`, `account/`) | account, devices, sessions, tokens, password | 14 operations | READ COMMITTED, row locks taken in different orders |
| The app's session (`auth_notifier.dart`, `token_refresher.dart`) | auth state, keystore, shared refresh | restore, sign in, refresh, sign out | handlers run wherever the code awaits; a token used twice ends the session |
| Accounts (`accounts/service.py`, `account_erasure.py`) | requests, users, links | submit, decide, reissue, activate, erase | statement snapshots against row locks |
| Administrators (`auth/admin_service.py`, `redis_state.py`, `admin_management.py`) | rows in PostgreSQL; challenges, failure counts, sessions in Redis; a browser's cookies | sign-in with every second factor, step-up, own changes, management of others | no transaction spans both stores; one-time tokens rotate before the route decides |
| Enrollment (`enrollment/service.py`, the agent's `enrollment.py`) | tokens, `vpn_servers`, three files on a machine | mint, revoke, redeem, write | the answer can be lost after the commit; commands overlap and die |
| Bootstrap (`bootstrap.py`, `pki.py`) | a row and seven files | initialize at each start, rotate | two containers start together; kills between two files |
| History (`audit/`, `retention.py`) | audit log, operations, records, mails, exports | write, prune, export, verify | rows commit behind an export that passed them |
| Mail (`nebula_worker/poller.py`) | `email_deliveries`, payloads in Redis, leases | queue, stage, claim, send, finalize, reclaim | leases run out on live workers; unconditional updates |
| Edge relay (`edge-relay/src/index.js`) | two sockets, a promise queue | message, pump, second dial | two tasks share a writer |

They interact as follows. An API handler or a pass commits an operation, calls the agent
(an idempotency key names the operation), and commits the outcome. The agent answers from
its ledger when it knows the key. Usage polls read the agent's counters, allowances are
enforced on the recorded totals by marking credentials `revoking`, access that lapses does
the same, and reconciliation removes those. Account decisions and password resets queue
mails for the worker. Grants, made by administrators, are what a connect's gate reads.

Not modelled, with the reason for each, are the parts `PROJECT.json` lists as
`not_modelled`: settings, wiring and migrations, reports and probes, static client
configuration, pairing (a record computed on request), the administration site, the
screens and the tunnel of the app (the platform's VPN service), the installer and the
infrastructure files. They hold no state that steps of several actors change, or live in
code that is not in the repository.

## 2. Modules

| Module | Models | State and actions |
|---|---|---|
| `Provisioning` | control plane, passes, and the agent as `AgentService` describes it | `peers`, `ops`: the tables; `calls`: requests on their way; `lkg`, `kernel`, `ledger`: the agent; `sweep`: each pass's place and copy. A handler is two actions, its first transaction and its finalizer, with the agent's steps between. `Fits` is the live unique indexes, `Begin` the in-flight index; `older` orders the rows by `updated_at`, and a pass takes the oldest `Batch` of them |
| `XrayProvisioning` | the same for Xray clients | adds the encrypted client id and a key ring that cannot read it, the agent's two views (record, file), two profiles of a device, and the orphan prune |
| `AgentService` | what the control plane may rely on | requests one at a time and whole, one outcome per key |
| `WireGuardAgent` | dispatch, driver and store | an action is what runs between two awaits, or what `wg` does meanwhile: it reads the candidate file at one moment and changes the interface at a later one; `shared` are the requests that overlapped another |
| `OperationLedger` | the ledger's file | lines, an unterminated tail, kills inside an append |
| `XrayAgent` | the other driver | the apply lock, live updates or restarts, rollback, the watch task, Hysteria2's sign-in |
| `UsageLedger` | one credential's total | polls and changes at the granularity of reading and recording |
| `Quota` | one account's allowance | sweep, grant and connect split at their transactions |
| `Access` | permissions, assignments, capabilities | a transaction takes its advisory lock, its row locks and its unlocked reads one by one; the picker and the gate are operators over the same tables; spent allowances and the room on a server are what only the gate asks for |
| `UserSessions` | one account's sessions | a transaction locks the rows of its `Path` stage by stage, checks, commits; PostgreSQL aborts one of a deadlock |
| `AppSession` | the app's side of them | one action per stretch between two awaits of the network or the keystore |
| `Accounts` | one address | each transaction one step per statement that may wait |
| `AdminAuth` | administrators | a route is its CSRF rotation, its Redis steps and its commit, with other requests, failed commits and lost answers between; each browser keeps its cookies |
| `Enrollment` | a machine and its tokens | the command, the request (which outlives it) and the operator's recoveries; a file is created in one step and holds its content after another |
| `Bootstrap` | `initialize` and the rotation | one action per file created, written or renamed |
| `History` | audit log, operations, mails | writers, among them late workers that reopen a mail, the nightly pass statement by statement, exports; a hash is the sequence it is a hash of |
| `Outbox` | the mail queue | claim, send and finalize are separate; `Tick` passes time while a row waits |
| `EdgeRelay` | one stream | the queue's tasks, from await to await, beside `serve` and its pump; frames that parse as a request and frames that do not |
| `ProvisioningProofs`, `WireGuardProofs`, `UsageProofs`, `QuotaProofs`, `AccessProofs`, `EnrollmentProofs`, `HistoryProofs` | theorems about the module named (`WireGuardAgent`, `UsageLedger`) | section 6 |
| `MC*` | constants of the runs | parts that share no state are put side by side and a behaviour follows one of them (`part`, `loop`, `driver`); the others stand at one initial state |

A definition marked "Mutant" is a plausible mistake in the definition after it. It is not
used by the specifications; substituted for that definition it must make the property named
in `PROJECT.json` fail.

Several modules choose a deployment or a menu of operations in `Init` and keep it (`site`,
`load`, `scope`, `scene`, `menu`; `live` and `faults` in `XrayAgent`), so that one run
covers several and a property can say for which it holds.

## 3. Runs and bounds

| Run | States | Shows |
|---|---|---|
| `prov_safety` | 1.15 M | the types; live rows stay within the capacity, applying rows can be retried |
| `prov_live` | 172 k | of the rows a batch can reach, each left applying or revoking settles, and an active one is eventually on the interface; a revoked device is cut off, although a late finalizer may take its removal back |
| `prov_removal` | (violation) | a finalizer takes back a removal, section 7 |
| `xray_rows` | 200 k | removals end, active clients are served, what no row accounts for leaves the server, and a prune spares what its rows said |
| `xray_stuck` | (violation) | a removal that is skipped for ever, section 7 |
| `node` | 181 k | the WireGuard driver implements `AgentService` when requests do not overlap, and after any overlap, error or stop the next request that has the driver to itself is carried out whole. Xray: record and files agree at rest; no concurrent change is lost; a removed client is cut off. Calls end |
| `traffic` | 524 k | no byte counted twice, all counted in the end; one cut-off per allowance, a spent one is noticed; the app uses no token twice and keeps a live session |
| `access` | 230 k | the panel's requests never wait for each other in a circle; an answered grant stands; a connect is accepted only for what the picker shows, and refused for it only for want of allowance or room; a lapsed credential is cut. Mails: copies and attempts bounded, all settled |
| `people` | 599 k | administrators: codes serve once, ended sessions stay ended, the browser keeps up with the CSRF token. Accounts: one per address, one decision, one working link, a clean erasure. Sessions: they end with what they stand on; reuse ends the family |
| `owners` | (violation) | two owners disable each other, section 7 |
| `records` | 424 k | bootstrap: pairs belong together, a start that ended well left everything. Enrolment: one identity per token and machine. History: exports extend each other, no deletion of retention takes what is unfinished, young or referred to at that moment. Ledger: a kill costs at most one recent entry. Relay: every frame handled goes to one socket, in order behind the one that opened the stream, and one far side is heard |
| `enroll_again` | (violation) | the advised recovery is refused, section 7 |

Why the bounds are enough to see the interesting cases:

- `prov_safety`: two devices and a capacity of one give the contest for the last place; two
  rows and two operations are one request each, or a row and its successor; one fault is
  any single lost request, failed apply, reboot or killed pass. Only the timer's pass runs
  here, a second one makes the state space too large; the theorems hold for any set.
- `prov_live`: two devices with a row each and a batch of one, so that rows compete for
  the pass; the second device is only ever connected. Nine operations, two of them from the
  API, so that passes never run out of operations after the last fault.
- `xray_rows`: one device, a row and its successor or two profiles' rows, and a batch of
  one; three requests (connect, revoke, connect again), one fault of any kind while the
  device uses one profile; keys are reused once nothing carries them,
  so passes go on for ever.
- `node`: WireGuard has three requests, with a retry, a reused key and an address outside
  the pool; two peers added one after the other, or one disabled, with a stop; one added and
  revoked by requests that overlap. Xray has one client of each
  transport, three calls, two at a time, one stop.
- `traffic`: three bytes and two restarts are enough for a reading to look like a reset; one
  poll loop against one change. Two sweeps and two grants; an allowance that is spent at
  once, one that takes traffic, and none. The app has two requests refused at once, four
  tokens (a sign-in and three rotations) and two faults (a lost answer, a kill, a session
  ended elsewhere).
- `access`: two accounts, two profiles, one server and three transactions: two that lock the
  same two rows and one more that waits. Ids and codes sort in opposite orders, so a
  request that locked by code would meet one that locks by id. Two workers on one mail, one
  on a batch, one on a mail tried four times.
- `people`: two administrators with two browsers and one fault, in eight situations (a new
  deployment, a sign-in with each second factor, a person's own changes, two owners, an
  owner managing another); for each factor two codes or batches, so that an old one exists.
  Two requests for one address and two links, or one request and three links. One account with two transactions at a
  time, in five scopes: what ends sessions, what changes the password, forgotten passwords,
  the account's removal, a user's own revocations. The device limit is met in the first.
- `records`: three starts, two of them at once, one of which may be a rotation. Two runs of
  the enrolment command, two tokens, two labels, two addresses of one machine. Three audit
  events, an operation, a mail, and a clock that passes both retention limits after an
  export. Four keys over a ledger limit of three, two kills. Four frames, three answers.

Symmetry is used in the runs that check safety only.

Deadlock checking is off where the system may stop: all requests answered, all grants
made, the stream closed, all numbered accounts, sessions, links or tokens used.

## 4. Fairness

Each assumption is weak fairness of a step the code's scheduler takes by itself.

- `Provisioning`, `XrayProvisioning`: systemd timers start passes for ever and a pass goes
  on to its end; the agent works through what it receives; a handler with an answer commits
  it. Faults are bounded, otherwise a pass could be killed every time.
- `WireGuardAgent`, `XrayAgent`: the event loop resumes what is ready; a subprocess ends or
  is killed at its timeout; `asyncio.Lock` is granted in turn.
- `UsageLedger`, `Quota`: the usage loop runs every fifteen seconds. A change that has begun
  goes on; none is assumed to begin.
- `Access`: the expiry sweep runs with the usage loop.
- `Outbox`: `run_loop` polls for ever and time passes.

No user, operator or administrator action is assumed to happen.

## 5. What the models leave out

- All: log lines, wording, and time except for its order. Audit rows are in `History` only,
  rate limits in `AdminAuth` only.
- `Provisioning`: one server; generations and the credential row, which changes with its
  peer; the server's own state; compaction of the agent's ledger (in `OperationLedger`);
  that an interface moves an address to the last key that names it; passes for one chosen
  row (`target_id`). A CHECK that aborts a finalizer looks like its giving up. The checks and
  the insert of `request_peer` are one step here; `Quota` and `Access` split them.
- `XrayProvisioning`: a prune whose caller has stopped waiting and which the agent applies
  later still.
- `Outbox`: an unknown template cannot be queued, so that branch of the worker is absent.
- `UsageLedger`: one direction, one credential; the number of attempts of a poll is any.
- `WireGuardAgent`, `XrayAgent`: read-only health and reconcile requests. `XrayAgent` has no
  ledger (the dispatch is the one of `WireGuardAgent`), no change of the configuration's
  shape, and takes a connection as one that moves traffic in every poll interval.
- `OperationLedger`: the process is killed; the host is not.
- `Access`: revokes of assignments and the command line's grant are never under way
  together; deadlocks between the command line and the panel are possible in the code, and
  PostgreSQL ends one of the two (`Aborts`); the picker's maintenance view.
- `UserSessions`: expiry times, limit and identity changes; the rows one statement locks are
  locked together; deadlocks end in an abort.
- `AppSession`: the device id, the sign-in's retry without one, and the profile that is
  loaded after it. The keystore serves its calls in the order they were made. A behaviour
  is followed up to the first overlap of a sign-out or sign-in with a refresh (section 7).
- `Accounts`: user names and the mails that carry no token.
- `AdminAuth`: `sessions_valid_after` is the set of sessions issued before the moment the
  code reads the clock (for `change_password`, before it waits for the row).
- `Bootstrap`: one rotation in a behaviour; an enrolment that reads the control plane's
  certificate between the rotation's two renames.
- `EdgeRelay`: the VLESS header is part of the frame that opens the stream, and always comes
  with a payload; the end of a socket's writable side after the client left.
- `History`: `server_health`, which goes by one time like the audit rows.

PostgreSQL, Redis, systemd, `wg` and Xray are external and modelled from how the code uses
them: READ COMMITTED with row locks, partial unique indexes that abort the later writer, a
subprocess that succeeds, fails, or overruns its timeout with or without effect.

## 6. Proofs

Each theorem holds for every number of rows, requests, accounts and so on, where a
run fixes two or three.

| Theorem | Module | States |
|---|---|---|
| `TypeCorrect` | `ProvisioningProofs` | `Spec => []TypeOK` |
| `ApplyingIsRetriable` | | `Spec => []ApplyingHasOperation` |
| `CapacityIsRespected` | | `Spec => []CapacityRespected` |
| `Typed` | `WireGuardProofs` | `Spec => []TypeOK` |
| `LoneRequestsAreWhole` | | `Spec => LoneRequestIsWhole`, an action property |
| `DriverImplementsService` | | `Spec => ImplementsService`, the refinement of `AgentService` |
| `CountedOnce` | `UsageProofs` | `Spec => []NeverCountsTwice` |
| `OneCutEach` | `QuotaProofs` | `Spec => []OneCutPerAllowance` |
| `LocksAreOrdered` | `AccessProofs` | `Spec => []PanelNeverDeadlocks` |
| `GrantsHold` | | `Spec => AnsweredGrantsHold`, an action property |
| `PickerIsTheGate` | | `Spec => []PickerMatchesGate` |
| `MachineHasOneIdentity` | `EnrollmentProofs` | `Spec => []OneMachineOneIdentity` |
| `PruneSpares` | `HistoryProofs` | `Spec => PruneSparesWhatCounts`, an action property |

What is assumed of the constants is their types, that `Nil` or `None` is no value of a
table, and that accounts, profiles, transactions, requests, tasks or grants are
finitely many. It is an ASSUME of the module that a run extends (`ConstantsAssumption`,
`AgentAssumption`, `AccessAssumption`, `NoneAssumption`), or the hypothesis `Setting` of the
theorem where runs only instantiate the module. Beyond types: no pass is called `api` or
`gone`, and ids are compared as numbers.

**Provisioning.** The theorems rest on one inductive invariant,

    IInv == TypeOK /\ SweepHasRow /\ CallsAreRecorded
            /\ ApplyingHasOperation /\ LiveRowsDistinct

`SweepHasRow` (a pass at work has a row in hand) is the strengthening the types need: without
it a pass could repair `Nil`. `CallsAreRecorded` (a call's operation is of the call's row) is
needed for applying rows, `LiveRowsDistinct` for the capacity: a finalizer closes the operation of its call, and only because the call's
operation belongs to the call's row does no other row lose its own. The proof goes action by
action, over lemmas on what opening, closing, answering and abandoning an operation keep.

The capacity is not inductive, not even with `IInv`: finalizers and repairs revive dead rows
without counting. `PlacedInv` adds that every row that is live, asked about or held by a pass
has one of the first `Capacity` addresses. The allocator takes the lowest free address under
the admission check, so a new row is placed (`LowestIsPlaced`); no other step changes an
address (`AddressesKept`); and since live rows have different addresses there are at most
`Capacity` (`PlacedBound`, by an injection).

**WireGuard driver.** `Lone` says of a request that shares the candidate file with no other
that it is the only one under way, and what the candidate, the record and the interface are at
the stage it has reached (`Staged`): when `wg` has read a file it has read this request's, and
when the rollback is done the interface is back on the record, whatever earlier requests that
overlapped, failed or were cut short had left. `LoneRequestsAreWhole` follows step by step.
`Narrow` (one request at a time means that none overlaps) makes it the premise of the
refinement: initial states map to initial states (`ServiceInit`), and each step to a step of
`AgentService` or a stutter (`StepMaps`).

**Usage.** `NeverCountsTwice` compares a total with what was served, and neither it nor any
statement about the variables alone is inductive: a reading in hand may be recorded much
later. `Balanced` says that there is an assignment of "bytes served when this reading was
taken" to the row's reading and to every reading in hand under which the books add up:
recording any of them adds at most what was served in between. `Later` says that whoever
still waits for a reading asked after all that were taken. Each step is shown to have such
an assignment again, the witness being the old one, or the old one with the new reading at
the bytes served by now. Times are ranked so that they stay small; `RankOrder` shows that
ranking keeps their order.

**Allowances.** `OneCutPerAllowance` is inductive with the types: `_cut_off` looks at the
mark a second time under the row's lock, and only a grant removes it.

**Access.** One invariant, `LockInv`, carries two theorems. A transaction of the panel holds
the advisory locks of a part of its list that precedes the rest in the order of accounts and
then profiles or servers; the lock of one key is held by one transaction; and each key it has
done with was written by it or found in force under the lock. If the transactions of a set
all waited for each other, each would wait for a lock that comes after all its own, and the
holder of the last such lock could not be waiting (`Precedes` is well-founded on the finitely
many keys). When a grant commits, nothing is left of its list, so every key is in force.
`OfferInv` is the other one: what the topology offers was seeded. The gate asks for the
profile's state and the picker's query does not, so without it a connect could be refused for
what the picker shows.

**Enrollment.** Handlers are first brought down to what they change of a request, a command
or a token; the invariant is then shown for the kinds of change. It says that the lock of
`redeem` keeps a token good, that certificates name listed servers and the label they were
paid with, that used tokens have a certificate, and that a command between its first and its
last file owns the key on the disk, also while a file it created is still empty.

**Retention.** The property speaks of every step that deletes a row: at that moment it is
finished, past its period counted from its end, and nothing refers to it. `PastInv` is what it
needs besides the types: the pass works with a moment that is past, so what it finds too old is
too old by now; an operation that is finished has its time of completion; and a mail has no
reconciliation record.

The longer inductive invariants (driver, usage, access, enrollment) were checked with
TLC on small instances before their proofs.

Model-checked only, and why:

- the liveness properties (`EventuallyExact`, `RemovalsSettle`, `MailIsSettled` and others):
  fairness and `ENABLED` are beyond TLAPS as installed here;
- `ExportsHold` and `LedgerRemembers`: they speak of what a recursive definition computes
  from a sequence, which takes induction over data;
- `AdminAuth`, `Accounts`, `UserSessions`, `Bootstrap`, `AppSession`, `EdgeRelay`,
  `XrayAgent`, `XrayProvisioning` and `Outbox`: no obstacle is known, the proofs are not written.

## 7. Where code and documentation disagree

Four disagreements are kept as runs.

- `prov_removal`: `_finalize_provision_success` (`provisioning/service.py:1188`) writes
  ACTIVE without looking at the row it locked, so a row that `revoke_device_credentials`
  marked REVOKING during the agent call returns to service, although `revocation.py:41`
  says reconciliation will drive it to REVOKED. A later pass marks the row again only when
  the device is revoked or the account disabled (`_mark_orphaned_revoking`), not after a
  logout or a spent allowance.
- `xray_stuck`: an Xray apply that overruns raises past the rollback
  (`SubprocessTimeoutError` is no `ApplyError`), the agent's record and the file differ from
  then on, `reconciliation.py:820` skips what is ambiguous, and a removal stays REVOKING
  while the agent runs on. `revocation.py:42` says the passes retry until it succeeds.
- `owners`: the actor's own account is read before, and not locked with, the one it changes
  (`admin_management.py:170`), so two owners can disable each other. The docstring (`:5`)
  says a deployment always keeps an active owner.
- `enroll_again`: when the answer to an enrolment is lost, or the command dies before its
  three files are written, the machine is already listed (`enrollment/service.py:202`) and
  every later enrolment of its endpoint is refused. The agent's message, given when part of
  the files is there (`enrollment.py:107`), advises to remove them and enrol again; what works
  is `sign-server-certificate`.

Others were met while modelling. No run is kept for them; the properties of section 3 are
stated so as to exclude exactly these cases.

- `auth_notifier.dart:215`: a refresh or a restore that completes after a sign-out writes
  its token and its state over it: the app is signed in again, or shows a signed-out state
  with a token in the keystore, and the next sign-in can be ended by that token's reuse.
- `account/service.py:167`: the removal of one's own device leaves its session active, while
  a test of the administrator's operation (`test_user_auth_service.py:295`) says "Revoking a
  device ends its sessions and credentials".
- `pki.py:290`: a kill between creating a file and writing it leaves an empty file that every
  later start takes for the finished one; a kill between the two files of a pair leaves a
  deployment that refuses to start, while `bootstrap.py:7` calls a half-finished bootstrap "the
  normal case".
- `audit/chain.py:7`: that a later export holds an earlier one unchanged does not hold for
  rows that retention deleted in between.
- `provisioning/service.py:1273`: an unreachable agent turns REVOKING into FAILED, and no pass looks at a
  failed row.
- `provisioning/service.py:317`: a reconnect with another key leaves the old key on the server; no pass
  looks for WireGuard keys without a row.
- `reconciliation.py:475`: recovery uses an answer of the agent that may be older than the
  row it settles.
- `cli.py:1186`: the usage loop's pass runs without the lock `reconciliation.py:133` speaks
  of, so two passes may repair one row.
- `config_store.py:219`: with two requests under way, the candidate promoted may be the
  other one's, and the interface may differ from the record although both were answered
  without an error; the next request that has the driver to itself repairs it.
- `reconciliation.py:213`, `:723`: a pass takes the rows written longest ago, up to
  `reconciliation_batch_size`, and does not write one it finds in sync. With more live rows
  than that the oldest fill every batch, and one left applying or revoking may never be
  reached, although `revocation.py:42` says it is retried until it succeeds.
- `reconciliation.py:339`: a WireGuard peer the agent has with another address is ambiguous
  and neither repaired nor removed, also when its row is revoking.
- `reconciliation.py`'s prune goes by rows read before: it may remove a client that was
  provisioned since, and the next pass puts it back.
- `auth/admin_service.py:422`: a process that dies between issuing a session in Redis and the
  commit leaves a session whose token nobody was given.
- `wireguard.py:165`: a `wg syncconf` that overruns raises past the rollback.
- `ledger.py:112`: after a torn append the next line is appended to the torn one, and both
  entries are lost.
- `xray.py:508`, `:162`, `:596`, `:535`: after a timeout past `rmu`, an agent restart, a
  failed traffic query, or a client served again through a restart, the watch over removed
  clients misses one or keeps one too many.
- `xray.py:362`: the Hysteria2 file is compared, not what its process loaded.
- `usage/service.py:206`: two readings of one process that were asked for in one order and
  taken in the other look like a reset, and traffic is counted twice.
- `enforcement.py:117`: a grant between measuring and cutting off leaves an account cut off
  on its old allowance: later sweeps skip marked accounts, so it stays so until the next
  grant.
- `provisioning/service.py:941`: a connect admitted before the mark inserts its credential after it, and
  the sweeps that skip the marked account leave it there.
- `accounts/service.py:408`: a reissue that crosses an activation issues a link for an
  account already active.
- `poller.py:70`: with two workers a stale finalizer can set a row to a state in which no
  statement picks it up.
- `poller.py:67`: a worker whose lease ran out may set a mail back to pending that another
  has sent.
- the agent's `enrollment.py:90`: a kill between creating a file and writing it leaves an empty
  file, and three files count as enrolled whatever they hold ("refusing a half-written one").
- `edge-relay/src/index.js:81`: the second dial repeats the payload of the frame that opened
  the stream, not all "the client had sent so far"; a frame behind a refused one is taken for
  a first one and dialed although the WebSocket is closed; and a client that leaves before
  the second dial never closes that one.

## 8. Plan

Done: provisioning with its passes for both protocols, both agents and the service they
give, usage and allowances, the ledger, sessions on both sides, accounts, administrators,
access, enrollment, bootstrap, the audit chain with retention, the outbox, the edge relay;
then the theorems of section 6. Next:

1. Proofs: `IdentityIsWhole` for `Bootstrap`, `AccountsAreWhole`, `SessionsStand` and
   `BrowserInStep` with their inductive strengthenings.
2. A composition of usage and allowances over one account with two credentials.
3. The app's connect controller, as far as it is Dart.
