-------------------------------- MODULE Access --------------------------------
(***************************************************************************)
(* Who may use what: an account's permissions for protocol profiles and    *)
(* its assignments to servers, as the panel and the command line change    *)
(* them in overlapping transactions; what the deployment offers; and the   *)
(* three places that read it all: the server picker, the gate of a connect *)
(* and the sweep that takes away credentials whose grant has lapsed.       *)
(*                                                                         *)
(* Both tables follow one discipline, so a row is named by a key: the      *)
(* permission <<"perm", u, p>> or the assignment <<"assign", u, s>>.       *)
(***************************************************************************)
EXTENDS Naturals, Sequences, FiniteSets, Functions

CONSTANTS Users,      \* account ids, naturals: the order of the ids matters
          Profiles,   \* profile ids, naturals; codes sort the other way round
          Servers,    \* server ids, naturals
          Capacity,   \* maximum_devices of a server, or the profile's lower limit
          Txs,        \* transactions of the panel and the command line, 1, 2, ...
          Scenes      \* what a behaviour may start from and do

VARIABLES scene,      \* the scene of this behaviour
          row,        \* permissions and assignments: "none", "on" or "off"
          tx,         \* the transactions
          seeded,     \* implemented protocol profiles
          capability, \* server_protocol_capabilities: "none", "on" or "off"
          state,      \* of each server
          account,    \* of each user
          spent,      \* accounts with quota_exhausted_at set
          cred,       \* a credential per user, server and profile
          connect,    \* the provisioning request under way
          sweep,      \* the pass of the access-expiry sweep under way
          changes     \* what else an operator has changed, up to a bound

vars == <<scene, row, tx, seeded, capability, state, account, spent, cred, connect, sweep, changes>>
world == <<seeded, capability, state, account, spent, changes>>

Perms == {"perm"} \X Users \X Profiles
Assigns == {"assign"} \X Users \X Servers
Keys == Perms \cup Assigns
Uses == Users \X Servers \X Profiles

Commands ==
    [op : {"grant_permissions"}, user : Users, list : Seq(Profiles)]
    \cup [op : {"assign_server", "grant_user_server_access"}, user : Users, server : Servers]
    \cup [op : {"grant_profile_to_everyone"}, profile : Profiles]
    \cup [op : {"assign_server_to_everyone"}, server : Servers]
    \cup [op : {"revoke"}, key : Keys]

ASSUME AccessAssumption ==
    /\ Users \subseteq Nat /\ Profiles \subseteq Nat /\ Servers \subseteq Nat
    /\ IsFiniteSet(Users) /\ IsFiniteSet(Profiles) /\ IsFiniteSet(Txs)
    /\ Capacity \in Nat
    /\ \A s \in Scenes : /\ s.rows \subseteq {"none", "on", "off"}
                         /\ s.seeded \subseteq Profiles
                         /\ s.menu \subseteq Commands

Idle == [at |-> "new", cmd |-> <<>>, todo |-> <<>>, keys |-> {}, locks |-> {}, wrote |-> {}]

Init ==
    /\ scene \in Scenes
    /\ \E first \in scene.rows : row = [k \in Keys |-> first]
    /\ tx = [t \in Txs |-> Idle]
    /\ seeded = scene.seeded
    /\ capability = [o \in Servers \X Profiles |-> IF o[2] \in scene.seeded THEN "on" ELSE "none"]
    /\ state = [s \in Servers |-> "active"]
    /\ account = scene.account
    /\ spent = {}
    /\ cred = [c \in Uses |-> "none"]
    /\ connect = <<>>
    /\ sweep = [on |-> FALSE, found |-> {}]
    /\ changes = 0

-----------------------------------------------------------------------------
(* Transactions *)

Ascending(S) == [i \in 1..Cardinality(S) |-> CHOOSE x \in S : Cardinality({y \in S : y <= x}) = i]
Keyed(kind, u, things) == [i \in DOMAIN things |-> <<kind, u, things[i]>>]
KeyedByUser(kind, users, x) == [i \in DOMAIN users |-> <<kind, users[i], x>>]

\* The order of the request body.
AsListed(list) == list
\* sorted(set(protocol_profile_ids))
Sorted(list) == Ascending(Range(list))

_users_who_can_use_access == Ascending({u \in Users : account[u] \in {"active", "pending"}})

\* What the command line's grant reads: the profiles the server offers, by code.
Offered(s) == {p \in seeded : capability[<<s, p>>] = "on"}
ByCode(S) == [i \in 1..Cardinality(S) |-> Ascending(S)[Cardinality(S) + 1 - i]]

\* The keys each command works through, in its order.
grant_permissions(cmd) == Keyed("perm", cmd.user, Sorted(cmd.list))
assign_server(cmd) == <<<<"assign", cmd.user, cmd.server>>>>
grant_profile_to_everyone(cmd) == KeyedByUser("perm", _users_who_can_use_access, cmd.profile)
assign_server_to_everyone(cmd) == KeyedByUser("assign", _users_who_can_use_access, cmd.server)
grant_user_server_access(cmd) ==
    Keyed("perm", cmd.user, ByCode(Offered(cmd.server))) \o <<<<"assign", cmd.user, cmd.server>>>>

KeysOf(cmd) ==
    CASE cmd.op = "grant_permissions" -> grant_permissions(cmd)
      [] cmd.op = "assign_server" -> assign_server(cmd)
      [] cmd.op = "grant_profile_to_everyone" -> grant_profile_to_everyone(cmd)
      [] cmd.op = "assign_server_to_everyone" -> assign_server_to_everyone(cmd)
      [] cmd.op = "revoke" -> <<cmd.key>>
      [] cmd.op = "grant_user_server_access" -> grant_user_server_access(cmd)

Panel(t) == tx[t].cmd.op # "grant_user_server_access"
Open(t) == tx[t].at \in {"next", "insert", "update"}
Begun(t) == tx[t].at # "new"

Begin(t) ==
    \E cmd \in scene.menu :
        /\ ~Begun(t) /\ t <= scene.txs
        /\ \A o \in Txs : o < t => Begun(o)
        \* the command line refuses a server that offers nothing
        /\ cmd.op = "grant_user_server_access" => Offered(cmd.server) # {}
        /\ tx' = [tx EXCEPT ![t] = [Idle EXCEPT !.at = "next", !.cmd = cmd,
                                       !.todo = KeysOf(cmd), !.keys = Range(KeysOf(cmd))]]
        /\ UNCHANGED <<scene, row, cred, connect, sweep, world>>

\* Postgres locks: the advisory lock of a key, and the row (or the unique index
\* entry of the row) a transaction has written and not yet committed.
AdvisoryFree(t, k) == \A o \in Txs \ {t} : k \notin tx[o].locks
RowFree(t, k) == \A o \in Txs \ {t} : k \notin tx[o].wrote

Key(t) == Head(tx[t].todo)
Write(k) == IF row[k] = "none" THEN "insert" ELSE "update"
Skip(t) == [tx EXCEPT ![t].todo = Tail(@), ![t].locks = @ \cup {Key(t)}]
Ends(t, how) == [tx EXCEPT ![t] = [Idle EXCEPT !.at = how]]

\* The lock of the key, then the row.  A row that is on is left as it is.
Granting(t, kind) ==
    /\ tx[t].at = "next" /\ tx[t].todo # <<>>
    /\ tx[t].cmd.op # "revoke" /\ Panel(t)
    /\ Key(t)[1] = kind
    /\ AdvisoryFree(t, Key(t))
    /\ UNCHANGED <<scene, row, cred, connect, sweep, world>>

Granted(t) == IF row[Key(t)] = "on" THEN Skip(t)
              ELSE [tx EXCEPT ![t].at = Write(Key(t)), ![t].locks = @ \cup {Key(t)}]

_grant(t) ==
    /\ Granting(t, "perm")
    /\ tx' = IF Key(t)[3] \in seeded THEN Granted(t) ELSE Ends(t, "failed")

_assign(t) == Granting(t, "assign") /\ tx' = Granted(t)

\* The command line reads the row under no lock of its key.
GrantReadsUnlocked(t) ==
    /\ tx[t].at = "next" /\ tx[t].todo # <<>>
    /\ ~Panel(t)
    /\ tx' = IF row[Key(t)] = "on" THEN [tx EXCEPT ![t].todo = Tail(@)]
             ELSE [tx EXCEPT ![t].at = Write(Key(t))]
    /\ UNCHANGED <<scene, row, cred, connect, sweep, world>>

\* The flush: it waits for whoever wrote the row, and an insert of a row that is
\* there by then fails.
GrantWrites(t) ==
    LET k == Key(t) IN
    /\ tx[t].at \in {"insert", "update"}
    /\ RowFree(t, k)
    /\ tx' = IF tx[t].at = "insert" /\ row[k] # "none" THEN Ends(t, "failed")
             ELSE [tx EXCEPT ![t].at = "next", ![t].todo = Tail(@), ![t].wrote = @ \cup {k}]
    /\ UNCHANGED <<scene, row, cred, connect, sweep, world>>

\* The row FOR UPDATE; one that is off already is left so.
Revoking(t, kind, locks) ==
    LET k == Key(t) IN
    /\ tx[t].at = "next" /\ tx[t].todo # <<>> /\ tx[t].cmd.op = "revoke"
    /\ k[1] = kind
    /\ RowFree(t, k)
    /\ tx' = IF row[k] = "none" THEN Ends(t, "failed")
             ELSE [tx EXCEPT ![t].todo = <<>>, ![t].locks = locks, ![t].wrote = {k}]
    /\ UNCHANGED <<scene, row, cred, connect, sweep, world>>

RevokeWithoutLock(t) == Revoking(t, "perm", {})

\* First the lock a grant of the key takes.
revoke_permission(t) == Revoking(t, "perm", {Key(t)}) /\ AdvisoryFree(t, Key(t))
revoke_assignment(t) == Revoking(t, "assign", {Key(t)}) /\ AdvisoryFree(t, Key(t))

Commits(t) ==
    /\ tx[t].at = "next" /\ tx[t].todo = <<>>
    /\ row' = [k \in Keys |-> IF k \notin tx[t].wrote THEN row[k]
                              ELSE IF tx[t].cmd.op = "revoke" THEN "off" ELSE "on"]
    /\ tx' = Ends(t, "done")
    /\ UNCHANGED <<scene, cred, connect, sweep, world>>

\* The process or its connection goes, or Postgres breaks a deadlock.
Aborts(t) ==
    /\ Open(t)
    /\ tx' = Ends(t, "failed")
    /\ UNCHANGED <<scene, row, cred, connect, sweep, world>>

-----------------------------------------------------------------------------
(* The deployment *)

Changed ==
    /\ scene.changes > changes
    /\ changes' = changes + 1
    /\ UNCHANGED <<scene, row, tx, connect, sweep>>

\* The seed commands: the protocol and the profile in one transaction, or nothing.
SeedProfile(p) ==
    /\ p \notin seeded
    /\ seeded' = seeded \cup {p}
    /\ Changed
    /\ UNCHANGED <<capability, state, account, spent, cred>>

enable_server_capability(s, p) ==
    /\ p \in seeded /\ capability[<<s, p>>] # "on"
    /\ capability' = [capability EXCEPT ![<<s, p>>] = "on"]
    /\ Changed
    /\ UNCHANGED <<seeded, state, account, spent, cred>>

disable_server_capability(s, p) ==
    /\ capability[<<s, p>>] = "on"
    /\ capability' = [capability EXCEPT ![<<s, p>>] = "off"]
    /\ Changed
    /\ UNCHANGED <<seeded, state, account, spent, cred>>

set_vpn_server_state(s, new) ==
    /\ state[s] # new
    /\ state' = [state EXCEPT ![s] = new]
    /\ Changed
    /\ UNCHANGED <<seeded, capability, account, spent, cred>>

\* Marks an account's credentials, once a sweep under way has let go of their rows.
revoke_device_credentials(u) ==
    /\ \A c \in sweep.found : c[1] # u
    /\ cred' = [c \in Uses |-> IF c[1] = u /\ cred[c] = "live" THEN "revoking" ELSE cred[c]]

DisableAccount(u) ==
    /\ account[u] # "disabled"
    /\ account' = [account EXCEPT ![u] = "disabled"]
    /\ revoke_device_credentials(u)
    /\ Changed
    /\ UNCHANGED <<seeded, capability, state, spent>>

\* The account has used up its allowance (Quota).
_cut_off(u) ==
    /\ u \notin spent
    /\ spent' = spent \cup {u}
    /\ revoke_device_credentials(u)
    /\ Changed
    /\ UNCHANGED <<seeded, capability, state, account>>

\* A new allowance.
grant_traffic_quota(u) ==
    /\ u \in spent
    /\ spent' = spent \ {u}
    /\ Changed
    /\ UNCHANGED <<seeded, capability, state, account, cred>>

-----------------------------------------------------------------------------
(* The readers *)

HoldsPermission(u, p) == row[<<"perm", u, p>>] = "on"
HoldsAssignment(u, s) == row[<<"assign", u, s>>] = "on"

\* The gate of provisioning, in the order of its checks.
_require_active_server(s, p) == state[s] = "active" /\ capability[<<s, p>>] = "on"

HasRoom(s) == Cardinality({c \in Uses : c[2] = s /\ cred[c] # "none"}) < Capacity

\* A credential that is live is used again; a new one takes a slot.  One that is being
\* removed is in the way until it is gone.
Admits(u, s, p) ==
    \/ cred[<<u, s, p>>] = "live"
    \/ cred[<<u, s, p>>] = "none" /\ HasRoom(s)

Accepts(u, s, p) ==
    /\ account[u] = "active"
    /\ u \notin spent
    /\ p \in seeded
    /\ _require_active_server(s, p)
    /\ HoldsPermission(u, p)
    /\ HoldsAssignment(u, s)
    /\ Admits(u, s, p)

JoinWithoutCapability(u) ==
    {o \in Servers \X Profiles :
        /\ HoldsAssignment(u, o[1])
        /\ state[o[1]] = "active"
        /\ HoldsPermission(u, o[2])}

\* The join behind the app's server list.
list_available_servers(u) ==
    {o \in Servers \X Profiles :
        /\ HoldsAssignment(u, o[1])
        /\ state[o[1]] = "active"
        /\ capability[o] = "on"
        /\ HoldsPermission(u, o[2])}

ConnectChecks(u, s, p) ==
    /\ scene.connects
    /\ connect = <<>> /\ cred[<<u, s, p>>] = "none"
    /\ Accepts(u, s, p)
    /\ connect' = <<u, s, p>>
    /\ UNCHANGED <<scene, row, tx, cred, sweep, world>>

\* The insert, in the transaction that checked: nothing of what it read is locked.
ConnectCommits ==
    /\ connect # <<>>
    /\ cred' = [cred EXCEPT ![connect] = "live"]
    /\ connect' = <<>>
    /\ UNCHANGED <<scene, row, tx, sweep, world>>

LapsedByAccount(c) == account[c[1]] # "active" \/ ~HoldsAssignment(c[1], c[2])

\* What the sweep looks for: a grant that is gone, not a server that is.
_lapsed(c) ==
    \/ account[c[1]] # "active"
    \/ ~HoldsAssignment(c[1], c[2])
    \/ ~HoldsPermission(c[1], c[3])

SweepReads ==
    /\ scene.connects /\ ~sweep.on
    /\ sweep' = [on |-> TRUE, found |-> {c \in Uses : cred[c] = "live" /\ _lapsed(c)}]
    /\ UNCHANGED <<scene, row, tx, cred, connect, world>>

SweepCommits ==
    /\ sweep.on
    /\ cred' = [c \in Uses |-> IF c \in sweep.found THEN "revoking" ELSE cred[c]]
    /\ sweep' = [on |-> FALSE, found |-> {}]
    /\ UNCHANGED <<scene, row, tx, connect, world>>

\* Reconciliation has taken the credential off its server (Provisioning).
Removed(c) ==
    /\ cred[c] = "revoking"
    /\ cred' = [cred EXCEPT ![c] = "none"]
    /\ UNCHANGED <<scene, row, tx, connect, sweep, world>>

-----------------------------------------------------------------------------
Next ==
    \/ \E t \in Txs : \/ Begin(t)
                      \/ _grant(t)
                      \/ _assign(t)
                      \/ GrantReadsUnlocked(t)
                      \/ GrantWrites(t)
                      \/ revoke_permission(t)
                      \/ revoke_assignment(t)
                      \/ Commits(t)
                      \/ Aborts(t)
    \/ \E p \in Profiles : SeedProfile(p)
    \/ \E s \in Servers, p \in Profiles : \/ enable_server_capability(s, p)
                                          \/ disable_server_capability(s, p)
    \/ \E s \in Servers, new \in {"active", "maintenance", "disabled"} :
           set_vpn_server_state(s, new)
    \/ \E u \in Users : \/ DisableAccount(u)
                        \/ _cut_off(u)
                        \/ grant_traffic_quota(u)
                        \/ \E s \in Servers, p \in Profiles : ConnectChecks(u, s, p)
    \/ ConnectCommits
    \/ SweepReads
    \/ SweepCommits
    \/ \E c \in Uses : Removed(c)

\* The worker runs the sweep over and over.
Fairness == WF_vars(SweepReads) /\ WF_vars(SweepCommits)

Spec == Init /\ [][Next]_vars /\ Fairness

-----------------------------------------------------------------------------
(* What must hold *)

WaitsFor(t, o) ==
    /\ tx[t].todo # <<>>
    /\ \/ tx[t].at = "next" /\ Panel(t) /\ Key(t) \in tx[o].locks
       \/ tx[t].at # "next" /\ Key(t) \in tx[o].wrote

\* Grants to one account, grants to everyone and revocations from the panel never
\* wait for each other in a circle: sorted(set(...)) and the id order of
\* _users_who_can_use_access agree on one order of the advisory locks.
PanelNeverDeadlocks ==
    \A T \in SUBSET {t \in Txs : Open(t) /\ Panel(t)} :
        T # {} => \E t \in T : \A o \in T \ {t} : ~WaitsFor(t, o)

\* When a grant from the panel is answered, everything it lists is in force, what
\* it found already granted included: a revocation overlapping it takes the same
\* advisory lock, and so falls before its read or after its commit.
AnsweredGrantsHold ==
    [][\A t \in Txs : tx[t].at = "next" /\ tx'[t].at = "done" =>
           tx[t].cmd.op = "revoke" \/ ~Panel(t)
           \/ \A k \in tx[t].keys : row'[k] = "on"]_vars

Entitled(c) ==
    account[c[1]] = "active" /\ row[<<"assign", c[1], c[2]>>] = "on" /\ row[<<"perm", c[1], c[3]>>] = "on"

\* A credential whose account, assignment or permission is gone does not stay: not
\* even one inserted by a connect whose checks ran before the revocation.
CutOnceLapsed(c) ==
    cred[c] = "live" /\ ~Entitled(c) ~> cred[c] # "live" \/ Entitled(c)
LapsedIsCut == \A c \in Uses : CutOnceLapsed(c)

\* A connect is accepted only for what the picker lists, and a listed choice is refused
\* only for the account's allowance, for want of a slot on the server or while the old
\* credential is being removed, through every order of seeding, offering, granting and
\* state changes: list_available_servers joins the tables the gate of provisioning reads
\* one by one, but for the profile's own state.
PickerMatchesGate ==
    \A u \in Users, s \in Servers, p \in Profiles :
        account[u] = "active" =>
            (Accepts(u, s, p) <=> /\ <<s, p>> \in list_available_servers(u)
                                  /\ u \notin spent
                                  /\ Admits(u, s, p))
=============================================================================
