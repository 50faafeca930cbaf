------------------------------ MODULE Accounts ------------------------------
(***************************************************************************)
(* From an account request to an activated account, and to its erasure:    *)
(* the rows account_requests (with the number of their events), users and  *)
(* user_activations that concern one address, and the transactions of      *)
(* nebula_api/accounts/service.py and account_erasure.py on them.          *)
(*                                                                         *)
(* A transaction is a sequence of steps, one per statement that may wait   *)
(* for a row lock; what it writes is visible when it commits.  A statement *)
(* chooses its rows from a snapshot, waits for their locks, and looks again*)
(* only at the rows it waited for.  Rate limits, audit rows and the mails  *)
(* that carry no token are left out; a link is its token.                  *)
(***************************************************************************)
EXTENDS Naturals, FiniteSets

CONSTANTS
    Procs,          \* API workers and operator commands
    MaxRequests,    \* bound: account requests for the address
    MaxLinks,       \* bound: activation links issued
    MaxRows,        \* bound: requests and links together
    Nil

VARIABLES
    req,        \* account_requests, each with the number of its events
    user,       \* users that ever had the address
    link,       \* user_activations
    late,       \* the rows whose expires_at has passed
    mailed,     \* links whose payload reached the mail outbox
    tx          \* the transaction of each process

vars == <<req, user, link, late, mailed, tx>>
tables == <<req, user, link, late, mailed>>

Requests == 1..MaxRequests
Users == 1..MaxRequests
Links == 1..MaxLinks
Rows == ({"req"} \X Requests) \cup ({"user"} \X Users) \cup ({"link"} \X Links)

NoReq == [state |-> "absent", user |-> 0, events |-> 0]
NoUser == [state |-> "absent", req |-> 0, by |-> 0]
NoLink == [state |-> "absent", user |-> 0]
Idle == [op |-> Nil, arg |-> 0, pc |-> Nil, saw |-> {}, held |-> {}]

Init ==
    /\ req = [r \in Requests |-> NoReq]
    /\ user = [u \in Users |-> NoUser]
    /\ link = [l \in Links |-> NoLink]
    /\ late = {} /\ mailed = {}
    /\ tx = [p \in Procs |-> Idle]

Used(table) == {i \in DOMAIN table : table[i].state # "absent"}
Fresh(table, i) ==
    /\ table[i].state = "absent" /\ 1..(i - 1) \subseteq Used(table)
    /\ Cardinality(Used(req)) + Cardinality(Used(link)) < MaxRows
Free(p, row) == \A q \in Procs \ {p} : row \notin tx[q].held
At(p, op, pc) == tx[p].op = op /\ tx[p].pc = pc
Starts(p, op, arg, pc, held) ==
    /\ tx[p] = Idle
    /\ tx' = [tx EXCEPT ![p] = [op |-> op, arg |-> arg, pc |-> pc, saw |-> {}, held |-> held]]
Ends(p) == tx' = [tx EXCEPT ![p] = Idle]
\* Committed; the link's payload is still to be staged.
Committed(p, l) == tx' = [tx EXCEPT ![p] = [Idle EXCEPT !.op = "stage", !.arg = l]]

ActiveLinks(u) == {l \in Links : link[l].state = "active" /\ link[l].user = u}
LinksOf(u) == {l \in Links : link[l].user = u /\ link[l].state # "deleted"}
Kept == {r \in Requests : req[r].state \notin {"absent", "deleted"}}

(***************************************************************************)
(* Asking, and the decision.                                               *)
(***************************************************************************)
\* submit_request: uq_account_requests_pending_email_normalized swallows a
\* second pending request; an existing account does not stand in the way.
Submit(r) ==
    /\ Fresh(req, r)
    /\ \A q \in Requests : req[q].state # "pending"
    /\ req' = [req EXCEPT ![r] = [state |-> "pending", user |-> 0, events |-> 1]]
    /\ UNCHANGED <<user, link, late, mailed, tx>>

\* Mutant: nobody asks whether the address has an account.
AddressAlwaysFree == TRUE
\* No account of the address, as approve asks and uq_users_email_normalized
\* makes sure.
AddressFree == \A u \in Users : user[u].state \in {"absent", "erased"}

\* Mutant: the request is read without FOR UPDATE.
ReviewUnlocked(p, r, op) ==
    /\ req[r].state = "pending"
    /\ op = "approve" => <<"req", r>> \notin late /\ AddressFree
    /\ Starts(p, op, r, "decide", {})
    /\ UNCHANGED tables

\* approve and reject up to their writes, under the request's row lock.  A
\* decided request is only reported back, an expired one can be rejected.
Review(p, r, op) ==
    /\ Free(p, <<"req", r>>)
    /\ req[r].state = "pending"
    /\ op = "approve" => <<"req", r>> \notin late /\ AddressFree
    /\ Starts(p, op, r, "decide", {<<"req", r>>})
    /\ UNCHANGED tables

\* Mutant: the request is not pointed at its account.
ApproveUnlinked(p) ==
    /\ At(p, "approve", "decide")
    /\ AddressFree
    /\ \E u \in Users, l \in Links :
         /\ Fresh(user, u) /\ Fresh(link, l)
         /\ user' = [user EXCEPT ![u] = [state |-> "pending", req |-> tx[p].arg, by |-> 0]]
         /\ link' = [link EXCEPT ![l] = [state |-> "active", user |-> u]]
         /\ req' = [req EXCEPT ![tx[p].arg].state = "approved", ![tx[p].arg].events = @ + 1]
         /\ Committed(p, l)
    /\ UNCHANGED <<late, mailed>>

\* The account, its first link and the decision in one commit.
Approve(p) ==
    LET r == tx[p].arg IN
    /\ At(p, "approve", "decide")
    /\ AddressFree
    /\ \E u \in Users, l \in Links :
         /\ Fresh(user, u) /\ Fresh(link, l)
         /\ user' = [user EXCEPT ![u] = [state |-> "pending", req |-> r, by |-> 0]]
         /\ link' = [link EXCEPT ![l] = [state |-> "active", user |-> u]]
         /\ req' = [req EXCEPT ![r] = [state |-> "approved", user |-> u, events |-> @.events + 1]]
         /\ Committed(p, l)
    /\ UNCHANGED <<late, mailed>>

Reject(p) ==
    /\ At(p, "reject", "decide")
    /\ req' = [req EXCEPT ![tx[p].arg].state = "rejected", ![tx[p].arg].events = @ + 1]
    /\ Ends(p)
    /\ UNCHANGED <<user, link, late, mailed>>

\* _stage_delivery, after the commit.
Stage(p) ==
    /\ tx[p].op = "stage"
    /\ mailed' = mailed \cup {tx[p].arg}
    /\ Ends(p)
    /\ UNCHANGED <<req, user, link, late>>

(***************************************************************************)
(* reissue_activation.                                                     *)
(***************************************************************************)
\* Account and request are read without a lock.
ReissueReads(p, u) ==
    /\ user[u].state = "pending"
    /\ Starts(p, "reissue", u, "spend", {})
    /\ UNCHANGED tables

\* The UPDATE that spends what is outstanding: its snapshot, then its locks.
ReissueSnaps(p) ==
    /\ At(p, "reissue", "spend")
    /\ tx' = [tx EXCEPT ![p].pc = "lock", ![p].saw = {<<"link", l>> : l \in ActiveLinks(tx[p].arg)}]
    /\ UNCHANGED tables

ReissueLocks(p) ==
    /\ At(p, "reissue", "lock")
    /\ \A row \in tx[p].saw : Free(p, row)
    /\ tx' = [tx EXCEPT ![p].pc = "insert",
                        ![p].held = {row \in @ \cup tx[p].saw : link[row[2]].state = "active"}]
    /\ UNCHANGED tables

Spent(p) == {row[2] : row \in tx[p].held}
Reissued(p, l) ==
    /\ link' = [i \in Links |-> IF i = l THEN [state |-> "active", user |-> tx[p].arg]
                                ELSE IF i \in Spent(p) THEN [link[i] EXCEPT !.state = "consumed"]
                                ELSE link[i]]
    /\ Committed(p, l)

\* Mutants: no partial unique index; no foreign key to the request.
ReissueCommitsTwice(p) ==
    LET r == user[tx[p].arg].req IN
    /\ At(p, "reissue", "insert")
    /\ Free(p, <<"req", r>>) /\ req[r].state = "approved"
    /\ \E l \in Links : Fresh(link, l) /\ Reissued(p, l)
    /\ UNCHANGED <<req, user, late, mailed>>
ReissueCommitsLoose(p) ==
    /\ At(p, "reissue", "insert")
    /\ ActiveLinks(tx[p].arg) \subseteq Spent(p)
    /\ \E l \in Links : Fresh(link, l) /\ Reissued(p, l)
    /\ UNCHANGED <<req, user, late, mailed>>

\* The new link: uq_user_activations_active_user_id allows one active link,
\* and the foreign key needs the approved request.
ReissueCommits(p) ==
    LET r == user[tx[p].arg].req IN
    /\ At(p, "reissue", "insert")
    /\ Free(p, <<"req", r>>) /\ req[r].state = "approved"
    /\ ActiveLinks(tx[p].arg) \subseteq Spent(p)
    /\ \E l \in Links : Fresh(link, l) /\ Reissued(p, l)
    /\ UNCHANGED <<req, user, late, mailed>>

(***************************************************************************)
(* confirm_activation.                                                     *)
(***************************************************************************)
ConfirmLocks(p, l) ==
    /\ l \in mailed
    /\ Free(p, <<"link", l>>)
    /\ link[l].state = "active" /\ <<"link", l>> \notin late
    /\ Starts(p, "confirm", l, "user", {<<"link", l>>})
    /\ UNCHANGED tables

Activated(p, u) ==
    LET l == tx[p].arg IN
    /\ Free(p, <<"user", u>>)
    /\ \A i \in ActiveLinks(u) : Free(p, <<"link", i>>)
    /\ user' = [user EXCEPT ![u].state = "active", ![u].by = l]
    /\ link' = [i \in Links |-> IF i = l THEN [link[i] EXCEPT !.state = "consumed"]
                                ELSE IF i \in ActiveLinks(u) THEN [link[i] EXCEPT !.state = "revoked"]
                                ELSE link[i]]
    /\ Ends(p)

\* Mutant: the account's state is not looked at.
ConfirmCommitsAny(p) ==
    /\ At(p, "confirm", "user")
    /\ Activated(p, link[tx[p].arg].user)
    /\ UNCHANGED <<req, late, mailed>>

\* The account is locked and must still await activation.
ConfirmCommits(p) ==
    /\ At(p, "confirm", "user")
    /\ user[link[tx[p].arg].user].state = "pending"
    /\ Activated(p, link[tx[p].arg].user)
    /\ UNCHANGED <<req, late, mailed>>

(***************************************************************************)
(* erase_account, by the person or an administrator.                       *)
(***************************************************************************)
EraseLocks(p, u) ==
    /\ user[u].state \in {"pending", "active"}
    /\ Free(p, <<"user", u>>)
    /\ Starts(p, "erase", u, "links", {<<"user", u>>})
    /\ UNCHANGED tables

\* DELETE FROM user_activations: snapshot, then locks.
EraseSnaps(p) ==
    /\ At(p, "erase", "links")
    /\ tx' = [tx EXCEPT ![p].pc = "lock", ![p].saw = {<<"link", l>> : l \in LinksOf(tx[p].arg)}]
    /\ UNCHANGED tables

EraseLinks(p) ==
    /\ At(p, "erase", "lock")
    /\ \A row \in tx[p].saw : Free(p, row)
    /\ tx' = [tx EXCEPT ![p].pc = "events", ![p].held = @ \cup tx[p].saw]
    /\ UNCHANGED tables

\* DELETE FROM account_request_events, of the requests there are by now.
EraseEvents(p) ==
    /\ At(p, "erase", "events")
    /\ tx' = [tx EXCEPT ![p].pc = "requests", ![p].saw = {<<r, req[r].events>> : r \in Kept}]
    /\ UNCHANGED tables

\* DELETE FROM account_requests: an event written meanwhile, or a link the
\* first snapshot missed, breaks a foreign key and undoes the erasure.
EraseCommits(p) ==
    LET u == tx[p].arg
        doomed == {s[1] : s \in tx[p].saw} IN
    /\ At(p, "erase", "requests")
    /\ \A r \in doomed : Free(p, <<"req", r>>)
    /\ \A s \in tx[p].saw : req[s[1]].events = s[2]
    /\ \A l \in LinksOf(u) : <<"link", l>> \in tx[p].held
    /\ req' = [r \in Requests |-> IF r \in doomed THEN [NoReq EXCEPT !.state = "deleted"] ELSE req[r]]
    /\ link' = [l \in Links |-> IF l \in LinksOf(u) THEN [link[l] EXCEPT !.state = "deleted"]
                                ELSE link[l]]
    /\ user' = [user EXCEPT ![u].state = "erased"]
    /\ Ends(p)
    /\ UNCHANGED <<late, mailed>>

(***************************************************************************)
(* Surroundings.                                                           *)
(***************************************************************************)
\* A transaction is rolled back: a refusal, a broken constraint, a deadlock
\* between row locks, a dead process; or the outbox is down and no mail goes.
Abort(p) == tx[p] # Idle /\ Ends(p) /\ UNCHANGED tables

Expires ==
    /\ \/ \E r \in Requests : req[r].state = "pending" /\ late' = late \cup {<<"req", r>>}
       \/ \E l \in Links : link[l].state = "active" /\ late' = late \cup {<<"link", l>>}
    /\ UNCHANGED <<req, user, link, mailed, tx>>

Next ==
    \/ \E r \in Requests : Submit(r)
    \/ \E p \in Procs :
         \/ \E r \in Requests, op \in {"approve", "reject"} : Review(p, r, op)
         \/ Approve(p) \/ Reject(p) \/ Stage(p) \/ Abort(p)
         \/ \E u \in Users : ReissueReads(p, u) \/ EraseLocks(p, u)
         \/ ReissueSnaps(p) \/ ReissueLocks(p) \/ ReissueCommits(p)
         \/ \E l \in Links : ConfirmLocks(p, l)
         \/ ConfirmCommits(p)
         \/ EraseSnaps(p) \/ EraseLinks(p) \/ EraseEvents(p) \/ EraseCommits(p)
    \/ Expires

Spec == Init /\ [][Next]_vars

(***************************************************************************)
(* Properties.                                                             *)
(***************************************************************************)
\* The types, with the CHECK constraint approved_state_matches_user.
TypeOK ==
    /\ req \in [Requests -> [state: {"absent", "pending", "approved", "rejected", "deleted"},
                             user: Users \cup {0}, events: Nat]]
    /\ \A r \in Requests : (req[r].state = "approved") = (req[r].user # 0)
    /\ user \in [Users -> [state: {"absent", "pending", "active", "erased"},
                           req: Requests \cup {0}, by: Links \cup {0}]]
    /\ link \in [Links -> [state: {"absent", "active", "consumed", "revoked", "deleted"},
                           user: Users \cup {0}]]
    /\ late \subseteq Rows /\ mailed \subseteq Links
    /\ \A p \in Procs : tx[p].held \subseteq Rows

\* However often and from however many panels a request is approved, and
\* however requests, erasures and new requests follow each other, the address
\* has one account at a time and a request leads to one account
\* (docs/architecture.md: "Lock request; create user once").
OneAccount ==
    /\ Cardinality({u \in Users : user[u].state \in {"pending", "active"}}) <= 1
    /\ \A u, v \in Users : user[u].req = user[v].req /\ user[u].req # 0 => u = v

\* Two administrators deciding at once cannot both have their way: a decision
\* once committed stays until the request is erased with its account.
DecisionStands ==
    [][\A r \in Requests : req[r].state \in {"approved", "rejected"}
                           => req'[r].state \in {req[r].state, "deleted"}]_vars

\* "the link in the older mail stops working the moment a newer one is sent"
\* (reissue_activation): only the newest link of an account can be active,
\* whatever reissues, activations and erasures cross.
OnlyTheNewestLinkWorks ==
    \A l, n \in Links : link[l].state = "active" /\ link[n].user = link[l].user => n <= l

\* The password chosen with the first link that worked is not replaced by a
\* later use of an activation link, even of one issued by a reissue that had
\* read the account before it was activated (confirm_activation).
FirstActivationStands ==
    [][\A u \in Users : user[u].by # 0 => user'[u].by = user[u].by]_vars

\* An erased account leaves neither its request nor a link behind, whatever was
\* under way when it was erased (erase_account: "Leave nothing that names the
\* person").
ErasedLeavesNothing ==
    \A u \in Users : user[u].state = "erased"
                     => LinksOf(u) = {} /\ \A r \in Requests : req[r].user # u
=============================================================================
