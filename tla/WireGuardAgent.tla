--------------------------- MODULE WireGuardAgent ---------------------------
(***************************************************************************)
(* The WireGuard half of the VPN agent: the ledgered dispatch of           *)
(* api/_dispatch.py, the driver of drivers/wireguard.py and the            *)
(* last-known-good store of drivers/config_store.py.  The agent is one     *)
(* asyncio loop, so a request runs from one await to the next without      *)
(* interruption; each action is such a stretch, or what the wg process     *)
(* does meanwhile.  Nothing in the driver keeps a second request out while *)
(* a first one awaits wg; load.width bounds how many are under way.        *)
(***************************************************************************)
EXTENDS Naturals, FiniteSets

CONSTANTS Requests, Asks, Idems, Keys, Addresses, Nil,
          Pool,           \* wg_client_pool
          Loads           \* what an agent is put through, see load

ASSUME AgentAssumption ==
    /\ Pool \subseteq Addresses
    /\ Loads \subseteq [asks: SUBSET Asks, width: Nat \ {0}, stops: Nat]
    /\ IsFiniteSet(Requests)
    /\ Nil \notin Addresses \cup Requests \cup Asks \cup [Keys -> Addresses \cup {Nil}]
                  \cup {"ok", "failed", "conflict", "error"}
    /\ \A a \in Asks : a.idem \in Idems /\ a.key \in Keys /\ a.addr \in Addresses

VARIABLES
    load,       \* request bodies, requests under way at a time, stops of process or host
    asked,      \* the request bodies received
    answer,     \* the HTTP answers
    pc,         \* where each request stands
    desired,    \* the peer set each request computed from last-known-good
    read,       \* what the wg process of each request has read, Nil before it has
    shared,     \* history: the requests under way that have not been alone throughout
    candidate,  \* candidate/<interface>.conf, Nil when there is no such file
    lkg,        \* <interface>.conf, the last-known-good peer set
    kernel,     \* the peers of the live interface
    ledger,     \* the operation ledger
    pubkey,     \* whether _server_public_key is cached
    stops

vars == <<load, asked, answer, pc, desired, read, shared, candidate, lkg, kernel, ledger, pubkey, stops>>

Peers == [Keys -> Addresses \cup {Nil}]
NoPeers == [k \in Keys |-> Nil]
Waiting == {"deriving", "syncing", "synced", "failed", "rolling", "rolled"}
UnderWay == {r \in Requests : pc[r] \in Waiting}

Adds(a) == a.kind \in {"provision", "enable"}
\* with_peer, without_peer.
With(peers, a) == [peers EXCEPT ![a.key] = IF Adds(a) THEN a.addr ELSE Nil]

\* What the wg processes of some requests leave when they do not finish: each peer
\* as before, or as in a file one of them has read.
Partly(rs) ==
    {p \in Peers : \A k \in Keys : p[k] = kernel[k] \/ \E r \in rs : read[r] # Nil /\ p[k] = read[r][k]}

Init ==
    /\ load \in Loads
    /\ asked = [r \in Requests |-> Nil]
    /\ answer = [r \in Requests |-> Nil]
    /\ pc = [r \in Requests |-> "idle"]
    /\ desired = [r \in Requests |-> Nil]
    /\ read = [r \in Requests |-> Nil]
    /\ shared = {}
    /\ candidate = Nil
    /\ lkg = NoPeers
    /\ kernel = NoPeers
    /\ ledger = [i \in Idems |-> Nil]
    /\ pubkey = FALSE
    /\ stops = 0

Receive(r, a) ==
    /\ pc[r] = "idle" /\ a \in load.asks
    /\ asked' = [asked EXCEPT ![r] = a]
    /\ pc' = [pc EXCEPT ![r] = "received"]
    /\ UNCHANGED <<load, answer, desired, read, shared, candidate, lkg, kernel, ledger, pubkey, stops>>

Answered(r, result) ==
    /\ pc' = [pc EXCEPT ![r] = "done"]
    /\ answer' = [answer EXCEPT ![r] = result]
    /\ desired' = [desired EXCEPT ![r] = Nil]
    /\ read' = [read EXCEPT ![r] = Nil]
    /\ shared' = shared \ {r}

\* An exception no driver method catches: a 500, and no ledger entry.
Raises(r) ==
    /\ Answered(r, "error")
    /\ UNCHANGED <<load, asked, ledger, stops>>

\* Mutant of Recorded: only successes are recorded.
RecordedOk(r, result) ==
    /\ ledger' = IF result = "ok"
                 THEN [ledger EXCEPT ![asked[r].idem] =
                         [kind |-> asked[r].kind, target |-> asked[r].target, result |-> result]]
                 ELSE ledger
    /\ Answered(r, result)
    /\ UNCHANGED <<load, asked, stops>>

\* dispatch_ledgered records the outcome without awaiting in between.
Recorded(r, result) ==
    /\ ledger' = [ledger EXCEPT ![asked[r].idem] =
           [kind |-> asked[r].kind, target |-> asked[r].target, result |-> result]]
    /\ Answered(r, result)
    /\ UNCHANGED <<load, asked, stops>>

\* lookup: a known key is answered from the ledger.
Replay(r) ==
    /\ pc[r] = "received"
    /\ Cardinality(UnderWay) < load.width
    /\ ledger[asked[r].idem] # Nil
    /\ LET entry == ledger[asked[r].idem] IN
         Answered(r, IF entry.kind # asked[r].kind \/ entry.target # asked[r].target
                     THEN "conflict" ELSE entry.result)
    /\ UNCHANGED <<load, asked, candidate, lkg, kernel, ledger, pubkey, stops>>

\* _apply_delta up to its await: the candidate is written, wg is started.
Render(r, peers) ==
    /\ candidate' = peers
    /\ pc' = [pc EXCEPT ![r] = "syncing"]

\* The driver method up to its first await.  Only provision_device needs the
\* server's public key, and only the first call derives it.
Begin(r) ==
    /\ pc[r] = "received"
    /\ Cardinality(UnderWay) < load.width
    /\ ledger[asked[r].idem] = Nil
    /\ Adds(asked[r]) => asked[r].addr \in Pool
    /\ desired' = [desired EXCEPT ![r] = With(lkg, asked[r])]
    /\ IF asked[r].kind = "provision" /\ ~pubkey
       THEN pc' = [pc EXCEPT ![r] = "deriving"] /\ UNCHANGED candidate
       ELSE Render(r, desired'[r])
    /\ shared' = IF UnderWay = {} THEN {} ELSE UnderWay \cup {r}
    /\ UNCHANGED <<load, asked, answer, read, lkg, kernel, ledger, pubkey, stops>>

\* validate_address_in_client_pool raises.
RefuseAddress(r) ==
    /\ pc[r] = "received"
    /\ Cardinality(UnderWay) < load.width
    /\ ledger[asked[r].idem] = Nil
    /\ Adds(asked[r]) /\ asked[r].addr \notin Pool
    /\ Raises(r)
    /\ UNCHANGED <<candidate, lkg, kernel, pubkey>>

\* `wg pubkey` returned, or failed or overran its timeout.
Derive(r) ==
    /\ pc[r] = "deriving"
    /\ pubkey' = TRUE
    /\ Render(r, desired[r])
    /\ UNCHANGED <<load, asked, answer, desired, read, shared, lkg, kernel, ledger, stops>>

DeriveFails(r) ==
    /\ pc[r] = "deriving"
    /\ Raises(r)
    /\ UNCHANGED <<candidate, lkg, kernel, pubkey>>

\* `wg syncconf` reads whatever the candidate file holds by now, and later makes the
\* interface so.
SyncReads(r) ==
    /\ pc[r] \in {"syncing", "rolling"} /\ read[r] = Nil /\ candidate # Nil
    /\ read' = [read EXCEPT ![r] = candidate]
    /\ UNCHANGED <<load, asked, answer, pc, desired, shared, candidate, lkg, kernel, ledger, pubkey, stops>>

SyncDone(r) ==
    /\ pc[r] \in {"syncing", "rolling"} /\ read[r] # Nil
    /\ kernel' = read[r]
    /\ pc' = [pc EXCEPT ![r] = IF pc[r] = "syncing" THEN "synced" ELSE "rolled"]
    /\ read' = [read EXCEPT ![r] = Nil]
    /\ UNCHANGED <<load, asked, answer, desired, shared, candidate, lkg, ledger, pubkey, stops>>

\* syncconf exits non-zero: it read no file, or applied part of it.
SyncFails(r) ==
    /\ pc[r] = "syncing"
    /\ kernel' \in Partly({r})
    /\ pc' = [pc EXCEPT ![r] = "failed"]
    /\ read' = [read EXCEPT ![r] = Nil]
    /\ UNCHANGED <<load, asked, answer, desired, shared, candidate, lkg, ledger, pubkey, stops>>

\* syncconf overruns its timeout and is killed.  SubprocessTimeoutError is not
\* an ApplyError: nothing catches it and nothing is rolled back.
SyncTimesOut(r) ==
    /\ pc[r] \in {"syncing", "rolling"}
    /\ kernel' \in Partly({r})
    /\ Raises(r)
    /\ UNCHANGED <<candidate, lkg, pubkey>>

\* promote_candidate_to_last_known_good, the response and its ledger entry.
Promote(r) ==
    /\ pc[r] = "synced" /\ candidate # Nil
    /\ lkg' = candidate
    /\ candidate' = Nil
    /\ Recorded(r, "ok")
    /\ UNCHANGED <<kernel, pubkey>>

\* Mutant of PromoteRaises: it tries again until there is a candidate.
PromoteWaits(r) ==
    /\ pc[r] = "synced" /\ candidate = Nil
    /\ UNCHANGED vars

\* os.replace finds no candidate: another request promoted it already.
PromoteRaises(r) ==
    /\ pc[r] = "synced" /\ candidate = Nil
    /\ Raises(r)
    /\ UNCHANGED <<candidate, lkg, kernel, pubkey>>

\* Mutant of Rollback: it re-applies the candidate that just failed.
RollbackCandidate(r) ==
    /\ pc[r] = "failed"
    /\ pc' = [pc EXCEPT ![r] = "rolling"]
    /\ UNCHANGED <<load, asked, answer, desired, read, shared, candidate, lkg, kernel, ledger, pubkey, stops>>

\* _rollback up to its await.
Rollback(r) ==
    /\ pc[r] = "failed"
    /\ candidate' = lkg
    /\ pc' = [pc EXCEPT ![r] = "rolling"]
    /\ UNCHANGED <<load, asked, answer, desired, read, shared, lkg, kernel, ledger, pubkey, stops>>

\* The rollback was applied: ApplyError becomes a "failed" response.
RolledBack(r) ==
    /\ pc[r] = "rolled"
    /\ Recorded(r, "failed")
    /\ UNCHANGED <<candidate, lkg, kernel, pubkey>>

\* RollbackFailedError.
RollbackFails(r) ==
    /\ pc[r] = "rolling"
    /\ kernel' \in Partly({r})
    /\ Raises(r)
    /\ UNCHANGED <<candidate, lkg, pubkey>>

\* The process stops: files, ledger and interface stay, and whatever wg was
\* doing may be half done.  A promotion may have gone unrecorded.
Stopped ==
    /\ stops < load.stops
    /\ stops' = stops + 1
    /\ pc' = [r \in Requests |-> IF pc[r] = "idle" THEN "idle" ELSE "done"]
    /\ answer' = [r \in Requests |-> IF pc[r] \in Waiting \cup {"received"}
                                     THEN "error" ELSE answer[r]]
    /\ desired' = [r \in Requests |-> Nil]
    /\ read' = [r \in Requests |-> Nil]
    /\ shared' = {}
    /\ pubkey' = FALSE
    /\ \/ (\E r \in Requests : pc[r] = "synced") /\ candidate # Nil
          /\ lkg' = candidate /\ candidate' = Nil
       \/ UNCHANGED <<lkg, candidate>>
    /\ UNCHANGED <<load, asked, ledger>>

Crash ==
    /\ Stopped
    /\ kernel' \in Partly(Requests)

\* The host restarts with a bare interface; nothing re-applies last-known-good.
Reboot ==
    /\ Stopped
    /\ kernel' = NoPeers

Serve(r) ==
    \/ Replay(r) \/ Begin(r) \/ RefuseAddress(r)
    \/ Derive(r) \/ DeriveFails(r)
    \/ SyncReads(r) \/ SyncDone(r) \/ SyncFails(r) \/ SyncTimesOut(r)
    \/ Promote(r) \/ PromoteRaises(r)
    \/ Rollback(r) \/ RolledBack(r) \/ RollbackFails(r)

Next ==
    \/ \E r \in Requests : Serve(r) \/ \E a \in Asks : Receive(r, a)
    \/ Crash \/ Reboot

Spec == Init /\ [][Next]_vars

\* The event loop resumes every task that is ready, and a wg process ends or is
\* killed at its timeout.
FairSpec == Spec /\ \A r \in Requests : WF_vars(Serve(r))

-----------------------------------------------------------------------------

\* The agent's state has the shapes described above; a request holds a computed
\* peer set exactly while the driver works on it.
TypeOK ==
    /\ asked \in [Requests -> Asks \cup {Nil}]
    /\ answer \in [Requests -> {Nil, "ok", "failed", "conflict", "error"}]
    /\ pc \in [Requests -> Waiting \cup {"idle", "received", "done"}]
    /\ \A r \in Requests :
          /\ desired[r] \in IF r \in UnderWay THEN Peers ELSE {Nil}
          /\ read[r] \in IF pc[r] \in {"syncing", "rolling"} THEN Peers \cup {Nil} ELSE {Nil}
          /\ (asked[r] = Nil) <=> (pc[r] = "idle")
          /\ (answer[r] # Nil) <=> (pc[r] = "done")
    /\ shared \subseteq UnderWay
    /\ candidate \in Peers \cup {Nil}
    /\ lkg \in Peers
    /\ kernel \in Peers
    /\ \A i \in Idems : ledger[i] # Nil => ledger[i].result \in {"ok", "failed"}
    /\ pubkey \in BOOLEAN
    /\ stops \in 0 .. load.stops

Service == INSTANCE AgentService WITH
    serving <- IF UnderWay = {} THEN Nil ELSE CHOOSE r \in UnderWay : TRUE,
    record <- lkg,
    interface <- IF UnderWay = {} THEN kernel ELSE Nil

\* Requests that do not overlap get the service of AgentService.tla: an "ok" or
\* "failed" answer leaves last-known-good, the interface and the ledger agreeing
\* with it, whatever wg, a crash or a reboot did on the way (_apply_delta,
\* _rollback, dispatch_ledgered).
ImplementsService == Service!Init /\ [][load.width > 1 \/ Service!Next]_(Service!vars)

\* Whatever overlapping requests, errors, stops and half-finished wg processes left
\* behind, the next request that has the driver to itself is carried out whole: "ok"
\* puts its change on record and the interface on the record, "failed" leaves the
\* record and puts the interface back on it (_apply_delta, _rollback).
LoneRequestIsWhole ==
    [][\A r \in UnderWay \ shared :
           /\ answer'[r] = "ok" => lkg' = With(lkg, asked[r]) /\ kernel' = lkg'
           /\ answer'[r] = "failed" => lkg' = lkg /\ kernel' = lkg]_vars

\* Every request that arrives is answered, also when several of them work on the
\* one candidate file.
AnsweredOnceReceived(r) == pc[r] = "received" ~> pc[r] = "done"
EveryRequestAnswered == \A r \in Requests : AnsweredOnceReceived(r)
=============================================================================
