---------------------------- MODULE AgentService ----------------------------
(***************************************************************************)
(* What the control plane relies on when it calls the VPN agent: requests  *)
(* take effect one at a time and whole, the outcome of an idempotency key  *)
(* is decided once and repeated ever after, and whatever the agent answers *)
(* other than an error leaves the interface on the recorded peers.         *)
(* Provisioning.tla uses the agent this way; WireGuardAgent.tla implements *)
(* it as long as requests do not overlap.                                  *)
(***************************************************************************)
CONSTANTS Requests, Asks, Idems, Keys, Addresses, Nil

VARIABLES
    asked,      \* what each request asks, Nil until it arrives
    answer,     \* what it was answered, Nil while it is open
    serving,    \* the request being carried out, or Nil
    record,     \* the peers on record: each key's address, or Nil
    interface,  \* the peers of the interface, Nil while a request is carried out
    ledger      \* the decided outcome of each idempotency key, or Nil

vars == <<asked, answer, serving, record, interface, ledger>>

Peers == [Keys -> Addresses \cup {Nil}]
NoPeers == [k \in Keys |-> Nil]
Adds(a) == a.kind \in {"provision", "enable"}
With(peers, a) == [peers EXCEPT ![a.key] = IF Adds(a) THEN a.addr ELSE Nil]
SameOperation(entry, a) == entry.kind = a.kind /\ entry.target = a.target
Open(r) == asked[r] # Nil /\ answer[r] = Nil

Init ==
    /\ asked = [r \in Requests |-> Nil]
    /\ answer = [r \in Requests |-> Nil]
    /\ serving = Nil
    /\ record = NoPeers
    /\ interface = NoPeers
    /\ ledger = [i \in Idems |-> Nil]

Receive(r, a) ==
    /\ asked[r] = Nil
    /\ asked' = [asked EXCEPT ![r] = a]
    /\ UNCHANGED <<answer, serving, record, interface, ledger>>

Replay(r) ==
    /\ Open(r) /\ serving = Nil
    /\ ledger[asked[r].idem] # Nil
    /\ answer' = [answer EXCEPT ![r] = IF SameOperation(ledger[asked[r].idem], asked[r])
                                       THEN ledger[asked[r].idem].result ELSE "conflict"]
    /\ UNCHANGED <<asked, serving, record, interface, ledger>>

Refuse(r) ==
    /\ Open(r) /\ serving = Nil
    /\ answer' = [answer EXCEPT ![r] = "error"]
    /\ UNCHANGED <<asked, serving, record, interface, ledger>>

Begin(r) ==
    /\ Open(r) /\ serving = Nil
    /\ ledger[asked[r].idem] = Nil
    /\ serving' = r
    /\ interface' = Nil
    /\ UNCHANGED <<asked, answer, record, ledger>>

Decide(r, result) ==
    /\ serving = r
    /\ serving' = Nil
    /\ record' = IF result = "ok" THEN With(record, asked[r]) ELSE record
    /\ interface' = record'
    /\ ledger' = [ledger EXCEPT ![asked[r].idem] =
           [kind |-> asked[r].kind, target |-> asked[r].target, result |-> result]]
    /\ answer' = [answer EXCEPT ![r] = result]
    /\ UNCHANGED asked

\* An error says nothing of the interface, and the outcome stays undecided.
Break(r) ==
    /\ serving = r
    /\ serving' = Nil
    /\ answer' = [answer EXCEPT ![r] = "error"]
    /\ interface' \in Peers
    /\ UNCHANGED <<asked, record, ledger>>

\* The agent stops: open requests lose their answer, the one being carried out
\* may have been recorded, and its interface may be anything.  A restart of the
\* host empties the interface besides.
Stop ==
    /\ serving' = Nil
    /\ answer' = [r \in Requests |-> IF Open(r) THEN "error" ELSE answer[r]]
    /\ record' \in {record} \cup {With(record, asked[r]) : r \in {serving} \ {Nil}}
    /\ \/ interface' = NoPeers
       \/ serving = Nil /\ UNCHANGED interface
       \/ serving # Nil /\ interface' \in Peers
    /\ UNCHANGED <<asked, ledger>>

Next ==
    \/ \E r \in Requests :
          \/ \E a \in Asks : Receive(r, a)
          \/ Replay(r) \/ Refuse(r) \/ Begin(r) \/ Break(r)
          \/ \E result \in {"ok", "failed"} : Decide(r, result)
    \/ Stop

Spec == Init /\ [][Next]_vars
=============================================================================
