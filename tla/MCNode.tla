------------------------------- MODULE MCNode -------------------------------
(***************************************************************************)
(* The two drivers of a node's agent.  WireGuard: two devices' keys, two   *)
(* addresses and one outside the pool; a retry carries the body of an      *)
(* earlier request, OutOfPool its idempotency key with another operation.  *)
(* Xray: a client of Xray and one of Hysteria2, each provisioned and       *)
(* revoked, and a sweep that expects one of them.  A behaviour follows one *)
(* driver; the other stands at a first state.                              *)
(***************************************************************************)
EXTENDS WireGuardAgent

CONSTANTS i1, i2, i3, k1, k2, a1, a2, outside, r1, r2, r3, p1, p2, x1, h1

VARIABLES driver,
          live, faults, at, ask, want, removed, lock, record, file, hyfile, previous,
          xray, hysteria, conns, lingering, watcher, booted, sound, calls, halts

wgVars == <<load, asked, answer, pc, desired, read, shared, candidate, lkg, kernel, ledger, pubkey, stops>>
xrayVars == <<live, faults, at, ask, want, removed, lock, record, file, hyfile, previous,
              xray, hysteria, conns, lingering, watcher, booted, sound, calls, halts>>

ProvisionOne == [idem |-> i1, kind |-> "provision", target |-> k1, key |-> k1, addr |-> a1]
RevokeOne == [idem |-> i2, kind |-> "revoke", target |-> k1, key |-> k1, addr |-> a1]
EnableTwo == [idem |-> i3, kind |-> "enable", target |-> k2, key |-> k2, addr |-> a2]
DisableTwo == [idem |-> i2, kind |-> "disable", target |-> k2, key |-> k2, addr |-> a2]
OutOfPool == [idem |-> i3, kind |-> "provision", target |-> k2, key |-> k2, addr |-> outside]

MCIdems == {i1, i2, i3}
MCKeys == {k1, k2}
MCAddresses == {a1, a2, outside}
MCPool == {a1, a2}
MCAsks == {ProvisionOne, RevokeOne, EnableTwo, DisableTwo, OutOfPool}

\* One request at a time and a stop; two at a time; the peer that is disabled or has
\* an address outside the pool.
MCLoads == {[asks |-> {ProvisionOne, EnableTwo}, width |-> 1, stops |-> 1],
            [asks |-> {ProvisionOne, RevokeOne}, width |-> 2, stops |-> 0],
            [asks |-> {EnableTwo, DisableTwo, OutOfPool}, width |-> 1, stops |-> 1]}

Of(kind, c) == [kind |-> kind, clients |-> {c}]
OneOfEach == {Of(kind, c) : kind \in {"provision", "revoke"}, c \in {x1, h1}} \cup {Of("prune", h1)}

\* Everything goes wrong, or only Xray's answers.
Xray == INSTANCE XrayAgent WITH
    Procs <- {p1, p2}, Xrays <- {x1}, Hysterias <- {h1}, Asks <- OneOfEach, Settings <- BOOLEAN,
    FaultSets <- {{"refused", "restart", "timeout", "counters", "stop"}, {"refused"}},
    MaxCalls <- 3, MaxStops <- 1, pc <- at, lkg <- record, stops <- halts

MCInit ==
    /\ driver \in {"wireguard", "xray"}
    /\ Init /\ Xray!Init
    /\ driver # "wireguard" => load.width = 2
    /\ driver # "xray" => live /\ faults = {"refused"}

MCNext ==
    \/ driver = "wireguard" /\ Next /\ UNCHANGED <<driver, xrayVars>>
    \/ driver = "xray" /\ Xray!Next /\ UNCHANGED <<driver, wgVars>>

\* The event loop resumes whoever is ready.
MCFairness ==
    /\ \A r \in Requests : WF_wgVars(driver = "wireguard" /\ Serve(r))
    /\ WF_xrayVars(driver = "xray" /\ Xray!Watcher)
    /\ \A p \in {p1, p2} : WF_xrayVars(driver = "xray" /\ Xray!Works(p))

MCSpec == MCInit /\ [][MCNext]_<<driver, wgVars, xrayVars>> /\ MCFairness

-----------------------------------------------------------------------------
\* At rest, the clients on record are those of both files and of Xray
\* (XrayAgent!AppliedIsOnFile); the WireGuard driver's state is well-formed.
RecordIsServed == TypeOK /\ (driver = "xray" => Xray!AppliedIsOnFile)

\* The recorded set of clients changes only by what one request asks
\* (XrayAgent!EachChangeIsWhole).
EachChangeIsWhole == Xray!EachChangeIsWhole

\* A removed client is cut off (XrayAgent!RemovedIsCutOff).
RemovedIsCutOff == Xray!RemovedIsCutOff

\* A request to either driver is answered, whatever overlaps it or fails on its way
\* (EveryRequestAnswered, XrayAgent!EveryCallEnds); requests are interchangeable.
FirstCallIsAnswered == AnsweredOnceReceived(r1) /\ Xray!EndsOnceBegun(p1)
=============================================================================
