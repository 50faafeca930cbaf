--------------------------- MODULE WireGuardProofs ---------------------------
(***************************************************************************)
(* The WireGuard driver, proved for any number of requests, keys and       *)
(* addresses: its types, that a request which has the driver to itself is  *)
(* carried out whole whatever overlapped or broke before it, and that      *)
(* requests which never overlap get the service of AgentService.           *)
(***************************************************************************)
EXTENDS WireGuardAgent, FiniteSetTheorems, TLAPS

Places == Waiting \cup {"idle", "received", "done"}
Answers == {"ok", "failed", "conflict", "error"}
Function(f, S) == f = [x \in S |-> f[x]]

\* What TypeOK leaves open and an update of these tables needs.
Shape == load \in Loads /\ Function(desired, Requests) /\ Function(read, Requests) /\ Function(ledger, Idems)

\* A request that was never joined by another is the only one under way, and its stage
\* says what the candidate file and the interface hold.
Staged(r) ==
    /\ desired[r] = With(lkg, asked[r])
    /\ pc[r] \in {"syncing", "synced", "failed"} => candidate = desired[r]
    /\ pc[r] \in {"rolling", "rolled"} => candidate = lkg
    /\ read[r] \in {Nil, candidate}
    /\ pc[r] = "synced" => kernel = candidate
    /\ pc[r] = "rolled" => kernel = lkg
Lone == \A r \in UnderWay \ shared : UnderWay = {r} /\ Staged(r)

\* An agent given one request at a time has only such requests.
Narrow == load.width = 1 => shared = {}

IInv == TypeOK /\ Shape /\ Lone /\ Narrow

-----------------------------------------------------------------------------
(* The operators *)

\* Nil is no request, request body, peer set, address or answer.
LEMMA NilDiffers ==
    /\ Nil \notin Requests /\ Nil \notin Asks /\ Nil \notin Peers /\ Nil \notin Addresses
    /\ Nil # "ok" /\ Nil # "failed" /\ Nil # "conflict" /\ Nil # "error"
BY AgentAssumption DEF Peers

\* with_peer and without_peer make a peer set of a peer set.
LEMMA WithIsPeers ==
    ASSUME NEW p \in Peers, NEW a \in Asks
    PROVE  With(p, a) \in Peers
BY AgentAssumption DEF With, Peers

\* A wg process that has read no file leaves the interface as it is.
LEMMA PartlyIdle ==
    ASSUME kernel \in Peers, NEW rs, \A r \in rs : read[r] = Nil, NEW p \in Partly(rs)
    PROVE  p = kernel
BY DEF Partly, Peers

\* With no overlap a request begins only when none is under way.
LEMMA NoneUnderWay ==
    ASSUME Shape, load.width = 1, Cardinality(UnderWay) < load.width
    PROVE  UnderWay = {}
<1>1. IsFiniteSet(UnderWay)
    BY AgentAssumption, FS_Subset DEF UnderWay
<1>2. Cardinality(UnderWay) \in Nat
    BY <1>1, FS_CardinalityType
<1>3. Cardinality(UnderWay) = 0
    BY <1>2
<1>. QED
    BY <1>1, <1>3, FS_EmptySet

-----------------------------------------------------------------------------
(* Types *)

\* A request that goes on from one await to the next.
GoesOn(r, to) ==
    /\ pc[r] \in Waiting /\ to \in Waiting
    /\ pc' = [pc EXCEPT ![r] = to]
    /\ Function(read', Requests) /\ \A q \in Requests \ {r} : read'[q] = read[q]
    /\ read'[r] \in IF to \in {"syncing", "rolling"} THEN Peers \cup {Nil} ELSE {Nil}
    /\ UNCHANGED <<load, asked, answer, desired, shared, ledger, stops>>

Tables == candidate \in Peers \cup {Nil} /\ lkg \in Peers /\ kernel \in Peers /\ pubkey \in BOOLEAN

\* Going on keeps the types.
LEMMA GoingOnTypes ==
    ASSUME TypeOK, Shape, NEW r \in Requests, NEW to, GoesOn(r, to), Tables'
    PROVE  TypeOK' /\ Shape'
<1>1. pc' \in [Requests -> Places]
    BY DEF TypeOK, GoesOn, Places
<1>2. UnderWay' = UnderWay
    BY DEF TypeOK, GoesOn, UnderWay, Waiting
<1>3. ASSUME NEW q \in Requests
      PROVE  /\ desired'[q] \in IF q \in UnderWay' THEN Peers ELSE {Nil}
             /\ read'[q] \in IF pc'[q] \in {"syncing", "rolling"} THEN Peers \cup {Nil} ELSE {Nil}
             /\ (asked'[q] = Nil) <=> (pc'[q] = "idle")
             /\ (answer'[q] # Nil) <=> (pc'[q] = "done")
    <2>1. CASE q = r
        BY <1>2, <2>1 DEF TypeOK, GoesOn, Waiting
    <2>2. CASE q # r
        BY <1>2, <2>2 DEF TypeOK, GoesOn
    <2>. QED
        BY <2>1, <2>2
<1>4. TypeOK'
    BY <1>1, <1>2, <1>3 DEF TypeOK, GoesOn, Tables, Places, Peers
<1>. QED
    BY <1>4 DEF Shape, GoesOn, Function

\* A request that ends with an answer, its key's outcome recorded or not.
Finishes(r, result) ==
    /\ pc[r] \in Waiting \cup {"received"} /\ result \in Answers
    /\ Answered(r, result)
    /\ \/ UNCHANGED ledger
       \/ /\ result \in {"ok", "failed"}
          /\ ledger' = [ledger EXCEPT ![asked[r].idem] =
                [kind |-> asked[r].kind, target |-> asked[r].target, result |-> result]]
    /\ UNCHANGED <<load, asked, stops>>

\* Ending keeps the types.
LEMMA FinishingTypes ==
    ASSUME TypeOK, Shape, NEW r \in Requests, NEW result, Finishes(r, result), Tables'
    PROVE  TypeOK' /\ Shape'
<1>1. pc' \in [Requests -> Places]
    BY DEF TypeOK, Finishes, Answered, Places
<1>2. UnderWay' = UnderWay \ {r}
    BY DEF TypeOK, Finishes, Answered, UnderWay, Waiting
<1>3. answer' \in [Requests -> {Nil, "ok", "failed", "conflict", "error"}]
    BY DEF TypeOK, Finishes, Answered, Answers
<1>4. /\ desired' = [desired EXCEPT ![r] = Nil] /\ Function(desired', Requests)
      /\ read' = [read EXCEPT ![r] = Nil] /\ Function(read', Requests)
    BY DEF Shape, Function, Finishes, Answered
<1>5. ASSUME NEW q \in Requests
      PROVE  /\ desired'[q] \in IF q \in UnderWay' THEN Peers ELSE {Nil}
             /\ read'[q] \in IF pc'[q] \in {"syncing", "rolling"} THEN Peers \cup {Nil} ELSE {Nil}
             /\ (asked'[q] = Nil) <=> (pc'[q] = "idle")
             /\ (answer'[q] # Nil) <=> (pc'[q] = "done")
    <2>1. CASE q = r
        <3>1. desired'[q] = Nil /\ read'[q] = Nil /\ q \notin UnderWay'
            BY <1>2, <1>4, <2>1 DEF Shape, Function
        <3>2. asked'[q] # Nil /\ pc'[q] = "done"
            BY <2>1 DEF TypeOK, Finishes, Answered, Waiting
        <3>3. answer'[q] # Nil
            BY <2>1, NilDiffers DEF TypeOK, Finishes, Answered, Answers
        <3>. QED
            BY <3>1, <3>2, <3>3
    <2>2. CASE q # r
        <3>1. desired'[q] = desired[q] /\ read'[q] = read[q]
            BY <1>4, <2>2 DEF Shape, Function
        <3>. QED
            BY <1>2, <2>2, <3>1 DEF TypeOK, Finishes, Answered
    <2>. QED
        BY <2>1, <2>2
<1>6. Function(ledger', Idems) /\ \A i \in Idems : ledger'[i] # Nil => ledger'[i].result \in {"ok", "failed"}
    <2>1. CASE UNCHANGED ledger
        BY <2>1 DEF Shape, TypeOK
    <2>2. CASE /\ result \in {"ok", "failed"}
               /\ ledger' = [ledger EXCEPT ![asked[r].idem] =
                     [kind |-> asked[r].kind, target |-> asked[r].target, result |-> result]]
        BY <2>2 DEF Shape, Function, TypeOK
    <2>. QED
        BY <2>1, <2>2 DEF Finishes
<1>7. shared' \subseteq UnderWay'
    BY <1>2 DEF TypeOK, Finishes, Answered
<1>8. TypeOK'
    BY <1>1, <1>3, <1>5, <1>6, <1>7 DEF TypeOK, Finishes, Tables, Places, Peers
<1>. QED
    BY <1>4, <1>6, <1>8 DEF Shape, Finishes

\* Every stretch of a request that is under way is of one of the two kinds.
LEMMA StretchKinds ==
    ASSUME TypeOK, Shape, NEW r \in Requests
    PROVE  /\ Replay(r) => \E result \in Answers : Finishes(r, result) /\ Tables'
           /\ RefuseAddress(r) \/ DeriveFails(r) \/ SyncTimesOut(r) \/ PromoteRaises(r) \/ RollbackFails(r)
              => Finishes(r, "error") /\ Tables'
           /\ Promote(r) => Finishes(r, "ok") /\ Tables'
           /\ RolledBack(r) => Finishes(r, "failed") /\ Tables'
           /\ Derive(r) => GoesOn(r, "syncing") /\ Tables'
           /\ SyncReads(r) => GoesOn(r, pc[r]) /\ Tables'
           /\ SyncDone(r) => GoesOn(r, IF pc[r] = "syncing" THEN "synced" ELSE "rolled") /\ Tables'
           /\ SyncFails(r) => GoesOn(r, "failed") /\ Tables'
           /\ Rollback(r) => GoesOn(r, "rolling") /\ Tables'
<1>. USE DEF Waiting, Answers
<1>0. /\ candidate \in Peers \cup {Nil} /\ lkg \in Peers /\ kernel \in Peers /\ pubkey \in BOOLEAN
      /\ desired[r] \in IF r \in UnderWay THEN Peers ELSE {Nil}
      /\ read[r] \in IF pc[r] \in {"syncing", "rolling"} THEN Peers \cup {Nil} ELSE {Nil}
      /\ Function(read, Requests)
    BY DEF TypeOK, Shape
<1>1. ASSUME Replay(r)
      PROVE  \E result \in Answers : Finishes(r, result) /\ Tables'
    <2>. DEFINE entry == ledger[asked[r].idem]
                result == IF entry.kind # asked[r].kind \/ entry.target # asked[r].target
                          THEN "conflict" ELSE entry.result
    <2>1. asked[r] \in Asks
        BY <1>1 DEF Replay, TypeOK
    <2>2. entry.result \in {"ok", "failed"}
        BY <1>1, <2>1, AgentAssumption DEF Replay, TypeOK
    <2>3. result \in Answers
        BY <2>2
    <2>4. Answered(r, result)
        BY <1>1 DEF Replay
    <2>5. UNCHANGED <<load, asked, candidate, lkg, kernel, ledger, pubkey, stops>> /\ pc[r] = "received"
        BY <1>1 DEF Replay
    <2>6. Finishes(r, result)
        BY <2>3, <2>4, <2>5 DEF Finishes
    <2>7. Tables'
        BY <1>0, <2>5 DEF Tables, Peers
    <2>. QED
        BY <2>3, <2>6, <2>7
<1>2. ASSUME RefuseAddress(r) \/ DeriveFails(r) \/ PromoteRaises(r)
      PROVE  Finishes(r, "error") /\ Tables'
    BY <1>0, <1>2 DEF RefuseAddress, DeriveFails, PromoteRaises, Raises, Finishes, Tables, Peers
<1>3. ASSUME SyncTimesOut(r) \/ RollbackFails(r)
      PROVE  Finishes(r, "error") /\ Tables'
    <2>1. kernel' \in Peers
        BY <1>3 DEF SyncTimesOut, RollbackFails, Partly
    <2>. QED
        BY <1>0, <1>3, <2>1 DEF SyncTimesOut, RollbackFails, Raises, Finishes, Tables, Peers
<1>4. ASSUME Promote(r)
      PROVE  Finishes(r, "ok") /\ Tables'
    BY <1>0, <1>4 DEF Promote, Recorded, Finishes, Tables, Peers
<1>5. ASSUME RolledBack(r)
      PROVE  Finishes(r, "failed") /\ Tables'
    BY <1>0, <1>5 DEF RolledBack, Recorded, Finishes, Tables, Peers
<1>6. ASSUME Derive(r)
      PROVE  GoesOn(r, "syncing") /\ Tables'
    <2>1. desired[r] \in Peers
        BY <1>0, <1>6 DEF Derive, UnderWay
    <2>. QED
        BY <1>0, <1>6, <2>1 DEF Derive, Render, GoesOn, Tables, Peers
<1>7. ASSUME SyncDone(r)
      PROVE  GoesOn(r, IF pc[r] = "syncing" THEN "synced" ELSE "rolled") /\ Tables'
    BY <1>0, <1>7 DEF SyncDone, GoesOn, Tables, Peers, Function
<1>8. ASSUME SyncFails(r)
      PROVE  GoesOn(r, "failed") /\ Tables'
    <2>1. kernel' \in Peers
        BY <1>8 DEF SyncFails, Partly
    <2>. QED
        BY <1>0, <1>8, <2>1 DEF SyncFails, GoesOn, Tables, Peers, Function
<1>9. ASSUME Rollback(r)
      PROVE  GoesOn(r, "rolling") /\ Tables'
    BY <1>0, <1>9 DEF Rollback, GoesOn, Tables, Peers
<1>10. ASSUME SyncReads(r)
       PROVE  GoesOn(r, pc[r]) /\ Tables'
    <2>1. pc' = [pc EXCEPT ![r] = pc[r]]
        BY <1>10 DEF SyncReads, TypeOK
    <2>. QED
        BY <1>0, <1>10, <2>1 DEF SyncReads, GoesOn, Tables, Peers, Function
<1>. QED
    BY <1>1, <1>2, <1>3, <1>4, <1>5, <1>6, <1>7, <1>8, <1>9, <1>10

\* A request body arrives.
LEMMA ReceiveTypes ==
    ASSUME TypeOK, Shape, NEW r \in Requests, NEW a \in Asks, Receive(r, a)
    PROVE  TypeOK' /\ Shape' /\ UnderWay' = UnderWay
<1>1. pc' \in [Requests -> Places] /\ asked' \in [Requests -> Asks \cup {Nil}]
    BY DEF TypeOK, Receive, Places
<1>2. UnderWay' = UnderWay
    BY DEF TypeOK, Receive, UnderWay, Waiting
<1>3. ASSUME NEW q \in Requests
      PROVE  /\ desired'[q] \in IF q \in UnderWay' THEN Peers ELSE {Nil}
             /\ read'[q] \in IF pc'[q] \in {"syncing", "rolling"} THEN Peers \cup {Nil} ELSE {Nil}
             /\ (asked'[q] = Nil) <=> (pc'[q] = "idle")
             /\ (answer'[q] # Nil) <=> (pc'[q] = "done")
    <2>1. CASE q = r
        BY <1>2, <2>1, NilDiffers DEF TypeOK, Receive
    <2>2. CASE q # r
        BY <1>2, <2>2 DEF TypeOK, Receive
    <2>. QED
        BY <2>1, <2>2
<1>4. TypeOK'
    BY <1>1, <1>2, <1>3 DEF TypeOK, Receive, Places, Peers
<1>. QED
    BY <1>2, <1>4 DEF Shape, Receive, Function

\* The driver method begins: the request is under way with the peer set it computed.
LEMMA BeginTypes ==
    ASSUME TypeOK, Shape, NEW r \in Requests, Begin(r)
    PROVE  /\ TypeOK' /\ Shape' /\ UnderWay' = UnderWay \cup {r}
           /\ desired'[r] = With(lkg, asked[r]) /\ desired'[r] \in Peers
           /\ \A q \in Requests \ {r} : desired'[q] = desired[q] /\ pc'[q] = pc[q]
           /\ shared' = IF UnderWay = {} THEN {} ELSE UnderWay'
           /\ \/ pc'[r] = "deriving" /\ UNCHANGED candidate
              \/ pc'[r] = "syncing" /\ candidate' = desired'[r]
<1>1. asked[r] \in Asks /\ pc[r] = "received"
    BY DEF TypeOK, Begin
<1>2. With(lkg, asked[r]) \in Peers
    BY <1>1, WithIsPeers DEF TypeOK
<1>3. desired' = [desired EXCEPT ![r] = With(lkg, asked[r])]
    BY DEF Begin
<1>4. /\ desired'[r] = With(lkg, asked[r]) /\ Function(desired', Requests)
      /\ \A q \in Requests \ {r} : desired'[q] = desired[q]
    BY <1>3 DEF Shape, Function
<1>5. \/ pc' = [pc EXCEPT ![r] = "deriving"] /\ UNCHANGED candidate
      \/ pc' = [pc EXCEPT ![r] = "syncing"] /\ candidate' = desired'[r]
    BY DEF Begin, Render
<1>6. /\ pc' \in [Requests -> Places]
      /\ pc'[r] \in {"deriving", "syncing"} /\ \A q \in Requests \ {r} : pc'[q] = pc[q]
    BY <1>5 DEF TypeOK, Places, Waiting
<1>7. UnderWay' = UnderWay \cup {r}
    BY <1>6 DEF UnderWay, Waiting
<1>8. ASSUME NEW q \in Requests
      PROVE  /\ desired'[q] \in IF q \in UnderWay' THEN Peers ELSE {Nil}
             /\ read'[q] \in IF pc'[q] \in {"syncing", "rolling"} THEN Peers \cup {Nil} ELSE {Nil}
             /\ (asked'[q] = Nil) <=> (pc'[q] = "idle")
             /\ (answer'[q] # Nil) <=> (pc'[q] = "done")
    <2>1. CASE q = r
        BY <1>1, <1>2, <1>4, <1>6, <1>7, <2>1 DEF TypeOK, Begin
    <2>2. CASE q # r
        BY <1>4, <1>6, <1>7, <2>2 DEF TypeOK, Begin
    <2>. QED
        BY <2>1, <2>2
<1>9. /\ candidate' \in Peers \cup {Nil} /\ UNCHANGED <<load, asked, answer, read, lkg, kernel, ledger, pubkey, stops>>
      /\ shared' = IF UnderWay = {} THEN {} ELSE UnderWay'
    BY <1>2, <1>4, <1>5, <1>7 DEF TypeOK, Begin
<1>10. TypeOK'
    BY <1>6, <1>8, <1>9 DEF TypeOK, Places, Peers
<1>. QED
    BY <1>2, <1>4, <1>5, <1>6, <1>7, <1>9, <1>10 DEF Shape, Function, TypeOK

\* A stop of the process or the host leaves no request under way.
LEMMA StopTypes ==
    ASSUME TypeOK, Shape, Crash \/ Reboot
    PROVE  TypeOK' /\ Shape' /\ UnderWay' = {} /\ shared' = {}
<1>0. Stopped
    BY DEF Crash, Reboot
<1>1. pc' \in [Requests -> {"idle", "done"}]
    BY <1>0 DEF Stopped
<1>2. UnderWay' = {}
    BY <1>1 DEF UnderWay, Waiting
<1>3. answer' \in [Requests -> {Nil, "ok", "failed", "conflict", "error"}]
    BY <1>0 DEF Stopped, TypeOK
<1>4. kernel' \in Peers
    <2>1. CASE Reboot
        BY <2>1 DEF Reboot, NoPeers, Peers
    <2>2. CASE Crash
        BY <2>2 DEF Crash, Partly
    <2>. QED
        BY <2>1, <2>2
<1>5. candidate' \in Peers \cup {Nil} /\ lkg' \in Peers
    BY <1>0 DEF Stopped, TypeOK
<1>6. ASSUME NEW q \in Requests
      PROVE  /\ desired'[q] \in IF q \in UnderWay' THEN Peers ELSE {Nil}
             /\ read'[q] \in IF pc'[q] \in {"syncing", "rolling"} THEN Peers \cup {Nil} ELSE {Nil}
             /\ (asked'[q] = Nil) <=> (pc'[q] = "idle")
             /\ (answer'[q] # Nil) <=> (pc'[q] = "done")
    BY <1>0, <1>2, NilDiffers DEF Stopped, TypeOK, Waiting
<1>7. load.stops \in Nat /\ stops \in 0 .. load.stops /\ stops < load.stops /\ stops' = stops + 1
    BY <1>0, AgentAssumption DEF Stopped, TypeOK, Shape
<1>8. stops' \in 0 .. load.stops
    BY <1>7
<1>9. /\ UNCHANGED <<load, asked, ledger>> /\ pubkey' = FALSE /\ shared' = {}
      /\ desired' = [q \in Requests |-> Nil] /\ read' = [q \in Requests |-> Nil]
    BY <1>0 DEF Stopped
<1>10. TypeOK'
    <2>1. pc' \in [Requests -> Waiting \cup {"idle", "received", "done"}] /\ pubkey' \in BOOLEAN
        BY <1>1, <1>9
    <2>2. asked' \in [Requests -> Asks \cup {Nil}] /\ stops' \in 0 .. load'.stops
        BY <1>8, <1>9 DEF TypeOK
    <2>3. \A i \in Idems : ledger'[i] # Nil => ledger'[i].result \in {"ok", "failed"}
        BY <1>9 DEF TypeOK
    <2>4. candidate' \in Peers' \cup {Nil} /\ lkg' \in Peers' /\ kernel' \in Peers'
        BY <1>4, <1>5 DEF Peers
    <2>. QED
        BY <1>3, <1>6, <1>9, <2>1, <2>2, <2>3, <2>4 DEF TypeOK, Peers
<1>. QED
    BY <1>2, <1>8, <1>9, <1>10 DEF Shape, Function

-----------------------------------------------------------------------------
(* A request that has the driver to itself *)

\* Going on moves one request and answers none.
LEMMA GoingOnMoves ==
    ASSUME TypeOK, NEW r \in Requests, NEW to, GoesOn(r, to)
    PROVE  /\ pc'[r] = to /\ \A q \in Requests \ {r} : pc'[q] = pc[q]
           /\ UnderWay' = UnderWay /\ shared' = shared
BY DEF TypeOK, GoesOn, UnderWay

\* Ending moves one request.
LEMMA FinishingMoves ==
    ASSUME TypeOK, NEW r \in Requests, NEW result, Finishes(r, result)
    PROVE  /\ pc'[r] = "done" /\ \A q \in Requests \ {r} : pc'[q] = pc[q]
           /\ UnderWay' = UnderWay \ {r} /\ shared' = shared \ {r}
<1>1. pc'[r] = "done" /\ \A q \in Requests \ {r} : pc'[q] = pc[q]
    BY DEF TypeOK, Finishes, Answered
<1>2. UnderWay' = UnderWay \ {r}
    BY <1>1 DEF UnderWay, Waiting
<1>. QED
    BY <1>1, <1>2 DEF Finishes, Answered

\* A request under way alone either goes on as its stage says, or ends; one that joins
\* others, or is joined, counts as shared.
LEMMA LoneKept ==
    ASSUME TypeOK, Shape, Lone, Narrow, NEW r \in Requests, Serve(r)
    PROVE  Lone' /\ Narrow'
<1>0. load' = load
    BY DEF Serve, Replay, Begin, RefuseAddress, Derive, DeriveFails, SyncReads, SyncDone, SyncFails, SyncTimesOut,
           Promote, PromoteRaises, Rollback, RolledBack, RollbackFails, Raises, Recorded
<1>1. CASE Replay(r) \/ RefuseAddress(r)
    <2>1. UnderWay' = UnderWay \ {r} /\ shared' = shared \ {r} /\ \A q \in Requests \ {r} : pc'[q] = pc[q]
        BY <1>1, StretchKinds, FinishingMoves
    <2>2. r \notin UnderWay /\ UNCHANGED <<asked, candidate, lkg, kernel>>
        BY <1>1 DEF Replay, RefuseAddress, Raises, UnderWay, Waiting
    <2>3. \A q \in Requests \ {r} : desired'[q] = desired[q] /\ read'[q] = read[q]
        BY <1>1 DEF Replay, RefuseAddress, Raises, Answered, Shape, Function
    <2>4. UnderWay' = UnderWay /\ shared' = shared
        BY <2>1, <2>2 DEF TypeOK
    <2>5. ASSUME NEW q \in UnderWay, Staged(q)
          PROVE  Staged(q)'
        <3>1. q \in Requests \ {r}
            BY <2>2 DEF UnderWay
        <3>. QED
            BY <2>1, <2>2, <2>3, <2>5, <3>1 DEF Staged, With, Adds
    <2>. QED
        BY <1>0, <2>4, <2>5 DEF Lone, Narrow
<1>2. CASE DeriveFails(r) \/ SyncTimesOut(r) \/ PromoteRaises(r) \/ RollbackFails(r) \/ Promote(r) \/ RolledBack(r)
    <2>1. r \in UnderWay
        BY <1>2 DEF UnderWay, Waiting, DeriveFails, SyncTimesOut, PromoteRaises, RollbackFails, Promote, RolledBack
    <2>2. UnderWay' = UnderWay \ {r} /\ shared' = shared \ {r}
        BY <1>2, StretchKinds, FinishingMoves
    <2>3. UnderWay' \ shared' = {}
        BY <2>1, <2>2 DEF Lone
    <2>. QED
        BY <1>0, <2>2, <2>3 DEF Lone, Narrow
<1>3. CASE Begin(r)
    <2>1. /\ UnderWay' = UnderWay \cup {r}
          /\ shared' = IF UnderWay = {} THEN {} ELSE UnderWay'
        BY <1>3, BeginTypes
    <2>2. /\ desired'[r] = With(lkg, asked[r])
          /\ pc'[r] = "deriving" \/ (pc'[r] = "syncing" /\ candidate' = desired'[r])
          /\ UNCHANGED <<lkg, asked, read>> /\ read[r] = Nil
        BY <1>3, BeginTypes DEF Begin, TypeOK
    <2>3. desired'[r] = With(lkg, asked[r])'
        BY <2>2 DEF With, Adds
    <2>4. Staged(r)'
        BY <2>2, <2>3 DEF Staged
    <2>5. Narrow'
        BY <1>0, <1>3, <2>1, NoneUnderWay DEF Narrow, Begin
    <2>. QED
        BY <2>1, <2>4, <2>5 DEF Lone
<1>4. CASE Derive(r) \/ SyncReads(r) \/ SyncDone(r) \/ SyncFails(r) \/ Rollback(r)
    <2>1. r \in UnderWay
        BY <1>4 DEF UnderWay, Waiting, Derive, SyncReads, SyncDone, SyncFails, Rollback
    <2>2. UnderWay' = UnderWay /\ shared' = shared
        BY <1>4, StretchKinds, GoingOnMoves
    <2>3. SUFFICES ASSUME r \notin shared
                   PROVE  Staged(r)'
        BY <1>0, <2>1, <2>2 DEF Lone, Narrow
    <2>4. Staged(r)
        BY <2>1, <2>3 DEF Lone
    <2>5. UNCHANGED <<lkg, asked, desired>>
        BY <1>4 DEF Derive, SyncReads, SyncDone, SyncFails, Rollback
    <2>6. desired'[r] = With(lkg, asked[r])'
        BY <2>4, <2>5 DEF Staged, With, Adds
    <2>7. CASE Derive(r)
        <3>1. pc'[r] = "syncing" /\ candidate' = desired'[r] /\ read'[r] = Nil
            BY <2>5, <2>7, StretchKinds, GoingOnMoves DEF Derive, Render, TypeOK
        <3>. QED
            BY <2>6, <3>1 DEF Staged
    <2>8. CASE SyncReads(r)
        <3>1. pc'[r] = pc[r] /\ read'[r] = candidate /\ UNCHANGED <<candidate, kernel>>
            BY <2>8 DEF SyncReads, Shape, Function
        <3>. QED
            BY <2>4, <2>5, <2>6, <3>1 DEF Staged
    <2>9. CASE SyncDone(r)
        <3>1. /\ \/ pc[r] = "syncing" /\ pc'[r] = "synced"
                 \/ pc[r] = "rolling" /\ pc'[r] = "rolled"
              /\ kernel' = read[r] /\ read[r] # Nil /\ read'[r] = Nil /\ UNCHANGED candidate
            BY <2>9, StretchKinds, GoingOnMoves DEF SyncDone, Shape, Function
        <3>. QED
            BY <2>4, <2>5, <2>6, <3>1 DEF Staged
    <2>10. CASE SyncFails(r)
        <3>1. pc[r] = "syncing" /\ pc'[r] = "failed" /\ read'[r] = Nil /\ UNCHANGED candidate
            BY <2>10, StretchKinds, GoingOnMoves DEF SyncFails, Shape, Function
        <3>. QED
            BY <2>4, <2>5, <2>6, <3>1 DEF Staged
    <2>11. CASE Rollback(r)
        <3>1. pc'[r] = "rolling" /\ candidate' = lkg /\ read'[r] = Nil
            BY <2>11, StretchKinds, GoingOnMoves DEF Rollback, TypeOK
        <3>. QED
            BY <2>5, <2>6, <3>1 DEF Staged
    <2>. QED
        BY <1>4, <2>7, <2>8, <2>9, <2>10, <2>11
<1>. QED
    BY <1>1, <1>2, <1>3, <1>4 DEF Serve

-----------------------------------------------------------------------------
(* The invariant *)

\* An agent that has served nothing meets the invariant.
LEMMA InitInv ==
    ASSUME Init
    PROVE  IInv
<1>. USE NilDiffers
<1>1. UnderWay = {}
    BY DEF Init, UnderWay, Waiting
<1>2. lkg \in Peers /\ kernel \in Peers
    BY DEF Init, NoPeers, Peers
<1>3. load.stops \in Nat
    BY AgentAssumption DEF Init
<1>4. TypeOK
    <2>1. /\ asked \in [Requests -> Asks \cup {Nil}]
          /\ answer \in [Requests -> {Nil, "ok", "failed", "conflict", "error"}]
          /\ pc \in [Requests -> Waiting \cup {"idle", "received", "done"}]
        BY DEF Init
    <2>2. \A r \in Requests :
             /\ desired[r] \in IF r \in UnderWay THEN Peers ELSE {Nil}
             /\ read[r] \in IF pc[r] \in {"syncing", "rolling"} THEN Peers \cup {Nil} ELSE {Nil}
             /\ (asked[r] = Nil) <=> (pc[r] = "idle")
             /\ (answer[r] # Nil) <=> (pc[r] = "done")
        BY <1>1 DEF Init
    <2>3. \A i \in Idems : ledger[i] = Nil
        BY DEF Init
    <2>4. candidate = Nil /\ stops \in 0 .. load.stops /\ shared = {}
        BY <1>3 DEF Init
    <2>5. pubkey \in BOOLEAN
        BY Zenon DEF Init
    <2>. QED
        BY <1>2, <2>1, <2>2, <2>3, <2>4, <2>5 DEF TypeOK
<1>5. Shape
    BY DEF Init, Shape, Function
<1>6. Lone /\ Narrow
    BY <1>1 DEF Init, Lone, Narrow
<1>. QED
    BY <1>4, <1>5, <1>6 DEF IInv

\* Every step of the agent, of wg and of the host keeps it.
LEMMA NextInv ==
    ASSUME IInv, [Next]_vars
    PROVE  IInv'
<1>. USE DEF IInv
<1>1. ASSUME NEW r \in Requests, Serve(r)
      PROVE  IInv'
    <2>1. TypeOK' /\ Shape'
        BY <1>1, StretchKinds, FinishingTypes, GoingOnTypes, BeginTypes DEF Serve
    <2>. QED
        BY <1>1, <2>1, LoneKept
<1>2. ASSUME NEW r \in Requests, NEW a \in Asks, Receive(r, a)
      PROVE  IInv'
    <2>1. TypeOK' /\ Shape' /\ UnderWay' = UnderWay
        BY <1>2, ReceiveTypes
    <2>2. /\ pc[r] = "idle" /\ \A q \in Requests \ {r} : pc'[q] = pc[q] /\ asked'[q] = asked[q]
          /\ UNCHANGED <<load, desired, read, shared, candidate, lkg, kernel>>
        BY <1>2 DEF Receive, TypeOK
    <2>3. r \notin UnderWay
        BY <2>2 DEF UnderWay, Waiting
    <2>4. \A q \in UnderWay : Staged(q) => Staged(q)'
        BY <2>2, <2>3 DEF Staged, With, Adds, UnderWay
    <2>5. Lone' /\ Narrow'
        BY <2>1, <2>2, <2>4 DEF Lone, Narrow
    <2>. QED
        BY <2>1, <2>5
<1>3. CASE Crash \/ Reboot
    <2>1. TypeOK' /\ Shape' /\ UnderWay' = {} /\ shared' = {}
        BY <1>3, StopTypes
    <2>. QED
        BY <2>1 DEF Lone, Narrow
<1>4. CASE UNCHANGED vars
    BY <1>4 DEF vars, TypeOK, Shape, Function, Lone, Narrow, Staged, With, Adds, UnderWay, Peers, Waiting
<1>. QED
    BY <1>1, <1>2, <1>3, <1>4 DEF Next

\* The invariant always holds.
LEMMA AlwaysInv == Spec => []IInv
BY InitInv, NextInv, PTL DEF Spec

\* The agent's tables keep their shapes, and a request holds a computed peer set exactly
\* while the driver works on it (_apply_delta), whatever overlaps or stops.
THEOREM Typed == Spec => []TypeOK
<1>1. IInv => TypeOK
    BY DEF IInv
<1>. QED
    BY <1>1, AlwaysInv, PTL

\* A request that has the driver to itself is carried out whole, whatever overlapping
\* requests, timeouts, crashes and reboots left behind: "ok" puts its change on record and
\* the interface on the record, "failed" puts the interface back on an unchanged record.
THEOREM LoneRequestsAreWhole == Spec => LoneRequestIsWhole
<1>. DEFINE Whole(r) == /\ answer'[r] = "ok" => lkg' = With(lkg, asked[r]) /\ kernel' = lkg'
                        /\ answer'[r] = "failed" => lkg' = lkg /\ kernel' = lkg
<1>1. ASSUME IInv, [Next]_vars, NEW r \in UnderWay \ shared
      PROVE  Whole(r)
    <2>. USE DEF IInv
    <2>0. r \in Requests /\ pc[r] \in Waiting /\ answer[r] = Nil /\ UnderWay = {r} /\ Staged(r)
        BY <1>1 DEF Lone, UnderWay, TypeOK, Waiting
    <2>1. ASSUME NEW q \in Requests, Promote(q)
          PROVE  Whole(r)
        <3>1. q = r
            BY <2>0, <2>1 DEF Promote, UnderWay, Waiting
        <3>2. answer'[r] = "ok"
            BY <1>1, <2>0, <2>1, <3>1 DEF Promote, Recorded, Answered, TypeOK
        <3>. QED
            BY <2>0, <2>1, <3>1, <3>2 DEF Promote, Staged
    <2>2. ASSUME NEW q \in Requests, RolledBack(q)
          PROVE  Whole(r)
        <3>1. q = r
            BY <2>0, <2>2 DEF RolledBack, UnderWay, Waiting
        <3>2. answer'[r] = "failed"
            BY <1>1, <2>0, <2>2, <3>1 DEF RolledBack, Recorded, Answered, TypeOK
        <3>. QED
            BY <2>0, <2>2, <3>1, <3>2 DEF RolledBack, Staged
    <2>3. ASSUME NEW q \in Requests, Serve(q), ~Promote(q), ~RolledBack(q)
          PROVE  answer'[r] \notin {"ok", "failed"}
        <3>1. CASE Replay(q)
            <4>1. q # r
                BY <2>0, <3>1 DEF Replay, Waiting
            <4>. QED
                BY <2>0, <3>1, <4>1, NilDiffers DEF Replay, Answered, TypeOK
        <3>2. CASE RefuseAddress(q) \/ DeriveFails(q) \/ SyncTimesOut(q) \/ PromoteRaises(q) \/ RollbackFails(q)
            <4>1. answer' = [answer EXCEPT ![q] = "error"]
                BY <3>2, Zenon DEF RefuseAddress, DeriveFails, SyncTimesOut, PromoteRaises, RollbackFails, Raises, Answered
            <4>. QED
                BY <2>0, <4>1, NilDiffers DEF TypeOK
        <3>3. CASE Begin(q) \/ Derive(q) \/ SyncReads(q) \/ SyncDone(q) \/ SyncFails(q) \/ Rollback(q)
            <4>1. answer' = answer
                BY <3>3, Zenon DEF Begin, Derive, SyncReads, SyncDone, SyncFails, Rollback
            <4>. QED
                BY <2>0, <4>1, NilDiffers
        <3>. QED
            BY <2>3, <3>1, <3>2, <3>3 DEF Serve
    <2>4. ASSUME Crash \/ Reboot
          PROVE  answer'[r] \notin {"ok", "failed"}
        BY <2>0, <2>4 DEF Crash, Reboot, Stopped
    <2>5. ASSUME \/ UNCHANGED vars
                 \/ \E q \in Requests, a \in Asks : Receive(q, a)
          PROVE  answer'[r] \notin {"ok", "failed"}
        BY <2>0, <2>5, NilDiffers DEF vars, Receive
    <2>. QED
        BY <1>1, <2>1, <2>2, <2>3, <2>4, <2>5 DEF Next
<1>2. IInv /\ [Next]_vars => [\A r \in UnderWay \ shared : Whole(r)]_vars
    BY <1>1
<1>. QED
    BY <1>2, AlwaysInv, PTL DEF Spec, LoneRequestIsWhole

-----------------------------------------------------------------------------
(* The service the control plane sees *)

Serving == IF UnderWay = {} THEN Nil ELSE CHOOSE r \in UnderWay : TRUE
Shown == IF UnderWay = {} THEN kernel ELSE Nil

\* The request under way is the one the service carries out.
LEMMA ServesOne ==
    ASSUME NEW r, UnderWay = {r}
    PROVE  Serving = r /\ Shown = Nil
BY DEF Serving, Shown

\* With none under way the service shows the interface.
LEMMA ServesNone ==
    ASSUME UnderWay = {}
    PROVE  Serving = Nil /\ Shown = kernel
BY DEF Serving, Shown

\* An agent that has served nothing is a service that has served nothing.
LEMMA ServiceInit ==
    ASSUME Init
    PROVE  Service!Init
<1>1. UnderWay = {}
    BY DEF Init, UnderWay, Waiting
<1>. QED
    BY <1>1, ServesNone DEF Init, NoPeers, Service!Init, Service!NoPeers, Serving, Shown

\* A request that is neither idle nor done is open.
LEMMA OpenRequest ==
    ASSUME TypeOK, NEW r \in Requests, pc[r] \in Waiting \cup {"received"}
    PROVE  Service!Open(r)
BY DEF TypeOK, Service!Open, Waiting

\* Errors that end the request being carried out.
LEMMA BreakMaps ==
    ASSUME IInv, NEW r \in Requests, UnderWay = {r}, UnderWay' = {}, kernel' \in Peers,
           Raises(r), UNCHANGED lkg
    PROVE  Service!Break(r)
BY ServesOne, ServesNone DEF Service!Break, Service!Peers, Peers, Serving, Shown, Raises, Answered

\* An outcome that is recorded: the interface is on last-known-good again.
LEMMA DecideMaps ==
    ASSUME IInv, NEW r \in Requests, UnderWay = {r}, UnderWay' = {}, NEW result, Recorded(r, result),
           lkg' = IF result = "ok" THEN With(lkg, asked[r]) ELSE lkg, kernel' = lkg'
    PROVE  Service!Decide(r, result)
<1>1. Service!With(lkg, asked[r]) = With(lkg, asked[r])
    BY DEF With, Adds, Service!With, Service!Adds
<1>. QED
    BY <1>1, ServesOne DEF Service!Decide, Serving, Shown, Recorded, Answered

\* A stop: the request being carried out may have been promoted.
LEMMA StopMaps ==
    ASSUME IInv, load.width = 1, Crash \/ Reboot
    PROVE  Service!Stop
<1>1. TypeOK' /\ UnderWay' = {} /\ kernel' \in Peers
    BY StopTypes DEF IInv, TypeOK
<1>2. (IF UnderWay = {} THEN Nil ELSE CHOOSE r \in UnderWay : TRUE)' = Nil
    BY <1>1
<1>3. answer' = [r \in Requests |-> IF Service!Open(r) THEN "error" ELSE answer[r]]
    <2>1. \A r \in Requests : pc[r] \in Waiting \cup {"received"} <=> Service!Open(r)
        BY NilDiffers DEF IInv, TypeOK, Service!Open, Waiting
    <2>. QED
        BY <2>1 DEF Crash, Reboot, Stopped
<1>4. CASE UnderWay = {}
    <2>1. lkg' = lkg
        BY <1>4 DEF Crash, Reboot, Stopped, UnderWay, Waiting
    <2>2. kernel' = kernel \/ kernel' = NoPeers
        <3>1. \A r \in Requests : read[r] = Nil
            BY <1>4 DEF IInv, TypeOK, UnderWay, Waiting
        <3>. QED
            BY <3>1, PartlyIdle DEF Crash, Reboot, IInv, TypeOK
    <2>. QED
        BY <1>1, <1>2, <1>3, <1>4, <2>1, <2>2 DEF Service!Stop, Service!NoPeers, NoPeers, Crash, Reboot, Stopped
<1>5. CASE UnderWay # {}
    <2>1. PICK r \in UnderWay : TRUE
        BY <1>5
    <2>2. UnderWay = {r} /\ Staged(r) /\ r # Nil
        BY <2>1, NilDiffers DEF IInv, Lone, Narrow, UnderWay
    <2>3. Serving = r
        BY <2>2, ServesOne
    <2>4. lkg' = lkg \/ lkg' = With(lkg, asked[r])
        BY <2>2 DEF Crash, Reboot, Stopped, UnderWay, Waiting, Staged
    <2>5. Service!With(lkg, asked[r]) = With(lkg, asked[r])
        BY DEF With, Adds, Service!With, Service!Adds
    <2>. QED
        BY <1>1, <1>2, <1>3, <2>2, <2>3, <2>4, <2>5
           DEF Service!Stop, Service!Peers, Peers, Crash, Reboot, Stopped, Serving
<1>. QED
    BY <1>4, <1>5

\* Each stretch of a request that overlaps with no other is a step of the service, or
\* none.
LEMMA ServeMaps ==
    ASSUME IInv, load.width = 1, NEW r \in Requests, Serve(r)
    PROVE  Service!Next \/ UNCHANGED Service!vars
<1>. USE DEF IInv
<1>0. TypeOK' /\ Shape'
    BY StretchKinds, FinishingTypes, GoingOnTypes, BeginTypes DEF Serve
<1>1. CASE Replay(r)
    <2>1. UnderWay = {}
        BY <1>1, NoneUnderWay DEF Replay
    <2>2. UnderWay' = {}
        BY <1>1, <2>1, StretchKinds, FinishingMoves
    <2>3. Service!Open(r)
        BY <1>1, OpenRequest DEF Replay
    <2>4. Service!Replay(r)
        BY <1>1, <2>1, <2>2, <2>3 DEF Replay, Answered, Service!Replay, Service!SameOperation
    <2>. QED
        BY <2>4 DEF Service!Next
<1>2. CASE RefuseAddress(r)
    <2>1. UnderWay = {}
        BY <1>2, NoneUnderWay DEF RefuseAddress
    <2>2. UnderWay' = {}
        BY <1>2, <2>1, StretchKinds, FinishingMoves
    <2>3. Service!Open(r)
        BY <1>2, OpenRequest DEF RefuseAddress
    <2>4. Service!Refuse(r)
        BY <1>2, <2>1, <2>2, <2>3 DEF RefuseAddress, Raises, Answered, Service!Refuse
    <2>. QED
        BY <2>4 DEF Service!Next
<1>3. CASE Begin(r)
    <2>1. UnderWay = {}
        BY <1>3, NoneUnderWay DEF Begin
    <2>2. UnderWay' = {r}
        BY <1>3, <2>1, BeginTypes
    <2>3. Service!Open(r)
        BY <1>3, OpenRequest DEF Begin
    <2>4. (IF UnderWay = {} THEN Nil ELSE CHOOSE q \in UnderWay : TRUE)' = r
        BY <2>2
    <2>5. Service!Begin(r)
        BY <1>3, <2>1, <2>2, <2>3, <2>4 DEF Begin, Service!Begin
    <2>. QED
        BY <2>5 DEF Service!Next
<1>4. CASE Derive(r) \/ SyncReads(r) \/ SyncDone(r) \/ SyncFails(r) \/ Rollback(r)
    <2>1. UnderWay' = UnderWay
        BY <1>4, StretchKinds, GoingOnMoves
    <2>2. UnderWay # {}
        BY <1>4 DEF UnderWay, Waiting, Derive, SyncReads, SyncDone, SyncFails, Rollback
    <2>. QED
        BY <1>4, <2>1, <2>2 DEF Derive, SyncReads, SyncDone, SyncFails, Rollback, Service!vars
<1>5. CASE DeriveFails(r) \/ SyncTimesOut(r) \/ PromoteRaises(r) \/ RollbackFails(r) \/ Promote(r) \/ RolledBack(r)
    <2>1. r \in UnderWay
        BY <1>5 DEF UnderWay, Waiting, DeriveFails, SyncTimesOut, PromoteRaises, RollbackFails, Promote, RolledBack
    <2>2. UnderWay = {r} /\ Staged(r)
        BY <2>1 DEF Lone, Narrow
    <2>3. UnderWay' = {}
        BY <1>5, <2>2, StretchKinds, FinishingMoves
    <2>4. CASE DeriveFails(r) \/ SyncTimesOut(r) \/ PromoteRaises(r) \/ RollbackFails(r)
        <3>1. Raises(r) /\ UNCHANGED lkg /\ kernel' \in Peers
            BY <1>0, <2>4 DEF DeriveFails, SyncTimesOut, PromoteRaises, RollbackFails, TypeOK
        <3>. QED
            BY <2>2, <2>3, <3>1, BreakMaps DEF Service!Next
    <2>5. CASE Promote(r)
        <3>1. Recorded(r, "ok") /\ lkg' = With(lkg, asked[r]) /\ kernel' = lkg'
            BY <2>2, <2>5 DEF Promote, Staged
        <3>2. Service!Decide(r, "ok")
            BY <2>2, <2>3, <3>1, DecideMaps
        <3>. QED
            BY <3>2 DEF Service!Next
    <2>6. CASE RolledBack(r)
        <3>1. Recorded(r, "failed") /\ lkg' = lkg /\ kernel' = lkg'
            BY <2>2, <2>6 DEF RolledBack, Staged
        <3>2. Service!Decide(r, "failed")
            BY <2>2, <2>3, <3>1, DecideMaps
        <3>. QED
            BY <3>2 DEF Service!Next
    <2>. QED
        BY <1>5, <2>4, <2>5, <2>6
<1>. QED
    BY <1>1, <1>2, <1>3, <1>4, <1>5 DEF Serve

\* Every step of an agent whose requests do not overlap is a step of the service.
LEMMA StepMaps ==
    ASSUME IInv, [Next]_vars
    PROVE  [load.width > 1 \/ Service!Next]_(Service!vars)
<1>1. load.width \in Nat \ {0}
    BY AgentAssumption DEF IInv, Shape
<1>2. SUFFICES ASSUME load.width = 1
               PROVE  Service!Next \/ UNCHANGED Service!vars
    BY <1>1
<1>3. ASSUME NEW r \in Requests, NEW a \in Asks, Receive(r, a)
      PROVE  Service!Next
    <2>1. UnderWay' = UnderWay
        BY <1>3, ReceiveTypes DEF IInv
    <2>2. Service!Receive(r, a)
        BY <1>3, <2>1 DEF Service!Receive, Receive, IInv, TypeOK
    <2>. QED
        BY <2>2 DEF Service!Next
<1>4. CASE UNCHANGED vars
    BY <1>4 DEF vars, Service!vars, UnderWay, Waiting
<1>. QED
    BY <1>2, <1>3, <1>4, ServeMaps, StopMaps DEF Next, Service!Next

\* The driver implements AgentService: for requests that do not overlap, an "ok" or
\* "failed" answer leaves last-known-good, the interface and the ledger agreeing with it,
\* whatever wg, a crash or a reboot did on the way.
THEOREM DriverImplementsService == Spec => ImplementsService
BY ServiceInit, StepMaps, AlwaysInv, PTL DEF Spec, ImplementsService
=============================================================================
