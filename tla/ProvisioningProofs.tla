------------------------- MODULE ProvisioningProofs -------------------------
(***************************************************************************)
(* Machine-checked proofs about Provisioning, for every number of devices, *)
(* keys, addresses, rows, operations, passes and faults.                   *)
(***************************************************************************)
EXTENDS Provisioning, FiniteSetTheorems, TLAPS

\* A pass beyond its choice of row has one.
SweepHasRow ==
    \A s \in Sweeps : sweep[s].pc \in {"recover", "repair", "calling"} => sweep[s].cur \in Snapshot

\* A request to the agent belongs to an operation recorded for the same row.
CallsAreRecorded == \A c \in calls : ops[c.op].state # "absent" /\ ops[c.op].peer = c.peer

\* What the unique indexes leave of the table.
LiveRowsDistinct == \A p, q \in LivePeers : p # q => ~Clash(peers[p], peers[q])

IInv == /\ TypeOK
        /\ SweepHasRow
        /\ CallsAreRecorded
        /\ ApplyingHasOperation
        /\ LiveRowsDistinct

-----------------------------------------------------------------------------
\* Nothing is provisioned at first.
LEMMA InitInv == Init => IInv
  <1> SUFFICES ASSUME Init PROVE IInv
    OBVIOUS
  <1>1. TypeOK
    <2>1. NoPeer \in PeerRow /\ NoOp \in OpRow /\ Resting \in SweepState
      BY DEF NoPeer, NoOp, Resting, PeerRow, OpRow, SweepState, Kinds
    <2> QED BY <2>1, ConstantsAssumption DEF Init, TypeOK
  <1>2. \A p \in PeerIds : peers[p].state = "absent"
    BY DEF Init, NoPeer
  <1>3. SweepHasRow /\ CallsAreRecorded
    BY DEF Init, SweepHasRow, Resting, CallsAreRecorded
  <1>4. ApplyingHasOperation /\ LiveRowsDistinct
    BY <1>2 DEF ApplyingHasOperation, LiveRowsDistinct, LivePeers, Live
  <1> QED BY <1>1, <1>3, <1>4 DEF IInv

\* MarkRevoking writes rows of the table's type.
LEMMA MarkType ==
    ASSUME TypeOK, NEW ds, MarkRevoking(ds)
    PROVE  peers' \in [PeerIds -> PeerRow]
  <1>1. \A r \in PeerRow : [r EXCEPT !.state = "revoking"] \in PeerRow
    BY DEF PeerRow, Live
  <1>2. \A p \in PeerIds : peers[p] \in PeerRow
    BY DEF TypeOK
  <1> QED BY <1>1, <1>2 DEF MarkRevoking

\* The order of the rows stays one of rows, whatever is written.
LEMMA TouchType ==
    ASSUME TypeOK, NEW ps, Touch(ps)
    PROVE  older' \subseteq PeerIds \X PeerIds
  <1>1. LivePeers' \subseteq PeerIds
    BY DEF LivePeers
  <1>2. ASSUME NEW e \in older' PROVE e \in PeerIds \X PeerIds
    <2>1. e[1] \in PeerIds /\ e[2] \in PeerIds /\ e \in older \cup ((LivePeers \ ps) \X ps)
      BY <1>1 DEF Touch
    <2>2. CASE e \in older
      BY <2>2 DEF TypeOK
    <2>3. CASE e \in (LivePeers \ ps) \X ps
      BY <2>1, <2>3
    <2> QED BY <2>1, <2>2, <2>3
  <1> QED BY <1>2

\* Every step touches rows, or leaves the order alone.
LEMMA NextOlder ==
    ASSUME TypeOK, [Next]_vars
    PROVE  older' \subseteq PeerIds \X PeerIds
  <1> DEFINE Good == older' \subseteq PeerIds \X PeerIds
  <1> USE DEF people, rows, agent
  <1>a. ASSUME UNCHANGED older PROVE Good
    BY <1>a DEF TypeOK
  <1>b. ASSUME NEW ps, Touch(ps) PROVE Good
    BY <1>b, TouchType
  <1>c. ASSUME NEW ds, MarkRevoking(ds) PROVE Good
    BY <1>b, <1>c DEF MarkRevoking
  <1>d. ASSUME NEW c, NEW os, Finalize(c, os) PROVE Good
    BY <1>a, <1>b, <1>d DEF Finalize
  <1> HIDE DEF Good
  <1>1. ASSUME NEW d \in Devices, NEW o \in OpIds,
               \/ \E k \in Keys : Reconnect(d, k, o) \/ RequestPeer(d, k, o)
               \/ RevokePeer(d, o)
        PROVE  Good
    BY <1>1, <1>b, Zenon DEF Reconnect, RequestPeer, RevokePeer
  <1>2. ASSUME NEW d \in Devices,
               Logout(d) \/ RevokeDevice(d) \/ CutOff(d) \/ Lapse(d) \/ Renew(d)
        PROVE  Good
    <2>1. CASE Logout(d) \/ RevokeDevice(d) \/ CutOff(d)
      BY <1>c, <2>1, Zenon DEF Logout, RevokeDevice, CutOff
    <2>2. CASE Lapse(d) \/ Renew(d)
      BY <1>a, <2>2 DEF Lapse, Renew
    <2> QED BY <1>2, <2>1, <2>2
  <1>3. ASSUME EnforceAccessExpiry \/ Reboot \/ UNCHANGED vars PROVE Good
    <2>1. ASSUME EnforceAccessExpiry PROVE Good
      BY <1>c, <2>1, Zenon DEF EnforceAccessExpiry
    <2> QED BY <1>3, <1>a, <2>1 DEF Reboot, vars
  <1>4. ASSUME NEW c \in calls,
               \/ AgentReplays(c) \/ AgentApplies(c) \/ AgentFails(c) \/ AgentErrors(c)
               \/ Unreachable(c) \/ HandlerGivesUp(c) \/ HandlerFinalizes(c)
        PROVE  Good
    BY <1>4, <1>a, <1>d DEF AgentReplays, AgentApplies, AgentFails, AgentErrors, Unreachable,
                            HandlerGivesUp, HandlerFinalizes
  <1>5. ASSUME NEW s \in Sweeps,
               \/ SweepBegin(s) \/ SweepSelect(s) \/ SweepCheck(s) \/ SweepSkips(s)
               \/ SweepEnds(s) \/ SweepDies(s) \/ SweepGivesUp(s) \/ SweepRepairs(s)
        PROVE  Good
    BY <1>5, <1>a, <1>c DEF SweepBegin, SweepSelect, SweepCheck, SweepSkips, SweepEnds, SweepDies,
                            SweepGivesUp, SweepRepairs
  <1>6. ASSUME NEW s \in Sweeps, SweepRecovers(s) \/ SweepFinalizes(s) PROVE Good
    BY <1>6, <1>a, <1>b, <1>d, Zenon DEF SweepRecovers, SweepFinalizes
  <1>7. Good
    BY <1>1, <1>2, <1>3, <1>4, <1>5, <1>6 DEF Next, SweepStep, AgentRuns, HandlerEnds
  <1> QED BY <1>7 DEF Good

\* Closing operations keeps the table's type.
LEMMA CloseType ==
    ASSUME TypeOK, NEW os, NEW st \in {"succeeded", "failed"}, CloseOps(os, st)
    PROVE  ops' \in [OpIds -> OpRow]
  <1>1. \A r \in OpRow : [r EXCEPT !.state = st] \in OpRow
    BY DEF OpRow
  <1>2. \A o \in OpIds : ops[o] \in OpRow
    BY DEF TypeOK
  <1> QED BY <1>1, <1>2 DEF CloseOps

\* So do a new operation and its request.
LEMMA BeginType ==
    ASSUME TypeOK, NEW o \in OpIds, NEW by \in {"api", "gone"} \cup Sweeps, NEW kind \in Kinds,
           NEW p \in PeerIds, NEW row, row.key \in Keys \cup {Nil},
           row.addr \in Addresses \cup {Nil}, Begin(o, by, kind, p, row)
    PROVE  ops' \in [OpIds -> OpRow] /\ calls' \subseteq Call
  <1>1. ops' \in [OpIds -> OpRow]
    BY DEF TypeOK, Begin, OpRow
  <1>2. calls' \subseteq Call
    BY DEF TypeOK, Begin, Call
  <1> QED BY <1>1, <1>2

\* And the agent's answers.
LEMMA AnswerType ==
    ASSUME TypeOK, NEW c \in calls, NEW st \in Results \cup {"sent", "rejected", "unreachable"},
           Answer(c, st)
    PROVE  calls' \subseteq Call
  BY DEF TypeOK, Answer, Call

\* A call given up is only forgotten.
LEMMA AbandonType ==
    ASSUME TypeOK, NEW c \in calls, Abandon(c)
    PROVE  calls' \subseteq Call
  BY DEF TypeOK, Abandon, Call

\* A finalizer writes rows and operations of their types.
LEMMA FinalizeType ==
    ASSUME TypeOK, NEW c \in calls, NEW os \in SUBSET OpIds, Finalize(c, os)
    PROVE  /\ peers' \in [PeerIds -> PeerRow]
           /\ ops' \in [OpIds -> OpRow]
           /\ calls' \subseteq Call
  <1>1. c \in Call
    BY DEF TypeOK
  <1>2. c.peer \in PeerIds /\ FinalState(c) \in Live \cup {"failed", "revoked"}
    BY <1>1 DEF Call, FinalState, Live
  <1>3. peers' \in [PeerIds -> PeerRow]
    <2>1. \/ UNCHANGED peers
          \/ peers' = [peers EXCEPT ![c.peer] = [@ EXCEPT !.state = FinalState(c)]]
      BY DEF Finalize, rows
    <2>2. [peers[c.peer] EXCEPT !.state = FinalState(c)] \in PeerRow
      <3>1. peers[c.peer] \in PeerRow
        BY <1>2 DEF TypeOK
      <3> HIDE DEF FinalState
      <3> QED BY <1>2, <3>1 DEF PeerRow
    <2> QED BY <1>2, <2>1, <2>2 DEF TypeOK
  <1>4. ops' \in [OpIds -> OpRow]
    BY CloseType DEF Finalize, rows, TypeOK
  <1>5. calls' \subseteq Call
    BY DEF Finalize, TypeOK
  <1> QED BY <1>3, <1>4, <1>5

-----------------------------------------------------------------------------
\* Every step keeps the state well typed and every working pass on a row.
LEMMA NextType == IInv /\ [Next]_vars => TypeOK' /\ SweepHasRow'
  <1> SUFFICES ASSUME IInv, [Next]_vars PROVE TypeOK' /\ SweepHasRow'
    OBVIOUS
  <1> older' \subseteq PeerIds \X PeerIds
    BY NextOlder DEF IInv
  <1> USE DEF IInv, people, rows, agent
  <1>1. ASSUME NEW d \in Devices, NEW k \in Keys, NEW o \in OpIds, Reconnect(d, k, o)
        PROVE  TypeOK' /\ SweepHasRow'
    <2> PICK p \in LiveOf(d) :
          LET row == [peers[p] EXCEPT !.state = "applying", !.key = k] IN
          /\ peers' = [peers EXCEPT ![p] = row]
          /\ Begin(o, "api", "provision", p, row)
      BY <1>1, Zenon DEF Reconnect
    <2> DEFINE row == [peers[p] EXCEPT !.state = "applying", !.key = k]
    <2>1. p \in PeerIds /\ peers[p] \in PeerRow
      BY DEF LiveOf, LivePeers, TypeOK
    <2>2. row \in PeerRow /\ row.key \in Keys \cup {Nil} /\ row.addr \in Addresses \cup {Nil}
      BY <2>1, Zenon DEF PeerRow, Live
    <2>3. peers' \in [PeerIds -> PeerRow]
      BY <2>1, <2>2 DEF TypeOK
    <2>4. ops' \in [OpIds -> OpRow] /\ calls' \subseteq Call
      BY <2>1, <2>2, BeginType, Zenon DEF Kinds
    <2> QED BY <1>1, <2>3, <2>4 DEF Reconnect, TypeOK, SweepHasRow
  <1>2. ASSUME NEW d \in Devices, NEW k \in Keys, NEW o \in OpIds, RequestPeer(d, k, o)
        PROVE  TypeOK' /\ SweepHasRow'
    <2> PICK p \in PeerIds, a \in Addresses :
          LET row == [state |-> "applying", device |-> d, key |-> k, addr |-> a] IN
          /\ peers' = [peers EXCEPT ![p] = row]
          /\ Begin(o, "api", "provision", p, row)
      BY <1>2, Zenon DEF RequestPeer
    <2> DEFINE row == [state |-> "applying", device |-> d, key |-> k, addr |-> a]
    <2>1. row \in PeerRow /\ row.key \in Keys \cup {Nil} /\ row.addr \in Addresses \cup {Nil}
      BY DEF PeerRow, Live
    <2>2. peers' \in [PeerIds -> PeerRow]
      BY <2>1 DEF TypeOK
    <2>3. ops' \in [OpIds -> OpRow] /\ calls' \subseteq Call
      BY <2>1, BeginType DEF Kinds
    <2> QED BY <1>2, <2>2, <2>3 DEF RequestPeer, TypeOK, SweepHasRow
  <1>3. ASSUME NEW d \in Devices, NEW o \in OpIds, RevokePeer(d, o)
        PROVE  TypeOK' /\ SweepHasRow'
    <2> PICK p \in LiveOf(d) :
          /\ peers' = [peers EXCEPT ![p].state = "revoking"]
          /\ Begin(o, "api", "revoke", p, peers[p])
      BY <1>3, Zenon DEF RevokePeer
    <2>1. p \in PeerIds /\ peers[p] \in PeerRow
      BY DEF LiveOf, LivePeers, TypeOK
    <2>2. peers' \in [PeerIds -> PeerRow]
      BY <2>1 DEF TypeOK, PeerRow, Live
    <2>3. ops' \in [OpIds -> OpRow] /\ calls' \subseteq Call
      BY <2>1, BeginType DEF Kinds, PeerRow
    <2> QED BY <1>3, <2>2, <2>3 DEF RevokePeer, TypeOK, SweepHasRow
  <1>4. ASSUME NEW d \in Devices,
               Logout(d) \/ RevokeDevice(d) \/ CutOff(d) \/ Lapse(d) \/ Renew(d)
        PROVE  TypeOK' /\ SweepHasRow'
    <2>1. peers' \in [PeerIds -> PeerRow]
      BY <1>4, MarkType DEF Logout, RevokeDevice, CutOff, Lapse, Renew, TypeOK
    <2> QED BY <1>4, <2>1 DEF Logout, RevokeDevice, CutOff, Lapse, Renew, TypeOK, SweepHasRow
  <1>5. CASE EnforceAccessExpiry
    <2>1. peers' \in [PeerIds -> PeerRow]
      BY <1>5, MarkType DEF EnforceAccessExpiry
    <2> QED BY <1>5, <2>1 DEF EnforceAccessExpiry, TypeOK, SweepHasRow
  <1>6. ASSUME NEW c \in calls,
               \/ AgentReplays(c) \/ AgentApplies(c) \/ AgentFails(c) \/ AgentErrors(c)
               \/ Unreachable(c)
        PROVE  TypeOK' /\ SweepHasRow'
    <2>1. c \in Call /\ c.kind \in Kinds /\ c.op \in OpIds /\ c.addr \in Addresses \cup {Nil}
      BY DEF TypeOK, Call
    <2>2. calls' \subseteq Call
      <3>1. CASE AgentReplays(c)
        <4>1. ledger[c.op].result \in Results
          BY <2>1, <3>1 DEF AgentReplays, TypeOK
        <4> QED BY <3>1, <4>1, AnswerType DEF AgentReplays
      <3> QED BY <1>6, <3>1, AnswerType
              DEF AgentApplies, AgentFails, AgentErrors, Unreachable, Results
    <2>c. Configured(c) \in [Keys -> Addresses \cup {Nil}]
      BY <2>1, Zenon DEF Configured, TypeOK
    <2>3. lkg' \in [Keys -> Addresses \cup {Nil}] /\ kernel' \in [Keys -> Addresses \cup {Nil}]
      BY <1>6, <2>c DEF AgentReplays, AgentApplies, AgentFails, AgentErrors, Unreachable, TypeOK
    <2>4. ledger' \in [OpIds -> [kind: Kinds, result: Results] \cup {Nil}]
      <3>1. \/ UNCHANGED ledger
            \/ \E r \in Results :
                 ledger' = [ledger EXCEPT ![c.op] = [kind |-> c.kind, result |-> r]]
        BY <1>6 DEF AgentReplays, AgentApplies, AgentFails, AgentErrors, Unreachable, Results
      <3>2. \A r \in Results : [kind |-> c.kind, result |-> r] \in [kind: Kinds, result: Results]
        BY <2>1
      <3>3. CASE UNCHANGED ledger
        BY <3>3 DEF TypeOK
      <3>4. ASSUME NEW x \in [kind: Kinds, result: Results], ledger' = [ledger EXCEPT ![c.op] = x]
            PROVE  ledger' \in [OpIds -> [kind: Kinds, result: Results] \cup {Nil}]
        BY <2>1, <3>4 DEF TypeOK
      <3> QED BY <3>1, <3>2, <3>3, <3>4, Zenon
    <2>5. faults' \in 0..MaxFaults
      BY <1>6, ConstantsAssumption
      DEF AgentReplays, AgentApplies, AgentFails, AgentErrors, Unreachable, TypeOK, Fault
    <2>6. UNCHANGED <<device, access, peers, ops, sweep>>
      BY <1>6 DEF AgentReplays, AgentApplies, AgentFails, AgentErrors, Unreachable
    <2> QED BY <2>2, <2>3, <2>4, <2>5, <2>6 DEF TypeOK, SweepHasRow
  <1>7. CASE Reboot
    BY <1>7, ConstantsAssumption DEF Reboot, Fault, TypeOK, SweepHasRow
  <1>8. ASSUME NEW c \in calls, HandlerFinalizes(c) PROVE TypeOK' /\ SweepHasRow'
    <2>1. c.op \in OpIds
      BY DEF TypeOK, Call
    <2> QED BY <1>8, <2>1, FinalizeType DEF HandlerFinalizes, TypeOK, SweepHasRow
  <1>9. ASSUME NEW c \in calls, HandlerGivesUp(c) PROVE TypeOK' /\ SweepHasRow'
    <2>1. calls' \subseteq Call
      BY <1>9, AbandonType DEF HandlerGivesUp
    <2>2. faults' \in 0..MaxFaults
      BY <1>9, ConstantsAssumption DEF HandlerGivesUp, Fault, TypeOK
    <2> QED BY <1>9, <2>1, <2>2 DEF HandlerGivesUp, TypeOK, SweepHasRow
  <1>10. ASSUME NEW s \in Sweeps,
                \/ SweepBegin(s) \/ SweepSelect(s) \/ SweepCheck(s) \/ SweepSkips(s)
                \/ SweepEnds(s) \/ SweepDies(s)
         PROVE  TypeOK' /\ SweepHasRow'
    <2>1. sweep[s] \in SweepState
      BY DEF TypeOK
    <2>2. CASE SweepBegin(s)
      <3>1. peers' \in [PeerIds -> PeerRow]
        BY <2>2, MarkType DEF SweepBegin
      <3>2. sweep' = [sweep EXCEPT ![s].pc = "select"]
        BY <2>1, <2>2, Zenon DEF SweepBegin, Goto, TypeOK, SweepState
      <3>3. sweep' \in [Sweeps -> SweepState] /\ SweepHasRow'
        BY <2>1, <3>2 DEF TypeOK, SweepHasRow, SweepState
      <3> QED BY <2>2, <3>1, <3>3 DEF SweepBegin, TypeOK
    <2>3. CASE SweepSelect(s)
      <3> DEFINE Copy(p) == [peer |-> p, state |-> peers[p].state, key |-> peers[p].key,
                             addr |-> peers[p].addr]
      <3>0. PICK ps \in Batches :
              sweep' = [sweep EXCEPT ![s] = [pc |-> "loop", cur |-> Nil,
                                             todo |-> {Copy(p) : p \in ps}]]
        BY <2>3, Zenon DEF SweepSelect
      <3> DEFINE copies == {Copy(p) : p \in ps}
      <3>1. copies \in SUBSET Snapshot
        <4>1. ps \subseteq LivePeers
          BY Zenon DEF Batches
        <4>2. \A p \in LivePeers : Copy(p) \in Snapshot
          BY DEF LivePeers, TypeOK, Snapshot, PeerRow
        <4> QED BY <4>1, <4>2
      <3>2. sweep' = [sweep EXCEPT ![s] = [pc |-> "loop", todo |-> copies, cur |-> Nil]]
        BY <3>0
      <3> HIDE DEF copies
      <3>3. sweep' \in [Sweeps -> SweepState]
        BY <2>1, <3>1, <3>2 DEF TypeOK, SweepState
      <3>4. SweepHasRow'
        BY <3>2 DEF TypeOK, SweepHasRow
      <3> QED BY <2>3, <3>3, <3>4 DEF SweepSelect, TypeOK
    <2>4. CASE SweepCheck(s)
      <3> PICK t \in sweep[s].todo :
            sweep' = [sweep EXCEPT ![s] = [pc |-> Decision(t), todo |-> @.todo \ {t},
                                           cur |-> IF Decision(t) = "loop" THEN Nil ELSE t]]
        BY <2>4, Zenon DEF SweepCheck
      <3>1. t \in Snapshot
        BY <2>1 DEF SweepState
      <3>2. Decision(t) \in {"loop", "repair", "recover"}
        BY DEF Decision
      <3>3. sweep' \in [Sweeps -> SweepState]
        BY <2>1, <3>1, <3>2 DEF TypeOK, SweepState
      <3> QED BY <2>4, <3>1, <3>2, <3>3 DEF SweepCheck, TypeOK, SweepHasRow
    <2>5. CASE SweepSkips(s) \/ SweepEnds(s) \/ SweepDies(s)
      <3>1. calls' \subseteq Call
        BY <2>5, AbandonType DEF SweepSkips, SweepEnds, SweepDies, TypeOK
      <3>2. sweep' \in [Sweeps -> SweepState] /\ SweepHasRow'
        <4>1. CASE SweepSkips(s)
          <5> PICK t \in sweep[s].todo : sweep' = [sweep EXCEPT ![s].todo = @ \ {t}]
            BY <4>1, Zenon DEF SweepSkips
          <5> QED BY <2>1 DEF TypeOK, SweepState, SweepHasRow
        <4>2. CASE SweepEnds(s)
          BY <2>1, <4>2, Zenon DEF SweepEnds, Goto, TypeOK, SweepState, SweepHasRow
        <4>3. CASE SweepDies(s)
          <5>1. Resting \in SweepState /\ Resting.pc = "idle"
            BY DEF Resting, SweepState
          <5>2. sweep' = [sweep EXCEPT ![s] = Resting]
            BY <4>3 DEF SweepDies
          <5> QED BY <5>1, <5>2 DEF TypeOK, SweepHasRow
        <4> QED BY <2>5, <4>1, <4>2, <4>3
      <3>3. faults' \in 0..MaxFaults
        BY <2>5, ConstantsAssumption DEF SweepSkips, SweepEnds, SweepDies, Fault, TypeOK
      <3> QED BY <2>5, <3>1, <3>2, <3>3 DEF SweepSkips, SweepEnds, SweepDies, TypeOK
    <2> QED BY <1>10, <2>2, <2>3, <2>4, <2>5
  <1>11. ASSUME NEW s \in Sweeps, SweepRecovers(s) PROVE TypeOK' /\ SweepHasRow'
    <2>1. sweep[s] \in SweepState /\ sweep[s].cur \in Snapshot
      BY <1>11 DEF SweepRecovers, At, TypeOK, SweepHasRow, SweepState
    <2>2. sweep[s].cur.peer \in PeerIds
      BY <2>1 DEF Snapshot
    <2>3. peers' \in [PeerIds -> PeerRow]
      <3> DEFINE st == IF peers[sweep[s].cur.peer].state = "applying" THEN "active" ELSE "revoked"
      <3>1. \/ UNCHANGED peers
            \/ peers' = [peers EXCEPT ![sweep[s].cur.peer] = [@ EXCEPT !.state = st]]
        BY <1>11, <2>2 DEF SweepRecovers, TypeOK
      <3>2. peers[sweep[s].cur.peer] \in PeerRow
        BY <2>2 DEF TypeOK
      <3>3. [peers[sweep[s].cur.peer] EXCEPT !.state = st] \in PeerRow
        BY <3>2 DEF PeerRow, Live
      <3> HIDE DEF st
      <3> QED BY <2>2, <3>1, <3>3 DEF TypeOK
    <2>5. ops' \in [OpIds -> OpRow]
      BY <1>11, CloseType DEF SweepRecovers, TypeOK
    <2>4. sweep' \in [Sweeps -> SweepState] /\ SweepHasRow'
      <3>1. sweep' = [sweep EXCEPT ![s].pc = "loop", ![s].cur = Nil]
        BY <1>11 DEF SweepRecovers, Goto
      <3> QED BY <2>1, <3>1, Zenon DEF TypeOK, SweepState, SweepHasRow
    <2> QED BY <1>11, <2>3, <2>4, <2>5 DEF SweepRecovers, TypeOK
  <1>12. ASSUME NEW s \in Sweeps, SweepRepairs(s) PROVE TypeOK' /\ SweepHasRow'
    <2> DEFINE t == sweep[s].cur
               kind == IF WantsPresent(t) THEN "provision" ELSE "revoke"
    <2>1. sweep[s] \in SweepState /\ t \in Snapshot
      BY <1>12 DEF SweepRepairs, At, TypeOK, SweepHasRow, SweepState
    <2>2. t.peer \in PeerIds /\ t.key \in Keys \cup {Nil} /\ t.addr \in Addresses \cup {Nil}
          /\ kind \in Kinds
      BY <2>1 DEF Snapshot, Kinds
    <2>3. ops' \in [OpIds -> OpRow] /\ calls' \subseteq Call
      <3>1. ASSUME NEW o \in OpIds, Begin(o, s, kind, t.peer, t)
            PROVE  ops' \in [OpIds -> OpRow] /\ calls' \subseteq Call
        BY <2>2, <3>1, BeginType
      <3>2. ASSUME NEW o \in OpIds, UNCHANGED ops,
                   calls' = calls \cup {[op |-> o, by |-> s, kind |-> kind, peer |-> t.peer,
                                         key |-> t.key, addr |-> t.addr, stage |-> "sent"]}
            PROVE  ops' \in [OpIds -> OpRow] /\ calls' \subseteq Call
        BY <2>2, <3>2 DEF TypeOK, Call
      <3> QED BY <1>12, <3>1, <3>2 DEF SweepRepairs, RunningOps
    <2>4. sweep' \in [Sweeps -> SweepState] /\ SweepHasRow'
      <3>1. sweep' = [sweep EXCEPT ![s].pc = "calling"]
        BY <1>12, <2>1, Zenon DEF SweepRepairs, Goto, TypeOK, SweepState
      <3> QED BY <2>1, <3>1 DEF TypeOK, SweepState, SweepHasRow
    <2> QED BY <1>12, <2>3, <2>4 DEF SweepRepairs, TypeOK
  <1>13. ASSUME NEW s \in Sweeps, SweepFinalizes(s) \/ SweepGivesUp(s)
         PROVE  TypeOK' /\ SweepHasRow'
    <2>1. sweep[s] \in SweepState
      BY DEF TypeOK
    <2>2. sweep' \in [Sweeps -> SweepState] /\ SweepHasRow'
      <3>1. sweep' = [sweep EXCEPT ![s].pc = "loop", ![s].cur = Nil]
        BY <1>13 DEF SweepFinalizes, SweepGivesUp, Goto
      <3> QED BY <2>1, <3>1, Zenon DEF TypeOK, SweepState, SweepHasRow
    <2>3. CASE SweepFinalizes(s)
      <3>1. \A c \in calls : RunningOps(c.peer) \in SUBSET OpIds
        BY DEF RunningOps
      <3> QED BY <2>2, <2>3, <3>1, FinalizeType DEF SweepFinalizes, TypeOK
    <2>4. CASE SweepGivesUp(s)
      <3>1. calls' \subseteq Call
        BY <2>4, AbandonType DEF SweepGivesUp
      <3>2. faults' \in 0..MaxFaults
        BY <2>4, ConstantsAssumption DEF SweepGivesUp, Fault, TypeOK
      <3> QED BY <2>2, <2>4, <3>1, <3>2 DEF SweepGivesUp, TypeOK
    <2> QED BY <1>13, <2>3, <2>4
  <1>14. CASE UNCHANGED vars
    BY <1>14 DEF vars, TypeOK, SweepHasRow
  <1> QED
    BY <1>1, <1>2, <1>3, <1>4, <1>5, <1>6, <1>7, <1>8, <1>9, <1>10, <1>11, <1>12, <1>13, <1>14
    DEF Next, SweepStep, AgentRuns, HandlerEnds

-----------------------------------------------------------------------------
(***************************************************************************)
(* Operations are recorded before they are sent.                           *)
(***************************************************************************)
\* An operation once recorded stays recorded, for the same row.
OpsKept == \A o \in OpIds : ops[o].state # "absent"
                            => ops'[o].state # "absent" /\ ops'[o].peer = ops[o].peer

\* Beginning an operation leaves the others as they are.
LEMMA BeginKept ==
    ASSUME TypeOK, NEW o \in OpIds, NEW by, NEW kind, NEW p, NEW row,
           Begin(o, by, kind, p, row)
    PROVE  /\ OpsKept
           /\ ops'[o].state = "running" /\ ops'[o].peer = p
           /\ \A c \in calls' : c \in calls \/ (c.op = o /\ c.peer = p)
  BY DEF TypeOK, Begin, Fresh, OpsKept

\* Closing operations forgets none of them.
LEMMA CloseKept ==
    ASSUME TypeOK, NEW os, NEW st \in {"succeeded", "failed"}, CloseOps(os, st)
    PROVE  OpsKept
  <1>1. \A o \in OpIds : ops[o] \in OpRow
    BY DEF TypeOK
  <1>2. \A r \in OpRow : /\ [r EXCEPT !.state = st].state = st
                         /\ [r EXCEPT !.state = st].peer = r.peer
    BY DEF OpRow
  <1> QED BY <1>1, <1>2 DEF CloseOps, OpsKept

\* Nor does a finalizer, and it asks the agent for nothing.
LEMMA FinalizeKept ==
    ASSUME TypeOK, NEW c \in calls, NEW os, Finalize(c, os)
    PROVE  OpsKept /\ calls' \subseteq calls
  BY CloseKept DEF Finalize, rows, OpsKept

\* Answering or abandoning a request keeps what it is about.
LEMMA CallsKept ==
    ASSUME TypeOK, NEW c \in calls, NEW st, Answer(c, st) \/ Abandon(c)
    PROVE  \A e \in calls' : \E f \in calls : e.op = f.op /\ e.peer = f.peer
  <1>1. c \in Call
    BY DEF TypeOK
  <1>2. /\ [c EXCEPT !.stage = st].op = c.op /\ [c EXCEPT !.stage = st].peer = c.peer
        /\ [c EXCEPT !.by = "gone"].op = c.op /\ [c EXCEPT !.by = "gone"].peer = c.peer
    BY <1>1 DEF Call
  <1> QED BY <1>2, Zenon DEF Answer, Abandon

\* Every step keeps the requests recorded.
LEMMA NextRecorded == IInv /\ [Next]_vars => CallsAreRecorded'
  <1> SUFFICES ASSUME IInv, [Next]_vars PROVE CallsAreRecorded'
    OBVIOUS
  <1> USE DEF IInv, people, rows, agent
  <1>0. \A c \in calls : c.op \in OpIds
    BY DEF TypeOK, Call
  <1>a. ASSUME OpsKept,
               \A e \in calls' : \E f \in calls : e.op = f.op /\ e.peer = f.peer
        PROVE  CallsAreRecorded'
    BY <1>0, <1>a DEF CallsAreRecorded, OpsKept
  <1>b. ASSUME UNCHANGED ops PROVE OpsKept
    BY <1>b DEF OpsKept
  <1>1. ASSUME NEW o \in OpIds, NEW by, NEW kind, NEW p, NEW row,
               Begin(o, by, kind, p, row)
        PROVE  CallsAreRecorded'
    BY <1>0, <1>1, BeginKept DEF CallsAreRecorded, OpsKept
  <1>2. ASSUME NEW d \in Devices, NEW o \in OpIds,
               \/ \E k \in Keys : Reconnect(d, k, o) \/ RequestPeer(d, k, o)
               \/ RevokePeer(d, o)
        PROVE  CallsAreRecorded'
    BY <1>1, <1>2, Zenon DEF Reconnect, RequestPeer, RevokePeer
  <1>3. ASSUME NEW d \in Devices,
               Logout(d) \/ RevokeDevice(d) \/ CutOff(d) \/ Lapse(d) \/ Renew(d)
        PROVE  CallsAreRecorded'
    BY <1>3, <1>a, <1>b DEF Logout, RevokeDevice, CutOff, Lapse, Renew
  <1>4. CASE EnforceAccessExpiry \/ Reboot \/ UNCHANGED vars
    BY <1>4, <1>a, <1>b DEF EnforceAccessExpiry, Reboot, vars
  <1>5. ASSUME NEW c \in calls,
               AgentReplays(c) \/ AgentErrors(c) \/ Unreachable(c) \/ HandlerGivesUp(c)
        PROVE  CallsAreRecorded'
    BY <1>5, <1>a, <1>b, CallsKept DEF AgentReplays, AgentErrors, Unreachable, HandlerGivesUp
  <1>6. ASSUME NEW c \in calls, AgentApplies(c) \/ AgentFails(c)
        PROVE  CallsAreRecorded'
    <2>1. \A e \in calls' : \E f \in calls : e.op = f.op /\ e.peer = f.peer
      BY <1>6, CallsKept DEF AgentApplies, AgentFails
    <2>2. UNCHANGED ops
      BY <1>6 DEF AgentApplies, AgentFails
    <2> QED BY <1>0, <2>1, <2>2 DEF CallsAreRecorded
  <1>7. ASSUME NEW c \in calls, HandlerFinalizes(c) PROVE CallsAreRecorded'
    BY <1>7, <1>a, FinalizeKept DEF HandlerFinalizes
  <1>8. ASSUME NEW s \in Sweeps,
               \/ SweepBegin(s) \/ SweepSelect(s) \/ SweepCheck(s) \/ SweepSkips(s)
               \/ SweepEnds(s) \/ SweepDies(s) \/ SweepGivesUp(s)
        PROVE  CallsAreRecorded'
    BY <1>8, <1>a, <1>b, CallsKept
    DEF SweepBegin, SweepSelect, SweepCheck, SweepSkips, SweepEnds, SweepDies, SweepGivesUp
  <1>9. ASSUME NEW s \in Sweeps, SweepRecovers(s) PROVE CallsAreRecorded'
    <2>1. OpsKept
      BY <1>9, <1>b, CloseKept DEF SweepRecovers
    <2> QED BY <1>9, <1>a, <2>1 DEF SweepRecovers
  <1>10. ASSUME NEW s \in Sweeps, SweepRepairs(s) PROVE CallsAreRecorded'
    <2> DEFINE t == sweep[s].cur
               kind == IF WantsPresent(t) THEN "provision" ELSE "revoke"
    <2>1. ASSUME NEW o \in RunningOps(t.peer), UNCHANGED ops,
                 calls' = calls \cup {[op |-> o, by |-> s, kind |-> kind, peer |-> t.peer,
                                       key |-> t.key, addr |-> t.addr, stage |-> "sent"]}
          PROVE  CallsAreRecorded'
      <3>1. o \in OpIds /\ ops[o].state = "running" /\ ops[o].peer = t.peer
        BY DEF RunningOps
      <3>2. \A e \in calls' : e \in calls \/ (e.op = o /\ e.peer = t.peer)
        BY <2>1
      <3> HIDE DEF t, kind
      <3> QED BY <2>1, <3>1, <3>2 DEF CallsAreRecorded
    <2> QED BY <1>1, <1>10, <2>1 DEF SweepRepairs
  <1>11. ASSUME NEW s \in Sweeps, SweepFinalizes(s) PROVE CallsAreRecorded'
    BY <1>11, <1>a, FinalizeKept DEF SweepFinalizes
  <1> QED BY <1>2, <1>3, <1>4, <1>5, <1>6, <1>7, <1>8, <1>9, <1>10, <1>11
          DEF Next, SweepStep, AgentRuns, HandlerEnds

-----------------------------------------------------------------------------
(***************************************************************************)
(* An applying row has a running operation.                                *)
(***************************************************************************)
\* Marking rows revoking puts none in that state.
LEMMA MarkApplying ==
    ASSUME TypeOK, NEW ds, MarkRevoking(ds)
    PROVE  \A p \in PeerIds : peers'[p].state = "applying" => peers[p].state = "applying"
  <1>1. \A p \in PeerIds : [peers[p] EXCEPT !.state = "revoking"].state = "revoking"
    BY DEF TypeOK, PeerRow
  <1> QED BY <1>1 DEF MarkRevoking

\* Closing operations of row p leaves the operations of other rows running.
LEMMA CloseOthers ==
    ASSUME TypeOK, NEW os, NEW st, NEW p, CloseOps(os, st), \A o \in os : ops[o].peer = p
    PROVE  \A q \in PeerIds \ {p} : RunningOps(q) \subseteq RunningOps(q)'
  <1>1. \A q \in PeerIds \ {p} : \A o \in RunningOps(q) : o \in OpIds /\ o \notin os
    BY DEF RunningOps
  <1> QED BY <1>1 DEF CloseOps, RunningOps

\* A row a finalizer leaves applying still has an operation under way.
LEMMA FinalizeApplying ==
    ASSUME IInv, NEW c \in calls, NEW os, Finalize(c, os), \A o \in os : ops[o].peer = c.peer
    PROVE  ApplyingHasOperation'
  <1> USE DEF IInv
  <1>1. CASE UNCHANGED <<peers, ops>>
    BY <1>1 DEF ApplyingHasOperation, RunningOps
  <1> DEFINE row == [peers[c.peer] EXCEPT !.state = FinalState(c)]
             st == IF c.stage = "ok" THEN "succeeded" ELSE "failed"
  <1>2. CASE peers' = [peers EXCEPT ![c.peer] = row] /\ CloseOps(os, st)
    <2>1. c.peer \in PeerIds
      BY DEF TypeOK, Call
    <2>2. row.state = FinalState(c)
      BY <2>1 DEF TypeOK, PeerRow
    <2>3. row.state # "applying"
      BY <2>2 DEF FinalState
    <2>4. peers'[c.peer] = row
      BY <1>2, <2>1 DEF TypeOK
    <2>5. \A q \in PeerIds \ {c.peer} : peers'[q] = peers[q]
      BY <1>2 DEF TypeOK
    <2>6. \A q \in PeerIds \ {c.peer} : RunningOps(q) \subseteq RunningOps(q)'
      BY <1>2, CloseOthers, Zenon
    <2> HIDE DEF row
    <2> QED BY <2>3, <2>4, <2>5, <2>6 DEF ApplyingHasOperation
  <1> QED BY <1>1, <1>2 DEF Finalize, rows

\* A new operation for row p, the only row whose state it changes.
LEMMA BeginApplying ==
    ASSUME IInv, NEW o \in OpIds, NEW by, NEW kind, NEW p \in PeerIds, NEW row,
           Begin(o, by, kind, p, row), \A q \in PeerIds \ {p} : peers'[q] = peers[q]
    PROVE  ApplyingHasOperation'
  <1> USE DEF IInv
  <1>1. \A q \in PeerIds : RunningOps(q) \subseteq RunningOps(q)'
    BY DEF Begin, Fresh, RunningOps, TypeOK
  <1>2. o \in RunningOps(p)'
    BY DEF Begin, RunningOps, TypeOK
  <1> QED BY <1>1, <1>2 DEF ApplyingHasOperation

\* Every step keeps an applying row's operation.
LEMMA NextApplying == IInv /\ [Next]_vars => ApplyingHasOperation'
  <1> SUFFICES ASSUME IInv, [Next]_vars PROVE ApplyingHasOperation'
    OBVIOUS
  <1> USE DEF IInv, people, rows, agent
  <1>a. ASSUME UNCHANGED ops,
               \A p \in PeerIds : peers'[p].state = "applying" => peers[p].state = "applying"
        PROVE  ApplyingHasOperation'
    BY <1>a DEF ApplyingHasOperation, RunningOps
  <1>1. ASSUME NEW d \in Devices, NEW o \in OpIds,
               \/ \E k \in Keys : Reconnect(d, k, o) \/ RequestPeer(d, k, o)
               \/ RevokePeer(d, o)
        PROVE  ApplyingHasOperation'
    <2>1. \E p \in PeerIds : \E row, kind : /\ Begin(o, "api", kind, p, row)
                                            /\ \A q \in PeerIds \ {p} : peers'[q] = peers[q]
      BY <1>1, Zenon DEF Reconnect, RequestPeer, RevokePeer, TypeOK, LiveOf, LivePeers
    <2> QED BY <2>1, BeginApplying
  <1>2. ASSUME NEW d \in Devices,
               Logout(d) \/ RevokeDevice(d) \/ CutOff(d) \/ Lapse(d) \/ Renew(d)
        PROVE  ApplyingHasOperation'
    BY <1>2, <1>a, MarkApplying DEF Logout, RevokeDevice, CutOff, Lapse, Renew
  <1>3. CASE EnforceAccessExpiry \/ Reboot \/ UNCHANGED vars
    BY <1>3, <1>a, MarkApplying DEF EnforceAccessExpiry, Reboot, vars
  <1>4. ASSUME NEW c \in calls,
               \/ AgentReplays(c) \/ AgentApplies(c) \/ AgentFails(c) \/ AgentErrors(c)
               \/ Unreachable(c) \/ HandlerGivesUp(c)
        PROVE  ApplyingHasOperation'
    BY <1>4, <1>a DEF AgentReplays, AgentApplies, AgentFails, AgentErrors, Unreachable,
                      HandlerGivesUp
  <1>5. ASSUME NEW c \in calls, HandlerFinalizes(c) PROVE ApplyingHasOperation'
    <2>1. ops[c.op].peer = c.peer
      BY DEF CallsAreRecorded
    <2> QED BY <1>5, <2>1, FinalizeApplying DEF HandlerFinalizes
  <1>6. ASSUME NEW s \in Sweeps,
               \/ SweepBegin(s) \/ SweepSelect(s) \/ SweepCheck(s) \/ SweepSkips(s)
               \/ SweepEnds(s) \/ SweepDies(s) \/ SweepGivesUp(s)
        PROVE  ApplyingHasOperation'
    BY <1>6, <1>a, MarkApplying
    DEF SweepBegin, SweepSelect, SweepCheck, SweepSkips, SweepEnds, SweepDies, SweepGivesUp
  <1>7. ASSUME NEW s \in Sweeps, SweepRecovers(s) PROVE ApplyingHasOperation'
    <2>0. sweep[s].cur.peer \in PeerIds
      BY <1>7 DEF SweepRecovers, At, SweepHasRow, Snapshot
    <2> PICK p \in PeerIds : p = sweep[s].cur.peer
      BY <2>0
    <2>1. CASE UNCHANGED <<peers, ops>>
      BY <1>a, <2>1
    <2>2. CASE /\ peers' = [peers EXCEPT ![p].state = IF @ = "applying" THEN "active" ELSE "revoked"]
               /\ CloseOps(RunningOps(p), "succeeded")
      <3>1. peers'[p].state # "applying" /\ \A q \in PeerIds \ {p} : peers'[q] = peers[q]
        BY <2>2 DEF TypeOK, PeerRow
      <3>2. \A o \in RunningOps(p) : ops[o].peer = p
        BY DEF RunningOps
      <3>3. \A q \in PeerIds \ {p} : RunningOps(q) \subseteq RunningOps(q)'
        BY <2>2, <3>2, CloseOthers, Zenon
      <3> QED BY <3>1, <3>3 DEF ApplyingHasOperation
    <2> QED BY <1>7, <2>1, <2>2 DEF SweepRecovers
  <1>8. ASSUME NEW s \in Sweeps, SweepRepairs(s) PROVE ApplyingHasOperation'
    <2>1. sweep[s].cur.peer \in PeerIds
      BY <1>8 DEF SweepRepairs, At, SweepHasRow, Snapshot
    <2> QED BY <1>8, <1>a, <2>1, BeginApplying DEF SweepRepairs
  <1>9. ASSUME NEW s \in Sweeps, SweepFinalizes(s) PROVE ApplyingHasOperation'
    <2>1. \A c \in calls : \A o \in RunningOps(c.peer) : ops[o].peer = c.peer
      BY DEF RunningOps
    <2> QED BY <1>9, <2>1, FinalizeApplying DEF SweepFinalizes
  <1> QED BY <1>1, <1>2, <1>3, <1>4, <1>5, <1>6, <1>7, <1>8, <1>9
          DEF Next, SweepStep, AgentRuns, HandlerEnds

-----------------------------------------------------------------------------
(***************************************************************************)
(* Live rows stay distinct.                                                *)
(***************************************************************************)
\* No row becomes live, and the live ones keep their device, key and address.
NoNewLive == \A p \in PeerIds : peers'[p].state \in Live
               => /\ peers[p].state \in Live
                  /\ peers'[p].device = peers[p].device
                  /\ peers'[p].key = peers[p].key
                  /\ peers'[p].addr = peers[p].addr

\* Rows that are not revived and keep device, key and address do not collide.
LEMMA NoNewLiveDistinct ==
    ASSUME LiveRowsDistinct, NoNewLive
    PROVE  LiveRowsDistinct'
  BY DEF LiveRowsDistinct, NoNewLive, LivePeers, Clash

\* A change of state alone leaves device, key and address.
LEMMA StateOnly ==
    ASSUME NEW r \in PeerRow, NEW st
    PROVE  LET q == [r EXCEPT !.state = st] IN
           q.state = st /\ q.device = r.device /\ q.key = r.key /\ q.addr = r.addr
  BY DEF PeerRow

\* Marking rows revoking revives none.
LEMMA MarkNoNewLive ==
    ASSUME TypeOK, NEW ds, MarkRevoking(ds)
    PROVE  NoNewLive
  BY StateOnly DEF NoNewLive, MarkRevoking, TypeOK, Live

\* A live row that only changes its state.
LEMMA RestateNoNewLive ==
    ASSUME TypeOK, NEW p \in LivePeers, NEW st, peers' = [peers EXCEPT ![p].state = st]
    PROVE  NoNewLive
  <1>1. p \in PeerIds /\ peers[p] \in PeerRow /\ peers[p].state \in Live
    BY DEF LivePeers, TypeOK
  <1>2. peers'[p] = [peers[p] EXCEPT !.state = st] /\ \A q \in PeerIds \ {p} : peers'[q] = peers[q]
    BY <1>1 DEF TypeOK
  <1>3. peers'[p].device = peers[p].device /\ peers'[p].key = peers[p].key
        /\ peers'[p].addr = peers[p].addr
    BY <1>1, <1>2, StateOnly
  <1> QED BY <1>1, <1>2, <1>3 DEF NoNewLive

\* The recovery pass revives none.
LEMMA RecoverNoNewLive ==
    ASSUME IInv, NEW s \in Sweeps, SweepRecovers(s)
    PROVE  NoNewLive
  <1>0. sweep[s].cur.peer \in PeerIds
    BY DEF SweepRecovers, At, IInv, SweepHasRow, Snapshot
  <1> PICK p \in PeerIds : p = sweep[s].cur.peer
    BY <1>0
  <1>1. CASE peers[p].state \in Stuck
    <2>1. PICK st : peers' = [peers EXCEPT ![p].state = st]
      BY <1>1, Zenon DEF SweepRecovers
    <2>2. p \in LivePeers
      BY <1>1 DEF Stuck, Live, LivePeers
    <2> QED BY <2>1, <2>2, RestateNoNewLive, Zenon DEF IInv
  <1>2. CASE peers[p].state \notin Stuck
    BY <1>2 DEF SweepRecovers, rows, NoNewLive
  <1> QED BY <1>1, <1>2

\* Nor does a revocation.
LEMMA RevokeNoNewLive ==
    ASSUME TypeOK, NEW d, NEW o, RevokePeer(d, o)
    PROVE  NoNewLive
  BY RestateNoNewLive, Zenon DEF RevokePeer, LiveOf

\* One row is written, and the indexes accept it.
LEMMA FitsDistinct ==
    ASSUME TypeOK, LiveRowsDistinct, NEW p \in PeerIds, NEW row, Fits(p, row),
           peers' = [peers EXCEPT ![p] = row]
    PROVE  LiveRowsDistinct'
  <1>1. peers'[p] = row /\ \A q \in PeerIds \ {p} : peers'[q] = peers[q]
    BY DEF TypeOK
  <1> QED BY <1>1 DEF LiveRowsDistinct, Fits, LivePeers, Clash

\* A finalizer may revive a row, but the unique indexes let no collision through.
LEMMA FinalizeDistinct ==
    ASSUME TypeOK, LiveRowsDistinct, NEW c \in calls, NEW os, Finalize(c, os)
    PROVE  LiveRowsDistinct'
  <1>1. CASE UNCHANGED peers
    BY <1>1 DEF LiveRowsDistinct, LivePeers
  <1>2. c.peer \in PeerIds
    BY DEF TypeOK, Call
  <1> QED BY <1>1, <1>2, FitsDistinct DEF Finalize, rows

\* Every step keeps the live rows distinct.
LEMMA NextDistinct == IInv /\ [Next]_vars => LiveRowsDistinct'
  <1> SUFFICES ASSUME IInv, [Next]_vars PROVE LiveRowsDistinct'
    OBVIOUS
  <1> USE DEF IInv, people, rows, agent
  <1>a. ASSUME UNCHANGED peers PROVE LiveRowsDistinct'
    BY <1>a DEF LiveRowsDistinct, LivePeers
  <1>1. ASSUME NEW d \in Devices, NEW o \in OpIds, NEW k \in Keys,
               Reconnect(d, k, o) \/ RequestPeer(d, k, o)
        PROVE  LiveRowsDistinct'
    <2>1. \E p \in PeerIds : \E row : Fits(p, row) /\ peers' = [peers EXCEPT ![p] = row]
      BY <1>1, Zenon DEF Reconnect, RequestPeer, LiveOf, LivePeers
    <2> QED BY <2>1, FitsDistinct, Zenon
  <1>2. ASSUME NEW d \in Devices, NEW o \in OpIds, RevokePeer(d, o) PROVE LiveRowsDistinct'
    BY <1>2, RevokeNoNewLive, NoNewLiveDistinct
  <1>3. ASSUME NEW d \in Devices,
               Logout(d) \/ RevokeDevice(d) \/ CutOff(d) \/ Lapse(d) \/ Renew(d)
        PROVE  LiveRowsDistinct'
    BY <1>3, <1>a, MarkNoNewLive, NoNewLiveDistinct DEF Logout, RevokeDevice, CutOff, Lapse, Renew
  <1>4. CASE EnforceAccessExpiry \/ Reboot \/ UNCHANGED vars
    BY <1>4, <1>a, MarkNoNewLive, NoNewLiveDistinct DEF EnforceAccessExpiry, Reboot, vars
  <1>5. ASSUME NEW c \in calls,
               \/ AgentReplays(c) \/ AgentApplies(c) \/ AgentFails(c) \/ AgentErrors(c)
               \/ Unreachable(c) \/ HandlerGivesUp(c)
        PROVE  LiveRowsDistinct'
    BY <1>5, <1>a DEF AgentReplays, AgentApplies, AgentFails, AgentErrors, Unreachable,
                      HandlerGivesUp
  <1>6. ASSUME NEW c \in calls, HandlerFinalizes(c) PROVE LiveRowsDistinct'
    BY <1>6, FinalizeDistinct DEF HandlerFinalizes
  <1>7. ASSUME NEW s \in Sweeps,
               \/ SweepBegin(s) \/ SweepSelect(s) \/ SweepCheck(s) \/ SweepSkips(s)
               \/ SweepEnds(s) \/ SweepDies(s) \/ SweepGivesUp(s) \/ SweepRepairs(s)
        PROVE  LiveRowsDistinct'
    BY <1>7, <1>a, MarkNoNewLive, NoNewLiveDistinct
    DEF SweepBegin, SweepSelect, SweepCheck, SweepSkips, SweepEnds, SweepDies, SweepGivesUp,
        SweepRepairs
  <1>8. ASSUME NEW s \in Sweeps, SweepRecovers(s) PROVE LiveRowsDistinct'
    BY <1>8, RecoverNoNewLive, NoNewLiveDistinct
  <1>9. ASSUME NEW s \in Sweeps, SweepFinalizes(s) PROVE LiveRowsDistinct'
    BY <1>9, FinalizeDistinct DEF SweepFinalizes
  <1> QED BY <1>1, <1>2, <1>3, <1>4, <1>5, <1>6, <1>7, <1>8, <1>9
          DEF Next, SweepStep, AgentRuns, HandlerEnds

-----------------------------------------------------------------------------
\* The inductive invariant.
LEMMA Invariance == Spec => []IInv
  <1>1. IInv /\ [Next]_vars => IInv'
    BY NextType, NextRecorded, NextApplying, NextDistinct DEF IInv
  <1> QED BY InitInv, <1>1, PTL DEF Spec

\* The tables, the requests in flight, the agent's files and the passes keep
\* their types (models/provisioning.py, models/operations.py).
THEOREM TypeCorrect == Spec => []TypeOK
  BY Invariance, PTL DEF IInv

\* An applying row always has a running operation whose idempotency key a sweep
\* can retry with (request_peer, _running_operation, the finalizers).
THEOREM ApplyingIsRetriable == Spec => []ApplyingHasOperation
  BY Invariance, PTL DEF IInv

-----------------------------------------------------------------------------
(***************************************************************************)
(* The server's capacity holds although finalizers revive rows without     *)
(* checking it again.  The reason is not the admission check alone: the    *)
(* allocator hands out the lowest free address, so every row ever created  *)
(* has one of the first Capacity addresses, and the address index keeps    *)
(* live rows on different ones.                                            *)
(***************************************************************************)

Placed(p) == peers[p].addr \in 1..Capacity

\* Rows that are live, asked about or being looked at by a pass are placed.
LivePlaced == \A p \in LivePeers : Placed(p)
CallsPlaced == \A c \in calls : Placed(c.peer)
SweepPlaced(s) == /\ \A t \in sweep[s].todo : Placed(t.peer)
                  /\ sweep[s].pc \in {"recover", "repair", "calling"}
                     => Placed(sweep[s].cur.peer)
PlacedInv == LivePlaced /\ CallsPlaced /\ \A s \in Sweeps : SweepPlaced(s)

-----------------------------------------------------------------------------
\* Distinct addresses among the first Capacity ones: at most Capacity rows.
LEMMA PlacedBound ==
    ASSUME IInv, PlacedInv
    PROVE  IsFiniteSet(LivePeers) /\ Cardinality(LivePeers) <= Capacity
  <1> DEFINE f == [p \in LivePeers |-> peers[p].addr]
  <1>1. f \in Injection(LivePeers, 1..Capacity)
    <2>1. f \in [LivePeers -> 1..Capacity]
      BY DEF PlacedInv, LivePlaced, Placed
    <2>2. \A p, q \in LivePeers : f[p] = f[q] => p = q
      BY DEF IInv, LiveRowsDistinct, Clash
    <2> QED BY <2>1, <2>2 DEF Injection, IsInjective
  <1>2. IsFiniteSet(1..Capacity) /\ Cardinality(1..Capacity) = Capacity
    BY ConstantsAssumption, FS_Interval
  <1>3. IsFiniteSet(LivePeers) /\ Cardinality(LivePeers) <= Cardinality(1..Capacity)
    BY <1>1, <1>2, FS_Injection
  <1> QED BY <1>2, <1>3

\* Below capacity, the lowest free address is one of the first Capacity.
LEMMA LowestIsPlaced ==
    ASSUME IInv, PlacedInv, Cardinality(LivePeers) < Capacity,
           NEW a \in Addresses, AllocateAddress(a)
    PROVE  a \in 1..Capacity
  <1> DEFINE used == {peers[p].addr : p \in LivePeers}
             f == [p \in LivePeers |-> peers[p].addr]
  <1>1. IsFiniteSet(LivePeers) /\ Cardinality(LivePeers) \in Nat
    BY PlacedBound, FS_CardinalityType
  <1>2. f \in Surjection(LivePeers, used)
    BY DEF Surjection
  <1>3. IsFiniteSet(used) /\ Cardinality(used) <= Cardinality(LivePeers)
    BY <1>1, <1>2, FS_Surjection
  <1>4. Cardinality(used) \in Nat
    BY <1>3, FS_CardinalityType
  <1>5. Cardinality(1..Capacity) = Capacity
    BY ConstantsAssumption, FS_Interval
  <1>6. PICK b \in 1..Capacity : b \notin used
    <2>1. SUFFICES ASSUME (1..Capacity) \subseteq used PROVE FALSE
      OBVIOUS
    <2>2. Cardinality(1..Capacity) <= Cardinality(used)
      BY <1>3, <2>1, FS_Subset, Zenon
    <2> QED BY <1>1, <1>3, <1>4, <1>5, <2>2, ConstantsAssumption
  <1>7. CASE b \in Addresses
    <2>1. a <= b
      BY <1>6, <1>7 DEF AllocateAddress, FreeAddresses
    <2> QED BY <1>6, <2>1, ConstantsAssumption DEF Addresses
  <1>8. CASE b \notin Addresses
    BY <1>6, <1>8, ConstantsAssumption DEF Addresses
  <1> QED BY <1>7, <1>8

-----------------------------------------------------------------------------
\* No step but request_peer touches an address, and it writes a low one.
LEMMA AddressesKept ==
    ASSUME IInv, PlacedInv, [Next]_vars, NEW p \in PeerIds, Placed(p)
    PROVE  Placed(p)'
  <1> USE DEF IInv, people, rows, agent
  <1>0. peers[p] \in PeerRow
    BY DEF TypeOK
  <1>a. ASSUME UNCHANGED peers PROVE Placed(p)'
    BY <1>a DEF Placed
  <1>b. ASSUME NEW ds, MarkRevoking(ds) PROVE Placed(p)'
    BY <1>b, StateOnly DEF MarkRevoking, Placed, TypeOK
  <1>c. ASSUME NEW q, NEW st, peers' = [peers EXCEPT ![q].state = st] PROVE Placed(p)'
    <2>1. peers'[p] = peers[p] \/ peers'[p] = [peers[p] EXCEPT !.state = st]
      BY <1>c DEF TypeOK
    <2>2. peers'[p].addr = peers[p].addr
      BY <1>0, <2>1 DEF PeerRow
    <2> QED BY <2>2 DEF Placed
  <1>d. ASSUME NEW c \in calls, NEW os, Finalize(c, os) PROVE Placed(p)'
    <2>1. peers'[p] = peers[p] \/ peers'[p] = [peers[p] EXCEPT !.state = FinalState(c)]
      BY <1>d DEF Finalize, TypeOK
    <2>2. peers'[p].addr = peers[p].addr
      BY <1>0, <2>1 DEF PeerRow
    <2> QED BY <2>2 DEF Placed
  <1>1. ASSUME NEW d \in Devices, NEW o \in OpIds, NEW k \in Keys, Reconnect(d, k, o)
        PROVE  Placed(p)'
    <2> PICK q \in LiveOf(d) :
          peers' = [peers EXCEPT ![q] = [peers[q] EXCEPT !.state = "applying", !.key = k]]
      BY <1>1, Zenon DEF Reconnect
    <2>1. peers'[p] = peers[p] \/ peers'[p] = [peers[p] EXCEPT !.state = "applying", !.key = k]
      BY Zenon DEF TypeOK
    <2>2. peers'[p].addr = peers[p].addr
      BY <1>0, <2>1 DEF PeerRow
    <2> QED BY <2>2 DEF Placed
  <1>2. ASSUME NEW d \in Devices, NEW o \in OpIds, NEW k \in Keys, RequestPeer(d, k, o)
        PROVE  Placed(p)'
    <2>1. PICK q \in PeerIds, a \in Addresses :
            /\ AllocateAddress(a)
            /\ peers' = [peers EXCEPT ![q] =
                           [state |-> "applying", device |-> d, key |-> k, addr |-> a]]
      BY <1>2, Zenon DEF RequestPeer
    <2>2. a \in 1..Capacity
      BY <1>2, <2>1, LowestIsPlaced DEF RequestPeer
    <2> QED BY <2>1, <2>2 DEF Placed, TypeOK
  <1>3. ASSUME NEW d \in Devices, NEW o \in OpIds, RevokePeer(d, o) PROVE Placed(p)'
    BY <1>3, <1>c, Zenon DEF RevokePeer
  <1>4. ASSUME NEW d \in Devices,
               Logout(d) \/ RevokeDevice(d) \/ CutOff(d) \/ Lapse(d) \/ Renew(d)
        PROVE  Placed(p)'
    BY <1>4, <1>a, <1>b DEF Logout, RevokeDevice, CutOff, Lapse, Renew
  <1>5. CASE EnforceAccessExpiry \/ Reboot \/ UNCHANGED vars
    BY <1>5, <1>a, <1>b DEF EnforceAccessExpiry, Reboot, vars
  <1>6. ASSUME NEW c \in calls,
               \/ AgentReplays(c) \/ AgentApplies(c) \/ AgentFails(c) \/ AgentErrors(c)
               \/ Unreachable(c) \/ HandlerGivesUp(c)
        PROVE  Placed(p)'
    BY <1>6, <1>a DEF AgentReplays, AgentApplies, AgentFails, AgentErrors, Unreachable,
                      HandlerGivesUp
  <1>7. ASSUME NEW c \in calls, HandlerFinalizes(c) PROVE Placed(p)'
    BY <1>7, <1>d DEF HandlerFinalizes
  <1>8. ASSUME NEW s \in Sweeps,
               \/ SweepBegin(s) \/ SweepSelect(s) \/ SweepCheck(s) \/ SweepSkips(s)
               \/ SweepEnds(s) \/ SweepDies(s) \/ SweepGivesUp(s) \/ SweepRepairs(s)
        PROVE  Placed(p)'
    BY <1>8, <1>a, <1>b
    DEF SweepBegin, SweepSelect, SweepCheck, SweepSkips, SweepEnds, SweepDies, SweepGivesUp,
        SweepRepairs
  <1>9. ASSUME NEW s \in Sweeps, SweepRecovers(s) PROVE Placed(p)'
    BY <1>9, <1>a, <1>c DEF SweepRecovers
  <1>10. ASSUME NEW s \in Sweeps, SweepFinalizes(s) PROVE Placed(p)'
    BY <1>10, <1>d DEF SweepFinalizes
  <1> QED BY <1>1, <1>2, <1>3, <1>4, <1>5, <1>6, <1>7, <1>8, <1>9, <1>10
          DEF Next, SweepStep, AgentRuns, HandlerEnds

\* Every step keeps those rows placed.
LEMMA NextPlaced == IInv /\ PlacedInv /\ [Next]_vars => PlacedInv'
  <1> SUFFICES ASSUME IInv, PlacedInv, [Next]_vars PROVE PlacedInv'
    OBVIOUS
  <1> USE DEF people, rows, agent
  <1>0. TypeOK /\ SweepHasRow /\ \A p \in PeerIds : Placed(p) => Placed(p)'
    BY AddressesKept DEF IInv
  <1>t. /\ \A c \in calls : c.peer \in PeerIds
        /\ \A s \in Sweeps : /\ \A t \in sweep[s].todo : t.peer \in PeerIds
                             /\ sweep[s].pc \in {"recover", "repair", "calling"}
                                => sweep[s].cur.peer \in PeerIds
    <2>1. \A c \in calls : c.peer \in PeerIds
      BY <1>0 DEF TypeOK, Call
    <2>2. \A t \in Snapshot : t.peer \in PeerIds
      BY DEF Snapshot
    <2>3. \A s \in Sweeps : sweep[s].todo \subseteq Snapshot
      BY <1>0 DEF TypeOK, SweepState
    <2> QED BY <1>0, <2>1, <2>2, <2>3 DEF SweepHasRow
  <1>u. sweep \in [Sweeps -> SweepState]
    BY <1>0 DEF TypeOK
  \* The ways requests, live rows and passes change.
  <1>a. ASSUME \A e \in calls' : \E f \in calls : e.peer = f.peer PROVE CallsPlaced'
    BY <1>0, <1>t, <1>a DEF PlacedInv, CallsPlaced
  <1>b. ASSUME NoNewLive PROVE LivePlaced'
    BY <1>0, <1>b DEF PlacedInv, LivePlaced, NoNewLive, LivePeers
  <1>c. ASSUME NEW s \in Sweeps, sweep'[s] = sweep[s] PROVE SweepPlaced(s)'
    BY <1>0, <1>t, <1>c DEF PlacedInv, SweepPlaced
  <1>d. ASSUME NEW s \in Sweeps, NEW pc, Goto(s, pc),
               \/ sweep[s].pc \in {"recover", "repair", "calling"}
               \/ pc \notin {"recover", "repair", "calling"}
        PROVE  \A r \in Sweeps : SweepPlaced(r)'
    <2>1. /\ \A r \in Sweeps \ {s} : sweep'[r] = sweep[r]
          /\ sweep'[s].todo = sweep[s].todo /\ sweep'[s].pc = pc
          /\ pc # "loop" => sweep'[s].cur = sweep[s].cur
      BY <1>u, <1>d DEF Goto, SweepState
    <2>2. SweepPlaced(s)'
      BY <1>0, <1>t, <1>d, <2>1 DEF PlacedInv, SweepPlaced
    <2> QED BY <1>c, <2>1, <2>2
  <1>e. ASSUME UNCHANGED calls PROVE CallsPlaced'
    BY <1>a, <1>e
  <1>f. ASSUME UNCHANGED peers PROVE LivePlaced'
    BY <1>b, <1>f DEF NoNewLive
  <1>g. ASSUME UNCHANGED sweep PROVE \A s \in Sweeps : SweepPlaced(s)'
    BY <1>c, <1>g
  <1>h. ASSUME NEW p \in PeerIds, \A q \in PeerIds \ {p} : peers'[q] = peers[q], Placed(p)'
        PROVE  LivePlaced'
    BY <1>0, <1>h DEF PlacedInv, LivePlaced, LivePeers
  <1>i. ASSUME NEW o \in OpIds, NEW by, NEW kind, NEW p, NEW row,
               Begin(o, by, kind, p, row), Placed(p)'
        PROVE  CallsPlaced'
    <2>1. \A c \in calls' : c \in calls \/ c.peer = p
      BY <1>0, <1>i, BeginKept
    <2> QED BY <1>0, <1>t, <1>i, <2>1 DEF PlacedInv, CallsPlaced
  <1>j. ASSUME NEW c \in calls, NEW os, Finalize(c, os) PROVE LivePlaced' /\ CallsPlaced'
    <2>1. Placed(c.peer)'
      BY <1>0, <1>t DEF PlacedInv, CallsPlaced
    <2>2. \A q \in PeerIds \ {c.peer} : peers'[q] = peers[q]
      BY <1>0, <1>j DEF Finalize, TypeOK
    <2>3. calls' \subseteq calls
      BY <1>j DEF Finalize
    <2> QED BY <1>a, <1>h, <1>t, <2>1, <2>2, <2>3
  <1>1. ASSUME NEW d \in Devices, NEW o \in OpIds, NEW k \in Keys, Reconnect(d, k, o)
        PROVE  PlacedInv'
    <2>1. PICK p \in LivePeers : /\ \A q \in PeerIds \ {p} : peers'[q] = peers[q]
                                 /\ \E row : Begin(o, "api", "provision", p, row)
      BY <1>0, <1>1 DEF Reconnect, LiveOf, TypeOK
    <2>2. p \in PeerIds /\ Placed(p)'
      BY <1>0 DEF PlacedInv, LivePlaced, LivePeers
    <2> QED BY <1>1, <1>g, <1>h, <1>i, <2>1, <2>2 DEF Reconnect, PlacedInv
  <1>2. ASSUME NEW d \in Devices, NEW o \in OpIds, NEW k \in Keys, RequestPeer(d, k, o)
        PROVE  PlacedInv'
    <2>1. PICK p \in PeerIds, a \in Addresses :
            /\ AllocateAddress(a)
            /\ peers' = [peers EXCEPT ![p] =
                           [state |-> "applying", device |-> d, key |-> k, addr |-> a]]
            /\ \E row : Begin(o, "api", "provision", p, row)
      BY <1>2, Zenon DEF RequestPeer
    <2>2. Placed(p)'
      <3>1. a \in 1..Capacity
        BY <1>2, <2>1, LowestIsPlaced DEF RequestPeer
      <3> QED BY <1>0, <2>1, <3>1, Zenon DEF Placed, TypeOK
    <2>3. \A q \in PeerIds \ {p} : peers'[q] = peers[q]
      BY <1>0, <2>1 DEF TypeOK
    <2> QED BY <1>2, <1>g, <1>h, <1>i, <2>1, <2>2, <2>3 DEF RequestPeer, PlacedInv
  <1>3. ASSUME NEW d \in Devices, NEW o \in OpIds, RevokePeer(d, o) PROVE PlacedInv'
    <2>1. LivePlaced'
      BY <1>0, <1>3, <1>b, RevokeNoNewLive
    <2>2. PICK p \in LivePeers : \E row : Begin(o, "api", "revoke", p, row)
      BY <1>3 DEF RevokePeer, LiveOf
    <2>3. Placed(p)'
      BY <1>0 DEF PlacedInv, LivePlaced, LivePeers
    <2> QED BY <1>3, <1>g, <1>i, <2>1, <2>2, <2>3 DEF RevokePeer, PlacedInv
  <1>4. ASSUME NEW d \in Devices,
               Logout(d) \/ RevokeDevice(d) \/ CutOff(d) \/ Lapse(d) \/ Renew(d)
        PROVE  PlacedInv'
    <2>1. LivePlaced'
      BY <1>0, <1>4, <1>b, <1>f, MarkNoNewLive DEF Logout, RevokeDevice, CutOff, Lapse, Renew
    <2> QED BY <1>4, <1>e, <1>g, <2>1 DEF Logout, RevokeDevice, CutOff, Lapse, Renew, PlacedInv
  <1>5. CASE EnforceAccessExpiry \/ Reboot \/ UNCHANGED vars
    <2>1. LivePlaced'
      BY <1>0, <1>5, <1>b, <1>f, MarkNoNewLive DEF EnforceAccessExpiry, Reboot, vars
    <2> QED BY <1>5, <1>e, <1>g, <2>1 DEF EnforceAccessExpiry, Reboot, vars, PlacedInv
  <1>6. ASSUME NEW c \in calls,
               \/ AgentReplays(c) \/ AgentApplies(c) \/ AgentFails(c) \/ AgentErrors(c)
               \/ Unreachable(c) \/ HandlerGivesUp(c)
        PROVE  PlacedInv'
    <2>1. CallsPlaced'
      BY <1>0, <1>6, <1>a, CallsKept, Zenon DEF AgentReplays, AgentApplies, AgentFails, AgentErrors,
                                         Unreachable, HandlerGivesUp
    <2> QED BY <1>6, <1>f, <1>g, <2>1 DEF AgentReplays, AgentApplies, AgentFails, AgentErrors,
                                          Unreachable, HandlerGivesUp, PlacedInv
  <1>7. ASSUME NEW c \in calls, HandlerFinalizes(c) PROVE PlacedInv'
    BY <1>7, <1>g, <1>j DEF HandlerFinalizes, PlacedInv
  <1>8. ASSUME NEW s \in Sweeps, SweepBegin(s) \/ SweepEnds(s) PROVE PlacedInv'
    <2>1. LivePlaced'
      BY <1>0, <1>8, <1>b, <1>f, MarkNoNewLive DEF SweepBegin, SweepEnds
    <2>2. \A r \in Sweeps : SweepPlaced(r)'
      BY <1>8, <1>d DEF SweepBegin, SweepEnds
    <2> QED BY <1>8, <1>e, <2>1, <2>2 DEF SweepBegin, SweepEnds, PlacedInv
  <1>9. ASSUME NEW s \in Sweeps, SweepSelect(s) PROVE PlacedInv'
    <2>1. /\ \A r \in Sweeps \ {s} : sweep'[r] = sweep[r]
          /\ sweep'[s].pc = "loop" /\ \A t \in sweep'[s].todo : t.peer \in LivePeers
      <3> DEFINE Copy(p) == [peer |-> p, state |-> peers[p].state, key |-> peers[p].key,
                             addr |-> peers[p].addr]
      <3>0. PICK ps \in Batches :
              sweep' = [sweep EXCEPT ![s] = [pc |-> "loop", cur |-> Nil,
                                             todo |-> {Copy(p) : p \in ps}]]
        BY <1>9, Zenon DEF SweepSelect
      <3> DEFINE copies == {Copy(p) : p \in ps}
      <3>1. \A t \in copies : t.peer \in LivePeers
        <4>1. ps \subseteq LivePeers
          BY Zenon DEF Batches
        <4> QED BY <4>1
      <3>2. sweep' = [sweep EXCEPT ![s] = [pc |-> "loop", cur |-> Nil, todo |-> copies]]
        BY <3>0
      <3> HIDE DEF copies
      <3>3. /\ \A r \in Sweeps \ {s} : sweep'[r] = sweep[r]
            /\ sweep'[s] = [pc |-> "loop", cur |-> Nil, todo |-> copies]
        BY <1>u, <3>2
      <3> QED BY <3>1, <3>3
    <2>2. SweepPlaced(s)'
      BY <1>0, <2>1 DEF PlacedInv, LivePlaced, SweepPlaced, LivePeers
    <2> QED BY <1>9, <1>c, <1>e, <1>f, <2>1, <2>2, Zenon DEF SweepSelect, PlacedInv
  <1>10. ASSUME NEW s \in Sweeps, SweepCheck(s) PROVE PlacedInv'
    <2>1. PICK t \in sweep[s].todo :
            sweep' = [sweep EXCEPT ![s] = [pc |-> Decision(t), todo |-> @.todo \ {t},
                                           cur |-> IF Decision(t) = "loop" THEN Nil ELSE t]]
      BY <1>10, Zenon DEF SweepCheck
    <2>2. /\ \A r \in Sweeps \ {s} : sweep'[r] = sweep[r]
          /\ sweep'[s].todo \subseteq sweep[s].todo
          /\ sweep'[s].pc # "loop" => sweep'[s].cur = t
      BY <1>u, <2>1
    <2>3. SweepPlaced(s)'
      BY <1>0, <1>t, <2>1, <2>2 DEF PlacedInv, SweepPlaced
    <2> QED BY <1>10, <1>c, <1>e, <1>f, <2>2, <2>3 DEF SweepCheck, PlacedInv
  <1>11. ASSUME NEW s \in Sweeps, SweepSkips(s) PROVE PlacedInv'
    <2>1. PICK t \in sweep[s].todo : sweep' = [sweep EXCEPT ![s].todo = @ \ {t}]
      BY <1>11, Zenon DEF SweepSkips
    <2>2. /\ \A r \in Sweeps \ {s} : sweep'[r] = sweep[r]
          /\ sweep'[s].todo \subseteq sweep[s].todo
          /\ sweep'[s].pc = sweep[s].pc /\ sweep'[s].cur = sweep[s].cur
      BY <1>u, <2>1 DEF SweepState
    <2>3. SweepPlaced(s)'
      BY <1>0, <1>t, <2>2 DEF PlacedInv, SweepPlaced
    <2> QED BY <1>11, <1>c, <1>e, <1>f, <2>2, <2>3 DEF SweepSkips, PlacedInv
  <1>12. ASSUME NEW s \in Sweeps, SweepDies(s) PROVE PlacedInv'
    <2>1. \A r \in Sweeps \ {s} : sweep'[r] = sweep[r]
      BY <1>12, <1>u DEF SweepDies
    <2>2. SweepPlaced(s)'
      BY <1>12, <1>u DEF SweepDies, SweepPlaced, Resting
    <2>3. CallsPlaced'
      BY <1>0, <1>12, <1>a, <1>e, CallsKept DEF SweepDies
    <2> QED BY <1>12, <1>c, <1>f, <2>1, <2>2, <2>3 DEF SweepDies, PlacedInv
  <1>13. ASSUME NEW s \in Sweeps, SweepRecovers(s) PROVE PlacedInv'
    <2>1. LivePlaced'
      BY <1>13, <1>b, RecoverNoNewLive
    <2>2. \A r \in Sweeps : SweepPlaced(r)'
      BY <1>13, <1>d DEF SweepRecovers
    <2> QED BY <1>13, <1>e, <2>1, <2>2 DEF SweepRecovers, PlacedInv
  <1>14. ASSUME NEW s \in Sweeps, SweepRepairs(s) PROVE PlacedInv'
    <2>1. At(s, "repair") /\ UNCHANGED peers /\ Goto(s, "calling")
      BY <1>14 DEF SweepRepairs
    <2> PICK p : p = sweep[s].cur.peer
      OBVIOUS
    <2>2. Placed(p)'
      BY <1>0, <1>t, <2>1 DEF PlacedInv, SweepPlaced, At
    <2>3. CallsPlaced'
      <3>1. CASE \E o \in OpIds : \E kind, row : Begin(o, s, kind, p, row)
        BY <1>i, <2>2, <3>1
      <3>2. CASE \E m : m.peer = p /\ calls' = calls \cup {m}
        BY <1>0, <1>t, <2>2, <3>2 DEF PlacedInv, CallsPlaced
      <3> QED BY <1>14, <3>1, <3>2, Zenon DEF SweepRepairs
    <2>4. \A r \in Sweeps : SweepPlaced(r)'
      BY <1>d, <2>1 DEF At
    <2> QED BY <1>f, <2>1, <2>3, <2>4 DEF PlacedInv
  <1>15. ASSUME NEW s \in Sweeps, SweepFinalizes(s) PROVE PlacedInv'
    <2>1. LivePlaced' /\ CallsPlaced'
      BY <1>15, <1>j DEF SweepFinalizes
    <2>2. \A r \in Sweeps : SweepPlaced(r)'
      BY <1>15, <1>d DEF SweepFinalizes
    <2> QED BY <2>1, <2>2 DEF PlacedInv
  <1>16. ASSUME NEW s \in Sweeps, SweepGivesUp(s) PROVE PlacedInv'
    <2>1. CallsPlaced'
      BY <1>0, <1>16, <1>a, CallsKept DEF SweepGivesUp
    <2>2. \A r \in Sweeps : SweepPlaced(r)'
      BY <1>16, <1>d DEF SweepGivesUp
    <2> QED BY <1>16, <1>f, <2>1, <2>2 DEF SweepGivesUp, PlacedInv
  <1> QED
    BY <1>1, <1>2, <1>3, <1>4, <1>5, <1>6, <1>7, <1>8, <1>9, <1>10, <1>11, <1>12, <1>13, <1>14,
       <1>15, <1>16
    DEF Next, SweepStep, AgentRuns, HandlerEnds

-----------------------------------------------------------------------------
\* The live peers never outnumber the capacity _require_capacity admits, even
\* though the finalizers put dead rows back into service without asking again.
THEOREM CapacityIsRespected == Spec => []CapacityRespected
  <1>1. Init => PlacedInv
    <2>1. Init => LivePlaced
      BY DEF Init, LivePlaced, LivePeers, Live, NoPeer
    <2>2. Init => CallsPlaced
      BY DEF Init, CallsPlaced
    <2>3. Init => \A s \in Sweeps : SweepPlaced(s)
      <3>1. Resting.todo = {} /\ Resting.pc = "idle"
        BY DEF Resting
      <3>2. Init => \A s \in Sweeps : sweep[s] = Resting
        BY DEF Init
      <3> QED BY <3>1, <3>2 DEF SweepPlaced
    <2> QED BY <2>1, <2>2, <2>3 DEF PlacedInv
  <1>2. Spec => []PlacedInv
    BY <1>1, NextPlaced, Invariance, PTL DEF Spec
  <1>3. IInv /\ PlacedInv => CapacityRespected
    BY PlacedBound DEF CapacityRespected
  <1> QED BY <1>2, <1>3, Invariance, PTL
=============================================================================
