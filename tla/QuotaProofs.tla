----------------------------- MODULE QuotaProofs -----------------------------
(***************************************************************************)
(* The cut-off of an account, proved for any number of sweeps and grants:  *)
(* what _cut_off's second look at quota_exhausted_at is for.               *)
(***************************************************************************)
EXTENDS Quota, FiniteSetTheorems, TLAPS

\* What the proof needs of the types: the mark is a flag, the audit log counts, and
\* a grant is carried out at most once.
TypeInv ==
    /\ total \in Nat
    /\ user \in [quota : Allowances, baseline : Nat, mark : BOOLEAN]
    /\ cuts \in Nat
    /\ grant \in [Grants -> [pc : {"idle", "read", "done"}, quota : Allowances, before : Nat]]

Done == {g \in Grants : grant[g].pc = "done"}

IInv == TypeInv /\ OneCutPerAllowance

\* A commit adds its grant to the ones carried out, which are finitely many.
LEMMA DoneGrows ==
    ASSUME IsFiniteSet(Grants), TypeInv, NEW g \in Grants, GrantCommit(g)
    PROVE  Cardinality(Done') = Cardinality(Done) + 1
<1>1. Done' = Done \cup {g}
    BY DEF TypeInv, GrantCommit, Done
<1>2. g \notin Done
    BY DEF GrantCommit, Done
<1>3. IsFiniteSet(Done)
    BY FS_Subset DEF Done
<1>. QED
    BY <1>1, <1>2, <1>3, FS_AddElement

\* The number of grants carried out is a natural number.
LEMMA DoneCounts ==
    ASSUME IsFiniteSet(Grants)
    PROVE  Cardinality(Done) \in Nat
BY FS_Subset, FS_CardinalityType DEF Done

\* The first users row and grants meet the invariant: nothing was cut off.
LEMMA InitCuts ==
    ASSUME IsFiniteSet(Grants), Init
    PROVE  IInv
<1>1. TypeInv
    <2>1. total \in Nat /\ cuts \in Nat
        BY DEF Init
    <2>2. user \in [quota : Allowances, baseline : Nat, mark : BOOLEAN]
        <3>1. PICK q \in Allowances : user = [quota |-> q, baseline |-> 0, mark |-> FALSE]
            BY DEF Init
        <3>. QED
            BY <3>1
    <2>3. ASSUME NEW g \in Grants
          PROVE  grant[g] \in [pc : {"idle", "read", "done"}, quota : Allowances, before : Nat]
        <3>1. PICK q \in Allowances : grant[g] = [pc |-> "idle", quota |-> q, before |-> 0]
            BY DEF Init
        <3>. QED
            BY <3>1
    <2>4. grant = [g \in Grants |-> grant[g]]
        BY DEF Init
    <2>. QED
        BY <2>1, <2>2, <2>3, <2>4 DEF TypeInv
<1>2. OneCutPerAllowance
    BY DoneCounts DEF Init, OneCutPerAllowance, Done
<1>. QED
    BY <1>1, <1>2 DEF IInv

\* Every step keeps the count of cut-offs within the allowances held.
LEMMA NextCuts ==
    ASSUME IsFiniteSet(Grants), IInv, [Next]_vars
    PROVE  IInv'
<1>. USE DEF IInv
<1>0. Cardinality(Done) \in Nat /\ cuts <= Cardinality(Done) + (IF user.mark THEN 1 ELSE 0)
    BY DoneCounts DEF OneCutPerAllowance, Done
<1>1. CASE RecordTraffic \/ Admit \/ Insert \/ Remove
    BY <1>1 DEF RecordTraffic, Admit, Insert, Remove, TypeInv, OneCutPerAllowance
<1>2. ASSUME NEW s \in Sweeps, List(s) \/ ReadUser(s) \/ Measure(s)
      PROVE  IInv'
    BY <1>2 DEF List, ReadUser, Measure, TypeInv, OneCutPerAllowance
<1>3. ASSUME NEW s \in Sweeps, CutOff(s)
      PROVE  IInv'
    <2>1. CASE user.mark
        BY <1>3, <2>1 DEF CutOff, TypeInv, OneCutPerAllowance
    <2>2. CASE ~user.mark
        <3>1. cuts' = cuts + 1 /\ user' = [user EXCEPT !.mark = TRUE] /\ UNCHANGED <<grant, total>>
            BY <1>3, <2>2 DEF CutOff, TypeInv
        <3>2. TypeInv'
            <4>1. user' \in [quota : Allowances, baseline : Nat, mark : BOOLEAN]
                BY <3>1 DEF TypeInv
            <4>. QED
                BY <3>1, <4>1 DEF TypeInv
        <3>5. user'.mark
            BY <3>1 DEF TypeInv
        <3>3. Done' = Done
            BY <3>1 DEF Done
        <3>4. cuts' <= Cardinality(Done') + 1
            BY <1>0, <2>2, <3>1, <3>3 DEF TypeInv
        <3>. QED
            BY <3>2, <3>4, <3>5 DEF OneCutPerAllowance, Done
    <2>. QED
        BY <2>1, <2>2
<1>4. ASSUME NEW g \in Grants, GrantRead(g)
      PROVE  IInv'
    <2>1. TypeInv'
        BY <1>4 DEF GrantRead, TypeInv
    <2>2. Done' = Done /\ UNCHANGED <<user, cuts>>
        BY <1>4 DEF GrantRead, TypeInv, Done
    <2>. QED
        BY <1>0, <2>1, <2>2 DEF OneCutPerAllowance, Done
<1>5. ASSUME NEW g \in Grants, GrantCommit(g)
      PROVE  IInv'
    <2>1. TypeInv'
        BY <1>5 DEF GrantCommit, TypeInv
    <2>2. Cardinality(Done') = Cardinality(Done) + 1
        BY <1>5, DoneGrows
    <2>3. cuts' = cuts /\ ~user'.mark
        BY <1>5 DEF GrantCommit
    <2>4. cuts' <= Cardinality(Done')
        BY <1>0, <2>2, <2>3 DEF TypeInv
    <2>. QED
        BY <1>0, <2>1, <2>2, <2>3, <2>4 DEF OneCutPerAllowance, Done
<1>6. CASE UNCHANGED vars
    BY <1>6 DEF vars, TypeInv, OneCutPerAllowance
<1>. QED
    BY <1>1, <1>2, <1>3, <1>4, <1>5, <1>6 DEF Next, SweepStep

\* Sweeps that race for one account cut it off at most once per allowance it has
\* held, however many sweeps and grants there are (enforcement.py, _cut_off).
THEOREM OneCutEach ==
    ASSUME IsFiniteSet(Grants)
    PROVE  Spec => []OneCutPerAllowance
<1>1. Init => IInv
    BY InitCuts
<1>2. IInv /\ [Next]_vars => IInv'
    BY NextCuts
<1>3. IInv => OneCutPerAllowance
    BY DEF IInv
<1>. QED
    BY <1>1, <1>2, <1>3, PTL DEF Spec
=============================================================================
