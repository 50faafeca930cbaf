----------------------------- MODULE UsageProofs -----------------------------
(***************************************************************************)
(* No byte of a credential's traffic is counted twice, proved for any      *)
(* number of polls, changes, restarts and faults.  The argument gives each *)
(* reading that was taken and not yet recorded the number of bytes really  *)
(* served when it was taken: what recording it would add to the total was  *)
(* served between the row's last reading and it.                           *)
(***************************************************************************)
EXTENDS UsageLedger, FiniteSetTheorems, TLAPS

\* A counter is a number, or not listed; tasks are finitely many.
Setting == Nil \notin Nat /\ IsFiniteSet(Tasks)

Taken == {"polled", "recording", "recording after", "forgetting"}
Stages == Reading \cup Taken \cup {"idle", "changing", "changing unread"}
InHand == {t \in Tasks : pc[t] \in Taken}

\* A client that is not listed has served nothing since its process started.
Count(c) == IF c = Nil THEN 0 ELSE c

Rows == [total: Nat, last: Nat, at: Nat]
Types ==
    /\ served \in Nat /\ counter \in Nat \cup {Nil}
    /\ row \in Rows
    /\ pc \in [Tasks -> Stages]
    /\ at \in [Tasks -> Nat]
    /\ val \in [Tasks -> Nat \cup {Nil}]
    /\ crossed \in BOOLEAN
    /\ \A t \in Tasks : at[t] # 0 <=> pc[t] \in Reading \cup Taken
    /\ \A t, u \in Tasks : at[t] = at[u] /\ at[t] # 0 => t = u

\* Whoever still waits for its reading asked for it after every reading taken so far.
Later == \A t \in Tasks : pc[t] \in Reading => row.at < at[t] /\ \A u \in InHand : at[u] < at[t]

\* The row's last reading was taken when b bytes had been served, that of t when s[t]
\* had: r is the row, a and v are the times and values of the readings in T, c is the
\* counter and n the bytes served by now.
Books(b, s, r, a, v, T, c, n) ==
    /\ r.total <= b
    /\ b + Delta(Count(c), r.last) <= n
    /\ \A t \in T : s[t] + Delta(Count(c), Count(v[t])) <= n
    /\ \A t \in T : r.at <= a[t] => b + Delta(Count(v[t]), r.last) <= s[t]
    /\ \A t, u \in T : a[t] < a[u] => s[t] + Delta(Count(v[u]), Count(v[t])) <= s[u]
Balanced == \E b \in Nat, s \in [Tasks -> Nat] : Books(b, s, row, at, val, InHand, counter, served)

IInv == Types /\ (~crossed => Later /\ Balanced)

-----------------------------------------------------------------------------
(* Ranks *)

\* Finitely many times are in use.
LEMMA InUseFinite ==
    ASSUME Setting, Types
    PROVE  IsFiniteSet(InUse) /\ InUse \subseteq Nat \ {0}
<1>1. at \in Surjection(Tasks, {at[t] : t \in Tasks})
    BY DEF Types, Surjection
<1>2. IsFiniteSet({at[t] : t \in Tasks})
    BY <1>1, FS_Surjection DEF Setting
<1>3. IsFiniteSet({row.at} \cup {at[t] : t \in Tasks})
    BY <1>2, FS_Singleton, FS_Union
<1>. QED
    BY <1>3, FS_Subset DEF InUse, Types, Rows

\* Ranking keeps the order of the times in use, and 0 for no time.
LEMMA RankOrder ==
    ASSUME Setting, Types, NEW x \in InUse \cup {0}, NEW y \in InUse \cup {0}
    PROVE  /\ Rank(x) \in Nat /\ Rank(x) <= Cardinality(InUse) /\ Cardinality(InUse) \in Nat
           /\ x < y => Rank(x) < Rank(y)
           /\ x = 0 => Rank(x) = 0
<1>. DEFINE Upto(z) == {u \in InUse : u <= z}
<1>1. IsFiniteSet(InUse) /\ InUse \subseteq Nat \ {0} /\ Cardinality(InUse) \in Nat
    BY InUseFinite, FS_CardinalityType
<1>0. \A u \in InUse : u \in Nat /\ u > 0
    BY <1>1
<1>2. Upto(x) \subseteq InUse /\ Upto(y) \subseteq InUse
    OBVIOUS
<1>3. IsFiniteSet(Upto(x)) /\ IsFiniteSet(Upto(y)) /\ Cardinality(Upto(x)) <= Cardinality(InUse)
    BY <1>1, <1>2, FS_Subset
<1>4. Cardinality(Upto(x)) \in Nat /\ Cardinality(Upto(y)) \in Nat
    BY <1>3, FS_CardinalityType
<1>5. ASSUME x < y
      PROVE  Cardinality(Upto(x)) < Cardinality(Upto(y))
    <2>1. x \in Nat /\ y \in Nat /\ y \in InUse
        BY <1>1, <1>5
    <2>2. \A u \in InUse : u <= x => u <= y
        BY <1>0, <1>5, <2>1
    <2>3. Upto(x) \subseteq Upto(y)
        BY <2>2
    <2>4. y <= y /\ ~(y <= x)
        BY <1>5, <2>1
    <2>5. Upto(x) # Upto(y)
        BY <2>1, <2>4
    <2>6. /\ Cardinality(Upto(x)) <= Cardinality(Upto(y))
          /\ Cardinality(Upto(y)) = Cardinality(Upto(x)) => Upto(y) = Upto(x)
        BY <1>3, <2>3, FS_Subset
    <2>. QED
        BY <1>4, <2>5, <2>6
<1>6. x = 0 => Upto(x) = {}
    <2>1. \A u \in InUse : ~(u <= 0)
        BY <1>0
    <2>. QED
        BY <2>1
<1>7. x = 0 => Cardinality(Upto(x)) = 0
    BY <1>6, FS_EmptySet
<1>. QED
    BY <1>1, <1>3, <1>4, <1>5, <1>7 DEF Rank

-----------------------------------------------------------------------------
(* The books *)

\* What recording a reading adds is a number of bytes.
LEMMA DeltaIsNat ==
    ASSUME NEW x \in Nat, NEW y \in Nat
    PROVE  Delta(x, y) \in Nat
BY DEF Delta

\* So is a counter, listed or not.
LEMMA CountIsNat ==
    ASSUME NEW c \in Nat \cup {Nil}
    PROVE  Count(c) \in Nat
BY DEF Count

\* A byte that is served adds at most itself to any later reading.
LEMMA BooksServe ==
    ASSUME Setting, NEW b \in Nat, NEW s \in [Tasks -> Nat], NEW r \in Rows, NEW a \in [Tasks -> Nat],
           NEW v \in [Tasks -> Nat \cup {Nil}], NEW T \in SUBSET Tasks, NEW c \in Nat \cup {Nil}, NEW n \in Nat,
           Books(b, s, r, a, v, T, c, n)
    PROVE  Books(b, s, r, a, v, T, Count(c) + 1, n + 1)
<1>1. Count(c) \in Nat /\ Count(c) + 1 \in Nat /\ Count(Count(c) + 1) = Count(c) + 1
    BY CountIsNat DEF Count, Setting
<1>2. ASSUME NEW y \in Nat
      PROVE  Delta(Count(c) + 1, y) <= Delta(Count(c), y) + 1
    BY <1>1 DEF Delta
<1>3. \A t \in T : Count(v[t]) \in Nat /\ s[t] \in Nat
    BY CountIsNat
<1>4. b + Delta(Count(c) + 1, r.last) <= n + 1
    <2>1. r.last \in Nat
        BY DEF Rows
    <2>2. Delta(Count(c), r.last) \in Nat /\ Delta(Count(c) + 1, r.last) \in Nat
        BY <1>1, <2>1, DeltaIsNat
    <2>3. b + Delta(Count(c), r.last) <= n
        BY DEF Books
    <2>. QED
        BY <1>2, <2>1, <2>2, <2>3
<1>5. ASSUME NEW t \in T
      PROVE  s[t] + Delta(Count(c) + 1, Count(v[t])) <= n + 1
    <2>1. Delta(Count(c), Count(v[t])) \in Nat /\ Delta(Count(c) + 1, Count(v[t])) \in Nat
        BY <1>1, <1>3, DeltaIsNat
    <2>2. s[t] + Delta(Count(c), Count(v[t])) <= n
        BY DEF Books
    <2>. QED
        BY <1>2, <1>3, <2>1, <2>2
<1>. QED
    BY <1>1, <1>4, <1>5 DEF Books

\* A restart adds nothing.
LEMMA BooksRestart ==
    ASSUME Setting, NEW b \in Nat, NEW s \in [Tasks -> Nat], NEW r \in Rows, NEW a \in [Tasks -> Nat],
           NEW v \in [Tasks -> Nat \cup {Nil}], NEW T \in SUBSET Tasks, NEW c \in Nat \cup {Nil}, NEW n \in Nat,
           Books(b, s, r, a, v, T, c, n)
    PROVE  Books(b, s, r, a, v, T, Nil, n)
<1>1. Count(c) \in Nat /\ Count(Nil) = 0
    BY CountIsNat DEF Count
<1>2. ASSUME NEW y \in Nat, NEW z \in Nat, z + Delta(Count(c), y) <= n
      PROVE  z + Delta(0, y) <= n
    <2>1. Delta(0, y) = 0
        BY DEF Delta
    <2>2. Delta(Count(c), y) \in Nat
        BY <1>1, DeltaIsNat
    <2>. QED
        BY <1>2, <2>1, <2>2
<1>3. \A t \in T : Count(v[t]) \in Nat /\ s[t] \in Nat
    BY CountIsNat
<1>. QED
    BY <1>1, <1>2, <1>3 DEF Books, Rows

\* Readings may be given up, and tasks that hold none may change.
LEMMA BooksFewer ==
    ASSUME NEW b, NEW s, NEW r, NEW a, NEW v, NEW T, NEW c, NEW n, Books(b, s, r, a, v, T, c, n),
           NEW a2, NEW v2, NEW U \in SUBSET T, \A t \in U : a2[t] = a[t] /\ v2[t] = v[t]
    PROVE  Books(b, s, r, a2, v2, U, c, n)
BY DEF Books

\* Recording a reading that is not older than the row's.
LEMMA BooksApplied ==
    ASSUME Setting, NEW b \in Nat, NEW s \in [Tasks -> Nat], NEW r \in Rows, NEW a \in [Tasks -> Nat],
           NEW v \in [Tasks -> Nat \cup {Nil}], NEW T \in SUBSET Tasks, NEW c \in Nat \cup {Nil}, NEW n \in Nat,
           Books(b, s, r, a, v, T, c, n), NEW t \in T, \A u \in T : a[u] = a[t] => u = t
    PROVE  /\ Applied(r, a[t], v[t]) \in Rows
           /\ \E b2 \in Nat : Books(b2, s, Applied(r, a[t], v[t]), a, v, T, c, n)
<1>1. CASE v[t] = Nil \/ Older(a[t], r)
    BY <1>1 DEF Applied
<1>2. CASE ~(v[t] = Nil \/ Older(a[t], r))
    <2>. DEFINE new == [total |-> r.total + Delta(v[t], r.last), last |-> v[t], at |-> a[t]]
    <2>1. Applied(r, a[t], v[t]) = new
        BY <1>2 DEF Applied
    <2>2. v[t] \in Nat /\ Count(v[t]) = v[t] /\ r.at <= a[t] /\ r.total \in Nat /\ r.last \in Nat
        BY <1>2 DEF Older, Count, Rows
    <2>3. Delta(v[t], r.last) \in Nat
        BY <2>2, DeltaIsNat
    <2>4. new \in Rows
        BY <2>2, <2>3 DEF Rows
    <2>5. new.total = r.total + Delta(v[t], r.last) /\ new.last = v[t] /\ new.at = a[t]
        OBVIOUS
    <2>. HIDE DEF new
    <2>6. new.total <= s[t]
        <3>1. r.total <= b /\ b + Delta(v[t], r.last) <= s[t] /\ s[t] \in Nat
            BY <2>2 DEF Books
        <3>. QED
            BY <2>2, <2>3, <2>5, <3>1
    <2>7. s[t] + Delta(Count(c), new.last) <= n
        BY <2>2, <2>5 DEF Books
    <2>8. ASSUME NEW u \in T, new.at <= a[u]
          PROVE  s[t] + Delta(Count(v[u]), new.last) <= s[u]
        <3>1. CASE u = t
            <4>1. Delta(v[t], v[t]) = 0 /\ s[t] \in Nat
                BY <2>2 DEF Delta
            <4>. QED
                BY <2>2, <2>5, <3>1, <4>1
        <3>2. CASE u # t
            <4>1. a[t] < a[u]
                BY <2>5, <2>8, <3>2
            <4>. QED
                BY <2>2, <2>5, <4>1 DEF Books
        <3>. QED
            BY <3>1, <3>2
    <2>9. Books(s[t], s, new, a, v, T, c, n)
        BY <2>6, <2>7, <2>8 DEF Books
    <2>. QED
        BY <2>1, <2>4, <2>9
<1>. QED
    BY <1>1, <1>2

\* Forgetting the row's reading for one that found no client.
LEMMA BooksForgotten ==
    ASSUME Setting, NEW b \in Nat, NEW s \in [Tasks -> Nat], NEW r \in Rows, NEW a \in [Tasks -> Nat],
           NEW v \in [Tasks -> Nat \cup {Nil}], NEW T \in SUBSET Tasks, NEW c \in Nat \cup {Nil}, NEW n \in Nat,
           Books(b, s, r, a, v, T, c, n), NEW t \in T, v[t] = Nil, \A u \in T : a[u] = a[t] => u = t
    PROVE  /\ Forgotten(r, a[t]) \in Rows
           /\ \E b2 \in Nat : Books(b2, s, Forgotten(r, a[t]), a, v, T, c, n)
<1>1. CASE Older(a[t], r)
    BY <1>1 DEF Forgotten
<1>2. CASE ~Older(a[t], r)
    <2>. DEFINE new == [r EXCEPT !.last = 0, !.at = a[t]]
    <2>1. Forgotten(r, a[t]) = new
        BY <1>2 DEF Forgotten
    <2>2. Count(v[t]) = 0 /\ r.at <= a[t] /\ r.total \in Nat /\ r.last \in Nat
        BY <1>2 DEF Older, Count, Rows
    <2>3. new \in Rows /\ new.total = r.total /\ new.last = 0 /\ new.at = a[t]
        BY DEF Rows
    <2>. HIDE DEF new
    <2>4. Delta(0, r.last) \in Nat /\ Delta(0, 0) = 0 /\ s[t] \in Nat
        BY <2>2, DeltaIsNat DEF Delta
    <2>5. new.total <= s[t]
        <3>1. r.total <= b /\ b + Delta(0, r.last) <= s[t]
            BY <2>2 DEF Books
        <3>. QED
            BY <2>2, <2>3, <2>4, <3>1
    <2>6. s[t] + Delta(Count(c), new.last) <= n
        BY <2>2, <2>3 DEF Books
    <2>7. ASSUME NEW u \in T, new.at <= a[u]
          PROVE  s[t] + Delta(Count(v[u]), new.last) <= s[u]
        <3>1. CASE u = t
            BY <2>2, <2>3, <2>4, <3>1
        <3>2. CASE u # t
            <4>1. a[t] < a[u]
                BY <2>3, <2>7, <3>2
            <4>. QED
                BY <2>2, <2>3, <4>1 DEF Books
        <3>. QED
            BY <3>1, <3>2
    <2>8. Books(s[t], s, new, a, v, T, c, n)
        BY <2>5, <2>6, <2>7 DEF Books
    <2>. QED
        BY <2>1, <2>3, <2>4, <2>8
<1>. QED
    BY <1>1, <1>2

\* A reading asked for after all the others is taken.
LEMMA BooksTaken ==
    ASSUME Setting, NEW b \in Nat, NEW s \in [Tasks -> Nat], NEW r \in Rows, NEW a \in [Tasks -> Nat],
           NEW v \in [Tasks -> Nat \cup {Nil}], NEW T \in SUBSET Tasks, NEW c \in Nat \cup {Nil}, NEW n \in Nat,
           Books(b, s, r, a, v, T, c, n), NEW t \in Tasks \ T, \A u \in T : a[u] < a[t]
    PROVE  Books(b, [s EXCEPT ![t] = n], r, a, [v EXCEPT ![t] = c], T \cup {t}, c, n)
<1>. DEFINE s2 == [s EXCEPT ![t] = n]
            v2 == [v EXCEPT ![t] = c]
<1>1. s2[t] = n /\ v2[t] = c /\ \A u \in T : s2[u] = s[u] /\ v2[u] = v[u]
    OBVIOUS
<1>. HIDE DEF s2, v2
<1>2. Count(c) \in Nat /\ Delta(Count(c), Count(c)) = 0
    BY CountIsNat DEF Delta
<1>3. \A u \in T \cup {t} : s2[u] + Delta(Count(c), Count(v2[u])) <= n
    BY <1>1, <1>2 DEF Books
<1>4. \A u \in T \cup {t} : r.at <= a[u] => b + Delta(Count(v2[u]), r.last) <= s2[u]
    BY <1>1 DEF Books
<1>5. ASSUME NEW u \in T \cup {t}, NEW w \in T \cup {t}, a[u] < a[w]
      PROVE  s2[u] + Delta(Count(v2[w]), Count(v2[u])) <= s2[w]
    <2>1. u # t
        <3>1. SUFFICES ASSUME u = t
                       PROVE  FALSE
            OBVIOUS
        <3>2. a[w] <= a[t] /\ a[t] \in Nat /\ a[w] \in Nat
            OBVIOUS
        <3>. QED
            BY <1>5, <3>1, <3>2
    <2>2. CASE w = t
        BY <1>1, <2>1, <2>2 DEF Books
    <2>3. CASE w # t
        BY <1>1, <1>5, <2>1, <2>3 DEF Books
    <2>. QED
        BY <2>2, <2>3
<1>6. r.total <= b /\ b + Delta(Count(c), r.last) <= n
    BY DEF Books
<1>7. Books(b, s2, r, a, v2, T \cup {t}, c, n)
    BY <1>3, <1>4, <1>5, <1>6 DEF Books
<1>. QED
    BY <1>7 DEF s2, v2

\* Only the order of the times matters.
LEMMA BooksRanked ==
    ASSUME NEW b, NEW s, NEW r, NEW a, NEW v, NEW T, NEW c, NEW n, Books(b, s, r, a, v, T, c, n),
           NEW r2, NEW a2, r2.total = r.total, r2.last = r.last,
           \A t \in T : r2.at <= a2[t] => r.at <= a[t],
           \A t, u \in T : a2[t] < a2[u] => a[t] < a[u]
    PROVE  Books(b, s, r2, a2, v, T, c, n)
BY DEF Books

-----------------------------------------------------------------------------
(* The steps, by what they do to the readings *)

Others(t) == \A u \in Tasks \ {t} : pc'[u] = pc[u] /\ at'[u] = at[u] /\ val'[u] = val[u]
Tables == pc' \in [Tasks -> Stages] /\ at' \in [Tasks -> Nat] /\ val' \in [Tasks -> Nat \cup {Nil}]
MayRestart == counter' \in {counter, Nil}

\* A reading is asked for.
Asks(t) ==
    /\ pc[t] \notin Taken /\ pc'[t] \in Reading
    /\ Ask(t, pc'[t])
    /\ MayRestart /\ UNCHANGED <<val, served, crossed>>

\* It is taken.
Takes(t) ==
    /\ pc[t] \in Reading /\ pc'[t] \in Taken
    /\ Others(t) /\ Tables /\ Found(t)
    /\ UNCHANGED <<at, row, counter, served>>

\* It is recorded, and kept or let go; or it is let go without.
Folds(t) ==
    \/ row' = row
    \/ pc[t] \in Taken /\ row' = Applied(row, at[t], val[t])
    \/ pc[t] \in Taken /\ val[t] = Nil /\ row' = Forgotten(row, at[t])
Keeps(t) ==
    /\ pc[t] \in Taken /\ pc'[t] \in Taken
    /\ Others(t) /\ Tables /\ Folds(t)
    /\ UNCHANGED <<at, val, counter, served, crossed>>
Leaves(t) ==
    /\ pc'[t] \notin Reading \cup Taken /\ at'[t] = 0
    /\ Others(t) /\ Tables /\ Folds(t)
    /\ MayRestart /\ UNCHANGED <<served, crossed>>

\* Every step of a poll or of a change is of one of these kinds.
LEMMA StepKinds ==
    ASSUME Types, NEW t \in Tasks, PollStep(t) \/ ChangeStep(t)
    PROVE  Asks(t) \/ Takes(t) \/ Keeps(t) \/ Leaves(t)
<1>. USE DEF Stages, Reading, Taken
<1>1. CASE Poll(t) \/ Before(t)
    <2>1. pc[t] \notin Taken /\ pc'[t] \in Reading /\ Ask(t, pc'[t])
        BY <1>1 DEF Poll, Before, Ask, Types
    <2>. QED
        BY <1>1, <2>1 DEF Poll, Before, Asks, MayRestart
<1>2. CASE PollRead(t) \/ BeforeRead(t) \/ AfterRead(t)
    <2>1. pc[t] \in Reading /\ pc'[t] \in Taken /\ Found(t) /\ UNCHANGED <<at, row, counter, served>>
        BY <1>2 DEF PollRead, BeforeRead, AfterRead, Types
    <2>2. Others(t) /\ Tables
        BY <1>2 DEF PollRead, BeforeRead, AfterRead, Found, Types, Others, Tables
    <2>. QED
        BY <2>1, <2>2 DEF Takes
<1>3. CASE PollRecord(t) \/ PollFails(t) \/ ChangeUnreachable(t) \/ Forget(t)
    <2>1. Rest(t) /\ UNCHANGED <<served, crossed, counter>> /\ Folds(t)
        BY <1>3 DEF PollRecord, PollFails, ChangeUnreachable, Forget, Folds
    <2>2. pc'[t] \notin Reading \cup Taken /\ at'[t] = 0 /\ Others(t) /\ Tables
        BY <2>1 DEF Rest, Types, Others, Tables
    <2>. QED
        BY <2>1, <2>2 DEF Leaves, MayRestart
<1>4. CASE BeforeFails(t) \/ BeforeRecord(t)
    <2>1. UNCHANGED <<served, crossed, counter>> /\ Folds(t)
        BY <1>4 DEF BeforeFails, BeforeRecord, Folds
    <2>2. pc'[t] \notin Reading \cup Taken /\ at'[t] = 0 /\ Others(t) /\ Tables
        <3>1. CASE BeforeFails(t)
            BY <3>1 DEF BeforeFails, Types, Others, Tables
        <3>2. CASE BeforeRecord(t)
            BY <3>2 DEF BeforeRecord, Types, Others, Tables
        <3>. QED
            BY <1>4, <3>1, <3>2
    <2>. QED
        BY <2>1, <2>2 DEF Leaves, MayRestart
<1>5. CASE Change(t)
    <2>1. MayRestart /\ UNCHANGED <<served, crossed>>
        BY <1>5 DEF Change, MayRestart
    <2>2. CASE pc[t] = "changing"
        <3>1. pc'[t] \in Reading /\ Ask(t, pc'[t]) /\ UNCHANGED val
            BY <1>5, <2>2 DEF Change, Ask, Types
        <3>. QED
            BY <2>1, <2>2, <3>1 DEF Asks
    <2>3. CASE pc[t] # "changing"
        <3>1. Rest(t) /\ UNCHANGED row
            BY <1>5, <2>3 DEF Change
        <3>2. pc'[t] \notin Reading \cup Taken /\ at'[t] = 0 /\ Others(t) /\ Tables
            BY <3>1 DEF Rest, Types, Others, Tables
        <3>. QED
            BY <2>1, <3>1, <3>2 DEF Leaves, Folds
    <2>. QED
        BY <2>2, <2>3
<1>6. CASE AfterSilent(t)
    <2>1. UNCHANGED <<served, crossed, counter>> /\ pc[t] = "after"
        BY <1>6 DEF AfterSilent
    <2>2. CASE Ask(t, "after") /\ UNCHANGED <<val, had>>
        <3>1. pc'[t] = "after"
            BY <2>2 DEF Ask, Types
        <3>. QED
            BY <2>1, <2>2, <3>1 DEF Asks, MayRestart
    <2>3. CASE Rest(t) /\ UNCHANGED row
        <3>1. pc'[t] \notin Reading \cup Taken /\ at'[t] = 0 /\ Others(t) /\ Tables
            BY <2>3 DEF Rest, Types, Others, Tables
        <3>. QED
            BY <2>1, <2>3, <3>1 DEF Leaves, Folds, MayRestart
    <2>. QED
        BY <1>6, <2>2, <2>3 DEF AfterSilent
<1>7. CASE AfterRecord(t)
    <2>1. pc[t] \in Taken /\ pc'[t] \in Taken /\ Folds(t) /\ UNCHANGED <<at, val, counter, served, crossed>>
        BY <1>7 DEF AfterRecord, Types, Folds
    <2>2. Others(t) /\ Tables
        BY <1>7 DEF AfterRecord, Types, Others, Tables
    <2>. QED
        BY <2>1, <2>2 DEF Keeps
<1>. QED
    BY <1>1, <1>2, <1>3, <1>4, <1>5, <1>6, <1>7 DEF PollStep, ChangeStep

\* Recording and forgetting make a row of a row.
LEMMA FoldTypes ==
    ASSUME Types, NEW t \in Tasks, Folds(t)
    PROVE  row' \in Rows
<1>1. ASSUME row' = Applied(row, at[t], val[t])
      PROVE  row' \in Rows
    <2>1. CASE val[t] = Nil \/ Older(at[t], row)
        BY <1>1, <2>1 DEF Applied, Types
    <2>2. CASE ~(val[t] = Nil \/ Older(at[t], row))
        <3>1. val[t] \in Nat /\ at[t] \in Nat /\ row.total \in Nat /\ row.last \in Nat
            BY <2>2 DEF Types, Rows
        <3>2. Delta(val[t], row.last) \in Nat
            BY <3>1, DeltaIsNat
        <3>3. row.total + Delta(val[t], row.last) \in Nat
            BY <3>1, <3>2
        <3>. QED
            BY <1>1, <2>2, <3>1, <3>3 DEF Applied, Rows
    <2>. QED
        BY <2>1, <2>2
<1>2. ASSUME row' = Forgotten(row, at[t])
      PROVE  row' \in Rows
    BY <1>2 DEF Forgotten, Types, Rows
<1>. QED
    BY <1>1, <1>2 DEF Folds, Types

\* What recording and forgetting do to the books.
LEMMA FoldBooks ==
    ASSUME Setting, Types, NEW t \in Tasks, Folds(t), Balanced
    PROVE  \E b \in Nat, s \in [Tasks -> Nat] : Books(b, s, row', at, val, InHand, counter, served)
<1>1. PICK b \in Nat, s \in [Tasks -> Nat] : Books(b, s, row, at, val, InHand, counter, served)
    BY DEF Balanced
<1>2. /\ row \in Rows /\ at \in [Tasks -> Nat] /\ val \in [Tasks -> Nat \cup {Nil}] /\ InHand \in SUBSET Tasks
      /\ counter \in Nat \cup {Nil} /\ served \in Nat
    BY DEF Types, InHand
<1>3. ASSUME pc[t] \in Taken
      PROVE  t \in InHand /\ \A u \in InHand : at[u] = at[t] => u = t
    BY <1>3 DEF Types, InHand
<1>4. CASE row' = row
    BY <1>1, <1>4
<1>5. CASE pc[t] \in Taken /\ row' = Applied(row, at[t], val[t])
    <2>1. \E b2 \in Nat : Books(b2, s, Applied(row, at[t], val[t]), at, val, InHand, counter, served)
        BY <1>1, <1>2, <1>3, <1>5, BooksApplied
    <2>. QED
        BY <1>5, <2>1
<1>6. CASE pc[t] \in Taken /\ val[t] = Nil /\ row' = Forgotten(row, at[t])
    <2>1. \E b2 \in Nat : Books(b2, s, Forgotten(row, at[t]), at, val, InHand, counter, served)
        BY <1>1, <1>2, <1>3, <1>6, BooksForgotten
    <2>. QED
        BY <1>6, <2>1
<1>. QED
    BY <1>4, <1>5, <1>6 DEF Folds

\* The row's time after recording or forgetting.
LEMMA FoldTime ==
    ASSUME NEW t \in Tasks, Folds(t)
    PROVE  row'.at = row.at \/ (pc[t] \in Taken /\ row'.at = at[t])
<1>1. Applied(row, at[t], val[t]).at \in {row.at, at[t]}
    BY DEF Applied
<1>2. Forgotten(row, at[t]).at \in {row.at, at[t]}
    <2>1. CASE Older(at[t], row)
        BY <2>1 DEF Forgotten
    <2>2. CASE ~Older(at[t], row)
        BY <2>2 DEF Forgotten
    <2>. QED
        BY <2>1, <2>2
<1>. QED
    BY <1>1, <1>2 DEF Folds

\* A reading that is recorded and kept.
LEMMA KeepsInv ==
    ASSUME Setting, IInv, NEW t \in Tasks, Keeps(t)
    PROVE  IInv'
<1>. USE DEF IInv
<1>1. InHand' = InHand
    BY DEF Keeps, Others, InHand, Types
<1>2. Types'
    <2>1. row' \in Rows
        BY FoldTypes DEF Keeps
    <2>2. \A u \in Tasks : at'[u] # 0 <=> pc'[u] \in Reading \cup Taken
        BY DEF Keeps, Others, Types
    <2>. QED
        BY <2>1, <2>2 DEF Keeps, Tables, Types
<1>3. ASSUME ~crossed'
      PROVE  Later' /\ Balanced'
    <2>1. ~crossed
        BY <1>3 DEF Keeps
    <2>2. Balanced'
        BY <1>1, <2>1, FoldBooks DEF Keeps, Balanced
    <2>3. \A u \in Tasks : pc'[u] \in Reading => pc[u] \in Reading
        BY DEF Keeps, Others, Reading, Taken
    <2>4. \A u \in Tasks : pc[u] \in Reading => row'.at < at[u]
        BY <2>1, FoldTime DEF Keeps, Later, InHand
    <2>5. Later'
        BY <1>1, <2>1, <2>3, <2>4 DEF Later, Keeps
    <2>. QED
        BY <2>2, <2>5
<1>. QED
    BY <1>2, <1>3

\* A reading that is let go, recorded or not.
LEMMA LeavesInv ==
    ASSUME Setting, IInv, NEW t \in Tasks, Leaves(t)
    PROVE  IInv'
<1>. USE DEF IInv
<1>1. InHand' = InHand \ {t} /\ \A u \in InHand' : at'[u] = at[u] /\ val'[u] = val[u]
    BY DEF Leaves, Others, InHand
<1>2. Types'
    <2>1. row' \in Rows
        BY FoldTypes DEF Leaves
    <2>2. \A u \in Tasks : at'[u] # 0 <=> pc'[u] \in Reading \cup Taken
        BY DEF Leaves, Others, Types
    <2>3. \A u, w \in Tasks : at'[u] = at'[w] /\ at'[u] # 0 => u = w
        BY DEF Leaves, Others, Types
    <2>4. counter' \in Nat \cup {Nil}
        BY DEF Leaves, MayRestart, Types
    <2>. QED
        BY <2>1, <2>2, <2>3, <2>4 DEF Leaves, Tables, Types
<1>3. ASSUME ~crossed'
      PROVE  Later' /\ Balanced'
    <2>1. ~crossed
        BY <1>3 DEF Leaves
    <2>2. PICK b \in Nat, s \in [Tasks -> Nat] : Books(b, s, row', at, val, InHand, counter, served)
        BY <2>1, FoldBooks DEF Leaves
    <2>3. Books(b, s, row', at, val, InHand, counter', served)
        <3>1. /\ row' \in Rows /\ at \in [Tasks -> Nat] /\ val \in [Tasks -> Nat \cup {Nil}]
              /\ InHand \in SUBSET Tasks /\ counter \in Nat \cup {Nil} /\ served \in Nat
            BY <1>2 DEF Types, InHand
        <3>2. Books(b, s, row', at, val, InHand, Nil, served)
            BY <2>2, <3>1, BooksRestart
        <3>. QED
            BY <2>2, <3>2 DEF Leaves, MayRestart
    <2>4. Books(b, s, row', at', val', InHand', counter', served)
        BY <1>1, <2>3, BooksFewer
    <2>5. Balanced'
        BY <2>4 DEF Balanced, Leaves
    <2>6. \A u \in Tasks : pc'[u] \in Reading => u # t /\ pc[u] \in Reading /\ at'[u] = at[u]
        BY DEF Leaves, Others
    <2>7. \A u \in Tasks : pc[u] \in Reading => row'.at < at[u]
        BY <2>1, FoldTime DEF Leaves, Later, InHand
    <2>8. Later'
        BY <1>1, <2>1, <2>6, <2>7 DEF Later
    <2>. QED
        BY <2>5, <2>8
<1>. QED
    BY <1>2, <1>3

\* A reading that is taken.
LEMMA TakesInv ==
    ASSUME Setting, IInv, NEW t \in Tasks, Takes(t)
    PROVE  IInv'
<1>. USE DEF IInv
<1>1. t \notin InHand /\ InHand' = InHand \cup {t} /\ val' = [val EXCEPT ![t] = counter]
    BY DEF Takes, Others, InHand, Reading, Taken, Found
<1>2. Types'
    <2>1. \A u \in Tasks : at'[u] # 0 <=> pc'[u] \in Reading \cup Taken
        BY DEF Takes, Others, Types
    <2>2. crossed' \in BOOLEAN
        BY DEF Takes, Found, InOrder, Types
    <2>. QED
        BY <2>1, <2>2 DEF Takes, Tables, Types
<1>3. ASSUME ~crossed'
      PROVE  Later' /\ Balanced'
    <2>1. ~crossed /\ InOrder(t)
        BY <1>3 DEF Takes, Found
    <2>2. Later /\ Balanced
        BY <2>1
    <2>3. \A u \in Tasks : pc'[u] \in Reading => u # t /\ pc[u] \in Reading
        BY DEF Takes, Others, Reading, Taken
    <2>4. ASSUME NEW u \in Tasks, pc'[u] \in Reading
          PROVE  row'.at < at'[u] /\ \A w \in InHand' : at'[w] < at'[u]
        <3>1. at[t] < at[u]
            BY <2>1, <2>3, <2>4 DEF InOrder, Takes, Types, Reading
        <3>. QED
            BY <1>1, <2>2, <2>3, <2>4, <3>1 DEF Later, Takes
    <2>5. PICK b \in Nat, s \in [Tasks -> Nat] : Books(b, s, row, at, val, InHand, counter, served)
        BY <2>2 DEF Balanced
    <2>6. /\ row \in Rows /\ at \in [Tasks -> Nat] /\ val \in [Tasks -> Nat \cup {Nil}]
          /\ InHand \in SUBSET Tasks /\ counter \in Nat \cup {Nil} /\ served \in Nat
        BY DEF Types, InHand
    <2>7. \A u \in InHand : at[u] < at[t]
        BY <2>2 DEF Later, Takes
    <2>8. Books(b, [s EXCEPT ![t] = served], row, at, [val EXCEPT ![t] = counter], InHand \cup {t}, counter, served)
        BY <1>1, <2>5, <2>6, <2>7, BooksTaken
    <2>9. [s EXCEPT ![t] = served] \in [Tasks -> Nat]
        BY <2>6
    <2>10. Balanced'
        BY <1>1, <2>8, <2>9 DEF Balanced, Takes
    <2>. QED
        BY <2>4, <2>10 DEF Later
<1>. QED
    BY <1>2, <1>3

\* A reading that is asked for: the times get new ranks, in the same order.
LEMMA AsksInv ==
    ASSUME Setting, IInv, NEW t \in Tasks, Asks(t)
    PROVE  IInv'
<1>. USE DEF IInv
<1>. DEFINE n == Cardinality(InUse) + 1
<1>0. /\ \A u \in Tasks : at[u] \in InUse \cup {0} /\ at[u] \in Nat
      /\ row.at \in InUse \cup {0} /\ row.at \in Nat
    BY DEF InUse, Types, Rows
<1>1. /\ pc' = [pc EXCEPT ![t] = pc'[t]]
      /\ at' = [u \in Tasks |-> IF u = t THEN n ELSE Rank(at[u])]
      /\ row' = [row EXCEPT !.at = Rank(row.at)]
    BY DEF Asks, Ask
<1>2. at'[t] = n /\ \A u \in Tasks \ {t} : at'[u] = Rank(at[u]) /\ pc'[u] = pc[u]
    BY <1>1 DEF Types
<1>3. row'.at = Rank(row.at) /\ row'.total = row.total /\ row'.last = row.last
    BY <1>1 DEF Types, Rows
<1>4. /\ n \in Nat /\ n # 0 /\ Rank(row.at) \in Nat /\ Rank(row.at) < n
      /\ \A u \in Tasks : Rank(at[u]) \in Nat /\ Rank(at[u]) < n /\ (at[u] = 0 => Rank(at[u]) = 0)
    BY <1>0, RankOrder
<1>. HIDE DEF n
<1>5. ASSUME NEW x \in InUse \cup {0}, NEW y \in InUse \cup {0}, x \in Nat, y \in Nat
      PROVE  /\ x < y => Rank(x) < Rank(y)
             /\ Rank(x) < Rank(y) => x < y
             /\ Rank(x) <= Rank(y) => x <= y
    <2>1. Rank(x) \in Nat /\ Rank(y) \in Nat /\ (x < y => Rank(x) < Rank(y)) /\ (y < x => Rank(y) < Rank(x))
        BY RankOrder
    <2>. QED
        BY <1>5, <2>1
<1>6. \A u \in Tasks : at[u] # 0 => Rank(at[u]) # 0
    <2>1. Rank(0) = 0 /\ 0 \in InUse \cup {0}
        BY RankOrder
    <2>. QED
        BY <1>0, <1>4, <1>5, <2>1
<1>7. InHand' = InHand /\ t \notin InHand
    BY <1>2 DEF Asks, InHand, Reading, Taken
<1>8. Types'
    <2>1. at' \in [Tasks -> Nat]
        BY <1>1, <1>4
    <2>2. row' \in Rows
        BY <1>1, <1>4 DEF Types, Rows
    <2>3. pc' \in [Tasks -> Stages]
        BY <1>1 DEF Asks, Types, Stages
    <2>4. \A u \in Tasks : at'[u] # 0 <=> pc'[u] \in Reading \cup Taken
        BY <1>2, <1>4, <1>6 DEF Asks, Types
    <2>5. ASSUME NEW u \in Tasks, NEW w \in Tasks, at'[u] = at'[w], at'[u] # 0
          PROVE  u = w
        <3>1. CASE u = t \/ w = t
            BY <1>2, <1>4, <2>5, <3>1
        <3>2. CASE u # t /\ w # t
            <4>1. Rank(at[u]) = Rank(at[w]) /\ Rank(at[u]) \in Nat /\ Rank(at[w]) \in Nat /\ at[u] # 0
                BY <1>2, <1>4, <2>5, <3>2
            <4>2. at[u] = at[w]
                BY <1>0, <1>5, <4>1
            <4>. QED
                BY <4>1, <4>2 DEF Types
        <3>. QED
            BY <3>1, <3>2
    <2>6. counter' \in Nat \cup {Nil} /\ UNCHANGED <<served, val, crossed>>
        BY DEF Asks, MayRestart, Types
    <2>. QED
        BY <2>1, <2>2, <2>3, <2>4, <2>5, <2>6 DEF Types
<1>9. ASSUME ~crossed'
      PROVE  Later' /\ Balanced'
    <2>1. Later /\ Balanced
        BY <1>9 DEF Asks
    <2>2. ASSUME NEW u \in Tasks, pc'[u] \in Reading
          PROVE  row'.at < at'[u] /\ \A w \in InHand' : at'[w] < at'[u]
        <3>1. CASE u = t
            BY <1>2, <1>3, <1>4, <1>7, <3>1 DEF InHand
        <3>2. CASE u # t
            <4>1. pc[u] \in Reading /\ at'[u] = Rank(at[u])
                BY <1>2, <2>2, <3>2
            <4>2. \A w \in InHand : w \in Tasks /\ w # t
                BY <1>7 DEF InHand
            <4>3. row.at < at[u] /\ \A w \in InHand : at[w] < at[u]
                BY <2>1, <4>1 DEF Later
            <4>. QED
                BY <1>0, <1>2, <1>3, <1>5, <1>7, <4>1, <4>2, <4>3
        <3>. QED
            BY <3>1, <3>2
    <2>3. PICK b \in Nat, s \in [Tasks -> Nat] : Books(b, s, row, at, val, InHand, counter, served)
        BY <2>1 DEF Balanced
    <2>4. Books(b, s, row, at, val, InHand, counter', served)
        <3>1. /\ row \in Rows /\ at \in [Tasks -> Nat] /\ val \in [Tasks -> Nat \cup {Nil}]
              /\ InHand \in SUBSET Tasks /\ counter \in Nat \cup {Nil} /\ served \in Nat
            BY DEF Types, InHand
        <3>2. Books(b, s, row, at, val, InHand, Nil, served)
            BY <2>3, <3>1, BooksRestart
        <3>. QED
            BY <2>3, <3>2 DEF Asks, MayRestart
    <2>5. \A u \in InHand : row'.at <= at'[u] => row.at <= at[u]
        BY <1>0, <1>2, <1>3, <1>5, <1>7 DEF InHand
    <2>6. \A u, w \in InHand : at'[u] < at'[w] => at[u] < at[w]
        BY <1>0, <1>2, <1>5, <1>7 DEF InHand
    <2>7. Books(b, s, row', at', val, InHand, counter', served)
        BY <1>3, <2>4, <2>5, <2>6, BooksRanked
    <2>8. Balanced'
        BY <1>7, <2>7 DEF Balanced, Asks
    <2>. QED
        BY <2>2, <2>8 DEF Later
<1>. QED
    BY <1>8, <1>9

-----------------------------------------------------------------------------
(* The theorem *)

\* The first state meets the invariant.
LEMMA InitInv ==
    ASSUME Setting, Init
    PROVE  IInv
<1>1. InHand = {} /\ \A t \in Tasks : pc[t] \notin Reading
    BY DEF Init, InHand, Taken, Reading
<1>2. Types
    BY DEF Init, Types, Stages, Reading, Taken, Rows
<1>3. [t \in Tasks |-> 0] \in [Tasks -> Nat]
    OBVIOUS
<1>4. Books(0, [t \in Tasks |-> 0], row, at, val, InHand, counter, served)
    BY <1>1 DEF Init, Books, Count, Delta
<1>. QED
    BY <1>1, <1>2, <1>3, <1>4 DEF IInv, Later, Balanced

\* Every step keeps it.
LEMMA NextInv ==
    ASSUME Setting, IInv, [Next]_vars
    PROVE  IInv'
<1>1. ASSUME NEW t \in Tasks, PollStep(t) \/ ChangeStep(t)
      PROVE  IInv'
    BY <1>1, StepKinds, AsksInv, TakesInv, KeepsInv, LeavesInv DEF IInv
<1>2. CASE Serve
    <2>1. served' = served + 1 /\ counter' = Count(counter) + 1 /\ UNCHANGED <<row, pc, at, val, crossed>>
        BY <1>2 DEF Serve, Count
    <2>2. InHand' = InHand /\ Count(counter) \in Nat
        BY <2>1, CountIsNat DEF InHand, IInv, Types
    <2>3. Types'
        BY <2>1, <2>2 DEF IInv, Types
    <2>4. Later => Later'
        BY <2>1, <2>2 DEF Later
    <2>5. ASSUME Balanced
          PROVE  Balanced'
        <3>1. PICK b \in Nat, s \in [Tasks -> Nat] : Books(b, s, row, at, val, InHand, counter, served)
            BY <2>5 DEF Balanced
        <3>2. Books(b, s, row, at, val, InHand, Count(counter) + 1, served + 1)
            BY <3>1, BooksServe DEF IInv, Types, InHand
        <3>. QED
            BY <2>1, <2>2, <3>2 DEF Balanced
    <2>. QED
        BY <2>1, <2>3, <2>4, <2>5 DEF IInv
<1>3. CASE Restart
    <2>1. counter' = Nil /\ UNCHANGED <<served, row, pc, at, val, crossed>>
        BY <1>3 DEF Restart
    <2>2. InHand' = InHand
        BY <2>1 DEF InHand
    <2>3. Types'
        BY <2>1 DEF IInv, Types
    <2>4. Later => Later'
        BY <2>1, <2>2 DEF Later
    <2>5. ASSUME Balanced
          PROVE  Balanced'
        <3>1. PICK b \in Nat, s \in [Tasks -> Nat] : Books(b, s, row, at, val, InHand, counter, served)
            BY <2>5 DEF Balanced
        <3>2. Books(b, s, row, at, val, InHand, Nil, served)
            BY <3>1, BooksRestart DEF IInv, Types, InHand
        <3>. QED
            BY <2>1, <2>2, <3>2 DEF Balanced
    <2>. QED
        BY <2>1, <2>3, <2>4, <2>5 DEF IInv
<1>4. CASE UNCHANGED vars
    BY <1>4 DEF vars, IInv, Types, Later, Balanced, InHand
<1>. QED
    BY <1>1, <1>2, <1>3, <1>4 DEF Next, Tasks

\* No byte is counted twice, however many polls and changes read the counter and record
\* their readings in whatever order, across restarts and failed writes: the total stays
\* within what was served as long as readings were taken in the order they were asked
\* for (UsageLedger._apply, forget_readings, keep_counters_across).
THEOREM CountedOnce == ASSUME Setting PROVE Spec => []NeverCountsTwice
<1>1. Init => IInv
    BY InitInv
<1>2. IInv /\ [Next]_vars => IInv'
    BY NextInv
<1>3. IInv => NeverCountsTwice
    <2>. SUFFICES ASSUME IInv, ~crossed
                  PROVE  row.total <= served
        BY DEF NeverCountsTwice
    <2>1. PICK b \in Nat, s \in [Tasks -> Nat] : Books(b, s, row, at, val, InHand, counter, served)
        BY DEF IInv, Balanced
    <2>2. row.total \in Nat /\ row.last \in Nat /\ Count(counter) \in Nat /\ served \in Nat
        BY CountIsNat DEF IInv, Types, Rows
    <2>3. Delta(Count(counter), row.last) \in Nat
        BY <2>2, DeltaIsNat
    <2>4. row.total <= b /\ b + Delta(Count(counter), row.last) <= served
        BY <2>1 DEF Books
    <2>. QED
        BY <2>2, <2>3, <2>4
<1>. QED
    BY <1>1, <1>2, <1>3, PTL DEF Spec
=============================================================================
