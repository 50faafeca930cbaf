---------------------------- MODULE AccessProofs ----------------------------
(***************************************************************************)
(* Grants and revocations from the panel, proved for any number of         *)
(* overlapping transactions, accounts, profiles and servers: they never    *)
(* wait for each other in a circle, and an answered grant is in force.     *)
(* Both rest on one invariant of the advisory locks.  And the server       *)
(* picker lists what the gate of a connect admits, its limits apart.       *)
(***************************************************************************)
EXTENDS Access, FiniteSetTheorems, SequenceTheorems, WellFoundedInduction, TLAPS

Working == {"next", "insert", "update"}
TxRow == [at : Working \cup {"new", "done", "failed"}, cmd : Commands \cup {<<>>}, todo : Seq(Keys),
          keys : SUBSET Keys, locks : SUBSET Keys, wrote : SUBSET Keys]

\* The order of the advisory locks: accounts first, then profiles or servers.
Precedes(k, l) == k[1] = l[1] /\ (k[2] < l[2] \/ (k[2] = l[2] /\ k[3] < l[3]))
InLine(q) == \A i, j \in DOMAIN q : i < j => Precedes(q[i], q[j])

\* A transaction of the panel, given the rows as committed: it holds the lock of what it
\* wrote, its locks precede what it still has to do, but for the one it is about to
\* write under, and what it has done with is written or was found in force.
ByPanel(x) == x.cmd.op # "grant_user_server_access"
Covered(x, k, rows) ==
    \/ \E i \in DOMAIN x.todo : x.todo[i] = k
    \/ k \in x.locks /\ (k \in x.wrote \/ rows[k] = "on")
Disciplined(x, rows) ==
    /\ x.wrote \subseteq x.locks
    /\ InLine(x.todo)
    /\ \A k \in x.locks, i \in DOMAIN x.todo :
          Precedes(k, x.todo[i]) \/ (x.at # "next" /\ i = 1 /\ k = x.todo[1])
    /\ x.at # "next" => x.todo[1] \in x.locks
    /\ x.cmd.op # "revoke" => \A k \in x.keys : Covered(x, k, rows)

Fine(x, rows) ==
    /\ x.at \notin Working => x.locks = {} /\ x.wrote = {}
    /\ x.at \in Working => x.cmd \in Commands
    /\ x.at \in {"insert", "update"} => x.todo # <<>>
    /\ x.at \in Working /\ ByPanel(x) => Disciplined(x, rows)
    /\ x.at \in Working /\ ~ByPanel(x) => x.locks = {}

Types ==
    /\ scene \in Scenes
    /\ row \in [Keys -> {"none", "on", "off"}]
    /\ tx \in [Txs -> TxRow]
    /\ seeded \subseteq Profiles

LockInv ==
    /\ Types
    /\ \A t \in Txs : Fine(tx[t], row)
    /\ \A t, o \in Txs : t # o => tx[t].locks \cap tx[o].locks = {}

-----------------------------------------------------------------------------
(* Orders *)

\* sorted() of a set of ids: ascending, and all of it.
LEMMA AscendingEnumerates ==
    ASSUME NEW S, S \subseteq Nat, IsFiniteSet(S)
    PROVE  /\ Ascending(S) \in Seq(S) /\ DOMAIN Ascending(S) = 1..Cardinality(S)
           /\ \A i, j \in 1..Cardinality(S) : i < j => Ascending(S)[i] < Ascending(S)[j]
           /\ \A x \in S : \E i \in 1..Cardinality(S) : Ascending(S)[i] = x
<1>. DEFINE n == Cardinality(S)
            Upto(x) == {y \in S : y <= x}
            f == [x \in S |-> Cardinality(Upto(x))]
<1>1. n \in Nat
    BY FS_CardinalityType
<1>2. \A x \in S : IsFiniteSet(Upto(x)) /\ Cardinality(Upto(x)) <= n /\ Cardinality(Upto(x)) \in Nat
    <2>1. \A x \in S : Upto(x) \subseteq S
        OBVIOUS
    <2>. QED
        BY <2>1, FS_Subset, FS_CardinalityType
<1>3. ASSUME NEW x \in S
      PROVE  f[x] \in 1..n
    <2>1. x \in Upto(x)
        OBVIOUS
    <2>2. Cardinality(Upto(x)) # 0
        BY <1>2, <2>1, FS_EmptySet
    <2>. QED
        BY <1>1, <1>2, <2>2
<1>4. ASSUME NEW x \in S, NEW y \in S, x < y
      PROVE  f[x] < f[y]
    <2>1. ASSUME NEW z \in Upto(x)
          PROVE  z \in Upto(y)
        BY <1>4
    <2>2. Upto(x) \subseteq Upto(y)
        BY <2>1, Zenon
    <2>3. y <= y /\ ~(y <= x)
        BY <1>4
    <2>4. Upto(x) # Upto(y)
        BY <2>3
    <2>5. /\ Cardinality(Upto(x)) <= Cardinality(Upto(y))
          /\ Cardinality(Upto(y)) = Cardinality(Upto(x)) => Upto(y) = Upto(x)
        BY <1>2, <2>2, FS_Subset
    <2>6. Cardinality(Upto(x)) < Cardinality(Upto(y))
        BY <1>2, <2>4, <2>5
    <2>. QED
        BY <2>6
<1>. HIDE DEF n
<1>5. f \in Surjection(S, 1..n)
    <2>1. f \in [S -> 1..n]
        BY <1>3
    <2>2. \A x, y \in S : f[x] = f[y] => x = y
        <3>1. SUFFICES ASSUME NEW x \in S, NEW y \in S, f[x] = f[y]
                       PROVE  x = y
            OBVIOUS
        <3>2. f[x] \in Nat /\ x \in Nat /\ y \in Nat
            BY <1>3
        <3>3. ~(x < y) /\ ~(y < x)
            BY <1>4, <3>1, <3>2
        <3>. QED
            BY <3>2, <3>3
    <2>3. f \in Injection(S, 1..n)
        BY <2>1, <2>2, Zenon DEF Injection, IsInjective
    <2>4. IsFiniteSet(1..n) /\ Cardinality(1..n) = n
        BY <1>1, FS_Interval
    <2>. QED
        BY <2>3, <2>4, FS_Injection DEF n
<1>6. \A i \in 1..n : \E x \in S : Cardinality(Upto(x)) = i
    BY <1>5, Zenon DEF Surjection
<1>7. \A i \in 1..n : Ascending(S)[i] \in S /\ f[Ascending(S)[i]] = i
    BY <1>6 DEF Ascending, n
<1>8. DOMAIN Ascending(S) = 1..n
    BY DEF Ascending, n
<1>. HIDE DEF f
<1>9. Ascending(S) \in Seq(S)
    <2>1. Ascending(S) \in [1..n -> S]
        BY <1>7, <1>8 DEF Ascending, n
    <2>. QED
        BY <1>1, <2>1
<1>10. ASSUME NEW i \in 1..n, NEW j \in 1..n, i < j
       PROVE  Ascending(S)[i] < Ascending(S)[j]
    <2>1. PICK x \in S : x = Ascending(S)[i] /\ f[x] = i
        BY <1>7, Zenon
    <2>2. PICK y \in S : y = Ascending(S)[j] /\ f[y] = j
        BY <1>7, Zenon
    <2>3. ~(y < x) /\ x # y
        BY <1>1, <1>4, <1>10, <2>1, <2>2
    <2>4. x \in Nat /\ y \in Nat
        OBVIOUS
    <2>. QED
        BY <2>1, <2>2, <2>3, <2>4
<1>11. ASSUME NEW x \in S
       PROVE  Ascending(S)[f[x]] = x /\ f[x] \in 1..n
    <2>1. f[x] \in 1..n
        BY <1>3
    <2>2. PICK y \in S : y = Ascending(S)[f[x]] /\ f[y] = f[x]
        BY <1>7, <2>1, Zenon
    <2>3. ~(y < x) /\ ~(x < y)
        BY <1>1, <1>4, <2>1, <2>2
    <2>4. x \in Nat /\ y \in Nat
        OBVIOUS
    <2>5. y = x
        BY <2>3, <2>4
    <2>. QED
        BY <2>1, <2>2, <2>5
<1>. QED
    BY <1>8, <1>9, <1>10, <1>11 DEF n

\* What each command carries.
LEMMA CommandFields ==
    ASSUME NEW cmd \in Commands
    PROVE  /\ cmd.op \in {"grant_permissions", "assign_server", "grant_user_server_access",
                          "grant_profile_to_everyone", "assign_server_to_everyone", "revoke"}
           /\ cmd.op = "grant_permissions" => cmd.user \in Users /\ cmd.list \in Seq(Profiles)
           /\ cmd.op \in {"assign_server", "grant_user_server_access"} => cmd.user \in Users /\ cmd.server \in Servers
           /\ cmd.op = "grant_profile_to_everyone" => cmd.profile \in Profiles
           /\ cmd.op = "assign_server_to_everyone" => cmd.server \in Servers
           /\ cmd.op = "revoke" => cmd.key \in Keys
BY DEF Commands

\* A set of accounts in the order of their ids.
LEMMA UsersAscend ==
    /\ _users_who_can_use_access \in Seq(Users)
    /\ \A i, j \in DOMAIN _users_who_can_use_access :
          i < j => _users_who_can_use_access[i] < _users_who_can_use_access[j]
<1>. DEFINE S == {u \in Users : account[u] \in {"active", "pending"}}
<1>1. S \subseteq Users /\ S \subseteq Nat /\ IsFiniteSet(S)
    BY AccessAssumption, FS_Subset, Zenon
<1>. HIDE DEF S
<1>2. Ascending(S) \in Seq(S) /\ \A i, j \in DOMAIN Ascending(S) : i < j => Ascending(S)[i] < Ascending(S)[j]
    BY <1>1, AscendingEnumerates, Zenon
<1>3. Ascending(S) \in Seq(Users)
    BY <1>1, <1>2, SeqMonotonic, Zenon
<1>. QED
    BY <1>2, <1>3 DEF _users_who_can_use_access, S

\* A list of profiles, without its repetitions, in the order of their ids.
LEMMA ListAscends ==
    ASSUME NEW list \in Seq(Profiles)
    PROVE  /\ Sorted(list) \in Seq(Profiles)
           /\ \A i, j \in DOMAIN Sorted(list) : i < j => Sorted(list)[i] < Sorted(list)[j]
           /\ \A i \in DOMAIN list : \E j \in DOMAIN Sorted(list) : Sorted(list)[j] = list[i]
<1>. DEFINE S == Range(list)
<1>0. \A i \in DOMAIN list : list[i] \in S
    BY DEF Range
<1>1. S \subseteq Profiles /\ S \subseteq Nat /\ IsFiniteSet(S)
    <2>1. S \subseteq Profiles
        BY DEF Range
    <2>. QED
        BY <2>1, AccessAssumption, FS_Subset, Zenon
<1>. HIDE DEF S
<1>2. /\ Ascending(S) \in Seq(S) /\ \A i, j \in DOMAIN Ascending(S) : i < j => Ascending(S)[i] < Ascending(S)[j]
      /\ \A x \in S : \E j \in DOMAIN Ascending(S) : Ascending(S)[j] = x
    BY <1>1, AscendingEnumerates, Zenon
<1>3. Ascending(S) \in Seq(Profiles)
    BY <1>1, <1>2, SeqMonotonic, Zenon
<1>4. Sorted(list) = Ascending(S)
    BY DEF Sorted, S
<1>. QED
    BY <1>0, <1>2, <1>3, <1>4

\* The keys of one account, in the order given.
LEMMA KeyedIsKeys ==
    ASSUME NEW u \in Users, NEW kind, NEW X, NEW things \in Seq(X),
           (kind = "perm" /\ X = Profiles) \/ (kind = "assign" /\ X = Servers)
    PROVE  /\ Keyed(kind, u, things) \in Seq(Keys)
           /\ DOMAIN Keyed(kind, u, things) = DOMAIN things
           /\ \A i \in DOMAIN things : Keyed(kind, u, things)[i] = <<kind, u, things[i]>>
<1>1. DOMAIN things = 1..Len(things) /\ Len(things) \in Nat /\ \A i \in DOMAIN things : things[i] \in X
    OBVIOUS
<1>2. \A x \in X : <<kind, u, x>> \in Keys
    BY DEF Keys, Perms, Assigns
<1>3. Keyed(kind, u, things) \in [1..Len(things) -> Keys]
    BY <1>1, <1>2 DEF Keyed
<1>. QED
    BY <1>1, <1>3 DEF Keyed

\* The keys of one profile or server.
LEMMA KeyedByUserIsKeys ==
    ASSUME NEW users \in Seq(Users), NEW kind, NEW x,
           (kind = "perm" /\ x \in Profiles) \/ (kind = "assign" /\ x \in Servers)
    PROVE  /\ KeyedByUser(kind, users, x) \in Seq(Keys)
           /\ DOMAIN KeyedByUser(kind, users, x) = DOMAIN users
           /\ \A i \in DOMAIN users : KeyedByUser(kind, users, x)[i] = <<kind, users[i], x>>
<1>1. DOMAIN users = 1..Len(users) /\ Len(users) \in Nat /\ \A i \in DOMAIN users : users[i] \in Users
    OBVIOUS
<1>2. \A u \in Users : <<kind, u, x>> \in Keys
    BY DEF Keys, Perms, Assigns
<1>3. KeyedByUser(kind, users, x) \in [1..Len(users) -> Keys]
    BY <1>1, <1>2 DEF KeyedByUser
<1>. QED
    BY <1>1, <1>3 DEF KeyedByUser

\* Every command of the panel works through its keys in the order of the locks.
LEMMA KeysInLine ==
    ASSUME NEW cmd \in Commands, cmd.op # "grant_user_server_access"
    PROVE  KeysOf(cmd) \in Seq(Keys) /\ InLine(KeysOf(cmd))
<1>1. CASE cmd.op = "grant_permissions"
    <2>. DEFINE q == Sorted(cmd.list)
    <2>1. cmd.user \in Users /\ q \in Seq(Profiles) /\ \A i, j \in DOMAIN q : i < j => q[i] < q[j]
        BY <1>1, CommandFields, ListAscends
    <2>2. KeysOf(cmd) = Keyed("perm", cmd.user, q)
        BY <1>1 DEF KeysOf, grant_permissions
    <2>. HIDE DEF q
    <2>3. /\ KeysOf(cmd) \in Seq(Keys) /\ DOMAIN KeysOf(cmd) = DOMAIN q
          /\ \A i \in DOMAIN q : KeysOf(cmd)[i] = <<"perm", cmd.user, q[i]>>
        BY <2>1, <2>2, KeyedIsKeys
    <2>. QED
        BY <2>1, <2>3 DEF InLine, Precedes
<1>2. CASE cmd.op = "assign_server"
    <2>1. KeysOf(cmd) = <<<<"assign", cmd.user, cmd.server>>>> /\ <<"assign", cmd.user, cmd.server>> \in Keys
        BY <1>2, CommandFields DEF KeysOf, assign_server, Keys, Assigns
    <2>. QED
        BY <2>1 DEF InLine
<1>3. CASE cmd.op = "grant_profile_to_everyone"
    <2>. DEFINE q == _users_who_can_use_access
    <2>1. cmd.profile \in Profiles /\ q \in Seq(Users) /\ \A i, j \in DOMAIN q : i < j => q[i] < q[j]
        BY <1>3, CommandFields, UsersAscend
    <2>2. KeysOf(cmd) = KeyedByUser("perm", q, cmd.profile)
        BY <1>3 DEF KeysOf, grant_profile_to_everyone
    <2>. HIDE DEF q
    <2>. QED
        BY <2>1, <2>2, KeyedByUserIsKeys DEF InLine, Precedes
<1>4. CASE cmd.op = "assign_server_to_everyone"
    <2>. DEFINE q == _users_who_can_use_access
    <2>1. cmd.server \in Servers /\ q \in Seq(Users) /\ \A i, j \in DOMAIN q : i < j => q[i] < q[j]
        BY <1>4, CommandFields, UsersAscend
    <2>2. KeysOf(cmd) = KeyedByUser("assign", q, cmd.server)
        BY <1>4 DEF KeysOf, assign_server_to_everyone
    <2>. HIDE DEF q
    <2>. QED
        BY <2>1, <2>2, KeyedByUserIsKeys DEF InLine, Precedes
<1>5. CASE cmd.op = "revoke"
    <2>1. KeysOf(cmd) = <<cmd.key>> /\ cmd.key \in Keys
        BY <1>5, CommandFields DEF KeysOf
    <2>. QED
        BY <2>1 DEF InLine
<1>. QED
    BY <1>1, <1>2, <1>3, <1>4, <1>5, CommandFields

\* The command line's grant names keys too.
LEMMA CliKeys ==
    ASSUME seeded \subseteq Profiles, NEW cmd \in Commands, cmd.op = "grant_user_server_access"
    PROVE  KeysOf(cmd) \in Seq(Keys)
<1>. DEFINE S == Offered(cmd.server)
            a == Ascending(S)
            q == ByCode(S)
<1>1. S \subseteq Profiles /\ S \subseteq Nat /\ IsFiniteSet(S)
    <2>1. S \subseteq Profiles
        BY DEF Offered
    <2>. QED
        BY <2>1, AccessAssumption, FS_Subset, Zenon
<1>. HIDE DEF S
<1>2. a \in Seq(Profiles) /\ DOMAIN a = 1..Cardinality(S) /\ Cardinality(S) \in Nat
    BY <1>1, AscendingEnumerates, SeqMonotonic, FS_CardinalityType, Zenon
<1>. HIDE DEF a
<1>3. q \in Seq(Profiles)
    <2>. DEFINE n == Cardinality(S)
    <2>1. n \in Nat /\ \A i \in 1..n : a[i] \in Profiles
        BY <1>2
    <2>2. \A i \in 1..n : n + 1 - i \in 1..n
        BY <2>1
    <2>. HIDE DEF n
    <2>3. q = [i \in 1..n |-> a[n + 1 - i]]
        BY DEF ByCode, a, n
    <2>4. q \in [1..n -> Profiles]
        BY <2>1, <2>2, <2>3
    <2>. QED
        BY <2>1, <2>4
<1>. HIDE DEF q
<1>4. cmd.user \in Users /\ cmd.server \in Servers /\ <<"assign", cmd.user, cmd.server>> \in Keys
    BY CommandFields DEF Keys, Assigns
<1>5. KeysOf(cmd) = Keyed("perm", cmd.user, q) \o <<<<"assign", cmd.user, cmd.server>>>>
    BY DEF KeysOf, grant_user_server_access, q, S
<1>. QED
    BY <1>3, <1>4, <1>5, KeyedIsKeys

-----------------------------------------------------------------------------
(* What a transaction may become *)

\* The rest of a sequence of keys.
LEMMA RestOfKeys ==
    ASSUME NEW q \in Seq(Keys), q # <<>>
    PROVE  /\ 1 \in DOMAIN q /\ Head(q) = q[1] /\ q[1] \in Keys
           /\ Tail(q) \in Seq(Keys)
           /\ \A i \in DOMAIN Tail(q) : i + 1 \in DOMAIN q /\ i + 1 > 1 /\ i \in Nat /\ Tail(q)[i] = q[i + 1]
           /\ \A i \in DOMAIN q : q[i] = q[1] \/ \E j \in DOMAIN Tail(q) : Tail(q)[j] = q[i]
           /\ InLine(q) => InLine(Tail(q)) /\ \A i \in DOMAIN Tail(q) : Precedes(q[1], Tail(q)[i])
<1>1. Len(q) \in Nat \ {0} /\ DOMAIN q = 1..Len(q) /\ Head(q) = q[1] /\ q[1] \in Keys
    BY LenProperties, EmptySeq, ElementOfSeq
<1>2. /\ Tail(q) \in Seq(Keys) /\ Len(Tail(q)) = Len(q) - 1 /\ DOMAIN Tail(q) = 1..(Len(q) - 1)
      /\ \A i \in 1..(Len(q) - 1) : Tail(q)[i] = q[i + 1]
    BY <1>1, HeadTailProperties, LenProperties
<1>3. \A i \in DOMAIN Tail(q) : i + 1 \in DOMAIN q /\ i + 1 > 1 /\ i \in Nat /\ Tail(q)[i] = q[i + 1]
    BY <1>1, <1>2
<1>4. ASSUME NEW i \in DOMAIN q, i # 1
      PROVE  \E j \in DOMAIN Tail(q) : Tail(q)[j] = q[i]
    <2>1. i - 1 \in DOMAIN Tail(q) /\ Tail(q)[i - 1] = q[i]
        BY <1>1, <1>2, <1>4
    <2>. QED
        BY <2>1
<1>5. ASSUME InLine(q)
      PROVE  InLine(Tail(q)) /\ \A i \in DOMAIN Tail(q) : Precedes(q[1], Tail(q)[i])
    <2>1. \A i, j \in DOMAIN Tail(q) : i < j => i + 1 < j + 1
        BY <1>2
    <2>. QED
        BY <1>1, <1>3, <1>5, <2>1 DEF InLine
<1>. QED
    BY <1>1, <1>2, <1>3, <1>4, <1>5

\* It begins with nothing locked.
LEMMA FineBegin ==
    ASSUME NEW x \in TxRow, NEW rows, x.at = "next", x.cmd \in Commands, x.locks = {}, x.wrote = {},
           x.keys = Range(x.todo), ByPanel(x) => InLine(x.todo)
    PROVE  Fine(x, rows)
<1>1. \A k \in x.keys : Covered(x, k, rows)
    BY DEF Covered, Range
<1>. QED
    BY <1>1 DEF Fine, Disciplined, Working

\* It locks its next key and is about to write the row.
LEMMA FineLock ==
    ASSUME NEW x \in TxRow, NEW y \in TxRow, NEW rows, Fine(x, rows), ByPanel(x), x.at = "next", x.todo # <<>>,
           y.at \in {"insert", "update"}, y.cmd = x.cmd, y.todo = x.todo, y.keys = x.keys, y.wrote = x.wrote,
           y.locks = x.locks \cup {Head(x.todo)}
    PROVE  Fine(y, rows)
<1>0. x.todo \in Seq(Keys)
    BY DEF TxRow
<1>1. Disciplined(x, rows) /\ y.cmd \in Commands
    BY DEF Fine, Working
<1>2. Head(x.todo) = x.todo[1] /\ 1 \in DOMAIN x.todo
    BY <1>0, RestOfKeys
<1>3. \A k \in y.locks, i \in DOMAIN y.todo : Precedes(k, y.todo[i]) \/ (i = 1 /\ k = y.todo[1])
    <2>1. \A i \in DOMAIN x.todo : i = 1 \/ Precedes(x.todo[1], x.todo[i])
        <3>1. \A i \in DOMAIN x.todo : i = 1 \/ 1 < i
            BY <1>0, LenProperties
        <3>. QED
            BY <1>1, <1>2, <3>1 DEF Disciplined, InLine
    <2>. QED
        BY <1>1, <1>2, <2>1 DEF Disciplined
<1>4. \A k \in x.keys : Covered(x, k, rows) => Covered(y, k, rows)
    BY DEF Covered
<1>5. Disciplined(y, rows)
    BY <1>1, <1>2, <1>3, <1>4, Zenon DEF Disciplined
<1>. QED
    BY <1>1, <1>5 DEF Fine, Working, ByPanel

\* It locks its next key and finds the row in force.
LEMMA FineSkip ==
    ASSUME NEW x \in TxRow, NEW y \in TxRow, NEW rows, Fine(x, rows), ByPanel(x), x.at = "next", x.todo # <<>>,
           rows[Head(x.todo)] = "on",
           y.at = "next", y.cmd = x.cmd, y.todo = Tail(x.todo), y.keys = x.keys, y.wrote = x.wrote,
           y.locks = x.locks \cup {Head(x.todo)}
    PROVE  Fine(y, rows)
<1>0. x.todo \in Seq(Keys)
    BY DEF TxRow
<1>1. Disciplined(x, rows) /\ y.cmd \in Commands
    BY DEF Fine, Working
<1>2. Head(x.todo) = x.todo[1]
    BY <1>0, RestOfKeys
<1>3. InLine(y.todo) /\ \A k \in y.locks, i \in DOMAIN y.todo : Precedes(k, y.todo[i])
    BY <1>0, <1>1, <1>2, RestOfKeys DEF Disciplined
<1>a. \A i \in DOMAIN x.todo : x.todo[i] = x.todo[1] \/ \E j \in DOMAIN y.todo : y.todo[j] = x.todo[i]
    BY <1>0, RestOfKeys
<1>4. \A k \in x.keys : Covered(x, k, rows) => Covered(y, k, rows)
    BY <1>2, <1>a DEF Covered
<1>5. Disciplined(y, rows)
    BY <1>1, <1>3, <1>4 DEF Disciplined
<1>. QED
    BY <1>1, <1>5 DEF Fine, Working, ByPanel

\* It writes the row.
LEMMA FineWrite ==
    ASSUME NEW x \in TxRow, NEW y \in TxRow, NEW rows, Fine(x, rows), x.at \in {"insert", "update"},
           y.at = "next", y.cmd = x.cmd, y.todo = Tail(x.todo), y.keys = x.keys,
           y.wrote = x.wrote \cup {Head(x.todo)}, y.locks = x.locks
    PROVE  Fine(y, rows)
<1>0. x.todo \in Seq(Keys) /\ x.todo # <<>> /\ y.cmd \in Commands
    BY DEF TxRow, Fine, Working
<1>1. Head(x.todo) = x.todo[1]
    BY <1>0, RestOfKeys
<1>2. ASSUME ByPanel(x)
      PROVE  Disciplined(y, rows)
    <2>1. Disciplined(x, rows) /\ x.todo[1] \in x.locks
        BY <1>2 DEF Fine, Working, Disciplined
    <2>2. InLine(y.todo) /\ \A k \in y.locks, i \in DOMAIN y.todo : Precedes(k, y.todo[i])
        <3>1. InLine(y.todo)
            BY <1>0, <2>1, RestOfKeys DEF Disciplined
        <3>2. ASSUME NEW k \in y.locks, NEW i \in DOMAIN y.todo
              PROVE  Precedes(k, y.todo[i])
            <4>1. i + 1 \in DOMAIN x.todo /\ i + 1 # 1 /\ y.todo[i] = x.todo[i + 1]
                BY <1>0, RestOfKeys
            <4>. QED
                BY <2>1, <4>1 DEF Disciplined
        <3>. QED
            BY <3>1, <3>2
    <2>a. \A i \in DOMAIN x.todo : x.todo[i] = x.todo[1] \/ \E j \in DOMAIN y.todo : y.todo[j] = x.todo[i]
        BY <1>0, RestOfKeys
    <2>3. \A k \in x.keys : Covered(x, k, rows) => Covered(y, k, rows)
        BY <1>1, <2>1, <2>a DEF Covered
    <2>. QED
        BY <1>1, <2>1, <2>2, <2>3 DEF Disciplined
<1>. QED
    BY <1>0, <1>2 DEF Fine, Working, ByPanel

\* It locks the one key it revokes, and writes the row.
LEMMA FineRevoke ==
    ASSUME NEW x \in TxRow, NEW y \in TxRow, NEW rows, Fine(x, rows), x.at = "next", x.cmd.op = "revoke",
           y.at = "next", y.cmd = x.cmd, y.todo = <<>>, y.wrote = y.locks
    PROVE  Fine(y, rows)
<1>1. y.cmd \in Commands /\ DOMAIN y.todo = {}
    BY DEF Fine, Working
<1>2. Disciplined(y, rows)
    BY <1>1 DEF Disciplined, InLine
<1>. QED
    BY <1>1, <1>2 DEF Fine, Working, ByPanel

\* The command line reads a row, and leaves it or is about to write it.
LEMMA FineCli ==
    ASSUME NEW x \in TxRow, NEW y \in TxRow, NEW rows, Fine(x, rows), ~ByPanel(x), x.at = "next", x.todo # <<>>,
           y.cmd = x.cmd, y.locks = x.locks, y.at = "next" \/ (y.at \in {"insert", "update"} /\ y.todo = x.todo)
    PROVE  Fine(y, rows)
BY DEF Fine, Working, ByPanel

\* Another transaction commits and leaves in force what it finds locked.
LEMMA FineRows ==
    ASSUME NEW x \in TxRow, NEW rows, NEW rows2, Fine(x, rows),
           \A k \in x.locks : rows[k] = "on" => rows2[k] = "on"
    PROVE  Fine(x, rows2)
<1>1. \A k \in x.keys : Covered(x, k, rows) => Covered(x, k, rows2)
    BY DEF Covered
<1>2. Disciplined(x, rows) => Disciplined(x, rows2)
    BY <1>1 DEF Disciplined
<1>. QED
    BY <1>2 DEF Fine

-----------------------------------------------------------------------------
(* The steps *)

Only(t) == tx' \in [Txs -> TxRow] /\ \A o \in Txs \ {t} : tx'[o] = tx[o]
Still == UNCHANGED <<scene, row, seeded>>

\* A step of one transaction that takes no lock another one holds.
LEMMA OneStep ==
    ASSUME LockInv, NEW t \in Txs, Still, Only(t), Fine(tx'[t], row),
           \A o \in Txs \ {t} : tx'[t].locks \cap tx[o].locks = {}
    PROVE  LockInv'
<1>1. Types'
    BY DEF LockInv, Types, Still, Only
<1>2. \A o \in Txs : Fine(tx'[o], row')
    BY DEF LockInv, Still, Only
<1>3. \A o, p \in Txs : o # p => tx'[o].locks \cap tx'[p].locks = {}
    BY DEF LockInv, Only
<1>. QED
    BY <1>1, <1>2, <1>3 DEF LockInv

\* One that keeps its locks or lets them go.
LEMMA OneStepKeeps ==
    ASSUME LockInv, NEW t \in Txs, Still, Only(t), Fine(tx'[t], row), tx'[t].locks \subseteq tx[t].locks
    PROVE  LockInv'
BY OneStep DEF LockInv

\* One that takes the lock of a key nobody holds.
LEMMA OneStepLocks ==
    ASSUME LockInv, NEW t \in Txs, Still, Only(t), Fine(tx'[t], row), NEW k, AdvisoryFree(t, k),
           tx'[t].locks \subseteq tx[t].locks \cup {k}
    PROVE  LockInv'
BY OneStep DEF LockInv, AdvisoryFree

\* A transaction that is not under way is one.
LEMMA IdleTyped ==
    Idle \in TxRow
<1>1. <<>> \in Seq(Keys) /\ {} \in SUBSET Keys
    BY EmptySeq
<1>. QED
    BY <1>1 DEF Idle, TxRow

\* One that is over.
LEMMA Ended ==
    ASSUME LockInv, NEW t \in Txs, NEW how \in {"failed", "done"}, tx' = Ends(t, how)
    PROVE  Only(t) /\ tx'[t].locks = {} /\ (\A rows : Fine(tx'[t], rows)) /\ tx'[t].at = how
<1>1. [Idle EXCEPT !.at = how] \in TxRow
    BY IdleTyped DEF TxRow
<1>2. tx'[t] = [Idle EXCEPT !.at = how] /\ Only(t)
    BY <1>1 DEF Ends, Only, LockInv, Types
<1>3. tx'[t].at = how /\ tx'[t].locks = {} /\ tx'[t].wrote = {}
    BY <1>2 DEF Idle
<1>. QED
    BY <1>2, <1>3 DEF Fine, Working

\* What the steps say of the one row they change.
LEMMA OneRow ==
    ASSUME LockInv, NEW t \in Txs
    PROVE  /\ tx[t] \in TxRow /\ Fine(tx[t], row) /\ tx[t].todo \in Seq(Keys)
           /\ tx[t].todo # <<>> => Key(t) \in Keys /\ Tail(tx[t].todo) \in Seq(Keys)
BY RestOfKeys DEF LockInv, Types, TxRow, Key

\* A command is begun.
LEMMA BeginInv ==
    ASSUME LockInv, NEW t \in Txs, Begin(t)
    PROVE  LockInv'
<1>1. PICK cmd \in scene.menu :
        /\ ~Begun(t)
        /\ tx' = [tx EXCEPT ![t] = [Idle EXCEPT !.at = "next", !.cmd = cmd,
                                       !.todo = KeysOf(cmd), !.keys = Range(KeysOf(cmd))]]
    BY Zenon DEF Begin
<1>2. cmd \in Commands /\ seeded \subseteq Profiles
    BY AccessAssumption DEF LockInv, Types
<1>3. KeysOf(cmd) \in Seq(Keys) /\ (cmd.op # "grant_user_server_access" => InLine(KeysOf(cmd)))
    BY <1>2, KeysInLine, CliKeys
<1>4. Range(KeysOf(cmd)) \subseteq Keys
    BY <1>3 DEF Range
<1>. DEFINE y == [Idle EXCEPT !.at = "next", !.cmd = cmd, !.todo = KeysOf(cmd), !.keys = Range(KeysOf(cmd))]
<1>5. /\ y \in TxRow /\ y.at = "next" /\ y.cmd = cmd /\ y.todo = KeysOf(cmd) /\ y.keys = Range(KeysOf(cmd))
      /\ y.locks = {} /\ y.wrote = {}
    BY <1>2, <1>3, <1>4, Zenon DEF Idle, TxRow, Working
<1>6. tx' = [tx EXCEPT ![t] = y]
    BY <1>1
<1>. HIDE DEF y
<1>7. tx'[t] = y /\ Only(t)
    BY <1>5, <1>6 DEF Only, LockInv, Types
<1>8. Fine(y, row)
    BY <1>2, <1>3, <1>5, FineBegin DEF ByPanel
<1>9. Still
    BY DEF Begin, Still, world
<1>. QED
    BY <1>5, <1>7, <1>8, <1>9, OneStepKeeps

\* A grant takes the lock of its next key and reads the row.
LEMMA GrantedInv ==
    ASSUME LockInv, NEW t \in Txs, NEW kind, Granting(t, kind), tx' = Granted(t)
    PROVE  LockInv'
<1>1. /\ tx[t].at = "next" /\ tx[t].todo # <<>> /\ ByPanel(tx[t]) /\ AdvisoryFree(t, Key(t)) /\ Still
    BY DEF Granting, Panel, ByPanel, Still, world
<1>2. tx[t] \in TxRow /\ Fine(tx[t], row) /\ Key(t) \in Keys /\ Tail(tx[t].todo) \in Seq(Keys)
    BY <1>1, OneRow
<1>3. CASE row[Key(t)] = "on"
    <2>. DEFINE y == [tx[t] EXCEPT !.todo = Tail(tx[t].todo), !.locks = tx[t].locks \cup {Key(t)}]
    <2>1. tx' = [tx EXCEPT ![t] = y]
        BY <1>3, Zenon DEF Granted, Skip, LockInv, Types
    <2>2. /\ y \in TxRow /\ y.at = "next" /\ y.cmd = tx[t].cmd /\ y.todo = Tail(tx[t].todo) /\ y.keys = tx[t].keys
          /\ y.wrote = tx[t].wrote /\ y.locks = tx[t].locks \cup {Key(t)}
        BY <1>1, <1>2, Zenon DEF TxRow
    <2>. HIDE DEF y
    <2>3. tx'[t] = y /\ Only(t)
        BY <2>1, <2>2 DEF Only, LockInv, Types
    <2>4. Fine(y, row)
        BY <1>1, <1>2, <1>3, <2>2, FineSkip DEF Key
    <2>. QED
        BY <1>1, <2>2, <2>3, <2>4, OneStepLocks
<1>4. CASE row[Key(t)] # "on"
    <2>. DEFINE y == [tx[t] EXCEPT !.at = Write(Key(t)), !.locks = tx[t].locks \cup {Key(t)}]
    <2>1. tx' = [tx EXCEPT ![t] = y]
        BY <1>4, Zenon DEF Granted, LockInv, Types
    <2>2. /\ y \in TxRow /\ y.at \in {"insert", "update"} /\ y.cmd = tx[t].cmd /\ y.todo = tx[t].todo
          /\ y.keys = tx[t].keys /\ y.wrote = tx[t].wrote /\ y.locks = tx[t].locks \cup {Key(t)}
        BY <1>2, Zenon DEF TxRow, Write, Working
    <2>. HIDE DEF y
    <2>3. tx'[t] = y /\ Only(t)
        BY <2>1, <2>2 DEF Only, LockInv, Types
    <2>4. Fine(y, row)
        BY <1>1, <1>2, <2>2, FineLock DEF Key
    <2>. QED
        BY <1>1, <2>2, <2>3, <2>4, OneStepLocks
<1>. QED
    BY <1>3, <1>4

\* The steps that end a transaction.
LEMMA EndInv ==
    ASSUME LockInv, NEW t \in Txs, NEW how \in {"failed", "done"}, tx' = Ends(t, how), Still
    PROVE  LockInv'
BY Ended, OneStepKeeps

\* The command line's grant reads a row under no lock.
LEMMA CliInv ==
    ASSUME LockInv, NEW t \in Txs, GrantReadsUnlocked(t)
    PROVE  LockInv'
<1>1. tx[t].at = "next" /\ tx[t].todo # <<>> /\ ~ByPanel(tx[t]) /\ Still
    BY DEF GrantReadsUnlocked, Panel, ByPanel, Still, world
<1>2. tx[t] \in TxRow /\ Fine(tx[t], row) /\ Tail(tx[t].todo) \in Seq(Keys)
    BY <1>1, OneRow
<1>3. PICK y : /\ tx' = [tx EXCEPT ![t] = y] /\ y \in TxRow /\ y.cmd = tx[t].cmd /\ y.locks = tx[t].locks
               /\ y.at = "next" \/ (y.at \in {"insert", "update"} /\ y.todo = tx[t].todo)
    <2>1. CASE row[Key(t)] = "on"
        <3>. DEFINE z == [tx[t] EXCEPT !.todo = Tail(tx[t].todo)]
        <3>1. tx' = [tx EXCEPT ![t] = z]
            BY <2>1 DEF GrantReadsUnlocked, LockInv, Types
        <3>2. z \in TxRow /\ z.at = "next" /\ z.cmd = tx[t].cmd /\ z.locks = tx[t].locks
            BY <1>1, <1>2, Zenon DEF TxRow
        <3>. QED
            BY <3>1, <3>2, Zenon
    <2>2. CASE row[Key(t)] # "on"
        <3>. DEFINE z == [tx[t] EXCEPT !.at = Write(Key(t))]
        <3>1. tx' = [tx EXCEPT ![t] = z]
            BY <2>2 DEF GrantReadsUnlocked, LockInv, Types
        <3>2. /\ z \in TxRow /\ z.cmd = tx[t].cmd /\ z.locks = tx[t].locks
              /\ z.at \in {"insert", "update"} /\ z.todo = tx[t].todo
            BY <1>2 DEF TxRow, Write, Working
        <3>. QED
            BY <3>1, <3>2, Zenon
    <2>. QED
        BY <2>1, <2>2
<1>4. tx'[t] = y /\ Only(t)
    BY <1>3 DEF Only, LockInv, Types
<1>5. Fine(y, row)
    BY <1>1, <1>2, <1>3, FineCli
<1>. QED
    BY <1>1, <1>3, <1>4, <1>5, OneStepKeeps

\* The row is written, or the insert fails.
LEMMA WriteInv ==
    ASSUME LockInv, NEW t \in Txs, GrantWrites(t)
    PROVE  LockInv'
<1>1. tx[t].at \in {"insert", "update"} /\ Still
    BY DEF GrantWrites, Still, world
<1>2. tx[t] \in TxRow /\ Fine(tx[t], row) /\ tx[t].todo # <<>>
    BY <1>1, OneRow DEF Fine
<1>3. Key(t) \in Keys /\ Tail(tx[t].todo) \in Seq(Keys)
    BY <1>2, OneRow
<1>4. CASE tx' = Ends(t, "failed")
    BY <1>1, <1>4, EndInv
<1>5. CASE tx' # Ends(t, "failed")
    <2>. DEFINE y == [tx[t] EXCEPT !.at = "next", !.todo = Tail(tx[t].todo), !.wrote = tx[t].wrote \cup {Key(t)}]
    <2>1. tx' = [tx EXCEPT ![t] = y]
        BY <1>5, Zenon DEF GrantWrites, LockInv, Types
    <2>2. /\ y \in TxRow /\ y.at = "next" /\ y.cmd = tx[t].cmd /\ y.todo = Tail(tx[t].todo) /\ y.keys = tx[t].keys
          /\ y.wrote = tx[t].wrote \cup {Key(t)} /\ y.locks = tx[t].locks
        BY <1>2, <1>3, Zenon DEF TxRow, Working
    <2>. HIDE DEF y
    <2>3. tx'[t] = y /\ Only(t)
        BY <2>1, <2>2 DEF Only, LockInv, Types
    <2>4. Fine(y, row)
        BY <1>1, <1>2, <2>2, FineWrite DEF Key
    <2>. QED
        BY <1>1, <2>2, <2>3, <2>4, OneStepKeeps
<1>. QED
    BY <1>4, <1>5

\* A revocation locks its key and writes the row, or finds none.
LEMMA RevokeInv ==
    ASSUME LockInv, NEW t \in Txs, NEW kind, Revoking(t, kind, {Key(t)}), AdvisoryFree(t, Key(t))
    PROVE  LockInv'
<1>1. tx[t].at = "next" /\ tx[t].todo # <<>> /\ tx[t].cmd.op = "revoke" /\ Still
    BY DEF Revoking, Still, world
<1>2. tx[t] \in TxRow /\ Fine(tx[t], row) /\ Key(t) \in Keys
    BY <1>1, OneRow
<1>4. CASE tx' = Ends(t, "failed")
    BY <1>1, <1>4, EndInv
<1>5. CASE tx' # Ends(t, "failed")
    <2>. DEFINE y == [tx[t] EXCEPT !.todo = <<>>, !.locks = {Key(t)}, !.wrote = {Key(t)}]
    <2>1. tx' = [tx EXCEPT ![t] = y]
        BY <1>5, Zenon DEF Revoking, LockInv, Types
    <2>2. /\ y \in TxRow /\ y.at = "next" /\ y.cmd = tx[t].cmd /\ y.todo = <<>>
          /\ y.wrote = {Key(t)} /\ y.locks = {Key(t)}
        <3>1. <<>> \in Seq(Keys)
            BY EmptySeq
        <3>. QED
            BY <1>1, <1>2, <3>1, Zenon DEF TxRow
    <2>. HIDE DEF y
    <2>3. tx'[t] = y /\ Only(t)
        BY <2>1, <2>2 DEF Only, LockInv, Types
    <2>4. Fine(y, row)
        BY <1>1, <1>2, <2>2, FineRevoke, Zenon
    <2>. QED
        BY <1>1, <2>2, <2>3, <2>4, OneStepLocks
<1>. QED
    BY <1>4, <1>5

\* What is in force and locked by another stays so at a commit.
LEMMA CommitSpares ==
    ASSUME LockInv, NEW t \in Txs, Commits(t), NEW o \in Txs \ {t}, NEW k \in tx[o].locks, row[k] = "on"
    PROVE  row'[k] = "on"
<1>1. k \in Keys /\ tx[t].at = "next"
    BY DEF LockInv, Types, TxRow, Commits
<1>2. row'[k] = IF k \notin tx[t].wrote THEN row[k] ELSE IF tx[t].cmd.op = "revoke" THEN "off" ELSE "on"
    BY <1>1 DEF Commits
<1>3. tx[t].cmd.op = "revoke" => tx[t].wrote \subseteq tx[t].locks
    BY <1>1 DEF LockInv, Fine, Disciplined, ByPanel, Working
<1>4. k \notin tx[t].locks
    BY DEF LockInv
<1>. QED
    BY <1>2, <1>3, <1>4

\* A commit.
LEMMA CommitInv ==
    ASSUME LockInv, NEW t \in Txs, Commits(t)
    PROVE  LockInv'
<1>1. tx' = Ends(t, "done") /\ UNCHANGED <<scene, seeded>>
    BY DEF Commits, world
<1>2. Only(t) /\ tx'[t].locks = {} /\ \A rows : Fine(tx'[t], rows)
    BY <1>1, Ended
<1>3. row' \in [Keys -> {"none", "on", "off"}]
    BY DEF Commits, LockInv, Types
<1>4. \A o \in Txs \ {t} : Fine(tx[o], row')
    <2>1. \A o \in Txs : tx[o] \in TxRow /\ Fine(tx[o], row)
        BY OneRow
    <2>. QED
        BY <2>1, CommitSpares, FineRows
<1>5. \A o \in Txs : Fine(tx'[o], row')
    BY <1>2, <1>4 DEF Only
<1>6. \A o, p \in Txs : o # p => tx'[o].locks \cap tx'[p].locks = {}
    BY <1>2 DEF LockInv, Only
<1>. QED
    BY <1>1, <1>2, <1>3, <1>5, <1>6 DEF LockInv, Types, Only

\* Nothing is locked at first.
LEMMA InitLocks ==
    ASSUME Init
    PROVE  LockInv
<1>1. Idle \in TxRow
    BY IdleTyped
<1>2. \A t \in Txs : tx[t] = Idle
    BY DEF Init
<1>3. Types
    BY <1>1, AccessAssumption DEF Init, Types
<1>4. Idle.at = "new" /\ Idle.locks = {} /\ Idle.wrote = {}
    BY DEF Idle
<1>5. Fine(Idle, row)
    BY <1>4 DEF Fine, Working
<1>. QED
    BY <1>2, <1>3, <1>4, <1>5 DEF LockInv

\* Every step keeps the discipline of the locks.
LEMMA NextLocks ==
    ASSUME LockInv, [Next]_vars
    PROVE  LockInv'
<1>1. ASSUME UNCHANGED <<scene, row, tx>>, seeded' \subseteq Profiles
      PROVE  LockInv'
    BY <1>1 DEF LockInv, Types
<1>2. ASSUME NEW t \in Txs, _grant(t) \/ _assign(t)
      PROVE  LockInv'
    <2>1. CASE tx' = Ends(t, "failed")
        <3>1. Still
            BY <1>2 DEF _grant, _assign, Granting, Still, world
        <3>. QED
            BY <2>1, <3>1, EndInv
    <2>2. CASE tx' # Ends(t, "failed")
        BY <1>2, <2>2, GrantedInv DEF _grant, _assign
    <2>. QED
        BY <2>1, <2>2
<1>3. ASSUME NEW t \in Txs, revoke_permission(t) \/ revoke_assignment(t)
      PROVE  LockInv'
    BY <1>3, RevokeInv DEF revoke_permission, revoke_assignment
<1>4. ASSUME NEW t \in Txs, Aborts(t)
      PROVE  LockInv'
    <2>1. tx' = Ends(t, "failed") /\ Still
        BY <1>4 DEF Aborts, Still, world
    <2>. QED
        BY <2>1, EndInv
<1>5. ASSUME NEW p \in Profiles, SeedProfile(p)
      PROVE  LockInv'
    <2>1. seeded' \subseteq Profiles
        BY <1>5 DEF SeedProfile, LockInv, Types
    <2>. QED
        BY <1>1, <1>5, <2>1 DEF SeedProfile, Changed
<1>6. ASSUME \/ \E s \in Servers, p \in Profiles : enable_server_capability(s, p) \/ disable_server_capability(s, p)
             \/ \E s \in Servers, new \in {"active", "maintenance", "disabled"} : set_vpn_server_state(s, new)
             \/ \E u \in Users : DisableAccount(u) \/ _cut_off(u) \/ grant_traffic_quota(u)
      PROVE  LockInv'
    <2>1. UNCHANGED <<scene, row, tx, seeded>>
        BY <1>6, Zenon DEF enable_server_capability, disable_server_capability, set_vpn_server_state,
                           DisableAccount, _cut_off, grant_traffic_quota, Changed
    <2>. QED
        BY <1>1, <2>1 DEF LockInv, Types
<1>7. ASSUME \/ \E u \in Users, s \in Servers, p \in Profiles : ConnectChecks(u, s, p)
             \/ ConnectCommits \/ SweepReads \/ SweepCommits \/ \E c \in Uses : Removed(c)
      PROVE  LockInv'
    <2>1. UNCHANGED <<scene, row, tx, seeded>>
        BY <1>7, Zenon DEF ConnectChecks, ConnectCommits, SweepReads, SweepCommits, Removed, world
    <2>. QED
        BY <1>1, <2>1 DEF LockInv, Types
<1>8. CASE UNCHANGED vars
    BY <1>1, <1>8 DEF vars, LockInv, Types
<1>. QED
    BY <1>2, <1>3, <1>4, <1>5, <1>6, <1>7, <1>8, BeginInv, CliInv, WriteInv, CommitInv DEF Next

-----------------------------------------------------------------------------
(* Nobody waits in a circle *)

\* The order of the locks is one.
LEMMA PrecedesOrders ==
    ASSUME NEW k \in Keys, NEW l \in Keys, NEW m \in Keys
    PROVE  ~Precedes(k, k) /\ (Precedes(k, l) /\ Precedes(l, m) => Precedes(k, m))
<1>1. \A x \in Keys : x[2] \in Nat /\ x[3] \in Nat
    BY AccessAssumption, Zenon DEF Keys, Perms, Assigns
<1>2. k[2] \in Nat /\ k[3] \in Nat /\ l[2] \in Nat /\ l[3] \in Nat /\ m[2] \in Nat /\ m[3] \in Nat
    BY <1>1
<1>. QED
    BY <1>2 DEF Precedes

\* A transaction of the panel waits for another only before it takes a lock: what it is
\* about to write is its own already.
LEMMA WaitsForALock ==
    ASSUME LockInv, NEW t \in Txs, NEW o \in Txs \ {t}, Open(t), Panel(t), Open(o), Panel(o), WaitsFor(t, o)
    PROVE  tx[t].at = "next" /\ tx[t].todo # <<>> /\ Key(t) \in tx[o].locks
<1>1. Disciplined(tx[t], row) /\ Disciplined(tx[o], row)
    BY DEF LockInv, Fine, Open, Panel, ByPanel, Working
<1>2. tx[t].locks \cap tx[o].locks = {}
    BY DEF LockInv
<1>3. tx[t].at # "next" => Key(t) \in tx[t].locks /\ Key(t) \notin tx[o].wrote
    BY <1>1, <1>2 DEF Disciplined, Key
<1>. QED
    BY <1>3 DEF WaitsFor

\* The wait of one that waits for one that waits goes up the order of the locks.
LEMMA WaitsClimb ==
    ASSUME LockInv, NEW t \in Txs, NEW o \in Txs \ {t}, NEW p \in Txs \ {o}, Open(t), Panel(t), Open(o), Panel(o),
           Open(p), Panel(p), WaitsFor(t, o), WaitsFor(o, p)
    PROVE  Precedes(Key(t), Key(o))
<1>1. Key(t) \in tx[o].locks /\ tx[o].at = "next" /\ tx[o].todo # <<>>
    BY WaitsForALock
<1>2. Disciplined(tx[o], row)
    BY DEF LockInv, Fine, Open, Panel, ByPanel, Working
<1>3. 1 \in DOMAIN tx[o].todo
    BY <1>1 DEF LockInv, Types, TxRow
<1>. QED
    BY <1>1, <1>2, <1>3 DEF Disciplined, Key

\* So there is no circle: of those that all wait, one would have the fewest above it.
LEMMA NoCircle ==
    ASSUME LockInv
    PROVE  PanelNeverDeadlocks
<1>1. SUFFICES ASSUME NEW T \in SUBSET {t \in Txs : Open(t) /\ Panel(t)}, T # {},
                      \A t \in T : \E o \in T \ {t} : WaitsFor(t, o)
               PROVE  FALSE
    BY DEF PanelNeverDeadlocks
<1>2. \A t \in T : t \in Txs /\ Open(t) /\ Panel(t)
    OBVIOUS
<1>3. \A t \in T : Key(t) \in Keys
    <2>1. \A t \in T : tx[t].todo # <<>>
        BY <1>1 DEF WaitsFor
    <2>. QED
        BY <1>2, <2>1, OneRow
<1>4. \A t \in T : \E o \in T : Precedes(Key(t), Key(o))
    <2>1. SUFFICES ASSUME NEW t \in T
                   PROVE  \E o \in T : Precedes(Key(t), Key(o))
        OBVIOUS
    <2>2. PICK o \in T \ {t} : WaitsFor(t, o)
        BY <1>1
    <2>3. PICK p \in T \ {o} : WaitsFor(o, p)
        BY <1>1
    <2>. QED
        BY <1>2, <2>2, <2>3, WaitsClimb
<1>. DEFINE Above(t) == {o \in T : Precedes(Key(t), Key(o))}
            Sizes == {Cardinality(Above(t)) : t \in T}
<1>5. IsFiniteSet(T)
    BY <1>2, AccessAssumption, FS_Subset
<1>6. \A t \in T : IsFiniteSet(Above(t)) /\ Cardinality(Above(t)) \in Nat
    <2>1. \A t \in T : Above(t) \subseteq T
        OBVIOUS
    <2>. QED
        BY <1>5, <2>1, FS_Subset, FS_CardinalityType
<1>7. PICK n \in Sizes : \A m \in Sizes : ~(m < n)
    <2>1. Sizes \subseteq Nat /\ Sizes # {}
        <3>. HIDE DEF Above
        <3>1. PICK t \in T : TRUE
            BY <1>1
        <3>2. Cardinality(Above(t)) \in Sizes
            OBVIOUS
        <3>. QED
            BY <1>6, <3>2
    <2>. HIDE DEF Sizes
    <2>2. PICK n \in Sizes : \A m \in Sizes : ~(<<m, n>> \in OpToRel(<, Nat))
        BY <2>1, WFMin, NatLessThanWellFounded, Zenon
    <2>. QED
        BY <2>1, <2>2, Zenon DEF OpToRel
<1>8. PICK t \in T : n = Cardinality(Above(t))
    OBVIOUS
<1>9. PICK o \in T : Precedes(Key(t), Key(o))
    BY <1>4
<1>10. Above(o) \subseteq Above(t) /\ o \in Above(t) /\ o \notin Above(o)
    <2>1. ASSUME NEW p \in Above(o)
          PROVE  p \in Above(t)
        BY <1>3, <1>9, PrecedesOrders
    <2>. QED
        BY <1>3, <1>9, <2>1, PrecedesOrders
<1>11. Cardinality(Above(o)) < Cardinality(Above(t))
    <2>. HIDE DEF Above
    <2>1. /\ Cardinality(Above(o)) <= Cardinality(Above(t))
          /\ Cardinality(Above(t)) = Cardinality(Above(o)) => Above(t) = Above(o)
        BY <1>6, <1>10, FS_Subset
    <2>. QED
        BY <1>6, <1>10, <2>1
<1>. QED
    BY <1>7, <1>8, <1>11, Zenon

\* However many transactions of the panel overlap, whatever they grant and revoke, and
\* wherever one of them is cut off: there is no set of them that all wait for each other.
THEOREM LocksAreOrdered == Spec => []PanelNeverDeadlocks
<1>1. Init => LockInv
    BY InitLocks
<1>2. LockInv /\ [Next]_vars => LockInv'
    BY NextLocks
<1>3. LockInv => PanelNeverDeadlocks
    BY NoCircle
<1>. QED
    BY <1>1, <1>2, <1>3, PTL DEF Spec

-----------------------------------------------------------------------------
(* An answered grant is in force *)

\* Only a commit answers a transaction with success.
LEMMA DoneByCommit ==
    ASSUME LockInv, Next, NEW t \in Txs, tx[t].at = "next", tx'[t].at = "done"
    PROVE  Commits(t)
<1>0. tx \in [Txs -> TxRow]
    BY DEF LockInv, Types
<1>1. tx' # tx
    OBVIOUS
<1>2. ASSUME NEW o \in Txs, tx' = Ends(o, "failed")
      PROVE  FALSE
    BY <1>0, <1>2 DEF Ends, Idle, TxRow
<1>3. ASSUME NEW o \in Txs, NEW y, tx' = [tx EXCEPT ![o] = y], y.at \in Working
      PROVE  FALSE
    BY <1>0, <1>3 DEF Working
<1>4. ASSUME NEW o \in Txs, Begin(o)
      PROVE  FALSE
    <2>1. PICK cmd : tx' = [tx EXCEPT ![o] = [Idle EXCEPT !.at = "next", !.cmd = cmd,
                                       !.todo = KeysOf(cmd), !.keys = Range(KeysOf(cmd))]]
        BY <1>4, Zenon DEF Begin
    <2>2. [Idle EXCEPT !.at = "next", !.cmd = cmd, !.todo = KeysOf(cmd), !.keys = Range(KeysOf(cmd))].at = "next"
        BY DEF Idle
    <2>. QED
        BY <1>3, <2>1, <2>2 DEF Working
<1>5. ASSUME NEW o \in Txs, tx[o].at = "next", tx' = Granted(o)
      PROVE  FALSE
    BY <1>0, <1>5 DEF Granted, Skip, Write, TxRow
<1>6. ASSUME NEW o \in Txs, _grant(o) \/ _assign(o)
      PROVE  FALSE
    BY <1>2, <1>5, <1>6 DEF _grant, _assign, Granting
<1>7. ASSUME NEW o \in Txs, GrantReadsUnlocked(o)
      PROVE  FALSE
    BY <1>0, <1>7 DEF GrantReadsUnlocked, Write, TxRow
<1>8. ASSUME NEW o \in Txs, GrantWrites(o)
      PROVE  FALSE
    BY <1>0, <1>2, <1>8 DEF GrantWrites, TxRow
<1>9. ASSUME NEW o \in Txs, revoke_permission(o) \/ revoke_assignment(o)
      PROVE  FALSE
    <2>1. tx' # Ends(o, "failed")
        BY <1>2
    <2>2. \/ tx' = Ends(o, "failed")
          \/ tx[o].at = "next" /\ tx' = [tx EXCEPT ![o].todo = <<>>, ![o].locks = {Key(o)}, ![o].wrote = {Key(o)}]
        BY <1>9 DEF revoke_permission, revoke_assignment, Revoking
    <2>. QED
        BY <1>0, <2>1, <2>2 DEF TxRow
<1>10. ASSUME NEW o \in Txs, Commits(o)
       PROVE  o = t
    BY <1>0, <1>10 DEF Commits, Ends
<1>11. ASSUME NEW o \in Txs, Aborts(o)
       PROVE  FALSE
    BY <1>2, <1>11 DEF Aborts
<1>12. ASSUME UNCHANGED tx
       PROVE  FALSE
    BY <1>1, <1>12
<1>13. \/ \E o \in Txs : \/ Begin(o) \/ _grant(o) \/ _assign(o) \/ GrantReadsUnlocked(o) \/ GrantWrites(o)
                         \/ revoke_permission(o) \/ revoke_assignment(o) \/ Commits(o) \/ Aborts(o)
       \/ UNCHANGED tx
    BY Zenon DEF Next, SeedProfile, enable_server_capability, disable_server_capability, set_vpn_server_state,
           DisableAccount, _cut_off, grant_traffic_quota, Changed, ConnectChecks, ConnectCommits, SweepReads, SweepCommits, Removed
<1>. QED
    BY <1>4, <1>6, <1>7, <1>8, <1>9, <1>10, <1>11, <1>12, <1>13

\* At its commit a grant has dealt with every key it listed, and holds their locks.
LEMMA CommitHolds ==
    ASSUME LockInv, NEW t \in Txs, Commits(t), tx[t].cmd.op # "revoke", Panel(t), NEW k \in tx[t].keys
    PROVE  row'[k] = "on"
<1>1. tx[t].at = "next" /\ tx[t].todo = <<>>
    BY DEF Commits
<1>2. k \in Keys
    BY DEF LockInv, Types, TxRow
<1>3. Covered(tx[t], k, row)
    BY <1>1 DEF LockInv, Fine, Disciplined, Panel, ByPanel, Working
<1>4. k \in tx[t].wrote \/ row[k] = "on"
    BY <1>1, <1>3 DEF Covered
<1>. QED
    BY <1>2, <1>4 DEF Commits

\* Whatever overlaps a grant from the panel, and however many keys it lists: when it is
\* answered, all of them are in force.
THEOREM GrantsHold == Spec => AnsweredGrantsHold
<1>1. Init => LockInv
    BY InitLocks
<1>2. LockInv /\ [Next]_vars => LockInv'
    BY NextLocks
<1>3. LockInv /\ [Next]_vars =>
        [\A t \in Txs : tx[t].at = "next" /\ tx'[t].at = "done" =>
             tx[t].cmd.op = "revoke" \/ ~Panel(t) \/ \A k \in tx[t].keys : row'[k] = "on"]_vars
    BY DoneByCommit, CommitHolds
<1>. QED
    BY <1>1, <1>2, <1>3, PTL DEF Spec, AnsweredGrantsHold

-----------------------------------------------------------------------------
(* The picker and the gate *)

\* A server offers only what is seeded: the join of the picker leaves that out.
OfferInv ==
    /\ capability \in [Servers \X Profiles -> {"none", "on", "off"}]
    /\ \A o \in Servers \X Profiles : capability[o] = "on" => o[2] \in seeded

\* Every step keeps it.
LEMMA NextOffers ==
    ASSUME OfferInv, [Next]_vars
    PROVE  OfferInv'
<1>1. ASSUME NEW s \in Servers, NEW p \in Profiles, enable_server_capability(s, p)
      PROVE  OfferInv'
    <2>1. p \in seeded /\ seeded' = seeded /\ capability' = [capability EXCEPT ![<<s, p>>] = "on"]
        BY <1>1 DEF enable_server_capability
    <2>. QED
        BY <2>1 DEF OfferInv
<1>2. ASSUME NEW s \in Servers, NEW p \in Profiles, disable_server_capability(s, p)
      PROVE  OfferInv'
    <2>1. seeded' = seeded /\ capability' = [capability EXCEPT ![<<s, p>>] = "off"]
        BY <1>2 DEF disable_server_capability
    <2>. QED
        BY <2>1 DEF OfferInv
<1>3. ASSUME NEW p \in Profiles, SeedProfile(p)
      PROVE  OfferInv'
    BY <1>3 DEF OfferInv, SeedProfile
<1>4. ASSUME UNCHANGED <<seeded, capability>>
      PROVE  OfferInv'
    BY <1>4 DEF OfferInv
<1>5. \/ \E s \in Servers, p \in Profiles : enable_server_capability(s, p) \/ disable_server_capability(s, p)
      \/ \E p \in Profiles : SeedProfile(p)
      \/ UNCHANGED <<seeded, capability>>
    BY Zenon DEF Next, vars, world, Begin, _grant, _assign, Granting, GrantReadsUnlocked, GrantWrites, revoke_permission,
           revoke_assignment, Revoking, Commits, Aborts, set_vpn_server_state, DisableAccount, _cut_off, grant_traffic_quota, ConnectChecks,
           ConnectCommits, SweepReads, SweepCommits, Removed
<1>. QED
    BY <1>1, <1>2, <1>3, <1>4, <1>5

\* Through every order of seeding, offering, withdrawing, granting and revoking: a connect is
\* accepted only for what list_available_servers shows, and what it shows is refused to an
\* active account only for its allowance, for want of a slot or while a removal is under way.
THEOREM PickerIsTheGate == Spec => []PickerMatchesGate
<1>1. Init => OfferInv
    BY DEF Init, OfferInv
<1>2. OfferInv /\ [Next]_vars => OfferInv'
    BY NextOffers
<1>3. OfferInv => PickerMatchesGate
    <2>1. SUFFICES ASSUME OfferInv, NEW u \in Users, NEW s \in Servers, NEW p \in Profiles
                   PROVE  account[u] = "active" =>
                              (Accepts(u, s, p) <=> /\ <<s, p>> \in list_available_servers(u)
                                                    /\ u \notin spent
                                                    /\ Admits(u, s, p))
        BY DEF PickerMatchesGate
    <2>2. capability[<<s, p>>] = "on" => p \in seeded
        BY <2>1 DEF OfferInv
    <2>. QED
        BY <2>2 DEF list_available_servers, Accepts, _require_active_server
<1>. QED
    BY <1>1, <1>2, <1>3, PTL DEF Spec
=============================================================================
