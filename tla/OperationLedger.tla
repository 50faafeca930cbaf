--------------------------- MODULE OperationLedger ---------------------------
(***************************************************************************)
(* The agent's idempotency ledger (ledger.py): a dictionary in memory over *)
(* an append-only file of one line per entry, compacted to the newest      *)
(* MaxEntries.  A process killed inside an append leaves a last line that  *)
(* is cut short, or whole but for its newline; the file is read back when  *)
(* the agent starts.                                                       *)
(***************************************************************************)
EXTENDS Naturals, Sequences, FiniteSets, SequencesExt

CONSTANTS Idems,       \* idempotency keys
          MaxEntries,  \* operation_ledger_max_entries
          MaxKills,    \* kills inside an operation
          MaxLines,    \* lines of the file
          Garbage,     \* a line no entry can be parsed from
          Nil

VARIABLES
    order,   \* _order, the keys of _entries oldest first
    lines,   \* the file's terminated lines
    tail,    \* its unterminated last line: a key, Garbage, or Nil for none
    up,      \* the process runs
    acked,   \* keys whose record() returned, oldest first
    kills

vars == <<order, lines, tail, up, acked, kills>>

Entries == Range(order)

Init ==
    /\ order = <<>> /\ lines = <<>> /\ tail = Nil
    /\ up = TRUE /\ acked = <<>> /\ kills = 0

\* _append_to_disk on top of an unterminated line joins the two into one.
Appended(k) == IF tail = Nil THEN Append(lines, k) ELSE Append(lines, Garbage)

\* Mutant of Newest: the entries just recorded are the ones dropped.
Oldest(keys) == SubSeq(keys, 1, MaxEntries)

\* _compact_if_needed.
Newest(keys) == SubSeq(keys, Len(keys) - MaxEntries + 1, Len(keys))

\* _order with k, before the compaction.
Ordered(k) == IF k \in Entries THEN order ELSE Append(order, k)

Compacts(k) == Len(Ordered(k)) > MaxEntries

\* record and the answer that follows it.  A key known already, recorded again by
\* a second request that was under way with it, only gets one more line.
Record(k) ==
    /\ up /\ Len(lines) < MaxLines
    /\ order' = IF Compacts(k) THEN Newest(Ordered(k)) ELSE Ordered(k)
    /\ lines' = IF Compacts(k) THEN order' ELSE Appended(k)
    /\ tail' = Nil
    /\ acked' = IF k \in Entries THEN acked
                ELSE Append(SelectSeq(acked, LAMBDA a : a # k), k)
    /\ UNCHANGED <<up, kills>>

Killed == up' = FALSE /\ order' = <<>> /\ UNCHANGED acked

\* Killed inside the append, after part of the line or all but its newline.
KillInAppend(k) ==
    /\ up /\ kills < MaxKills
    /\ kills' = kills + 1
    /\ tail' \in IF tail = Nil THEN {Garbage, k} ELSE {Garbage}
    /\ Killed
    /\ UNCHANGED lines

\* Killed after the line, before the compaction replaces the file or before the
\* answer is sent.
KillBeforeAnswer(k) ==
    /\ up /\ Len(lines) < MaxLines /\ kills < MaxKills
    /\ kills' = kills + 1
    /\ \/ lines' = Appended(k)
       \/ Compacts(k) /\ lines' = Newest(Ordered(k))
    /\ tail' = Nil
    /\ Killed

\* Killed between operations.
Kill ==
    /\ up
    /\ Killed
    /\ UNCHANGED <<lines, tail, kills>>

\* Mutant of Unread: the duplicate of a key is kept.
UnreadTwice(keys) == SelectSeq(keys, LAMBDA k : k \in Idems)

\* _load keeps each readable key once, at its first line.
Unread(keys) ==
    LET add(seen, k) == IF k \in Idems \ Range(seen) THEN Append(seen, k) ELSE seen
    IN FoldLeft(add, <<>>, keys)

Start ==
    /\ ~up
    /\ up' = TRUE
    /\ order' = Unread(IF tail = Nil THEN lines ELSE Append(lines, tail))
    /\ UNCHANGED <<lines, tail, acked, kills>>

Next ==
    \/ \E k \in Idems : Record(k) \/ KillInAppend(k) \/ KillBeforeAnswer(k)
    \/ Kill \/ Start

Spec == Init /\ [][Next]_vars

-----------------------------------------------------------------------------

\* The dictionary lists no key twice, and a running agent holds at most
\* MaxEntries entries beyond what killed operations left in the file.
TypeOK ==
    /\ order \in Seq(Idems) /\ Cardinality(Entries) = Len(order)
    /\ Len(order) <= MaxEntries + kills
    /\ lines \in Seq(Idems \cup {Garbage})
    /\ tail \in Idems \cup {Garbage, Nil}
    /\ up \in BOOLEAN
    /\ kills \in 0 .. MaxKills

Lately == {acked[i] : i \in {n \in DOMAIN acked : n > Len(acked) - MaxEntries}}
Lost == IF up THEN Lately \ Entries ELSE {}

\* The MaxEntries operations answered last are remembered across every restart and
\* compaction, so a retry of one of them is replayed; a kill inside an operation costs
\* at most one of them besides the one it cut off (_append_to_disk, _load, _compact).
LossBounded == Cardinality(Lost) <= kills
=============================================================================
