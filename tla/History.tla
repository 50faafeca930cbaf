-------------------------------- MODULE History --------------------------------
(***************************************************************************)
(* What the deployment keeps of its past: audit events, agent operations   *)
(* with the reconciliation records that refer to them, and mail            *)
(* deliveries; the retention pass that deletes the old ones; and the       *)
(* hash-chained export of the audit log, kept elsewhere and compared with  *)
(* a later one.                                                            *)
(*                                                                         *)
(* Time is a counter of units.  A hash is modelled by what it is a hash    *)
(* of: the sequence of the events chained so far, which loses nothing.     *)
(***************************************************************************)
EXTENDS Integers, Sequences, FiniteSets, SequencesExt

CONSTANTS Events,           \* audit events, naturals: ties are broken by id
          Works,            \* agent operations and mail deliveries
          Mails,            \* those of Works that are mail
          Settle,           \* _EXPORT_SETTLE
          LongestWrite,     \* how long a transaction with an audit event lasts
          AuditDays, OperationalDays,   \* RetentionPolicy
          MaxClock

VARIABLES scope,     \* what is written in this behaviour: the audit log or the rest
          clock,
          event,     \* audit_logs
          work,      \* agent_operations and email_deliveries
          record,    \* the reconciliation record of an operation
          prune,     \* the retention pass under way
          exports,   \* the exports kept, oldest first
          erased     \* events that retention deleted

vars == <<scope, clock, event, work, record, prune, exports, erased>>

Null == -1   \* a column that is NULL

\* No transaction with an audit event outlasts the margin of the export.
RunsShort == LongestWrite <= Settle

Init ==
    /\ scope \in {"audit", "work"}
    /\ clock = 0
    /\ event = [e \in Events |-> [at |-> "none", when |-> 0]]
    /\ work = [w \in Works |-> [at |-> "none", due |-> 0, ended |-> Null]]
    /\ record = [w \in Works |-> [at |-> "none", when |-> 0]]
    /\ prune = [table |-> "none", moment |-> 0]
    /\ exports = <<>>
    /\ erased = {}

-----------------------------------------------------------------------------
(* The writers *)

Tick ==
    /\ clock < MaxClock
    /\ \A e \in Events : event[e].at = "open" => clock - event[e].when < LongestWrite
    /\ clock' = clock + 1
    /\ UNCHANGED <<scope, event, work, record, prune, exports, erased>>

\* recorded_at is now() of the transaction: its start.
EventBegins(e) ==
    /\ scope = "audit"
    /\ event[e].at = "none"
    /\ event' = [event EXCEPT ![e] = [at |-> "open", when |-> clock]]
    /\ UNCHANGED <<scope, clock, work, record, prune, exports, erased>>

EventCommits(e) ==
    /\ event[e].at = "open"
    /\ event' = [event EXCEPT ![e].at = "kept"]
    /\ UNCHANGED <<scope, clock, work, record, prune, exports, erased>>

\* due is requested_at of an operation and available_at of a mail, ended finished_at
\* and sent_at.
WorkQueued(w) ==
    /\ scope = "work"
    /\ work[w].at = "none"
    /\ work' = [work EXCEPT ![w] = [at |-> "live", due |-> clock, ended |-> Null]]
    /\ UNCHANGED <<scope, clock, event, record, prune, exports, erased>>

OperationEnds(w) ==
    /\ w \notin Mails /\ work[w].at = "live"
    /\ work' = [work EXCEPT ![w].at = "kept", ![w].ended = clock]
    /\ UNCHANGED <<scope, clock, event, record, prune, exports, erased>>

\* The worker's updates name a mail by its id only: one whose lease ran out may still
\* apply them to a mail that another has finished (Outbox).
MailUpdated(w, row) ==
    /\ w \in Mails /\ work[w].at \in {"live", "kept"}
    /\ work' = [work EXCEPT ![w] = row]
    /\ UNCHANGED <<scope, clock, event, record, prune, exports, erased>>

MailSent(w) == MailUpdated(w, [work[w] EXCEPT !.at = "kept", !.ended = clock])

\* Tried again: at once after a lease that ran out, after a pause otherwise.
MailRetried(w) ==
    \E pause \in 0..1 : MailUpdated(w, [work[w] EXCEPT !.at = "live", !.due = clock + pause])

\* Given up: no time of completion; a lease that ran out moves available_at.
MailFails(w) ==
    \E due \in {work[w].due, clock} : MailUpdated(w, [work[w] EXCEPT !.at = "kept", !.due = due])

\* _record, in a transaction of its own after the operation has been finished.
RecordWritten(w) ==
    /\ w \notin Mails
    /\ work[w].at = "kept" /\ record[w].at = "none"
    /\ record' = [record EXCEPT ![w] = [at |-> "kept", when |-> clock]]
    /\ UNCHANGED <<scope, clock, event, work, prune, exports, erased>>

-----------------------------------------------------------------------------
(* prune_history: one transaction per batch, each table after the one before *)

Passes == <<"records", "mail", "operations", "audit">>
Following(table) ==
    IF table = "audit" THEN "none"
    ELSE Passes[(CHOOSE i \in DOMAIN Passes : Passes[i] = table) + 1]

PruneStarts ==
    /\ prune.table = "none"
    /\ prune' = [table |-> "records", moment |-> clock]
    /\ UNCHANGED <<scope, clock, event, work, record, exports, erased>>

OperationalCutoff == prune.moment - OperationalDays
AuditCutoff == prune.moment - AuditDays

DoomedRecords == {w \in Works : record[w].at = "kept" /\ record[w].when < OperationalCutoff}

\* coalesce(sent_at, available_at)
Since(w) == IF work[w].ended = Null THEN work[w].due ELSE work[w].ended

MailInAnyState ==
    {w \in Mails : work[w].at \in {"live", "kept"} /\ Since(w) < OperationalCutoff}
MailByQueueTime ==
    {w \in Mails : work[w].at = "kept" /\ work[w].due < OperationalCutoff}

DoomedMail == {w \in Mails : work[w].at = "kept" /\ Since(w) < OperationalCutoff}

OperationsByCutoff ==
    {w \in Works \ Mails : work[w].at = "kept" /\ work[w].ended < OperationalCutoff}
OperationsByAge ==
    {w \in Works \ Mails : /\ work[w].at \in {"live", "kept"}
                           /\ work[w].due < OperationalCutoff
                           /\ record[w].at # "kept"}

DoomedOperations ==
    {w \in Works \ Mails : /\ work[w].at = "kept"
                           /\ work[w].ended < OperationalCutoff
                           /\ record[w].at # "kept"}
DoomedEvents == {e \in Events : event[e].at = "kept" /\ event[e].when < AuditCutoff}

Doomed == CASE prune.table = "records" -> DoomedRecords
            [] prune.table = "mail" -> DoomedMail
            [] prune.table = "operations" -> DoomedOperations
            [] prune.table = "audit" -> DoomedEvents
            [] OTHER -> {}

Deleted(table, rows) == [r \in DOMAIN table |-> IF r \in rows THEN [table[r] EXCEPT !.at = "gone"]
                                                ELSE table[r]]

\* One batch, of the rows nobody else had locked.
_delete_in_batches ==
    \E batch \in (SUBSET Doomed) \ {{}} :
        /\ record' = IF prune.table = "records" THEN Deleted(record, batch) ELSE record
        /\ work' = IF prune.table \in {"mail", "operations"} THEN Deleted(work, batch) ELSE work
        /\ event' = IF prune.table = "audit" THEN Deleted(event, batch) ELSE event
        /\ erased' = IF prune.table = "audit" THEN erased \cup batch ELSE erased
        /\ UNCHANGED <<scope, clock, prune, exports>>

\* Nothing more to delete, the rest locked, or a credential that may not delete it.
PassEnds ==
    /\ prune.table # "none"
    /\ prune' = IF Following(prune.table) = "none" THEN [table |-> "none", moment |-> 0]
                ELSE [prune EXCEPT !.table = Following(@)]
    /\ UNCHANGED <<scope, clock, event, work, record, exports, erased>>

PruneDies ==
    /\ prune.table # "none"
    /\ prune' = [table |-> "none", moment |-> 0]
    /\ UNCHANGED <<scope, clock, event, work, record, exports, erased>>

-----------------------------------------------------------------------------
(* The export *)

GENESIS == <<>>
_link(prev, e) == Append(prev, e)

\* A line: the event, the previous line's hash and its own.
Line(e, prev) == [event |-> e, prev |-> prev, hash |-> _link(prev, e)]

chain_lines(entries) ==
    LET Prev(i) == SubSeq(entries, 1, i - 1) IN
    [lines |-> [i \in DOMAIN entries |-> Line(entries[i], Prev(i))],
     count |-> Len(entries), head |-> entries]

Earlier(a, b) == event[a].when < event[b].when \/ (event[a].when = event[b].when /\ a < b)
export_events(until) ==
    SetToSortSeq({e \in Events : event[e].at = "kept" /\ event[e].when < until}, Earlier)

UntilNow == clock
Until == clock - Settle

export_audit_log ==
    /\ scope = "audit"
    /\ Len(exports) < 2
    /\ exports' = Append(exports, chain_lines(export_events(Until)))
    /\ UNCHANGED <<scope, clock, event, work, record, prune, erased>>

-----------------------------------------------------------------------------
(* nebula-api audit-verify *)

LinksTrusted(x) ==
    \A i \in DOMAIN x.lines : x.lines[i].prev = IF i = 1 THEN GENESIS ELSE x.lines[i - 1].hash

\* Every line names the hash before it and carries the hash over both.
Links(x) ==
    \A i \in DOMAIN x.lines :
        LET prev == IF i = 1 THEN GENESIS ELSE x.lines[i - 1].hash IN
        /\ x.lines[i].prev = prev
        /\ x.lines[i].hash = _link(prev, x.lines[i].event)

verify(x) ==
    /\ Links(x)
    /\ x.count = Len(x.lines)
    /\ x.head = IF x.lines = <<>> THEN GENESIS ELSE Last(x.lines).hash

verify_extends(old, new) ==
    /\ verify(old) /\ verify(new)
    /\ old.count > 0 =>
         /\ new.count >= old.count
         /\ new.lines[old.count].hash = old.head

-----------------------------------------------------------------------------
Next ==
    \/ Tick
    \/ \E e \in Events : EventBegins(e) \/ EventCommits(e)
    \/ \E w \in Works : \/ WorkQueued(w) \/ OperationEnds(w) \/ RecordWritten(w)
                        \/ MailSent(w) \/ MailRetried(w) \/ MailFails(w)
    \/ PruneStarts
    \/ _delete_in_batches
    \/ PassEnds
    \/ PruneDies
    \/ export_audit_log

Spec == Init /\ [][Next]_vars

-----------------------------------------------------------------------------
EventsOf(x) == [i \in DOMAIN x.lines |-> x.lines[i].event]

\* An export holds every export before it, line for line, unless retention has since
\* deleted an event of it: the order (recorded_at, id) is settled when the margin is
\* past, although recorded_at is the start of a transaction that commits later.
ExportsExtend ==
    RunsShort /\ Len(exports) = 2 =>
        LET old == EventsOf(exports[1]) IN
        \/ IsPrefix(old, EventsOf(exports[2])) /\ verify_extends(exports[1], exports[2])
        \/ ToSet(old) \cap erased # {}

\* The same lines with one of them changed, one taken out, or two swapped, and a
\* closing line that fits what is left.
Reclosed(lines) ==
    [lines |-> lines, count |-> Len(lines), head |-> IF lines = <<>> THEN GENESIS ELSE Last(lines).hash]
Altered(x) ==
    {Reclosed([x.lines EXCEPT ![i].event = e]) : i \in DOMAIN x.lines, e \in Events}
    \cup {Reclosed(RemoveAt(x.lines, i)) : i \in DOMAIN x.lines}
    \cup {Reclosed([x.lines EXCEPT ![i] = x.lines[j], ![j] = x.lines[i]]) :
              i \in DOMAIN x.lines, j \in DOMAIN x.lines}

\* audit-verify --extends accepts an altered copy of an export only when the older
\* export's events are in it, all and in order.
AcceptedMeansUnchanged ==
    \A i \in DOMAIN exports : \A copy \in Altered(exports[i]) :
        verify_extends(exports[1], copy) =>
            IsPrefix(EventsOf(exports[1]), EventsOf(copy))

\* Retention deletes no operation or mail that is still to be done, not even one that
\* looked finished before; none that was finished, or given up, less than the period
\* ago; none that a kept record refers to (the foreign key would stop the whole run
\* there); and no audit event within its own period, whatever is written while it runs
\* and wherever it stops.
SparesWork(w) ==
    work[w].at # "gone" /\ work'[w].at = "gone" =>
        /\ work[w].at = "kept"
        /\ record[w].at # "kept"
        /\ Since(w) + OperationalDays < clock
SparesEvent(e) ==
    event[e].at # "gone" /\ event'[e].at = "gone" => event[e].when + AuditDays < clock
PruneSparesWhatCounts ==
    [][(\A w \in Works : SparesWork(w)) /\ (\A e \in Events : SparesEvent(e))]_vars
=============================================================================
