---------------------------- MODULE HistoryProofs ----------------------------
(***************************************************************************)
(* What the retention pass leaves alone, proved for any set of operations  *)
(* and mails and any retention period.                                     *)
(***************************************************************************)
EXTENDS History, TLAPS

Places == {"none", "records", "mail", "operations", "audit"}

Row == [at : {"none", "live", "kept", "gone"}, due : Nat, ended : Nat \cup {Null}]

\* The rows are rows, and the tables are visited in the order of prune_history.
TypeInv ==
    /\ clock \in Nat
    /\ event \in [Events -> [at : {"none", "open", "kept", "gone"}, when : Nat]]
    /\ work \in [Works -> Row]
    /\ record \in [Works -> [at : {"none", "kept", "gone"}, when : Nat]]
    /\ prune \in [table : Places, moment : Nat]

\* What makes the pass safe against the writers it overlaps: the moment it works with
\* is past, an operation that is kept has its time of completion, and a mail has no
\* reconciliation record.
PastInv ==
    /\ prune.moment <= clock
    /\ \A w \in Works \ Mails : work[w].at = "kept" => work[w].ended # Null
    /\ \A w \in Works \cap Mails : record[w].at = "none"

IInv == TypeInv /\ PastInv

\* The periods of RetentionPolicy are numbers of days, and a mail is one of the works.
Setting == AuditDays \in Nat /\ OperationalDays \in Nat /\ Mails \subseteq Works

\* The pass over the audit log is the last one; the others lead to one another.
LEMMA PassesInOrder ==
    ASSUME NEW t \in Places \ {"none"}
    PROVE  Following(t) \in Places
<1>1. CASE t = "audit"
    BY <1>1 DEF Following, Places
<1>2. CASE t # "audit"
    <2>. DEFINE i == CHOOSE j \in DOMAIN Passes : Passes[j] = t
    <2>1. DOMAIN Passes = 1..4 /\ Passes[1] = "records" /\ Passes[2] = "mail"
          /\ Passes[3] = "operations" /\ Passes[4] = "audit"
        BY DEF Passes
    <2>2. \E j \in DOMAIN Passes : Passes[j] = t
        BY <1>2, <2>1 DEF Places
    <2>3. i \in DOMAIN Passes /\ Passes[i] = t
        BY <2>2
    <2>4. i \in 1..3
        BY <1>2, <2>1, <2>3
    <2>. QED
        BY <1>2, <2>1, <2>4 DEF Following, Places
<1>. QED
    BY <1>1, <1>2

\* At the start there is nothing to delete.
LEMMA InitPast ==
    ASSUME Init
    PROVE  IInv
BY DEF Init, IInv, TypeInv, PastInv, Places, Row, Null

\* What a step of the pass may do to the rows.
Spares == (\A w \in Works : SparesWork(w)) /\ (\A e \in Events : SparesEvent(e))

\* A row of an operation or of a mail that is written, not deleted, keeps the invariant.
LEMMA RowKeeps ==
    ASSUME IInv, NEW w \in Works, NEW row \in Row, row.at \in {"live", "kept"},
           w \notin Mails /\ row.at = "kept" => row.ended # Null,
           work' = [work EXCEPT ![w] = row], UNCHANGED <<clock, event, record, prune>>
    PROVE  IInv' /\ Spares
<1>. USE DEF IInv
<1>1. /\ work' \in [Works -> Row] /\ work'[w] = row
      /\ \A v \in Works \ {w} : work'[v] = work[v]
    BY DEF TypeInv
<1>2. IInv'
    BY <1>1 DEF TypeInv, PastInv
<1>3. Spares
    BY <1>1 DEF Spares, SparesWork, SparesEvent
<1>. QED
    BY <1>2, <1>3

\* The clock and the writers keep it too.
LEMMA WritersKeep ==
    ASSUME IInv,
           \/ Tick
           \/ \E e \in Events : EventBegins(e) \/ EventCommits(e)
           \/ \E w \in Works : \/ WorkQueued(w) \/ OperationEnds(w) \/ RecordWritten(w)
                               \/ MailSent(w) \/ MailRetried(w) \/ MailFails(w)
    PROVE  IInv' /\ Spares
<1>. USE DEF IInv
<1>1. CASE Tick
    BY <1>1 DEF Tick, TypeInv, PastInv, Spares, SparesWork, SparesEvent
<1>2. ASSUME NEW e \in Events, EventBegins(e) \/ EventCommits(e)
      PROVE  IInv' /\ Spares
    <2>. DEFINE Log == [at : {"none", "open", "kept", "gone"}, when : Nat]
    <2>1. event[e] \in Log /\ clock \in Nat
        BY DEF TypeInv
    <2>2. PICK row \in Log : row.at \in {"open", "kept"} /\ event' = [event EXCEPT ![e] = row]
        <3>1. [at |-> "open", when |-> clock] \in Log /\ [at |-> "open", when |-> clock].at = "open"
            BY <2>1
        <3>2. [event[e] EXCEPT !.at = "kept"] \in Log /\ [event[e] EXCEPT !.at = "kept"].at = "kept"
            BY <2>1, Zenon
        <3>. QED
            BY <1>2, <3>1, <3>2 DEF EventBegins, EventCommits
    <2>3. /\ event' \in [Events -> Log] /\ event'[e].at # "gone"
          /\ \A f \in Events \ {e} : event'[f] = event[f]
        BY <2>2 DEF TypeInv
    <2>4. UNCHANGED <<clock, work, record, prune>>
        BY <1>2 DEF EventBegins, EventCommits
    <2>5. IInv'
        BY <2>3, <2>4 DEF TypeInv, PastInv
    <2>6. Spares
        BY <2>3, <2>4 DEF Spares, SparesWork, SparesEvent
    <2>. QED
        BY <2>5, <2>6
<1>3. ASSUME NEW w \in Works, WorkQueued(w)
      PROVE  IInv' /\ Spares
    <2>1. [at |-> "live", due |-> clock, ended |-> Null] \in Row
        BY DEF TypeInv, Row
    <2>. QED
        BY <1>3, <2>1, RowKeeps DEF WorkQueued
<1>6. ASSUME NEW w \in Works, OperationEnds(w)
      PROVE  IInv' /\ Spares
    <2>. DEFINE row == [work[w] EXCEPT !.at = "kept", !.ended = clock]
    <2>1. work[w] \in Row /\ clock \in Nat
        BY DEF TypeInv
    <2>2. row \in Row /\ row.at = "kept" /\ row.ended = clock
        BY <2>1, Zenon DEF Row
    <2>3. row.ended # Null
        BY <2>1, <2>2 DEF Null
    <2>4. work' = [work EXCEPT ![w] = row] /\ UNCHANGED <<clock, event, record, prune>>
        BY <1>6, Zenon DEF OperationEnds
    <2>. QED
        BY <2>2, <2>3, <2>4, RowKeeps
<1>4. ASSUME NEW w \in Works, MailSent(w) \/ MailRetried(w) \/ MailFails(w)
      PROVE  IInv' /\ Spares
    <2>1. clock \in Nat /\ work[w] \in Row
        BY DEF TypeInv
    <2>2. /\ [work[w] EXCEPT !.at = "kept", !.ended = clock] \in Row
          /\ \A due \in Nat : /\ [work[w] EXCEPT !.at = "live", !.due = due] \in Row
                              /\ [work[w] EXCEPT !.at = "kept", !.due = due] \in Row
        BY <2>1 DEF Row
    <2>3. \A due \in Nat : [work[w] EXCEPT !.at = "live", !.due = due].at = "live"
                          /\ [work[w] EXCEPT !.at = "kept", !.due = due].at = "kept"
        BY <2>1 DEF Row
    <2>4. [work[w] EXCEPT !.at = "kept", !.ended = clock].at = "kept" /\ work[w].due \in Nat
        BY <2>1 DEF Row
    <2>5. CASE MailSent(w)
        BY <2>2, <2>4, <2>5, RowKeeps DEF MailSent, MailUpdated
    <2>6. CASE MailRetried(w)
        <3>1. PICK pause \in 0..1 : MailUpdated(w, [work[w] EXCEPT !.at = "live", !.due = clock + pause])
            BY <2>6 DEF MailRetried
        <3>2. clock + pause \in Nat
            BY <2>1
        <3>. QED
            BY <2>2, <2>3, <3>1, <3>2, RowKeeps DEF MailUpdated
    <2>7. CASE MailFails(w)
        <3>1. PICK due \in {work[w].due, clock} : MailUpdated(w, [work[w] EXCEPT !.at = "kept", !.due = due])
            BY <2>7 DEF MailFails
        <3>2. due \in Nat
            BY <2>1, <2>4
        <3>. QED
            BY <2>2, <2>3, <3>1, <3>2, RowKeeps DEF MailUpdated
    <2>. QED
        BY <1>4, <2>5, <2>6, <2>7
<1>5. ASSUME NEW w \in Works, RecordWritten(w)
      PROVE  IInv' /\ Spares
    BY <1>5 DEF RecordWritten, TypeInv, PastInv, Spares, SparesWork, SparesEvent
<1>. QED
    BY <1>1, <1>2, <1>3, <1>4, <1>5, <1>6

\* A batch of the pass deletes only what the pass may delete at its moment.
LEMMA BatchSpares ==
    ASSUME Setting, IInv, _delete_in_batches
    PROVE  IInv' /\ Spares
<1>. USE DEF IInv, Setting
<1>0. PICK batch \in (SUBSET Doomed) \ {{}} :
        /\ record' = IF prune.table = "records" THEN Deleted(record, batch) ELSE record
        /\ work' = IF prune.table \in {"mail", "operations"} THEN Deleted(work, batch) ELSE work
        /\ event' = IF prune.table = "audit" THEN Deleted(event, batch) ELSE event
        /\ UNCHANGED <<clock, prune>>
    BY DEF _delete_in_batches
<1>1. CASE prune.table = "records"
    <2>1. batch \subseteq {w \in Works : record[w].at = "kept"}
        BY <1>0, <1>1 DEF Doomed, DoomedRecords
    <2>2. /\ record' = Deleted(record, batch)
          /\ UNCHANGED <<work, event, clock, prune>>
        BY <1>0, <1>1
    <2>3. \A r \in Works \ batch : record'[r] = record[r]
        BY <2>1, <2>2 DEF TypeInv, Deleted
    <2>4. TypeInv'
        BY <2>1, <2>2 DEF TypeInv, Deleted
    <2>5. PastInv'
        BY <2>1, <2>2, <2>3 DEF TypeInv, PastInv
    <2>6. Spares
        BY <2>2 DEF Spares, SparesWork, SparesEvent
    <2>. QED
        BY <2>4, <2>5, <2>6
<1>2. CASE prune.table \in {"mail", "operations"}
    <2>1. ASSUME NEW w \in batch
          PROVE  /\ w \in Works /\ work[w].at = "kept" /\ record[w].at # "kept"
                 /\ Since(w) < prune.moment - OperationalDays
        <3>1. CASE prune.table = "mail"
            BY <1>0, <3>1 DEF Doomed, DoomedMail, PastInv, OperationalCutoff
        <3>2. CASE prune.table = "operations"
            BY <1>0, <3>2 DEF Doomed, DoomedOperations, PastInv, OperationalCutoff, Since
        <3>. QED
            BY <1>2, <3>1, <3>2
    <2>2. /\ work' = Deleted(work, batch)
          /\ UNCHANGED <<record, event, clock, prune>>
        BY <1>0, <1>2
    <2>3. /\ DOMAIN work' = Works
          /\ \A r \in Works \ batch : work'[r] = work[r]
          /\ \A r \in batch : work'[r] = [work[r] EXCEPT !.at = "gone"]
        BY <2>1, <2>2 DEF TypeInv, Deleted
    <2>4. \A w \in batch : work'[w] \in Row /\ work'[w].at = "gone"
        <3>1. \A w \in batch : work[w] \in Row
            BY <2>1 DEF TypeInv
        <3>. QED
            BY <2>3, <3>1, Zenon DEF Row
    <2>5. TypeInv'
        <3>1. work' \in [Works -> Row]
            BY <2>2, <2>3, <2>4 DEF TypeInv, Deleted
        <3>. QED
            BY <2>2, <3>1 DEF TypeInv
    <2>6. PastInv'
        BY <2>2, <2>3, <2>4 DEF PastInv
    <2>7. ASSUME NEW w \in batch
          PROVE  Since(w) + OperationalDays < clock
        <3>1. Since(w) \in Int /\ prune.moment \in Nat /\ prune.moment <= clock /\ clock \in Nat
            BY <2>1 DEF TypeInv, PastInv, Since, Row, Null
        <3>. QED
            BY <2>1, <3>1
    <2>8. ASSUME NEW w \in Works
          PROVE  SparesWork(w)
        BY <2>1, <2>3, <2>7 DEF SparesWork
    <2>9. ASSUME NEW e \in Events
          PROVE  SparesEvent(e)
        BY <2>2 DEF SparesEvent
    <2>. QED
        BY <2>5, <2>6, <2>8, <2>9 DEF Spares
<1>3. CASE prune.table = "audit"
    <2>1. \A e \in batch : /\ e \in Events
                           /\ event[e].at = "kept"
                           /\ event[e].when < prune.moment - AuditDays
        BY <1>0, <1>3 DEF Doomed, DoomedEvents, AuditCutoff
    <2>2. /\ event' = Deleted(event, batch)
          /\ UNCHANGED <<record, work, clock, prune>>
        BY <1>0, <1>3
    <2>3. \A r \in Events \ batch : event'[r] = event[r]
        BY <2>2 DEF TypeInv, Deleted
    <2>4. IInv'
        BY <2>1, <2>2, <2>3 DEF TypeInv, PastInv, Deleted
    <2>5. \A e \in batch : event[e].when + AuditDays < clock
        BY <2>1 DEF TypeInv, PastInv
    <2>6. Spares
        BY <2>2, <2>3, <2>5 DEF Spares, SparesWork, SparesEvent
    <2>. QED
        BY <2>4, <2>6
<1>4. CASE prune.table = "none"
    BY <1>0, <1>4 DEF Doomed
<1>. QED
    BY <1>1, <1>2, <1>3, <1>4 DEF TypeInv, Places

\* Every step keeps the invariant, and deletes only what may go.
LEMMA NextSpares ==
    ASSUME Setting, IInv, [Next]_vars
    PROVE  IInv' /\ Spares
<1>. USE DEF IInv
<1>1. CASE PruneStarts \/ PruneDies
    BY <1>1 DEF PruneStarts, PruneDies, TypeInv, PastInv, Places, Spares, SparesWork, SparesEvent
<1>2. CASE PassEnds
    <2>1. Following(prune.table) \in Places
        BY <1>2, PassesInOrder DEF PassEnds, TypeInv
    <2>2. prune' \in [table : Places, moment : Nat] /\ prune'.moment <= clock
        BY <1>2, <2>1 DEF PassEnds, TypeInv, PastInv, Places
    <2>3. UNCHANGED <<clock, event, work, record>>
        BY <1>2 DEF PassEnds
    <2>. QED
        BY <2>2, <2>3 DEF TypeInv, PastInv, Spares, SparesWork, SparesEvent
<1>3. CASE export_audit_log
    BY <1>3 DEF export_audit_log, TypeInv, PastInv, Spares, SparesWork, SparesEvent
<1>4. CASE UNCHANGED vars
    BY <1>4 DEF vars, TypeInv, PastInv, Spares, SparesWork, SparesEvent
<1>. QED
    BY <1>1, <1>2, <1>3, <1>4, WritersKeep, BatchSpares DEF Next

\* At the moment it deletes a row, prune_history deletes nothing that is still to be
\* done, that was finished or given up within the period, or that a record refers to:
\* for all periods, any number of rows, and whatever writers the pass overlaps.
THEOREM PruneSpares ==
    ASSUME Setting
    PROVE  Spec => PruneSparesWhatCounts
<1>1. Init => IInv
    BY InitPast
<1>2. IInv /\ [Next]_vars => IInv'
    BY NextSpares
<1>3. IInv /\ [Next]_vars
      => [(\A w \in Works : SparesWork(w)) /\ (\A e \in Events : SparesEvent(e))]_vars
    BY NextSpares DEF Spares
<1>. QED
    BY <1>1, <1>2, <1>3, PTL DEF Spec, PruneSparesWhatCounts
=============================================================================
