------------------------------- MODULE Outbox -------------------------------
(***************************************************************************)
(* The email outbox: rows of email_deliveries written by the API, payloads *)
(* it stages in Redis after the commit, and the worker processes           *)
(* (nebula_worker/poller.py) that claim rows under a lease, hand the mail  *)
(* to a provider and finalize the row in a later transaction.              *)
(*                                                                         *)
(* Every statement is UPDATE ... WHERE id = :id, so a finalizer writes     *)
(* over whatever the row has become; the only guard the table has is the   *)
(* CHECK constraint sent_at >= available_at.  Time is a counter that moves *)
(* only while some row waits for it.                                       *)
(***************************************************************************)
EXTENDS Naturals, FiniteSets, FiniteSetsExt

CONSTANTS
    Deliveries,     \* ids of email_deliveries rows
    Workers,        \* worker processes
    Sites,          \* deployments: workers run, mails queued, settings.max_attempts
    BatchSize,      \* settings.batch_size
    Lease,          \* settings.lease_seconds, in ticks
    BackoffUnit,    \* the 30 seconds of _finalize, in ticks
    BackoffCap,     \* its 3600 seconds, in ticks
    Nil

VARIABLES
    site,       \* this deployment
    row,        \* email_deliveries
    payload,    \* the payload of each row in Redis
    worker,     \* each worker's poll_once
    clock,
    copies,     \* history: how often the provider accepted the mail
    doubts      \* history: leases that ran out and answers that were lost

vars == <<site, row, payload, worker, clock, copies, doubts>>
history == <<copies, doubts>>

States == {"absent", "pending", "sending", "sent", "failed"}
Outcomes == {"delivered", "send_failed", "payload_unavailable"}
NoRow == [state |-> "absent", attempts |-> 0, available |-> 0, leased |-> Nil, sent |-> Nil]
Idle == [pc |-> "idle", now |-> 0, batch |-> {}, cur |-> Nil, outcome |-> Nil]

Init ==
    /\ site \in Sites
    /\ row = [d \in Deliveries |-> NoRow]
    /\ payload = [d \in Deliveries |-> "none"]
    /\ worker = [w \in Workers |-> Idle]
    /\ clock = 0
    /\ copies = [d \in Deliveries |-> 0]
    /\ doubts = [d \in Deliveries |-> 0]

(***************************************************************************)
(* The API side.                                                           *)
(***************************************************************************)
\* The row is committed with the decision it reports; the payload follows.
Queue(d) ==
    /\ d \in site.mails /\ row[d].state = "absent" /\ payload[d] = "none"
    /\ row' = [row EXCEPT ![d] = [NoRow EXCEPT !.state = "pending", !.available = clock]]
    /\ payload' = [payload EXCEPT ![d] = "due"]
    /\ UNCHANGED <<site, worker, clock, history>>

\* _stage_delivery: a failure is logged and the payload is never written.
Stage(d) ==
    /\ payload[d] = "due"
    /\ \E p \in {"staged", "gone"} : payload' = [payload EXCEPT ![d] = p]
    /\ UNCHANGED <<site, row, worker, clock, history>>

\* The staged payload outlives its ttl_seconds.
PayloadExpires(d) ==
    /\ payload[d] = "staged"
    /\ payload' = [payload EXCEPT ![d] = "gone"]
    /\ UNCHANGED <<site, row, worker, clock, history>>

\* erase_account and the retention job delete rows under the worker's feet.
Erase(d) ==
    /\ row[d].state # "absent"
    /\ row' = [row EXCEPT ![d] = NoRow]
    /\ UNCHANGED <<site, payload, worker, clock, history>>

(***************************************************************************)
(* The worker: poll_once.                                                  *)
(***************************************************************************)
\* CHECK constraint sent_after_available; a statement that breaks it raises.
Allowed(r) == r.sent = Nil \/ r.sent >= r.available

\* Mutant: leases are never found expired.
ExpiredNever(d, now) == FALSE
Expired(d, now) == row[d].state = "sending" /\ row[d].leased # Nil /\ row[d].leased < now

Reclaimed(r, now) == [r EXCEPT !.state = IF r.attempts + 1 >= site.attempts THEN "failed" ELSE "pending",
                               !.attempts = @ + 1, !.available = now, !.leased = Nil]

\* reclaim_expired_leases, one statement for all rows: when one row breaks the
\* constraint none is reclaimed and the poll ends.
Reclaim(w) ==
    LET due == {d \in Deliveries : Expired(d, clock)}
        done == \A d \in due : Allowed(Reclaimed(row[d], clock)) IN
    /\ w \in site.workers /\ worker[w].pc = "idle"
    /\ row' = [d \in Deliveries |-> IF done /\ d \in due THEN Reclaimed(row[d], clock) ELSE row[d]]
    /\ doubts' = [d \in Deliveries |-> doubts[d] + IF done /\ d \in due THEN 1 ELSE 0]
    /\ worker' = [worker EXCEPT ![w] = IF done THEN [Idle EXCEPT !.pc = "claim", !.now = clock]
                                       ELSE Idle]
    /\ UNCHANGED <<site, payload, clock, copies>>

\* Mutants: rows in any state are taken; rows that are being sent are.
DueAnyState(now) == {d \in Deliveries : row[d].state # "absent" /\ row[d].available <= now}
DueSending(now) == {d \in Deliveries : row[d].state \in {"pending", "sending"} /\ row[d].available <= now}
Due(now) == {d \in Deliveries : row[d].state = "pending" /\ row[d].available <= now}

\* claim_batch: the oldest rows that are due, at most BatchSize of them.
Claim(w) ==
    LET now == worker[w].now IN
    /\ worker[w].pc = "claim"
    /\ \E ds \in SUBSET Due(now) :
         /\ Cardinality(ds) = Min({BatchSize, Cardinality(Due(now))})
         /\ \A d \in ds, e \in Due(now) \ ds : row[d].available <= row[e].available
         /\ row' = [d \in Deliveries |->
                      IF d \in ds THEN [row[d] EXCEPT !.state = "sending", !.leased = now + Lease]
                      ELSE row[d]]
         /\ worker' = [worker EXCEPT ![w] =
                          IF ds = {} THEN Idle
                          ELSE [@ EXCEPT !.pc = "deliver",
                                         !.batch = {[id |-> d, attempts |-> row[d].attempts] : d \in ds}]]
    /\ UNCHANGED <<site, payload, clock, history>>

\* read_email_payload: absent, expired, malformed and Redis errors all read as
\* "no payload".
Readable(d, o) == o # "payload_unavailable" => payload[d] = "staged"

\* The provider accepts, refuses, or accepts and the answer is lost.
Deliver(w) ==
    /\ worker[w].pc = "deliver"
    /\ \E c \in worker[w].batch, o \in Outcomes, accepted \in {0, 1} :
         /\ Readable(c.id, o)
         /\ (o = "delivered" => accepted = 1) /\ (o = "payload_unavailable" => accepted = 0)
         /\ worker' = [worker EXCEPT ![w].pc = "finalize", ![w].outcome = o, ![w].cur = c,
                                     ![w].batch = @ \ {c}]
         /\ copies' = [copies EXCEPT ![c.id] = @ + accepted]
         /\ doubts' = [doubts EXCEPT ![c.id] = @ + IF o = "send_failed" THEN accepted ELSE 0]
    /\ UNCHANGED <<site, row, payload, clock>>

Backoff(n) == Min({BackoffCap, BackoffUnit * 2^n})

\* Mutant: a refused mail never gives up.
FinalRowUnbounded(r, c, o, now) ==
    CASE o = "delivered" -> [r EXCEPT !.state = "sent", !.attempts = @ + 1, !.sent = now]
      [] o = "payload_unavailable" -> [r EXCEPT !.state = "failed", !.attempts = @ + 1]
      [] OTHER -> [r EXCEPT !.state = "pending", !.attempts = @ + 1, !.available = now]

\* _MARK_SENT_SQL, _MARK_FAILED_SQL or _RESCHEDULE_SQL.  Whether attempts are
\* exhausted is decided from the count the claim returned.
FinalRow(r, c, o, now) ==
    CASE o = "delivered" -> [r EXCEPT !.state = "sent", !.attempts = @ + 1, !.sent = now]
      [] o = "payload_unavailable" \/ (o = "send_failed" /\ c.attempts + 1 >= site.attempts) ->
           [r EXCEPT !.state = "failed", !.attempts = @ + 1]
      [] OTHER -> [r EXCEPT !.state = "pending", !.attempts = @ + 1,
                            !.available = now + Backoff(c.attempts)]

Proceed(w) == worker' = [worker EXCEPT ![w] = IF @.batch = {} THEN Idle
                                              ELSE [@ EXCEPT !.pc = "deliver", !.outcome = Nil, !.cur = Nil]]

Finalize(w) ==
    LET c == worker[w].cur
        after == FinalRow(row[c.id], c, worker[w].outcome, worker[w].now) IN
    /\ worker[w].pc = "finalize"
    /\ row' = IF row[c.id].state # "absent" /\ Allowed(after)
              THEN [row EXCEPT ![c.id] = after] ELSE row
    /\ Proceed(w)
    /\ UNCHANGED <<site, payload, clock, history>>

\* The finalizing transaction raises: logged, the row keeps its lease.
FinalizeRaises(w) ==
    /\ worker[w].pc = "finalize"
    /\ Proceed(w)
    /\ UNCHANGED <<site, row, payload, clock, history>>

\* The process dies with a batch in hand and is restarted.
Dies(w) ==
    /\ worker[w].pc \in {"deliver", "finalize"}
    /\ worker' = [worker EXCEPT ![w] = Idle]
    /\ UNCHANGED <<site, row, payload, clock, history>>

\* Time passes while a lease runs or a row is not available yet.
Tick ==
    /\ \E d \in Deliveries : \/ row[d].state = "pending" /\ row[d].available > clock
                             \/ row[d].state = "sending" /\ row[d].leased >= clock
    /\ clock' = clock + 1
    /\ UNCHANGED <<site, row, payload, worker, history>>

Work(w) == Reclaim(w) \/ Claim(w) \/ Deliver(w) \/ Finalize(w)

Next ==
    \/ \E d \in Deliveries : Queue(d) \/ Stage(d) \/ PayloadExpires(d) \/ Erase(d)
    \/ \E w \in Workers : Work(w) \/ FinalizeRaises(w) \/ Dies(w)
    \/ Tick

Spec == Init /\ [][Next]_vars
\* run_loop polls for ever, and time passes.
FairSpec == Spec /\ WF_vars(Tick) /\ \A w \in Workers : WF_vars(Work(w))

(***************************************************************************)
(* Properties.                                                             *)
(***************************************************************************)
\* A recipient gets the same mail again only for a reason: a lease that ran out
\* on its sender, or a provider that accepted the mail and whose answer was
\* lost.  Nothing else (stale finalizers, deaths, deletions) sends twice.
CopiesAccounted == \A d \in Deliveries : copies[d] <= 1 + doubts[d]

Alone == Cardinality(site.workers) = 1

\* attempts stops at max_attempts with one worker.  A second one's stale finalizer
\* can set a given-up row pending again, but once: the count stays three above at
\* most, within the table's CHECK of 100 for the largest max_attempts, 50.
AttemptsBounded ==
    \A d \in Deliveries : row[d].attempts <= site.attempts + IF Alone THEN 0 ELSE 3

\* While one worker is deployed a row marked sent stays so until it is deleted
\* (_finalize; a second worker's late reschedule takes it back, _RESCHEDULE_SQL).
SentIsFinal == [][\A d \in Deliveries : Alone /\ row[d].state = "sent"
                                        => row'[d].state \in {"sent", "absent"}]_vars

\* Whatever it runs into, a lone worker sends or gives up every queued mail, even one
\* that kills it every time (reclaim_expired_leases).  Two of them may wedge: once a
\* sent row was taken back, reclaiming it breaks the CHECK constraint in every poll.
SettledOnceQueued(d) ==
    (Alone /\ row[d].state = "pending") ~> (row[d].state \in {"sent", "failed", "absent"})
QueuedIsSettled == \A d \in Deliveries : SettledOnceQueued(d)

=============================================================================
