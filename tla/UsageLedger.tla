---------------------------- MODULE UsageLedger ----------------------------
(***************************************************************************)
(* How one credential's traffic total is kept (usage/service.py,           *)
(* usage/counters.py, usage/poll.py).  The serving process counts from     *)
(* zero after each restart; the control plane reads the counter now and    *)
(* then and folds readings into a row.  Polls and changes run concurrently *)
(* in several processes, so readings overlap.  Only the order of the times *)
(* at which readings were asked for matters: times are kept as ranks.      *)
(* One direction stands for both, rx and tx being treated alike.           *)
(***************************************************************************)
EXTENDS Naturals, FiniteSets

CONSTANTS Polls, Changers, Nil,
          MaxServed,     \* bytes served in a behaviour
          MaxRestarts,   \* restarts, asked for or not
          MaxFaults      \* reads and writes that fail

Tasks == Polls \cup Changers

VARIABLES
    served,    \* bytes really served
    counter,   \* the process's counter; Nil when it lists no such client
    row,       \* CredentialUsage: total, last reading, last_collected_at (0: NULL)
    pc,        \* where each task stands
    at,        \* when it asked for its reading, 0 when it has none
    val,       \* what the reading found
    had,       \* whether a change's first reading listed the client
    crossed,   \* history: whether a reading was taken before one asked for earlier
    restarts,
    faults

vars == <<served, counter, row, pc, at, val, had, crossed, restarts, faults>>

Init ==
    /\ served = 0
    /\ counter = Nil
    /\ row = [total |-> 0, last |-> 0, at |-> 0]
    /\ pc = [t \in Tasks |-> "idle"]
    /\ at = [t \in Tasks |-> 0]
    /\ val = [t \in Tasks |-> Nil]
    /\ had = [t \in Tasks |-> FALSE]
    /\ crossed = FALSE
    /\ restarts = 0
    /\ faults = 0

\* The process serves a byte; a client without a counter gets one.
Serve ==
    /\ served < MaxServed
    /\ served' = served + 1
    /\ counter' = IF counter = Nil THEN 1 ELSE counter + 1
    /\ UNCHANGED <<crossed, row, pc, at, val, had, restarts, faults>>

\* A crash, a reboot or an upgrade.
Restart ==
    /\ restarts < MaxRestarts
    /\ restarts' = restarts + 1
    /\ counter' = Nil
    /\ UNCHANGED <<crossed, served, row, pc, at, val, had, faults>>

Fault == faults < MaxFaults /\ faults' = faults + 1

-----------------------------------------------------------------------------

\* read_counters: the time is taken first, then the agent is asked.
InUse == ({row.at} \cup {at[t] : t \in Tasks}) \ {0}
Rank(time) == Cardinality({u \in InUse : u <= time})
Ask(t, stage) ==
    /\ pc' = [pc EXCEPT ![t] = stage]
    /\ at' = [u \in Tasks |-> IF u = t THEN Cardinality(InUse) + 1 ELSE Rank(at[u])]
    /\ row' = [row EXCEPT !.at = Rank(row.at)]

Reading == {"polling", "before", "after"}
InOrder(t) == \A u \in Tasks : pc[u] \in Reading => at[t] <= at[u]

\* The agent reads its source and answers; two requests may be answered in either
\* order.
Found(t) ==
    /\ crossed' = (crossed \/ ~InOrder(t))
    /\ val' = [val EXCEPT ![t] = counter]

\* _older, _delta.
OlderNever(time, r) == FALSE
Older(time, r) == time < r.at
Delta(reading, last) == IF reading >= last THEN reading - last ELSE reading

\* Mutant of Applied: a row's first reading is only a baseline.
AppliedBaseline(r, time, reading) ==
    IF reading = Nil \/ Older(time, r)
    THEN r
    ELSE [total |-> r.total + IF r.at = 0 THEN 0 ELSE Delta(reading, r.last),
          last |-> reading, at |-> time]

\* UsageLedger._apply, in the transaction that locks the row.
Applied(r, time, reading) ==
    IF reading = Nil \/ Older(time, r)
    THEN r
    ELSE [total |-> r.total + Delta(reading, r.last), last |-> reading, at |-> time]

\* UsageLedger.forget_readings.
Forgotten(r, time) == IF Older(time, r) THEN r ELSE [r EXCEPT !.last = 0, !.at = time]

\* keep_counters_across or the poll is done.
Rest(t) ==
    /\ pc' = [pc EXCEPT ![t] = "idle"]
    /\ at' = [at EXCEPT ![t] = 0]
    /\ val' = [val EXCEPT ![t] = Nil]
    /\ had' = [had EXCEPT ![t] = FALSE]

-----------------------------------------------------------------------------
(* run_usage_poll.                                                         *)

Poll(p) ==
    /\ pc[p] = "idle"
    /\ Ask(p, "polling")
    /\ UNCHANGED <<crossed, served, counter, val, had, restarts, faults>>

PollRead(p) ==
    /\ pc[p] = "polling"
    /\ Found(p)
    /\ pc' = [pc EXCEPT ![p] = "polled"]
    /\ UNCHANGED <<served, counter, row, at, had, restarts, faults>>

PollRecord(p) ==
    /\ pc[p] = "polled"
    /\ row' = Applied(row, at[p], val[p])
    /\ Rest(p)
    /\ UNCHANGED <<crossed, served, counter, restarts, faults>>

\* The agent cannot be read, or the transaction fails and ends the pass.
PollFails(p) ==
    /\ pc[p] \in {"polling", "polled"}
    /\ Fault
    /\ Rest(p)
    /\ UNCHANGED <<crossed, served, counter, row, restarts>>

-----------------------------------------------------------------------------
(* keep_counters_across: read and record, change, read and record again.   *)

Before(c) ==
    /\ pc[c] = "idle"
    /\ Ask(c, "before")
    /\ UNCHANGED <<crossed, served, counter, val, had, restarts, faults>>

BeforeRead(c) ==
    /\ pc[c] = "before"
    /\ Found(c)
    /\ had' = [had EXCEPT ![c] = counter # Nil]
    /\ pc' = [pc EXCEPT ![c] = "recording"]
    /\ UNCHANGED <<served, counter, row, at, restarts, faults>>

\* _read returns None: the change is made all the same, with nothing around it.
BeforeFails(c) ==
    /\ pc[c] = "before"
    /\ Fault
    /\ at' = [at EXCEPT ![c] = 0]
    /\ pc' = [pc EXCEPT ![c] = "changing unread"]
    /\ UNCHANGED <<crossed, served, counter, row, val, had, restarts>>

\* _write swallows a database error.
BeforeRecord(c) ==
    /\ pc[c] = "recording"
    /\ \/ row' = Applied(row, at[c], val[c]) /\ UNCHANGED faults
       \/ Fault /\ UNCHANGED row
    /\ at' = [at EXCEPT ![c] = 0]
    /\ val' = [val EXCEPT ![c] = Nil]
    /\ pc' = [pc EXCEPT ![c] = "changing"]
    /\ UNCHANGED <<crossed, served, counter, had, restarts>>

\* The call itself, which may restart the process or drop the peer, whether it
\* is answered, rejected or times out; unreached, it changes nothing.
Change(c) ==
    /\ pc[c] \in {"changing", "changing unread"}
    /\ \/ UNCHANGED <<counter, restarts>>
       \/ restarts < MaxRestarts /\ restarts' = restarts + 1 /\ counter' = Nil
    /\ IF pc[c] = "changing"
       THEN Ask(c, "after") /\ UNCHANGED <<val, had>>
       ELSE Rest(c) /\ UNCHANGED row
    /\ UNCHANGED <<crossed, served, faults>>

ChangeUnreachable(c) ==
    /\ pc[c] \in {"changing", "changing unread"}
    /\ Rest(c)
    /\ UNCHANGED <<crossed, served, counter, row, restarts, faults>>

AfterRead(c) ==
    /\ pc[c] = "after"
    /\ Found(c)
    /\ pc' = [pc EXCEPT ![c] = "recording after"]
    /\ UNCHANGED <<served, counter, row, at, had, restarts, faults>>

\* The source does not answer yet: asked again, or given up after some attempts,
\* when the client is neither recorded nor taken for gone.
AfterSilent(c) ==
    /\ pc[c] = "after"
    /\ Fault
    /\ \/ Ask(c, "after") /\ UNCHANGED <<val, had>>
       \/ Rest(c) /\ UNCHANGED row
    /\ UNCHANGED <<crossed, served, counter, restarts>>

AfterRecord(c) ==
    /\ pc[c] = "recording after"
    /\ \/ row' = Applied(row, at[c], val[c]) /\ UNCHANGED faults
       \/ Fault /\ UNCHANGED row
    /\ pc' = [pc EXCEPT ![c] = "forgetting"]
    /\ UNCHANGED <<crossed, served, counter, at, val, had, restarts>>

Forget(c) ==
    /\ pc[c] = "forgetting"
    /\ \/ /\ row' = IF had[c] /\ val[c] = Nil THEN Forgotten(row, at[c]) ELSE row
          /\ UNCHANGED faults
       \/ Fault /\ UNCHANGED row
    /\ Rest(c)
    /\ UNCHANGED <<crossed, served, counter, restarts>>

-----------------------------------------------------------------------------

PollStep(p) == Poll(p) \/ PollRead(p) \/ PollRecord(p) \/ PollFails(p)
ChangeStep(c) ==
    \/ Before(c) \/ BeforeRead(c) \/ BeforeFails(c) \/ BeforeRecord(c)
    \/ Change(c) \/ ChangeUnreachable(c)
    \/ AfterRead(c) \/ AfterSilent(c) \/ AfterRecord(c) \/ Forget(c)

Next ==
    \/ Serve \/ Restart
    \/ \E p \in Polls : PollStep(p)
    \/ \E c \in Changers : ChangeStep(c)

Spec == Init /\ [][Next]_vars

\* The usage pass runs every fifteen seconds for ever, and agents answer.
FairSpec ==
    /\ Spec
    /\ \A p \in Polls : WF_vars(PollStep(p))
    /\ \A c \in Changers : WF_vars(pc[c] # "idle" /\ ChangeStep(c))

-----------------------------------------------------------------------------

\* No byte is counted twice: the total never exceeds what was served, however
\* readings, restarts and failed writes interleave ("a row ignores one older than
\* its own last reading.  Without that, a poll that read a process just before a
\* restart and was recorded just after would count it twice", service.py:27).  The
\* exception: a reading asked for later but taken earlier is taken for a restart.
NeverCountsTwice == crossed \/ row.total <= served

\* Without a restart nothing stays uncounted: once traffic stops, the total comes
\* to be exactly what was served and stays there, whatever readings were lost or
\* repeated and whatever changes ran ("a lost sample costs nothing").
EventuallyExact == <>[](restarts > 0 \/ crossed \/ row.total = served)
=============================================================================
