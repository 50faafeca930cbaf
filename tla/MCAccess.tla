------------------------------ MODULE MCAccess ------------------------------
(***************************************************************************)
(* Who may use what, and the mail outbox: what the worker keeps true by    *)
(* going round for ever.  A behaviour follows one of the two; the other    *)
(* stands at a first state.                                                *)
(***************************************************************************)
EXTENDS Access

CONSTANTS Nil, w1, w2, m1, m2

VARIABLES part, site, mail, payload, worker, clock, copies, doubts

accessVars == <<scene, row, tx, seeded, capability, state, account, spent, cred, connect, sweep, changes>>
mailVars == <<site, mail, payload, worker, clock, copies, doubts>>
allVars == <<part, accessVars, mailVars>>

Grant(u, list) == [op |-> "grant_permissions", user |-> u, list |-> list]
GrantAll(p) == [op |-> "grant_profile_to_everyone", profile |-> p]
AssignAll(s) == [op |-> "assign_server_to_everyone", server |-> s]
Assign(u, s) == [op |-> "assign_server", user |-> u, server |-> s]
Revoke(k) == [op |-> "revoke", key |-> k]
Cli(u, s) == [op |-> "grant_user_server_access", user |-> u, server |-> s]

\* Locks: every way to grant and revoke two permissions.  Checks: a connect, the
\* sweep and the operator's switches.
Locks ==
    [rows |-> {"none", "off", "on"}, seeded |-> {1, 2},
     account |-> [u \in Users |-> IF u = 1 THEN "active" ELSE "pending"],
     menu |-> {Grant(1, <<1, 2>>), Grant(1, <<2, 1>>), GrantAll(1), GrantAll(2),
               Revoke(<<"perm", 1, 1>>), Revoke(<<"perm", 1, 2>>), Cli(1, 1)},
     txs |-> 3, changes |-> 0, connects |-> FALSE]
Checks ==
    [rows |-> {"none", "on"}, seeded |-> {1},
     account |-> [u \in Users |-> IF u = 1 THEN "active" ELSE "disabled"],
     menu |-> {Grant(1, <<1>>), AssignAll(1), Assign(1, 1),
               Revoke(<<"perm", 1, 1>>), Revoke(<<"assign", 1, 1>>)},
     txs |-> 2, changes |-> 2, connects |-> TRUE]
AllScenes == {Locks, Checks}

\* Two workers on one mail, one worker on a batch of two, and one worker on a mail
\* that is tried often.
SmallSites == {[workers |-> {w1, w2}, mails |-> {m1}, attempts |-> 2],
               [workers |-> {w1}, mails |-> {m1, m2}, attempts |-> 1],
               [workers |-> {w1}, mails |-> {m1}, attempts |-> 4]}

Mail == INSTANCE Outbox WITH
    Deliveries <- {m1, m2}, Workers <- {w1, w2}, Sites <- SmallSites,
    BatchSize <- 2, Lease <- 1, BackoffUnit <- 1, BackoffCap <- 2, row <- mail

MCInit ==
    /\ part \in {"access", "mail"}
    /\ Init /\ Mail!Init
    /\ part # "access" => scene = Checks /\ row = [k \in Keys |-> "none"]
    /\ part # "mail" => site.attempts = 1

MCNext ==
    \/ part = "access" /\ Next /\ UNCHANGED <<part, mailVars>>
    \/ part = "mail" /\ Mail!Next /\ UNCHANGED <<part, accessVars>>

\* The sweep and the outbox loop run for ever, and time passes.
MCFairness ==
    /\ WF_accessVars(part = "access" /\ SweepReads)
    /\ WF_accessVars(part = "access" /\ SweepCommits)
    /\ WF_mailVars(part = "mail" /\ Mail!Tick)
    /\ \A w \in {w1, w2} : WF_mailVars(part = "mail" /\ Mail!Work(w))

MCSpec == MCInit /\ [][MCNext]_allVars /\ MCFairness

-----------------------------------------------------------------------------
\* A mail goes out again only for a lease that ran out or an answer that was lost, and
\* is tried a bounded number of times (Outbox!CopiesAccounted, Outbox!AttemptsBounded).
MailIsBounded == part = "mail" => Mail!CopiesAccounted /\ Mail!AttemptsBounded

\* A lone worker sends or gives up every queued mail, and what it marked sent stays so
\* (Outbox!QueuedIsSettled, Outbox!SentIsFinal); m1 and m2 stand for each other.
MailIsSettled == Mail!SettledOnceQueued(m1) /\ Mail!SentIsFinal

\* The credential for what is on offer from the start is cut once its grant lapses
\* (Access!LapsedIsCut); the other account is disabled and never has one.
FirstCredentialIsCut == CutOnceLapsed(<<1, 1, 1>>)
=============================================================================
