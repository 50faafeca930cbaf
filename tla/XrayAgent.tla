------------------------------ MODULE XrayAgent ------------------------------
(***************************************************************************)
(* The Xray and Hysteria2 half of the VPN agent (drivers/xray.py): one     *)
(* recorded client set served by two processes, each reading its own file. *)
(* Unlike the WireGuard driver, every change runs under _apply_lock.  With *)
(* live (xray_live_client_updates) Xray's clients change through its API   *)
(* and Hysteria2 asks the agent about each connection; otherwise both are  *)
(* restarted.  Removing a client through the API leaves its connections    *)
(* open, so a task watches its counters and restarts Xray if they move.    *)
(***************************************************************************)
EXTENDS Naturals, FiniteSets

CONSTANTS Procs,            \* requests the event loop may have under way
          Xrays, Hysterias, \* the clients of either transport
          Asks,             \* request bodies
          Settings,         \* values xray_live_client_updates may have
          FaultSets,        \* what may go wrong in a behaviour: sets of Fault
          MaxCalls, MaxStops,
          Nil

\* `xray run -test` or Xray's API refuses; a restart fails; a subprocess of an apply
\* overruns its timeout; reading the counters overruns its timeout; the agent stops.
Fault == {"refused", "restart", "timeout", "counters", "stop"}

VARIABLES
    live,            \* xray_live_client_updates
    faults,          \* what may go wrong
    pc, ask, want,   \* each handler: where it stands, its request, the set it applies
    removed,         \* the clients it removed through the API
    lock,            \* the holder of _apply_lock
    lkg,             \* the recorded client set
    file, hyfile,    \* config.json's and the Hysteria2 config's clients, Nil: no file
    previous,        \* what config.json held when the resync rewrote it
    xray, hysteria,  \* what either process loaded, Nil: not running
    conns,           \* clients with an open connection that carries traffic
    lingering,       \* watched after removal: "no", "fresh", "based" (has a baseline)
    watcher,         \* the linger task: "off", "polling", "locking", "reloading"
    booted,          \* whether resync_served_config has run in this process
    sound,           \* nothing raised since the last promotion
    calls, stops

serving == <<lkg, file, hyfile, previous, xray, hysteria>>
watching == <<lingering, watcher>>
life == <<booted, calls, stops>>
setup == <<live, faults>>
vars == <<setup, pc, ask, want, removed, lock, serving, conns, watching, life, sound>>

Clients == Xrays \cup Hysterias
Resync == [kind |-> "resync", clients |-> {}]

\* render_xray_server_config, up to everything that is not a client.
XrayRender(set) == set \cap Xrays

\* render_hysteria_server_config: with an auth_url the file lists no clients.
HyRender(set) == IF live THEN {} ELSE set \cap Hysterias

\* Mutant of Desired: the delta is made to what the files list.
DesiredOnFile(a) ==
    LET listed == IF file = Nil \/ hyfile = Nil THEN {} ELSE file \cup hyfile IN
    CASE a.kind = "provision" -> listed \cup a.clients
      [] a.kind = "revoke" -> listed \ a.clients
      [] a.kind = "prune" -> listed \cap a.clients
      [] a.kind = "resync" -> lkg

\* with_client, without_client, and prune's survivors.
Desired(a) ==
    CASE a.kind = "provision" -> lkg \cup a.clients
      [] a.kind = "revoke" -> lkg \ a.clients
      [] a.kind = "prune" -> lkg \cap a.clients
      [] a.kind = "resync" -> lkg

\* _unaccounted_live_uuids: served, yet neither expected nor recorded.  With HTTP
\* authentication Hysteria2's served set is the recorded one.
Unaccounted(a) ==
    IF file = Nil \/ hyfile = Nil THEN {} ELSE (file \cup hyfile) \ (a.clients \cup lkg)

\* Xray's connections do not survive its process; nor do Hysteria2's.
XrayStarts == xray' = file /\ conns' = conns \ Xrays
XrayDies == xray' = Nil /\ conns' = conns \ Xrays
HysteriaStarts == hysteria' = hyfile /\ conns' = conns \ Hysterias
HysteriaDies == hysteria' = Nil /\ conns' = conns \ Hysterias

\* How far rmu and then adu got.
Halfway == {xray, xray \cap file, file}

Init ==
    /\ live \in Settings /\ faults \in FaultSets
    /\ pc = [p \in Procs |-> "idle"]
    /\ ask = [p \in Procs |-> Nil]
    /\ want = [p \in Procs |-> {}]
    /\ removed = [p \in Procs |-> {}]
    /\ lock = Nil
    /\ lkg = {} /\ file = Nil /\ hyfile = Nil /\ previous = Nil /\ xray = Nil /\ hysteria = Nil
    /\ conns = {}
    /\ lingering = [c \in Xrays |-> "no"]
    /\ watcher = "off"
    /\ booted = FALSE /\ sound = FALSE
    /\ calls = 0 /\ stops = 0

Goes(p, to) == pc' = [pc EXCEPT ![p] = to]

\* Mutant of Ends: a handler that waits for the lock finds it taken for ever.
EndsHolding(p) ==
    /\ Goes(p, "idle")
    /\ ask' = [ask EXCEPT ![p] = Nil]
    /\ want' = [want EXCEPT ![p] = {}]
    /\ removed' = [removed EXCEPT ![p] = {}]
    /\ lock' = IF ask[p] = Resync THEN Nil ELSE lock
    /\ booted' = TRUE
    /\ UNCHANGED <<calls, stops>>

\* The handler returns or raises, and the lock is released.
Ends(p) ==
    /\ Goes(p, "idle")
    /\ ask' = [ask EXCEPT ![p] = Nil]
    /\ want' = [want EXCEPT ![p] = {}]
    /\ removed' = [removed EXCEPT ![p] = {}]
    /\ lock' = Nil
    /\ booted' = TRUE
    /\ UNCHANGED <<calls, stops>>

\* The lifespan runs the resync, and only then are requests served.
Call(p, a) ==
    /\ pc[p] = "idle"
    /\ \/ booted /\ a \in Asks /\ calls < MaxCalls
       \/ ~booted /\ a = Resync /\ \A q \in Procs : pc[q] = "idle"
    /\ ask' = [ask EXCEPT ![p] = a]
    /\ calls' = IF a = Resync THEN calls ELSE calls + 1
    /\ Goes(p, "queued")
    /\ UNCHANGED <<setup, want, removed, lock, serving, conns, watching, booted, stops, sound>>

\* The lock is taken and the set computed; a prune that has nothing to remove,
\* and a resync of a file that already matches, do not apply anything to Xray.
Acquire(p) ==
    /\ pc[p] = "queued" /\ lock = Nil
    /\ ask[p].kind = "prune" => lkg \ ask[p].clients # {} \/ Unaccounted(ask[p]) # {}
    /\ ask[p].kind = "resync" => file # XrayRender(lkg)
    /\ lock' = p
    /\ want' = [want EXCEPT ![p] = Desired(ask[p])]
    /\ Goes(p, "validating")
    /\ UNCHANGED <<setup, ask, removed, serving, conns, watching, life, sound>>

PruneNothing(p) ==
    /\ pc[p] = "queued" /\ lock = Nil
    /\ ask[p].kind = "prune" /\ lkg \subseteq ask[p].clients /\ Unaccounted(ask[p]) = {}
    /\ Ends(p)
    /\ UNCHANGED <<setup, serving, conns, watching, sound>>

\* _apply_hysteria up to its await: nothing to do if the file already says so.
ThenHysteria(p, set, applied, applying) ==
    /\ hyfile' = HyRender(set)
    /\ Goes(p, IF hyfile = hyfile' THEN applied ELSE applying)

ResyncMatches(p) ==
    /\ pc[p] = "queued" /\ lock = Nil
    /\ ask[p].kind = "resync" /\ file = XrayRender(lkg)
    /\ lock' = p
    /\ want' = [want EXCEPT ![p] = lkg]
    /\ ThenHysteria(p, lkg, "applied", "hysteria")
    /\ UNCHANGED <<setup, ask, removed, lkg, file, previous, xray, hysteria, conns,
                   watching, life, sound>>

\* `xray run -test` accepts the rendered config: it is written where Xray reads
\* it.  Where there was none before, only a restart loads it.
Validated(p) ==
    /\ pc[p] = "validating"
    /\ file' = XrayRender(want[p])
    /\ previous' = IF ask[p].kind = "resync" THEN file ELSE previous
    /\ Goes(p, IF live /\ file # Nil /\ ask[p].kind # "resync" THEN "live" ELSE "reloading")
    /\ UNCHANGED <<setup, ask, want, removed, lock, lkg, hyfile, xray, hysteria, conns,
                   watching, life, sound>>

\* It refuses: a "failed" answer, and nothing served has changed.
Invalid(p) ==
    /\ pc[p] = "validating" /\ "refused" \in faults
    /\ Ends(p)
    /\ UNCHANGED <<setup, serving, conns, watching, sound>>

\* _apply_clients_live: rmu, adu, and what Xray then holds is the rendered set.
\* Whoever is served again is no longer watched.
LiveDone(p) ==
    /\ pc[p] = "live" /\ xray # Nil
    /\ xray' = file
    /\ removed' = [removed EXCEPT ![p] = xray \ file]
    /\ lingering' = [c \in Xrays |-> IF c \in file THEN "no" ELSE lingering[c]]
    /\ ThenHysteria(p, want[p], "applied", "hysteria")
    /\ UNCHANGED <<setup, ask, want, lock, lkg, file, previous, hysteria, conns, watcher,
                   life, sound>>

\* An API call fails, or what Xray holds does not check out: restart instead.
LiveFails(p) ==
    /\ pc[p] = "live"
    /\ \/ xray = Nil /\ UNCHANGED xray
       \/ xray # Nil /\ "refused" \in faults /\ xray' \in Halfway
    /\ Goes(p, "reloading")
    /\ UNCHANGED <<setup, ask, want, removed, lock, lkg, file, hyfile, previous,
                   hysteria, conns, watching, life, sound>>

\* _reload returns: in an apply, in its rollback, or in a resync.
Reloaded(p) ==
    /\ pc[p] \in {"reloading", "rolling"}
    /\ XrayStarts
    /\ IF pc[p] = "reloading"
       THEN ThenHysteria(p, want[p], "applied", "hysteria")
       ELSE ThenHysteria(p, lkg, "rolled", "rollhysteria")
    /\ UNCHANGED <<setup, ask, want, removed, lock, lkg, file, previous, hysteria,
                   watching, life, sound>>

HysteriaUp(p) ==
    /\ pc[p] \in {"hysteria", "rollhysteria"}
    /\ HysteriaStarts
    /\ Goes(p, IF pc[p] = "hysteria" THEN "applied" ELSE "rolled")
    /\ UNCHANGED <<setup, ask, want, removed, lock, lkg, file, hyfile, previous, xray,
                   watching, life, sound>>

\* systemctl reports a failure, or the unit does not come up.
RestartFails(p) ==
    /\ "restart" \in faults
    /\ \/ pc[p] \in {"reloading", "rolling", "restoring"}
          /\ (XrayDies \/ UNCHANGED <<xray, conns>>) /\ UNCHANGED hysteria
       \/ pc[p] \in {"hysteria", "rollhysteria"}
          /\ (HysteriaDies \/ UNCHANGED <<hysteria, conns>>) /\ UNCHANGED xray

\* Mutant of Rollback: the file keeps what has just failed.
RollbackKeepsFile(p) ==
    /\ pc[p] \in {"reloading", "hysteria"} /\ ask[p].kind # "resync"
    /\ RestartFails(p)
    /\ Goes(p, "rolling")
    /\ UNCHANGED <<setup, ask, want, removed, lock, lkg, file, hyfile, previous,
                   watching, life, sound>>

\* ApplyError: _rollback writes the recorded set's config and reloads it.
Rollback(p) ==
    /\ pc[p] \in {"reloading", "hysteria"} /\ ask[p].kind # "resync"
    /\ RestartFails(p)
    /\ file' = XrayRender(lkg)
    /\ Goes(p, "rolling")
    /\ UNCHANGED <<setup, ask, want, removed, lock, lkg, hyfile, previous, watching, life, sound>>

\* The resync puts back the bytes that were served before.
Restore(p) ==
    /\ pc[p] = "reloading" /\ ask[p].kind = "resync" /\ previous # Nil
    /\ RestartFails(p)
    /\ file' = previous
    /\ Goes(p, "restoring")
    /\ UNCHANGED <<setup, ask, want, removed, lock, lkg, hyfile, previous, watching, life, sound>>

Restored(p) ==
    /\ pc[p] = "restoring"
    /\ XrayStarts
    /\ Ends(p)
    /\ sound' = FALSE
    /\ UNCHANGED <<setup, lkg, file, hyfile, hysteria, previous, watching>>

\* Nothing is left to fall back to: RollbackFailedError, or a resync that gives
\* up, which the lifespan logs.
GivesUp(p) ==
    /\ \/ pc[p] \in {"rolling", "rollhysteria", "restoring"}
       \/ pc[p] = "hysteria" /\ ask[p].kind = "resync"
       \/ pc[p] = "reloading" /\ ask[p].kind = "resync" /\ previous = Nil
    /\ RestartFails(p)
    /\ Ends(p)
    /\ sound' = FALSE
    /\ UNCHANGED <<setup, lkg, file, hyfile, previous, watching>>

\* A subprocess overruns its timeout.  SubprocessTimeoutError is not an
\* ApplyError, so there is neither fallback nor rollback.
TimesOut(p) ==
    /\ "timeout" \in faults
    /\ \/ pc[p] = "validating" /\ UNCHANGED <<xray, hysteria, conns>>
       \/ pc[p] = "live" /\ xray # Nil /\ xray' \in Halfway /\ UNCHANGED <<hysteria, conns>>
       \/ pc[p] \in {"reloading", "rolling", "restoring"}
          /\ (XrayStarts \/ XrayDies \/ UNCHANGED <<xray, conns>>) /\ UNCHANGED hysteria
       \/ pc[p] \in {"hysteria", "rollhysteria"}
          /\ (HysteriaStarts \/ HysteriaDies \/ UNCHANGED <<hysteria, conns>>) /\ UNCHANGED xray
    /\ Ends(p)
    /\ sound' = (sound /\ pc[p] = "validating")
    /\ UNCHANGED <<setup, lkg, file, hyfile, previous, watching>>

\* The rollback is complete: a "failed" answer.
RolledBack(p) ==
    /\ pc[p] = "rolled"
    /\ Ends(p)
    /\ UNCHANGED <<setup, serving, conns, watching, sound>>

Resynced(p) ==
    /\ pc[p] = "applied" /\ ask[p].kind = "resync"
    /\ Ends(p)
    /\ UNCHANGED <<setup, serving, conns, watching, sound>>

\* Mutant of Watch: nobody starts the task.
WatchLeft(set) ==
    /\ lingering' = [c \in Xrays |-> IF c \in set THEN "fresh" ELSE lingering[c]]
    /\ watcher' = watcher

\* _watch_for_lingering.
Watch(set) ==
    /\ lingering' = [c \in Xrays |-> IF c \in set THEN "fresh" ELSE lingering[c]]
    /\ watcher' = IF set # {} /\ watcher = "off" THEN "polling" ELSE watcher

\* promote_candidate_to_last_known_good, then the kick, which awaits, of the
\* Hysteria2 clients that HTTP authentication leaves connected.
Promote(p) ==
    /\ pc[p] = "applied" /\ ask[p].kind # "resync"
    /\ lkg' = want[p]
    /\ Watch(removed[p])
    /\ sound' = TRUE
    /\ IF live /\ (lkg \ want[p]) \cap Hysterias # {}
       THEN /\ Goes(p, "kicking")
            /\ want' = [want EXCEPT ![p] = lkg \ want[p]]
            /\ UNCHANGED <<ask, removed, lock, life>>
       ELSE Ends(p)
    /\ UNCHANGED <<setup, file, hyfile, xray, hysteria, previous, conns>>

Kicked(p) ==
    /\ pc[p] = "kicking"
    /\ conns' = conns \ (want[p] \cap Hysterias)
    /\ Ends(p)
    /\ UNCHANGED <<setup, serving, watching, sound>>

\* "Best effort": a kick that fails is logged.
KickFails(p) ==
    /\ pc[p] = "kicking" /\ "restart" \in faults
    /\ Ends(p)
    /\ UNCHANGED <<setup, serving, conns, watching, sound>>

\* The counters are read.  A first reading is the baseline; a removed client that
\* still transfers is above it, one served again since a restart may be.  Others
\* are let go in time.
Poll ==
    /\ watcher = "polling"
    /\ \E moved \in BOOLEAN, gone \in SUBSET {c \in Xrays : lingering[c] = "based" /\ c \notin conns} :
          LET moving == {c \in Xrays : lingering[c] = "based" /\ c \in conns} IN
          /\ moved => moving # {}
          /\ moving \ (IF xray = Nil THEN {} ELSE xray) # {} => moved
          /\ lingering' = [c \in Xrays |-> IF c \in gone \/ lingering[c] = "no" THEN "no" ELSE "based"]
          /\ watcher' = IF moved THEN "locking"
                        ELSE IF lingering' = [c \in Xrays |-> "no"] THEN "off" ELSE "polling"
    /\ UNCHANGED <<setup, pc, ask, want, removed, lock, serving, conns, life, sound>>

\* Reading the counters overran its timeout: the task ends with the exception.
PollTimesOut ==
    /\ watcher = "polling" /\ "counters" \in faults
    /\ watcher' = "off"
    /\ UNCHANGED <<setup, pc, ask, want, removed, lock, serving, conns, lingering, life, sound>>

\* _restart_for_lingering gets the lock; if everyone is served again it returns.
RestartLocks ==
    /\ watcher = "locking" /\ lock = Nil
    /\ lingering' = [c \in Xrays |-> "no"]
    /\ IF lingering = lingering'
       THEN watcher' = "off" /\ UNCHANGED lock
       ELSE watcher' = "reloading" /\ lock' = "watcher"
    /\ UNCHANGED <<setup, pc, ask, want, removed, serving, conns, life, sound>>

RestartEnds ==
    /\ watcher = "reloading"
    /\ XrayStarts
    /\ watcher' = "off" /\ lock' = Nil
    /\ UNCHANGED <<setup, pc, ask, want, removed, lkg, file, hyfile, previous, hysteria,
                   lingering, life, sound>>

\* The restart fails and is logged, or overruns its timeout.
RestartBreaks ==
    /\ watcher = "reloading" /\ "restart" \in faults
    /\ XrayDies \/ UNCHANGED <<xray, conns>>
    /\ watcher' = "off" /\ lock' = Nil
    /\ sound' = FALSE
    /\ UNCHANGED <<setup, pc, ask, want, removed, lkg, file, hyfile, previous, hysteria,
                   lingering, life>>

\* The agent's process stops and is started again: files and both servers stay,
\* a promotion may just have been made, and nothing is watched any more.
Stop ==
    /\ booted /\ stops < MaxStops /\ "stop" \in faults
    /\ stops' = stops + 1
    /\ booted' = FALSE
    /\ sound' = (sound /\ lock = Nil)
    /\ pc' = [p \in Procs |-> "idle"]
    /\ ask' = [p \in Procs |-> Nil]
    /\ want' = [p \in Procs |-> {}]
    /\ removed' = [p \in Procs |-> {}]
    /\ lock' = Nil
    /\ lingering' = [c \in Xrays |-> "no"] /\ watcher' = "off"
    /\ UNCHANGED <<setup, serving, conns, calls>>

\* Restart=on-failure, after RestartSec.
SystemdStarts ==
    /\ \/ xray = Nil /\ file # Nil /\ XrayStarts /\ UNCHANGED hysteria
       \/ hysteria = Nil /\ hyfile # Nil /\ HysteriaStarts /\ UNCHANGED xray
    /\ UNCHANGED <<setup, pc, ask, want, removed, lock, lkg, file, hyfile, previous,
                   watching, life, sound>>

\* Who is let in: Xray's users, Hysteria2's listed users, or with HTTP
\* authentication whoever authorize_hysteria finds recorded.
Admitted ==
    (IF xray = Nil THEN {} ELSE xray) \cup
    (IF hysteria = Nil THEN {} ELSE IF live THEN lkg \cap Hysterias ELSE hysteria)

Connect(c) ==
    /\ c \in Admitted \ conns
    /\ conns' = conns \cup {c}
    /\ UNCHANGED <<setup, pc, ask, want, removed, lock, serving, watching, life, sound>>

Disconnect(c) ==
    /\ c \in conns
    /\ conns' = conns \ {c}
    /\ UNCHANGED <<setup, pc, ask, want, removed, lock, serving, watching, life, sound>>

Works(p) ==
    \/ Call(p, Resync) \/ Acquire(p) \/ PruneNothing(p) \/ ResyncMatches(p)
    \/ Validated(p) \/ Invalid(p) \/ LiveDone(p) \/ LiveFails(p)
    \/ Reloaded(p) \/ HysteriaUp(p) \/ Rollback(p) \/ Restore(p) \/ Restored(p)
    \/ GivesUp(p) \/ TimesOut(p) \/ RolledBack(p) \/ Resynced(p)
    \/ Promote(p) \/ Kicked(p) \/ KickFails(p)

Watcher == Poll \/ PollTimesOut \/ RestartLocks \/ RestartEnds \/ RestartBreaks

Next ==
    \/ \E p \in Procs : Works(p) \/ \E a \in Asks : Call(p, a)
    \/ Watcher \/ Stop \/ SystemdStarts
    \/ \E c \in Clients : Connect(c) \/ Disconnect(c)

Spec == Init /\ [][Next]_vars

\* The event loop resumes whoever is ready and asyncio.Lock is granted in turn.
FairSpec == Spec /\ WF_vars(Watcher) /\ \A p \in Procs : WF_vars(Works(p))

-----------------------------------------------------------------------------

\* After an apply, until something raises, the record, both files and the running
\* Xray agree, whatever was rolled back, resynchronised or restarted meanwhile
\* (_apply_delta, _rollback, _resync_served_config).
AppliedIsOnFile ==
    sound /\ lock = Nil => xray = file /\ file = XrayRender(lkg) /\ hyfile = HyRender(lkg)

\* "Two at once ... would each write a set missing the other's client"
\* (_apply_lock): whatever runs at the same time, the recorded set changes only by
\* what one request asks.
EachChangeIsWhole ==
    [][lkg' # lkg => \E p \in Procs : pc[p] = "applied" /\ lkg' =
          CASE ask[p].kind = "provision" -> lkg \cup ask[p].clients
            [] ask[p].kind = "revoke" -> lkg \ ask[p].clients
            [] ask[p].kind = "prune" -> lkg \cap ask[p].clients]_vars

\* "A revoke has to actually cut someone off" (xray.py:32): once a removal is
\* recorded the client does not go on transferring through Xray for ever, unless
\* something raises or it is provisioned again (_apply_clients_live,
\* _watch_for_lingering, _cut_off_lingering).  It holds while only Xray's answers
\* are bad: after a timeout or a failed rollback past rmu the retry finds nobody left
\* to remove, and the watch ends with its task or with the agent's process.
RemovedIsCutOff ==
    \A c \in Xrays :
        sound /\ c \in conns \ lkg /\ faults \subseteq {"refused"}
        ~> ~sound \/ c \notin conns \ lkg

\* Every call ends, whatever fails on the way: nothing keeps _apply_lock.
EndsOnceBegun(p) == pc[p] # "idle" ~> pc[p] = "idle"
EveryCallEnds == \A p \in Procs : EndsOnceBegun(p)
=============================================================================
