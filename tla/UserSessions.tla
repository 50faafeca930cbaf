---------------------------- MODULE UserSessions ----------------------------
(***************************************************************************)
(* One account's devices, sessions, rotating refresh tokens and password   *)
(* (auth/user_service.py, auth/session_revocation.py, account_erasure.py,  *)
(* the session part of user_management/service.py and account/service.py). *)
(* Every operation is one PostgreSQL transaction at READ COMMITTED,        *)
(* modelled at its row locks: stage by stage it locks the rows of its      *)
(* Path, gives up at a check that fails, and changes the tables when it    *)
(* commits.  Paths cross, so transactions can wait for each other;         *)
(* PostgreSQL then aborts one.                                             *)
(***************************************************************************)
EXTENDS Naturals, Sequences, FiniteSets

CONSTANTS Procs,        \* concurrent transactions
          Scopes,       \* what an account is put through, see scope
          MaxDevices, MaxSessions, MaxTokens, MaxResets, MaxPasswords,  \* bounds
          Nil

Devices == 1 .. MaxDevices
Sessions == 1 .. MaxSessions
Tokens == 1 .. MaxTokens
Resets == 1 .. MaxResets

VARIABLES
    scope,    \* the operations called, users.device_limit, sessions and tokens issued at most
    account,  \* users.state
    pw,       \* the password in force, numbered; 0 when it was erased
    device,   \* "none" until registered, "active", "revoked", "withdrawn" (revoked by its user)
    session,  \* user_sessions: device, state, the password it rests on
    token,    \* refresh_tokens: session and state
    reset,    \* password_reset_tokens: state
    tx,       \* a transaction: operation, arguments, stage, rows waited for, what refresh found
    lock      \* the transaction that holds a row's lock, or Nil

tables == <<account, pw, device, session, token, reset>>
vars == <<scope, account, pw, device, session, token, reset, tx, lock>>

UserRow == <<"user", 0>>
Rows == {UserRow} \cup ({"device"} \X Devices) \cup ({"session"} \X Sessions)
        \cup ({"token"} \X Tokens) \cup ({"reset"} \X Resets)

\* What each operation locks, in order.
Statements == [
    login       |-> <<"user", "device", "sessions", "tokens">>,
    reinstall   |-> <<"user", "device", "sessions", "tokens">>,
    refresh     |-> <<"token", "session", "user", "tokens">>,
    logout      |-> <<"session", "tokens">>,
    askReset    |-> <<"user", "resets">>,
    doReset     |-> <<"reset", "user", "resets", "sessions", "tokens">>,
    change      |-> <<"user", "resets", "sessions", "tokens">>,
    erase       |-> <<"user", "tokens", "sessions", "resets", "devices">>,
    remove      |-> <<"user", "tokens", "sessions", "resets", "devices">>,
    disable     |-> <<"user", "sessions", "tokens">>,
    reactivate  |-> <<"user">>,
    dropDevice  |-> <<"device", "sessions", "tokens">>,
    dropOwn     |-> <<"device">>,
    dropSession |-> <<"session", "tokens">>]

\* Mutant of Path: disabling looks for tokens before it has the sessions.
PathDisableSwapped == [Statements EXCEPT !.disable = <<"user", "tokens", "sessions">>]

\* Mutant of Path: an administrator revokes a device without locking it.
PathDropUnlocked == [Statements EXCEPT !.dropDevice = <<"sessions", "tokens">>]

Path == Statements

Init ==
    /\ scope \in Scopes
    /\ account = "active" /\ pw = 1
    /\ device = [d \in Devices |-> "none"]
    /\ session = [s \in Sessions |-> Nil]
    /\ token = [t \in Tokens |-> Nil]
    /\ reset = [i \in Resets |-> "none"]
    /\ tx = [p \in Procs |-> Nil]
    /\ lock = [r \in Rows |-> Nil]

-----------------------------------------------------------------------------

Kept(s) == session[s] # Nil /\ session[s].state # "deleted"
Live(s) == Kept(s) /\ session[s].state = "active"
LiveTokens == {t \in Tokens : token[t] # Nil /\ token[t].state = "active"}
Active == {d \in Devices : device[d] = "active"}

\* _user_can_authenticate.
CanAuthenticate == account = "active" /\ pw # 0

\* The session a refresh, a logout or a revocation is about.
Target(x) == IF x.op \in {"refresh", "logout"} THEN token[x.arg].session ELSE x.arg

\* _refresh_is_eligible.
Eligible(x) ==
    /\ x.op = "refresh"
    /\ token[x.arg].state = "active"
    /\ Live(Target(x)) /\ device[session[Target(x)].device] = "active"
    /\ CanAuthenticate

\* Mutant of Ending: a sign-in leaves the device's earlier session alone.
EndingKept(x) ==
    CASE x.op = "dropDevice" -> {s \in Sessions : Live(s) /\ session[s].device = x.arg}
      [] x.op = "change" -> {s \in Sessions : Live(s) /\ s # x.arg}
      [] x.op \in {"doReset", "disable", "erase", "remove"} -> {s \in Sessions : Kept(s)}
      [] OTHER -> {}

\* The sessions an operation finds to end: revoke_active_device_sessions,
\* revoke_all_user_sessions, change_password's others, erase_account's.
Ending(x) ==
    CASE x.op \in {"login", "reinstall", "dropDevice"} ->
            {s \in Sessions : Live(s) /\ session[s].device = x.arg}
      [] x.op = "change" -> {s \in Sessions : Live(s) /\ s # x.arg}
      [] x.op \in {"doReset", "disable", "erase", "remove"} -> {s \in Sessions : Kept(s)}
      [] OTHER -> {}

Held(p, kind, ids) == {i \in ids : lock[<<kind, i>>] = p}

\* The live tokens of the sessions it has locked; erase_account deletes every
\* token before it comes to the sessions.
Withdrawing(p, x) ==
    IF x.op \in {"erase", "remove"} THEN {t \in Tokens : token[t] # Nil}
    ELSE {t \in LiveTokens : token[t].session \in Held(p, "session", Sessions)}

\* The rows a stage's statement sees when it starts.
Seen(p, x, stage) ==
    CASE stage = "user" ->
            IF x.op = "refresh" /\ token[x.arg].state = "consumed" THEN {} ELSE {UserRow}
      [] stage = "device" -> {"device"} \X
            (IF x.op = "reinstall" THEN Active ELSE {x.arg} \cap Devices)
      [] stage = "devices" -> {"device"} \X {d \in Devices : device[d] # "none"}
      [] stage = "token" -> {<<"token", x.arg>>}
      [] stage = "session" -> {<<"session", Target(x)>>}
      [] stage = "reset" -> {<<"reset", x.arg>>}
      [] stage = "resets" -> {"reset"} \X {i \in Resets : reset[i] = "active"}
      [] stage = "sessions" -> {"session"} \X Ending(x)
      [] stage = "tokens" -> IF x.fit THEN {} ELSE {"token"} \X Withdrawing(p, x)
      [] OTHER -> {}

\* Mutant of Full: one device too many.
FullLate == Cardinality(Active) > scope.limit

Full == Cardinality(Active) >= scope.limit

\* The checks made once a stage's rows are locked; one that fails ends the
\* transaction.  A login whose device is gone registers another, within the limit.
Refused(x, stage) ==
    \/ /\ stage = "user"
       /\ \/ x.op \in {"login", "reinstall", "change", "erase"} /\ (x.pw # pw \/ ~CanAuthenticate)
          \/ x.op \in {"askReset", "doReset"} /\ ~CanAuthenticate
          \/ x.op = "disable" /\ account = "disabled"
          \/ x.op = "remove" /\ pw = 0
    \/ stage = "reset" /\ reset[x.arg] # "active"
    \/ stage \in {"session", "token"} /\ session[Target(x)].state = "deleted"
    \/ stage = "session" /\ x.op = "dropSession" /\ session[x.arg].state = "revoked"
    \/ stage = "device" /\ x.op \in {"dropDevice", "dropOwn"} /\ x.arg \notin Active
    \/ /\ stage = "device" /\ x.op \in {"login", "reinstall"} /\ x.arg \notin Active
       /\ Full

-----------------------------------------------------------------------------

Start(p, op, arg, offered) ==
    /\ tx[p] = Nil /\ op \in scope.operations
    /\ tx' = [tx EXCEPT ![p] = [op |-> op, arg |-> arg, pw |-> offered, at |-> 1, waits |-> Nil,
                                   fit |-> FALSE]]
    /\ UNCHANGED <<scope, tables, lock>>

\* A user or an administrator calls an operation.  A sign-in names a device it
\* was given, or none (0), or is recognised by its hardware, with a password that is
\* right when it starts (another is refused and changes nothing); a client presents
\* any token it was ever given; a signed-in caller's session is live when checked.
Call(p) ==
    \/ \E d \in {0} \cup {e \in Devices : device[e] # "none"} : Start(p, "login", d, pw)
    \/ \E d \in Active : Start(p, "reinstall", d, pw)
    \/ \E t \in Tokens, op \in {"refresh", "logout"} : token[t] # Nil /\ Start(p, op, t, 0)
    \/ \E s \in Sessions, op \in {"change", "erase"} :
          Live(s) /\ device[session[s].device] = "active" /\ CanAuthenticate /\ Start(p, op, s, pw)
    \/ \E s \in Sessions : session[s] # Nil /\ Start(p, "dropSession", s, 0)
    \/ \E d \in Devices : device[d] # "none" /\ Start(p, "dropDevice", d, 0)
    \/ \E s \in Sessions, d \in Active :
          Live(s) /\ session[s].device \in Active \ {d} /\ CanAuthenticate /\ Start(p, "dropOwn", d, 0)
    \/ \E i \in Resets : reset[i] # "none" /\ Start(p, "doReset", i, 0)
    \/ \E op \in {"askReset", "disable", "reactivate", "remove"} : Start(p, op, 0, 0)

Stage(x) == Path[x.op][x.at]
Committing(x) == x.at > Len(Path[x.op])
Unlocked(p) == [r \in Rows |-> IF lock[r] = p THEN Nil ELSE lock[r]]
Free(p, rows) == \A r \in rows : lock[r] \in {Nil, p}

\* A statement that meets a locked row waits with the rows it has seen: a row
\* inserted meanwhile is not among them.
Wait(p) ==
    LET x == tx[p] IN
    /\ x # Nil /\ ~Committing(x) /\ x.waits = Nil
    /\ ~Free(p, Seen(p, x, Stage(x)))
    /\ tx' = [tx EXCEPT ![p].waits = Seen(p, x, Stage(x))]
    /\ UNCHANGED <<scope, tables, lock>>

\* The statement locks its rows, then the code makes its checks.  A refresh decides
\* once it has the user: it reads the device with no lock.
Lock(p) ==
    LET x == tx[p]
        rows == IF x.waits = Nil THEN Seen(p, x, Stage(x)) ELSE x.waits IN
    /\ x # Nil /\ ~Committing(x)
    /\ Free(p, rows)
    /\ IF Refused(x, Stage(x))
       THEN tx' = [tx EXCEPT ![p] = Nil] /\ lock' = Unlocked(p)
       ELSE /\ tx' = [tx EXCEPT ![p].at = @ + 1, ![p].waits = Nil,
                                  ![p].fit = IF Stage(x) = "user" THEN Eligible(x) ELSE @]
            /\ lock' = [r \in Rows |-> IF r \in rows THEN p ELSE lock[r]]
    /\ UNCHANGED <<scope, tables>>

-----------------------------------------------------------------------------

First(rows, ids, none) == {i \in ids : rows[i] = none /\ \A j \in ids : j < i => rows[j] # none}

\* What is left once the sessions and tokens it holds have ended.
SessionsLeft(p, state) == [s \in Sessions |->
    IF s \in Held(p, "session", Sessions) /\ (Live(s) \/ state = "deleted")
    THEN [session[s] EXCEPT !.state = state] ELSE session[s]]
TokensLeft(p) == [t \in Tokens |->
    IF t \in Held(p, "token", LiveTokens) THEN [token[t] EXCEPT !.state = "revoked"] ELSE token[t]]
ResetsLeft(p) == [i \in Resets |->
    IF lock[<<"reset", i>>] = p /\ reset[i] = "active" THEN "revoked" ELSE reset[i]]

\* The device's earlier session ends and a new one begins, with its first token.
CommitLogin(p, x) ==
    \E d \in (IF x.arg \in Active THEN {x.arg} ELSE First(device, Devices, "none")),
       s \in First(session, 1 .. scope.sessions, Nil), t \in First(token, 1 .. scope.tokens, Nil) :
        /\ device' = [device EXCEPT ![d] = "active"]
        /\ session' = [SessionsLeft(p, "revoked") EXCEPT
               ![s] = [device |-> d, state |-> "active", pw |-> pw]]
        /\ token' = [TokensLeft(p) EXCEPT ![t] = [session |-> s, state |-> "active"]]
        /\ UNCHANGED <<account, pw, reset>>

\* Mutant of CommitRefresh: a token presented again is only refused.
CommitRefreshForgiving(p, x) ==
    /\ \/ /\ x.fit
          /\ \E t \in First(token, 1 .. scope.tokens, Nil) :
                token' = [token EXCEPT ![x.arg].state = "consumed",
                                       ![t] = [session |-> Target(x), state |-> "active"]]
       \/ ~x.fit /\ UNCHANGED token
    /\ UNCHANGED <<account, pw, device, session, reset>>

\* The token is consumed and replaced, or the session ends with all its tokens.
CommitRefresh(p, x) ==
    /\ \/ /\ x.fit
          /\ \E t \in First(token, 1 .. scope.tokens, Nil) :
                token' = [token EXCEPT ![x.arg].state = "consumed",
                                       ![t] = [session |-> Target(x), state |-> "active"]]
          /\ UNCHANGED session
       \/ /\ ~x.fit
          /\ session' = SessionsLeft(p, "revoked")
          /\ token' = TokensLeft(p)
    /\ UNCHANGED <<account, pw, device, reset>>

CommitAskReset(p) ==
    /\ \E i \in First(reset, Resets, "none") : reset' = [ResetsLeft(p) EXCEPT ![i] = "active"]
    /\ UNCHANGED <<account, pw, device, session, token>>

\* Mutant of CommitPassword: a reset leaves the open sessions signed in.
CommitPasswordOnly(p, x) ==
    /\ pw < MaxPasswords /\ pw' = pw + 1
    /\ session' = session
    /\ token' = token
    /\ reset' = IF x.op = "doReset" THEN [ResetsLeft(p) EXCEPT ![x.arg] = "consumed"] ELSE ResetsLeft(p)
    /\ UNCHANGED <<account, device>>

\* confirm_password_reset and change_password: the session a password is changed
\* from rests on the new one.
CommitPassword(p, x) ==
    /\ pw < MaxPasswords /\ pw' = pw + 1
    /\ session' = IF x.op = "doReset" THEN SessionsLeft(p, "revoked")
                  ELSE [SessionsLeft(p, "revoked") EXCEPT ![x.arg].pw = pw']
    /\ token' = TokensLeft(p)
    /\ reset' = IF x.op = "doReset" THEN [ResetsLeft(p) EXCEPT ![x.arg] = "consumed"] ELSE ResetsLeft(p)
    /\ UNCHANGED <<account, device>>

\* erase_account.
CommitErase(p) ==
    /\ account' = "disabled" /\ pw' = 0
    /\ device' = [d \in Devices |-> IF d \in Active THEN "revoked" ELSE device[d]]
    /\ session' = SessionsLeft(p, "deleted")
    /\ token' = TokensLeft(p)
    /\ reset' = ResetsLeft(p)

\* A user revokes another of their devices: its session is left as it is.
CommitOwnDevice(x) ==
    /\ device' = [device EXCEPT ![x.arg] = "withdrawn"]
    /\ UNCHANGED <<account, pw, session, token, reset>>

\* disable_user, reactivate_user, revoke_device, revoke_session and logout.
CommitOther(p, x) ==
    /\ account' = CASE x.op = "disable" -> "disabled" [] x.op = "reactivate" -> "active" [] OTHER -> account
    /\ device' = IF x.op = "dropDevice" THEN [device EXCEPT ![x.arg] = "revoked"] ELSE device
    /\ session' = SessionsLeft(p, "revoked")
    /\ token' = TokensLeft(p)
    /\ UNCHANGED <<pw, reset>>

Commit(p) ==
    LET x == tx[p] IN
    /\ x # Nil /\ Committing(x)
    /\ CASE x.op \in {"login", "reinstall"} -> CommitLogin(p, x)
         [] x.op = "refresh" -> CommitRefresh(p, x)
         [] x.op = "askReset" -> CommitAskReset(p)
         [] x.op \in {"doReset", "change"} -> CommitPassword(p, x)
         [] x.op \in {"erase", "remove"} -> CommitErase(p)
         [] x.op = "dropOwn" -> CommitOwnDevice(x)
         [] OTHER -> CommitOther(p, x)
    /\ tx' = [tx EXCEPT ![p] = Nil]
    /\ lock' = Unlocked(p)
    /\ UNCHANGED scope

\* PostgreSQL aborts a transaction of a cycle of waits, and one whose
\* connection or process is lost.
Abort(p) ==
    /\ tx[p] # Nil
    /\ tx' = [tx EXCEPT ![p] = Nil]
    /\ lock' = Unlocked(p)
    /\ UNCHANGED <<scope, tables>>

Next == \E p \in Procs : Call(p) \/ Wait(p) \/ Lock(p) \/ Commit(p) \/ Abort(p)

Spec == Init /\ [][Next]_vars

-----------------------------------------------------------------------------

\* The tables hold what the schema allows: one active session per device and
\* one active token per session, so that neither partial unique index ever fires.
TypeOK ==
    /\ account \in {"active", "disabled"} /\ pw \in 0 .. MaxPasswords
    /\ device \in [Devices -> {"none", "active", "revoked", "withdrawn"}]
    /\ \A s \in Sessions : session[s] # Nil =>
          session[s] \in [device : Devices, state : {"active", "revoked", "deleted"}, pw : 1 .. MaxPasswords]
    /\ \A t \in Tokens : token[t] # Nil =>
          token[t] \in [session : Sessions, state : {"active", "consumed", "revoked"}]
    /\ reset \in [Resets -> {"none", "active", "consumed", "revoked"}]
    /\ lock \in [Rows -> Procs \cup {Nil}]
    /\ \A s, r \in Sessions : Live(s) /\ Live(r) /\ session[s].device = session[r].device => s = r
    /\ \A t, u \in LiveTokens : token[t].session = token[u].session => t = u

\* A refresh token that still works belongs to a session that still lives,
\* whichever of sign-in, rotation, sign-out, password change, revocation and
\* deletion cross (session_revocation.py revokes the tokens it can see: a
\* rotation it waits for adds one it cannot).
TokensFollowSessions == \A t \in LiveTokens : Live(token[t].session)

\* No session outlives what it rests on: an account that is not disabled or
\* deleted, and a device no administrator revoked, even when the sign-in was under
\* way meanwhile.  A device its user revoked keeps a session, which cannot be used or
\* refreshed (_session_is_eligible) and ends at the next attempt.
SessionsStandOnSomething ==
    \A s \in Sessions : Live(s) =>
        CanAuthenticate /\ device[session[s].device] \in {"active", "withdrawn"}

\* A password reset or change ends every session opened with an earlier
\* password but the one it was changed from ("Every other session ends").
OldPasswordsHoldNothing == \A s \in Sessions : Live(s) => session[s].pw = pw

\* Sign-ins that register devices at the same time do not exceed the limit.
DeviceLimitRespected == Cardinality(Active) <= scope.limit

\* A consumed token that is presented again, by a client that lost the answer
\* or by someone who copied it, ends the session and all its tokens, also
\* when the two presentations overlap (docs/architecture.md, "reuse revokes the
\* entire token family").
ReuseEndsTheFamily ==
    [][\A p \in Procs :
         (/\ Commit(p) /\ tx[p].op = "refresh"
          /\ token[tx[p].arg].state = "consumed")
         => \A t \in Tokens : (token'[t] # Nil /\ token'[t].session = Target(tx[p]))
                              => token'[t].state # "active"]_vars
=============================================================================
