----------------------------- MODULE AppSession -----------------------------
(***************************************************************************)
(* The session as the app keeps it (core/auth/auth_notifier.dart and       *)
(* core/network/token_refresher.dart): restored at the start, refreshed    *)
(* once for all requests that were refused, given up only when the server  *)
(* refuses it or the user signs out.  The code runs on one thread; other   *)
(* handlers run wherever it awaits the network or the keystore.  The       *)
(* server is here as far as the app meets it: refresh tokens that rotate,  *)
(* and a session that ends when one of them is used twice.                 *)
(***************************************************************************)
EXTENDS Naturals, Sequences

CONSTANTS Requests,      \* requests of the app that may find their access token expired
          MaxTokens,     \* refresh tokens issued
          MaxFaults,     \* answers lost, kills of the app and sessions ended by others
          None

VARIABLES state,      \* AuthState, with the refresh token it holds
          stored,     \* the refresh token in the keystore, or 0
          call,       \* the calls under way: how far each is, its token
          inFlight,   \* the request whose refresh serves them all (TokenRefresher._inFlight)
          tok,        \* the server's refresh tokens: session and state
          over,       \* the sessions that ended, with the cause
          bye,        \* sign-outs on their way to the server
          left,       \* the sessions the user signed out of
          lost,       \* a new token was issued and never reached the keystore
          raced,      \* a sign-out or a sign-in overlapped a refresh
          faults

vars == <<state, stored, call, inFlight, tok, over, bye, left, lost, raced, faults>>
server == <<tok, over, bye, left>>

Refreshing == Requests \cup {"restore"}
Calls == Refreshing \cup {"login", "logout"}
Idle == [at |-> "idle", token |-> 0]
Is(s) == [is |-> s, token |-> 0]
AuthAuthenticated(t) == [is |-> "authenticated", token |-> t]

Sessions == {tok[t].session : t \in DOMAIN tok}
Revoked(sessions) == [t \in DOMAIN tok |->
    IF tok[t].session \in sessions /\ tok[t].state = "live" THEN [tok[t] EXCEPT !.state = "revoked"]
    ELSE tok[t]]
EndedBy(sessions, cause) == [s \in DOMAIN over |->
    IF s \in sessions /\ over[s] = "no" THEN cause ELSE over[s]]

Init ==
    /\ state = Is("off")
    /\ stored = 0
    /\ call = [c \in Calls |-> Idle]
    /\ inFlight = None
    /\ tok = <<>> /\ over = <<>> /\ bye = {} /\ left = {}
    /\ lost = FALSE /\ raced = FALSE
    /\ faults = 0

-----------------------------------------------------------------------------
(* The app *)

Goes(c, at) == call' = [call EXCEPT ![c].at = at]
\* The keystore serves what it is asked in order; the answer comes later.
ReadsToken == call' = [call EXCEPT !["restore"] = [at |-> "read", token |-> stored]]

\* main.dart starts the restore at every start of the app.
bootstrap ==
    /\ state.is = "off"
    /\ state' = Is("authenticating")
    /\ ReadsToken
    /\ UNCHANGED <<stored, inFlight, server, lost, faults>>

\* The timer set when the server could not be reached.
retryRestore ==
    /\ state.is = "unreachable" /\ call["restore"].at = "idle"
    /\ ReadsToken
    /\ UNCHANGED <<state, stored, inFlight, server, lost, faults>>

_restore ==
    /\ call["restore"].at = "read"
    /\ IF call["restore"].token = 0
       THEN state' = Is("unauthenticated") /\ Goes("restore", "idle")
       ELSE Goes("restore", "sent") /\ UNCHANGED state
    /\ UNCHANGED <<stored, inFlight, server, lost, faults>>

\* A request leaves with the access token of the moment.
onRequest(q) ==
    /\ state.is = "authenticated" /\ call[q].at = "idle"
    /\ Goes(q, "asked")
    /\ UNCHANGED <<state, stored, inFlight, server, lost, faults>>

\* refreshSession: only an authenticated app has something to refresh.
refreshSession(q) ==
    IF state.is = "authenticated"
    THEN /\ call' = [call EXCEPT ![q] = [at |-> "sent", token |-> state.token]]
         /\ inFlight' = q
    ELSE Goes(q, "idle") /\ UNCHANGED inFlight

RefreshEach(q) == refreshSession(q)

\* TokenRefresher.refresh: whoever comes later awaits the refresh under way.
refresh(q) ==
    IF inFlight # None THEN Goes(q, "waiting") /\ UNCHANGED inFlight
    ELSE refreshSession(q)

\* The answer to a request: 401, or anything else.
onError(q) ==
    /\ call[q].at = "asked"
    /\ \/ refresh(q)
       \/ Goes(q, "idle") /\ UNCHANGED inFlight
    /\ UNCHANGED <<state, stored, server, lost, faults>>

\* The sign-in screen is shown to whoever is signed out; it submits one at a time.
login ==
    /\ state.is \in {"unauthenticated", "expired"} /\ call["login"].at = "idle"
    /\ Goes("login", "sent")
    /\ UNCHANGED <<state, stored, inFlight, server, lost, faults>>

\* A new refresh token goes to the keystore first and to the state next.
TokenWritten(c) ==
    /\ call[c].at = "answered"
    /\ stored' = call[c].token
    /\ Goes(c, "written")
    /\ UNCHANGED <<state, inFlight, server, lost, faults>>

\* The call is over: so it is for the requests that awaited it.
Over(c) ==
    /\ call' = [d \in Calls |-> IF d = c \/ (inFlight = c /\ call[d].at = "waiting")
                                THEN Idle ELSE call[d]]
    /\ inFlight' = IF inFlight = c THEN None ELSE inFlight

SessionTaken(c) ==
    /\ call[c].at = "written"
    /\ state' = AuthAuthenticated(call[c].token)
    /\ Over(c)
    /\ UNCHANGED <<stored, server, lost, faults>>

\* Refused by the server (sessionRejected): what is stored goes, then the state.
_forgetSession(c) ==
    /\ c \in Refreshing /\ call[c].at = "refused"
    /\ stored' = 0
    /\ Goes(c, "forgotten")
    /\ UNCHANGED <<state, inFlight, server, lost, faults>>

expireSession(c) ==
    /\ call[c].at = "forgotten"
    /\ state' = Is(IF c \in Requests THEN "expired" ELSE "unauthenticated")
    /\ Over(c)
    /\ UNCHANGED <<stored, server, lost, faults>>

FailsForGood(c) ==
    /\ call[c].at = "failed"
    /\ state' = IF c = "restore" THEN Is("unauthenticated") ELSE state
    /\ stored' = IF c = "restore" THEN 0 ELSE stored
    /\ Over(c)
    /\ UNCHANGED <<server, lost, faults>>

\* Nobody answered, or nobody who judged the session: a restore is tried again, a
\* request reports it, and so does the sign-in screen.
CallFails(c) ==
    /\ call[c].at = "failed"
    /\ state' = IF c = "restore" THEN Is("unreachable") ELSE state
    /\ Over(c)
    /\ UNCHANGED <<stored, server, lost, faults>>

\* The server is told without waiting; what is kept here goes whatever it answers.
logout ==
    /\ state.is \in {"authenticated", "unreachable"} /\ call["logout"].at = "idle"
    /\ bye' = IF state.is = "authenticated" THEN bye \cup {state.token} ELSE bye
    /\ left' = IF stored = 0 THEN left ELSE left \cup {tok[stored].session}
    /\ stored' = 0
    /\ Goes("logout", "forgotten")
    /\ UNCHANGED <<state, inFlight, tok, over, lost, faults>>

-----------------------------------------------------------------------------
(* The server and the network *)

Answers(c, how, t) == call' = [call EXCEPT ![c] = [at |-> how, token |-> t]]

\* UserAuthService.refresh
ServerRefreshes(c) ==
    /\ c \in Refreshing /\ call[c].at = "sent"
    /\ LET t == call[c].token
           s == tok[t].session IN
       CASE tok[t].state = "used" ->
              /\ tok' = Revoked({s}) /\ over' = EndedBy({s}, "reuse")
              /\ Answers(c, "refused", t)
         [] tok[t].state = "revoked" ->
              Answers(c, "refused", t) /\ UNCHANGED <<tok, over>>
         [] tok[t].state = "live" ->
              /\ Len(tok) < MaxTokens
              /\ tok' = Append([tok EXCEPT ![t].state = "used"], [session |-> s, state |-> "live"])
              /\ Answers(c, "answered", Len(tok) + 1)
              /\ UNCHANGED over
    /\ UNCHANGED <<state, stored, inFlight, bye, left, lost, faults>>

\* A sign-in ends the sessions its device had.
ServerSignsIn ==
    /\ call["login"].at = "sent" /\ Len(tok) < MaxTokens
    /\ tok' = Append(Revoked(Sessions), [session |-> Len(over) + 1, state |-> "live"])
    /\ over' = Append(EndedBy(Sessions, "login"), "no")
    /\ Answers("login", "answered", Len(tok) + 1)
    /\ UNCHANGED <<state, stored, inFlight, bye, left, lost, faults>>

ServerSignsOut ==
    /\ \E t \in bye : /\ tok' = Revoked({tok[t].session})
                      /\ over' = EndedBy({tok[t].session}, "logout")
                      /\ bye' = bye \ {t}
    /\ UNCHANGED <<state, stored, call, inFlight, left, lost, faults>>

\* An administrator, or the user from another device.
ServerEndsSession ==
    /\ faults < MaxFaults /\ faults' = faults + 1
    /\ \E s \in Sessions : /\ over[s] = "no"
                           /\ tok' = Revoked({s}) /\ over' = EndedBy({s}, "other")
    /\ UNCHANGED <<state, stored, call, inFlight, bye, left, lost>>

\* No route reaches the server, or it answers 429 or 503.
NeverArrives(c) ==
    /\ call[c].at = "sent"
    /\ Goes(c, "failed")
    /\ UNCHANGED <<state, stored, inFlight, server, lost, faults>>

\* Done, and the app never learns; or the keystore fails.
AnswerLost(c) ==
    /\ call[c].at \in {"answered", "refused"}
    /\ faults < MaxFaults /\ faults' = faults + 1
    /\ lost' = (lost \/ call[c].at = "answered")
    /\ Goes(c, "failed")
    /\ UNCHANGED <<state, stored, inFlight, server>>

\* The app is killed: what was not in the keystore is gone.
AppDies ==
    /\ state.is # "off"
    /\ faults < MaxFaults /\ faults' = faults + 1
    /\ lost' = (lost \/ \E c \in Calls : call[c].at = "answered")
    /\ state' = Is("off")
    /\ call' = [c \in Calls |-> Idle]
    /\ inFlight' = None
    /\ bye' = {}
    /\ UNCHANGED <<stored, tok, over, left>>

-----------------------------------------------------------------------------
Step ==
    \/ bootstrap \/ retryRestore \/ _restore \/ login \/ logout
    \/ ServerSignsIn \/ ServerSignsOut \/ ServerEndsSession \/ AppDies
    \/ \E q \in Requests : onRequest(q) \/ onError(q)
    \/ \E c \in Calls : \/ TokenWritten(c) \/ SessionTaken(c) \/ CallFails(c)
                        \/ _forgetSession(c) \/ expireSession(c)
                        \/ ServerRefreshes(c) \/ NeverArrives(c) \/ AnswerLost(c)

Busy(c) == call[c].at \notin {"idle", "asked"}
Overlap == /\ \E c \in {"login", "logout"} : Busy(c)
           /\ \E c \in Refreshing : Busy(c)

\* Behaviours are followed up to the first overlap: nothing is claimed past it.
Next == ~raced /\ Step /\ raced' = Overlap'

Spec == Init /\ [][Next]_vars

-----------------------------------------------------------------------------
\* The app never brings its own session down: however many requests find their token
\* expired at once, and whatever starts and retries come between, it shows the server
\* a used token only after one it was given got lost (TokenRefresher), or a sign-out
\* overlapped a refresh.
NoNeedlessReuse == (\E s \in DOMAIN over : over[s] = "reuse") => lost \/ raced

\* At rest, the keystore holds the token of the state, and nothing once signed out; and
\* a session that is alive on the server and was not signed out of is still the app's,
\* being offline included.  Not so when a sign-out overlapped a refresh.
KeepsItsSession ==
    (~raced /\ \A c \in Calls : ~Busy(c)) =>
        /\ state.is = "authenticated" => stored = state.token
        /\ state.is \in {"unauthenticated", "expired"} => stored = 0
        /\ ~lost => \A t \in DOMAIN tok : tok[t].state = "live" =>
                       stored = t \/ tok[t].session \in left
=============================================================================
