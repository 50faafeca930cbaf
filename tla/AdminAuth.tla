------------------------------ MODULE AdminAuth ------------------------------
(***************************************************************************)
(* Administrators of the panel: password, second factor, sessions, and the *)
(* management of the other administrators.  Two stores are involved.       *)
(* Postgres keeps who an administrator is (the account, its authenticator, *)
(* recovery codes and passkeys); Redis keeps what is disposable (sign-in   *)
(* challenges, failure counts and sessions).  No transaction spans both,   *)
(* and a request that writes to one and then to the other can be overtaken *)
(* by another request, or stop, in between.                                *)
(*                                                                         *)
(* A browser has one request in flight.  It holds two cookies: a session   *)
(* token and the one-time CSRF token that the session's next change must   *)
(* carry.                                                                  *)
(*                                                                         *)
(* Times are kept as the order they induce: a session's created_at is      *)
(* compared with sessions_valid_after only, so the account carries the set *)
(* of sessions that are older than that mark.                              *)
(***************************************************************************)
EXTENDS Integers, Sequences, FiniteSets, Functions

CONSTANTS
    Admins,        \* administrator accounts, present or yet to be invited
    Browsers,      \* browsers, each used by one person
    Scenes,        \* the situations a run explores: who is there at the
                   \* start, which requests browsers make, and how many
    Threshold,     \* admin_lockout_threshold
    Skew,          \* totp_allowed_skew_steps
    MaxSessions,   \* bound: sessions issued
    MaxStep,       \* bound: 30-second timesteps that pass
    MaxSeeds,      \* bound: authenticators set up per administrator
    MaxBatches,    \* bound: batches of recovery codes per administrator
    MaxPasswords,  \* bound: passwords per administrator
    MaxFaults,     \* bound: failed commits, expired sessions, lost answers
    NoOne          \* nobody

ASSUME AdminAssumption ==
    /\ Threshold \in Nat \ {0, 1}
    /\ Skew \in Nat
    /\ NoOne \notin Admins \cup Browsers

VARIABLES
    person,    \* whose browser this is
    menu,      \* the requests browsers make in this behaviour
    left,      \* how many more they make
    admin,     \* AdminUser rows
    totp,      \* AdminTotpCredential rows of each administrator
    codes,     \* active AdminMfaRecoveryCode rows
    passkey,   \* whether the administrator has a passkey
    session,   \* Redis: the sessions issued, oldest first
    preauth,   \* Redis: the sign-in challenge a browser holds
    prompt,    \* Redis: open WebAuthn challenges of a browser
    failures,  \* Redis: failures counted towards the lockout
    lock,      \* which request holds the administrator's rows
    jar,       \* the browser's cookies
    req,       \* the request a browser has in flight
    clock,     \* the current timestep
    faults,    \* faults so far
    accepted,  \* history: which code opened which session
    lost       \* browsers whose last answer was lost

rows  == <<admin, totp, codes, passkey>>
redis == <<session, preauth, prompt, failures>>
env   == <<person, menu, clock, faults, accepted, lost>>
vars  == <<person, menu, left, admin, totp, codes, passkey, session, preauth, prompt,
           failures, lock, jar, req, clock, faults, accepted, lost>>

Wrong == [kind |-> "wrong", seed |-> 0, n |-> 0]
Passkey == [kind |-> "passkey", seed |-> 0, n |-> 0]
Roles == {"owner", "operator"}
Tokens == 1 .. Len(session)
Idle == [op |-> "none", at |-> "idle", proof |-> Wrong, snap |-> {},
         token |-> 0, other |-> NoOne, role |-> "owner"]
NoCookies == [token |-> 0, csrf |-> FALSE]

\* Browser b sends request r.
Sends(b, r) ==
    /\ req[b] = Idle /\ r.op \in menu /\ left > 0
    /\ left' = left - 1
    /\ req' = [req EXCEPT ![b] = r]

\* The account a browser's request acts for, and the cookie it carries.
Who(b) == person[b]
Cookie(b) == jar[b].token

---------------------------------------------------------------------------
(* Redis.  Each script runs atomically.                                    *)

\* Sessions of administrator a that were ever issued.
Issued(a) == {t \in Tokens : session[t].admin = a}

\* The session hash that issue_admin_session stores.
NewSession(a, step) == [admin |-> a, live |-> TRUE, step |-> step]

\* DEL of a session key; deleting an absent key is harmless.
Revoked(s, t) == IF t = 0 THEN s ELSE [s EXCEPT ![t].live = FALSE]

\* _ROTATE_SESSION_LUA: the old key goes and a new one, created now and
\* stepped up, takes its place.
Rotated(s, t) == Append(Revoked(s, t), NewSession(s[t].admin, "fresh"))

\* get_admin_session: the key is there.
Live(t) == t # 0 /\ session[t].live

\* list_admin_sessions: the keys of one administrator.
Listed(a) == {t \in Issued(a) : Live(t)}

\* _LOCKOUT_FAILURE_LUA counts up to the threshold, where the lock starts;
\* _LOCKOUT_STATUS_LUA reads it; clear_admin_failures deletes the key.
Counted(a) == [failures EXCEPT ![a] = IF @ < Threshold THEN @ + 1 ELSE @]
Locked(a) == failures[a] = Threshold
Cleared(a) == [failures EXCEPT ![a] = 0]

\* issue_preauth: a new challenge for the browser.  WebAuthn challenges are
\* kept under the challenge, or under the session, they were opened for.
Challenged(b, purpose) ==
    /\ preauth' = [preauth EXCEPT ![b] = purpose]
    /\ prompt' = [prompt EXCEPT ![b] = @ \ {"login"}]

\* put_webauthn_challenge replaces an earlier one; take_webauthn_challenge
\* uses it up.
Prompted(b, kind) == [prompt EXCEPT ![b] = @ \cup {kind}]
Taken(b, kind) == [prompt EXCEPT ![b] = @ \ {kind}]

\* The requests with a rate limit of their own, which may refuse any of them.
Limited(op) == op \in {"step-up", "password", "switch"}

---------------------------------------------------------------------------
(* What the service decides.                                               *)

\* principal(): the session is in Redis, its administrator is active, and it
\* is not older than sessions_valid_after.
Accepts(t) ==
    /\ Live(t)
    /\ admin[session[t].admin].state = "active"
    /\ t \notin admin[session[t].admin].ended

\* The sessions the panel shows: sign-in still accepts them.
Shown(a) == {t \in Listed(a) : t \notin admin[a].ended}

\* verify_totp: the code is this authenticator's, for a timestep near now.
TotpCounter(seed, proof) ==
    IF /\ proof.kind = "totp" /\ proof.seed = seed
       /\ proof.n \in (clock - Skew) .. (clock + Skew)
    THEN proof.n ELSE 0

\* Mutant: the timestep accepted last is accepted again.
TotpReplayed(seed, last, proof) ==
    TotpCounter(seed, proof) # 0 /\ TotpCounter(seed, proof) >= last

\* _verify_totp_credential: and later than the last timestep accepted.
TotpAccepted(seed, last, proof) == TotpCounter(seed, proof) > last

\* A recovery code row: the authenticator it belongs to and its batch.
RecoveryCode(seed, n) == [seed |-> seed, n |-> n]

\* _verify_mfa_method: an authenticator code, or an active recovery code of
\* this authenticator.
MfaAccepted(a, proof) ==
    \/ TotpAccepted(totp[a].active, totp[a].last, proof)
    \/ proof.kind = "recovery" /\ RecoveryCode(totp[a].active, proof.n) \in codes[a]

\* The codes a person can enter: what an authenticator of theirs shows now or
\* showed a step ago, a recovery code once handed to them, or a wrong one.
Proofs(a) ==
    {[kind |-> "totp", seed |-> s, n |-> n] :
        s \in 1 .. totp[a].made, n \in {clock - 1, clock} \ {0}}
    \cup {[kind |-> "recovery", seed |-> 0, n |-> n] : n \in 1 .. totp[a].batches}
    \cup {Wrong}

\* A new authenticator row, pending; an earlier pending one is revoked.
WithPending(a) == [totp EXCEPT ![a].pending = totp[a].made + 1, ![a].made = @ + 1]

\* The pending authenticator becomes the active one.
WithActive(a, n) == [totp EXCEPT ![a].active = totp[a].pending, ![a].pending = 0,
                                 ![a].last = n, ![a].batches = @ + 1]

\* generate_recovery_codes: a new batch for an authenticator, beside the
\* codes that stay active.
WithBatch(a, kept, seed) ==
    [codes EXCEPT ![a] = kept \cup {RecoveryCode(seed, totp[a].batches + 1)}]

\* Mutant: the codes of the authenticator stay active.
CodesKept(a, seed) == codes[a]

\* The active codes of an account that are not of this authenticator.
CodesNotOf(a, seed) == {c \in codes[a] : c.seed # seed}

---------------------------------------------------------------------------
(* How a request ends.                                                     *)

\* A request that spent the CSRF token stages the replacement, and the
\* middleware puts it on whatever answer the request gets.
Answered(b) ==
    /\ req' = [req EXCEPT ![b] = Idle]
    /\ jar' = [jar EXCEPT ![b].csrf = TRUE]

\* A request that spent no CSRF token leaves the cookies as they are.
Done(b) == req' = [req EXCEPT ![b] = Idle] /\ UNCHANGED jar

\* The password step and logout clear both cookies.
SignedOut(b) ==
    /\ req' = [req EXCEPT ![b] = Idle]
    /\ jar' = [jar EXCEPT ![b] = NoCookies]

\* The answer to a sign-in, or to a request that got a new session.
SignedIn(b, t) ==
    /\ req' = [req EXCEPT ![b] = Idle]
    /\ jar' = [jar EXCEPT ![b] = [token |-> t, csrf |-> TRUE]]

---------------------------------------------------------------------------
(* Signing in.                                                             *)

At(b, op, at) == req[b].op = op /\ req[b].at = at
Free(a) == lock[a] = NoOne

\* seed_initial_admin: the first owner, only while there is no administrator.
SeedAdmin(a) ==
    /\ \A x \in Admins : admin[x].state = "none"
    /\ admin' = [admin EXCEPT ![a] = [@ EXCEPT !.state = "active", !.role = "owner"]]
    /\ UNCHANGED <<left, totp, codes, passkey, redis, lock, jar, req, env>>

\* password_challenge takes the account's row and reads the lockout.
PasswordArrives(b) ==
    /\ Free(Who(b)) /\ admin[Who(b)].state # "none"
    /\ lock' = [lock EXCEPT ![Who(b)] = b]
    /\ Sends(b, [Idle EXCEPT !.op = "login", !.at = "judge",
                             !.token = IF Locked(Who(b)) THEN 1 ELSE 0])
    /\ UNCHANGED <<rows, redis, jar, env>>

\* The password is right and nothing bars the account: a challenge is issued
\* and the login route clears the browser's cookies.
PasswordAccepted(b) ==
    /\ At(b, "login", "judge")
    /\ admin[Who(b)].state = "active" /\ req[b].token = 0
    /\ Challenged(b, IF totp[Who(b)].active # 0 THEN "login" ELSE "enroll")
    /\ lock' = [lock EXCEPT ![Who(b)] = NoOne]
    /\ SignedOut(b)
    /\ UNCHANGED <<left, rows, session, failures, env>>

\* The password is wrong (any request may carry a wrong one), the account is
\* disabled or it is locked: one more failure.
PasswordRefused(b) ==
    /\ At(b, "login", "judge")
    /\ failures' = Counted(Who(b))
    /\ lock' = [lock EXCEPT ![Who(b)] = NoOne]
    /\ Done(b)
    /\ UNCHANGED <<left, rows, session, preauth, prompt, env>>

\* The rate limit refuses first: no failure is counted.
PasswordLimited(b) ==
    /\ At(b, "login", "judge")
    /\ lock' = [lock EXCEPT ![Who(b)] = NoOne]
    /\ Done(b)
    /\ UNCHANGED <<left, rows, redis, env>>

\* consume_preauth: the challenge is used up whatever comes of the request.
Consumes(b, purpose, op, proof) ==
    /\ preauth[b] = purpose
    /\ preauth' = [preauth EXCEPT ![b] = "none"]
    /\ Sends(b, [Idle EXCEPT !.op = op, !.at = "consumed", !.proof = proof])
    /\ UNCHANGED <<rows, session, prompt, failures, lock, jar, env>>

\* start_enrollment, in three steps: the challenge is used up, ...
StartEnrollment(b) == Consumes(b, "enroll", "enroll", Wrong)

\* ... the account gets a pending authenticator (an earlier pending one is
\* revoked), unless it has an active one or is not active, ...
EnrollmentPends(b) ==
    LET a == Who(b) IN
    /\ At(b, "enroll", "consumed") /\ Free(a) /\ totp[a].made < MaxSeeds
    /\ IF admin[a].state = "active" /\ totp[a].active = 0
       THEN /\ totp' = WithPending(a)
            /\ req' = [req EXCEPT ![b].at = "pended"]
            /\ UNCHANGED jar
       ELSE Done(b) /\ UNCHANGED totp
    /\ UNCHANGED <<left, admin, codes, passkey, redis, lock, env>>

\* ... and a second challenge is issued for its confirmation.
EnrollmentOffered(b) ==
    /\ At(b, "enroll", "pended")
    /\ Challenged(b, "enroll")
    /\ Done(b)
    /\ UNCHANGED <<left, rows, session, failures, lock, env>>

\* The three ways to finish a sign-in begin by using up the challenge.
ConfirmEnrollment(b) == \E p \in Proofs(Who(b)) :
    p.kind # "recovery" /\ Consumes(b, "enroll", "confirm", p)
VerifyMfa(b) == \E p \in Proofs(Who(b)) : Consumes(b, "login", "mfa", p)
VerifyPasskeyLogin(b) == \E p \in {Passkey, Wrong} : Consumes(b, "login", "passkey", p)

\* passkey_login_options: reads the challenge without using it up, and opens
\* a WebAuthn challenge for it in place of an earlier one.
PasskeyLoginOptions(b) ==
    /\ req[b] = Idle /\ "passkey" \in menu
    /\ preauth[b] = "login" /\ passkey[Who(b)]
    /\ prompt' = Prompted(b, "login")
    /\ UNCHANGED <<left, rows, session, preauth, failures, lock, jar, req, env>>

\* What the transaction of each makes of the second factor: there is nothing
\* to judge it by, it is wrong, or it is right.
Verdict(there, right) == IF ~there THEN "nothing" ELSE IF right THEN "right" ELSE "wrong"
EnrollmentVerdict(a, p) ==
    Verdict(admin[a].state = "active" /\ totp[a].pending # 0,
            TotpAccepted(totp[a].pending, 0, p))
MfaVerdict(a, p) ==
    Verdict(admin[a].state = "active" /\ totp[a].active # 0, MfaAccepted(a, p))
PasskeyVerdict(b, a, p) ==
    Verdict(admin[a].state = "active" /\ "login" \in prompt[b], passkey[a] /\ p = Passkey)
SignInVerdict(b) ==
    CASE req[b].op = "confirm" -> EnrollmentVerdict(Who(b), req[b].proof)
      [] req[b].op = "mfa"     -> MfaVerdict(Who(b), req[b].proof)
      [] OTHER                 -> PasskeyVerdict(b, Who(b), req[b].proof)

\* _record_mfa_denial: a wrong factor is one more failure.
Denial(a, verdict) == IF verdict = "wrong" THEN Counted(a) ELSE failures

\* The transaction of confirm_enrollment, verify_mfa and verify_passkey_login
\* up to its commit.  The session is put in Redis while the account's rows
\* are held; the row changes become visible at the commit.
SecondFactor(b) ==
    LET a == Who(b) IN
    /\ req[b].op \in {"confirm", "mfa", "passkey"} /\ req[b].at = "consumed"
    /\ Free(a) /\ Len(session) < MaxSessions
    /\ IF SignInVerdict(b) = "right"
       THEN /\ session' = Append(session, NewSession(a, "none"))
            /\ lock' = [lock EXCEPT ![a] = b]
            /\ req' = [req EXCEPT ![b].at = "commit", ![b].token = Len(session) + 1]
            /\ UNCHANGED <<failures, jar>>
       ELSE /\ Done(b)
            /\ failures' = Denial(a, SignInVerdict(b))
            /\ UNCHANGED <<session, lock>>
    /\ prompt' = IF req[b].op = "passkey" THEN Taken(b, "login") ELSE prompt
    /\ UNCHANGED <<left, rows, preauth, env>>

\* What the commit of an accepted second factor stores: the timestep or the
\* recovery code is spent, or the pending authenticator becomes active with
\* its first recovery codes.
Stores(b) ==
    LET a == Who(b)  p == req[b].proof IN
    CASE req[b].op = "confirm" ->
            totp' = WithActive(a, p.n) /\ codes' = WithBatch(a, codes[a], totp[a].pending)
      [] p.kind = "totp" ->
            totp' = [totp EXCEPT ![a].last = p.n] /\ UNCHANGED codes
      [] p.kind = "recovery" ->
            codes' = [codes EXCEPT ![a] = {c \in @ : c.n # p.n}] /\ UNCHANGED totp
      [] OTHER -> UNCHANGED <<totp, codes>>

\* One active authenticator per account is a unique index: a confirmation
\* that would make a second one cannot commit.
Committable(b) == req[b].op = "confirm" => totp[Who(b)].active = 0

\* A code that served, and the session it opened (none for a replacement).
Use(b, t) == [who |-> Who(b), proof |-> req[b].proof, token |-> t]

SignInCommits(b) ==
    /\ req[b].at = "commit" /\ Committable(b)
    /\ Stores(b)
    /\ accepted' = IF req[b].proof = Passkey THEN accepted
                   ELSE accepted \cup {Use(b, req[b].token)}
    /\ lock' = [lock EXCEPT ![Who(b)] = NoOne]
    /\ req' = [req EXCEPT ![b].at = "clear"]
    /\ UNCHANGED <<left, admin, passkey, redis, jar, person, menu, clock, faults, lost>>

\* The commit raises: the session just put in Redis is taken out again.
SignInFails(b) ==
    /\ req[b].at = "commit"
    /\ IF Committable(b) THEN faults < MaxFaults /\ faults' = faults + 1
                         ELSE UNCHANGED faults
    /\ session' = Revoked(session, req[b].token)
    /\ lock' = [lock EXCEPT ![Who(b)] = NoOne]
    /\ IF req[b].op = "step-up" THEN Answered(b) ELSE Done(b)
    /\ UNCHANGED <<left, rows, preauth, prompt, failures, person, menu, clock, accepted, lost>>

\* clear_admin_failures, then the route looks the new session up once more
\* before it sets the cookies.
SignInAnswered(b) ==
    LET t == req[b].token IN
    /\ req[b].at = "clear"
    /\ failures' = Cleared(Who(b))
    /\ IF Accepts(t)
       THEN SignedIn(b, t) /\ UNCHANGED session
       ELSE /\ session' = Revoked(session, t)
            /\ IF req[b].op = "step-up" THEN Answered(b) ELSE Done(b)
    /\ prompt' = Taken(b, "register")
    /\ UNCHANGED <<left, rows, preauth, lock, env>>

---------------------------------------------------------------------------
(* Requests of a signed-in administrator.                                  *)

\* validate_and_rotate_csrf: the session is there and this is its token.
CsrfHolds(b) == Live(Cookie(b)) /\ jar[b].csrf

\* _protect_mutation, authorize_admin_mutation: the CSRF token is compared
\* and replaced in one script; a request that does not match changes nothing.
Protects(b, r) ==
    /\ CsrfHolds(b)
    /\ jar' = [jar EXCEPT ![b].csrf = FALSE]
    /\ Sends(b, [r EXCEPT !.at = "protected"])
    /\ UNCHANGED <<rows, redis, lock, env>>

Ask(op) == [Idle EXCEPT !.op = op]

\* One action per route: what the request carries.
StepUpRoute(b) == \E p \in Proofs(Who(b)) :
    Protects(b, [Ask("step-up") EXCEPT !.proof = p])
LogoutRoute(b) == Protects(b, Ask("logout"))
RotateRecoveryCodesRoute(b) == Protects(b, Ask("codes"))
ChangeOwnPasswordRoute(b) == \E good \in BOOLEAN :
    Protects(b, [Ask("password") EXCEPT !.token = IF good THEN 1 ELSE 0])
StartReplacementRoute(b) == Protects(b, Ask("replace"))
ConfirmReplacementRoute(b) == \E p \in Proofs(Who(b)) :
    p.kind # "recovery" /\ Protects(b, [Ask("switch") EXCEPT !.proof = p])
PasskeyOptionsRoute(b) == Protects(b, Ask("passkey-options"))
RegisterPasskeyRoute(b) == \E p \in {Passkey, Wrong} :
    Protects(b, [Ask("passkey-add") EXCEPT !.proof = p])
RemovePasskeyRoute(b) == Protects(b, Ask("passkey-remove"))
InviteRoute(b) == \E a \in Admins, r \in Roles :
    Protects(b, [Ask("invite") EXCEPT !.other = a, !.role = r])
ChangeRoleRoute(b) == \E a \in Admins, r \in Roles :
    Protects(b, [Ask("role") EXCEPT !.other = a, !.role = r])
DisableRoute(b) == \E a \in Admins : Protects(b, [Ask("disable") EXCEPT !.other = a])
ReactivateRoute(b) == \E a \in Admins : Protects(b, [Ask("reactivate") EXCEPT !.other = a])
EndSessionRoute(b) == \E a \in Admins : \E t \in Shown(a) :
    Protects(b, [Ask("end") EXCEPT !.other = a, !.token = t])
EndAllSessionsRoute(b) == \E a \in Admins : Protects(b, [Ask("end-all") EXCEPT !.other = a])

OwnerOps == {"invite", "role", "disable", "reactivate", "end", "end-all"}

\* The principal may go ahead: the role, the step-up, and for a step-up the
\* lockout.
MayGo(b) ==
    /\ req[b].op # "step-up" => session[Cookie(b)].step = "fresh"
    /\ req[b].op \in OwnerOps => admin[Who(b)].role = "owner"
    /\ req[b].op = "step-up" => ~Locked(Who(b))

\* principal() finds the account active and the session young enough.  The
\* password change takes its "now" here, before it waits for the row.
Authorized(b) ==
    /\ req[b].at = "protected" /\ req[b].op # "logout"
    /\ Accepts(Cookie(b)) /\ MayGo(b)
    /\ req' = [req EXCEPT ![b].at = "go", ![b].snap =
                  IF req[b].op = "password" THEN Issued(Who(b)) ELSE {}]
    /\ UNCHANGED <<left, rows, redis, lock, jar, env>>

\* Mutant: a refused request brings no CSRF replacement.
UnauthorizedUnstaged(b) ==
    /\ req[b].at = "protected" /\ req[b].op # "logout"
    /\ \/ ~Accepts(Cookie(b)) /\ session' = Revoked(session, Cookie(b))
       \/ /\ Accepts(Cookie(b))
          /\ ~MayGo(b) \/ Limited(req[b].op)
          /\ UNCHANGED session
    /\ Done(b)
    /\ UNCHANGED <<left, rows, preauth, prompt, failures, lock, env>>

\* principal() refuses and deletes the session, or the role or step-up check
\* refuses, or the rate limit of the request.
Unauthorized(b) ==
    /\ req[b].at = "protected" /\ req[b].op # "logout"
    /\ \/ ~Accepts(Cookie(b)) /\ session' = Revoked(session, Cookie(b))
       \/ /\ Accepts(Cookie(b))
          /\ ~MayGo(b) \/ Limited(req[b].op)
          /\ UNCHANGED session
    /\ Answered(b)
    /\ UNCHANGED <<left, rows, preauth, prompt, failures, lock, env>>

Going(b, op) == At(b, op, "go")

\* step_up: the code is judged with the account's rows held, and the session
\* is replaced in Redis before the commit.
StepUp(b) ==
    LET a == Who(b)
        verdict == MfaVerdict(a, req[b].proof)
    IN
    /\ Going(b, "step-up") /\ Free(a) /\ Len(session) < MaxSessions
    /\ IF verdict = "right" /\ Live(Cookie(b))
       THEN /\ session' = Rotated(session, Cookie(b))
            /\ lock' = [lock EXCEPT ![a] = b]
            /\ req' = [req EXCEPT ![b].at = "commit", ![b].token = Len(session) + 1]
            /\ UNCHANGED <<failures, jar>>
       ELSE /\ Answered(b)
            /\ failures' = Denial(a, verdict)
            /\ UNCHANGED <<session, lock>>
    /\ UNCHANGED <<left, rows, preauth, prompt, env>>

\* logout: the session goes whether or not it would still be accepted, and no
\* CSRF token is restored.
Logout(b) ==
    /\ At(b, "logout", "protected")
    /\ session' = Revoked(session, Cookie(b))
    /\ SignedOut(b)
    /\ prompt' = Taken(b, "register")
    /\ UNCHANGED <<left, rows, preauth, failures, lock, env>>

\* rotate_recovery_codes: the authenticator's active codes are revoked and a
\* new batch made.
RotateRecoveryCodes(b) ==
    LET a == Who(b) IN
    /\ Going(b, "codes") /\ Free(a) /\ totp[a].batches < MaxBatches
    /\ IF totp[a].active # 0
       THEN /\ codes' = WithBatch(a, CodesNotOf(a, totp[a].active), totp[a].active)
            /\ totp' = [totp EXCEPT ![a].batches = @ + 1]
       ELSE UNCHANGED <<codes, totp>>
    /\ Answered(b)
    /\ UNCHANGED <<left, admin, passkey, redis, lock, env>>

\* change_password: the new password and the mark that ends the older
\* sessions are committed together.
ChangePassword(b) ==
    LET a == Who(b)
        good == admin[a].state = "active" /\ req[b].token = 1
    IN
    /\ Going(b, "password") /\ Free(a) /\ admin[a].pw < MaxPasswords
    /\ IF good
       THEN /\ admin' = [admin EXCEPT ![a].pw = @ + 1, ![a].ended = req[b].snap]
            /\ req' = [req EXCEPT ![b].at = "reissue"]
            /\ UNCHANGED jar
       ELSE Answered(b) /\ UNCHANGED admin
    /\ UNCHANGED <<left, totp, codes, passkey, redis, lock, env>>

\* ... then the session used is deleted and a new one issued in its place.
PasswordReissue(b) ==
    LET t == Len(session) + 1 IN
    /\ At(b, "password", "reissue") /\ Len(session) < MaxSessions
    /\ LET issued == Append(Revoked(session, Cookie(b)), NewSession(Who(b), "fresh")) IN
       IF admin[Who(b)].state = "active"
       THEN session' = issued /\ SignedIn(b, t)
       ELSE session' = Revoked(issued, t) /\ Answered(b)
    /\ prompt' = Taken(b, "register")
    /\ UNCHANGED <<left, rows, preauth, failures, lock, env>>

\* start_authenticator_replacement: a pending authenticator beside the active
\* one.
StartReplacement(b) ==
    LET a == Who(b) IN
    /\ Going(b, "replace") /\ Free(a) /\ totp[a].made < MaxSeeds
    /\ totp' = IF admin[a].state = "active" THEN WithPending(a) ELSE totp
    /\ Answered(b)
    /\ UNCHANGED <<left, admin, codes, passkey, redis, lock, env>>

\* confirm_authenticator_replacement: the pending authenticator takes the
\* place of the active one, whose recovery codes are revoked.
ConfirmReplacement(b) ==
    LET a == Who(b) IN
    /\ Going(b, "switch") /\ Free(a) /\ totp[a].batches < MaxBatches
    /\ IF totp[a].pending # 0 /\ TotpAccepted(totp[a].pending, 0, req[b].proof)
       THEN /\ totp' = WithActive(a, req[b].proof.n)
            /\ codes' = WithBatch(a, CodesNotOf(a, totp[a].active), totp[a].pending)
            /\ accepted' = accepted \cup {Use(b, 0)}
       ELSE UNCHANGED <<totp, codes, accepted>>
    /\ Answered(b)
    /\ UNCHANGED <<left, admin, passkey, redis, lock, person, menu, clock, faults, lost>>

\* passkey_registration_options: one WebAuthn challenge per session.
PasskeyOptions(b) ==
    /\ Going(b, "passkey-options")
    /\ prompt' = IF admin[Who(b)].state = "active"
                 THEN Prompted(b, "register") ELSE prompt
    /\ Answered(b)
    /\ UNCHANGED <<left, rows, session, preauth, failures, lock, env>>

\* register_passkey: uses the WebAuthn challenge up, then adds the passkey if
\* the browser's answer to it holds.
RegisterPasskey(b) ==
    /\ Going(b, "passkey-add")
    /\ passkey' = IF "register" \in prompt[b] /\ req[b].proof = Passkey
                  THEN [passkey EXCEPT ![Who(b)] = TRUE] ELSE passkey
    /\ prompt' = Taken(b, "register")
    /\ Answered(b)
    /\ UNCHANGED <<left, admin, totp, codes, session, preauth, failures, lock, env>>

RemovePasskey(b) ==
    /\ Going(b, "passkey-remove") /\ Free(Who(b))
    /\ passkey' = [passkey EXCEPT ![Who(b)] = FALSE]
    /\ Answered(b)
    /\ UNCHANGED <<left, admin, totp, codes, redis, lock, env>>

---------------------------------------------------------------------------
(* Owners and the other administrators.                                    *)

\* _other_admin: never the actor's own account, and one that exists.
Other(b) == req[b].other # Who(b) /\ admin[req[b].other].state # "none"

\* Mutant: the change does not move sessions_valid_after.
ManagesKeepsSessions(b, op, changes, row) ==
    LET o == req[b].other IN
    /\ Going(b, op) /\ Free(o)
    /\ admin' = IF Other(b) /\ changes
                THEN [admin EXCEPT ![o] = [row EXCEPT !.ended = admin[o].ended]] ELSE admin
    /\ Answered(b)
    /\ UNCHANGED <<left, totp, codes, passkey, redis, lock, env>>

\* A change to another account's row, or a refusal that changes nothing.
Manages(b, op, changes, row) ==
    LET o == req[b].other IN
    /\ Going(b, op) /\ Free(o)
    /\ admin' = IF Other(b) /\ changes THEN [admin EXCEPT ![o] = row] ELSE admin
    /\ Answered(b)
    /\ UNCHANGED <<left, totp, codes, passkey, redis, lock, env>>

\* A changed role or state also ends every session there is.
ChangeRole(b) == LET o == req[b].other IN
    Manages(b, "role", admin[o].role # req[b].role,
            [admin[o] EXCEPT !.role = req[b].role, !.ended = Issued(o)])
Disable(b) == LET o == req[b].other IN
    Manages(b, "disable", admin[o].state = "active",
            [admin[o] EXCEPT !.state = "disabled", !.ended = Issued(o)])
Reactivate(b) == LET o == req[b].other IN
    Manages(b, "reactivate", admin[o].state = "disabled",
            [admin[o] EXCEPT !.state = "active", !.ended = Issued(o)])
EndAllSessions(b) == LET o == req[b].other IN
    Manages(b, "end-all", TRUE, [admin[o] EXCEPT !.ended = Issued(o)])

\* invite: a new active account, unless the name is taken.
Invite(b) ==
    LET o == req[b].other IN
    /\ Going(b, "invite")
    /\ admin' = IF admin[o].state = "none"
                THEN [admin EXCEPT ![o] = [@ EXCEPT !.state = "active", !.role = req[b].role]]
                ELSE admin
    /\ Answered(b)
    /\ UNCHANGED <<left, totp, codes, passkey, redis, lock, env>>

\* end_session: one session key of an account is deleted.
EndSession(b) ==
    /\ Going(b, "end")
    /\ session' = Revoked(session, req[b].token)
    /\ Answered(b)
    /\ UNCHANGED <<left, rows, preauth, prompt, failures, lock, env>>

---------------------------------------------------------------------------
(* Time and faults.                                                        *)

Tick == /\ clock < MaxStep
        /\ clock' = clock + 1
        /\ UNCHANGED <<left, rows, redis, lock, jar, req, person, menu, faults, accepted, lost>>

\* A step-up ages past admin_step_up_ttl_minutes.
StepUpAges(t) ==
    /\ session[t].live /\ session[t].step = "fresh"
    /\ session' = [session EXCEPT ![t].step = "old"]
    /\ UNCHANGED <<left, rows, preauth, prompt, failures, lock, jar, req, env>>

\* A session reaches its idle or its absolute limit.
SessionExpires(t) ==
    /\ session[t].live /\ faults < MaxFaults
    /\ session' = Revoked(session, t)
    /\ faults' = faults + 1
    /\ UNCHANGED <<left, rows, preauth, prompt, failures, lock, jar, req, person, menu, clock, accepted, lost>>

\* The lockout, or the count towards it, runs out.
LockoutEnds(a) ==
    /\ failures[a] > 0
    /\ failures' = Cleared(a)
    /\ UNCHANGED <<left, rows, session, preauth, prompt, lock, jar, req, env>>

\* The API dies with a request in flight: its open transaction is rolled
\* back, and the browser gets no answer.
RequestDies(b) ==
    /\ req[b] # Idle /\ faults < MaxFaults
    /\ faults' = faults + 1
    /\ lock' = [a \in Admins |-> IF lock[a] = b THEN NoOne ELSE lock[a]]
    /\ req' = [req EXCEPT ![b] = Idle]
    /\ lost' = lost \cup {b}
    /\ UNCHANGED <<left, rows, redis, jar, person, menu, clock, accepted>>

---------------------------------------------------------------------------
NoAdmin == [state |-> "none", role |-> "owner", pw |-> 1, ended |-> {}]
NoTotp == [active |-> 0, pending |-> 0, last |-> 0, made |-> 0, batches |-> 0]
Owner == [NoAdmin EXCEPT !.state = "active"]
Enrolled == [NoTotp EXCEPT !.active = 1, !.made = 1, !.batches = 1]

\* The browsers of s are signed in, in this order.
SignedInAs(s) ==
    /\ session = [t \in DOMAIN s |-> NewSession(person[s[t]], "fresh")]
    /\ jar = [b \in Browsers |->
                IF \E t \in DOMAIN s : s[t] = b
                THEN [token |-> CHOOSE t \in DOMAIN s : s[t] = b, csrf |-> TRUE]
                ELSE NoCookies]

\* Where a behaviour starts: nobody is there yet; one owner, signed in and
\* stepped up in one browser of two; or two owners, each signed in.
Start(first, scene) ==
    LET present == CASE scene.present = "nobody" -> {}
                     [] scene.present = "one" -> {first}
                     [] OTHER -> Admins
    IN
    /\ menu = scene.menu /\ left = scene.requests
    /\ IF scene.present = "two"
       THEN /\ person \in {f \in [Browsers -> Admins] : IsInjective(f)}
            /\ \E s \in {f \in [1 .. Cardinality(Browsers) -> Browsers] : IsInjective(f)} :
                  SignedInAs(s)
       ELSE /\ person = [b \in Browsers |-> first]
            /\ IF scene.present = "one" THEN \E b \in Browsers : SignedInAs(<<b>>)
                                        ELSE SignedInAs(<<>>)
    /\ admin = [a \in Admins |-> IF a \in present THEN Owner ELSE NoAdmin]
    /\ totp = [a \in Admins |-> IF a \in present THEN Enrolled ELSE NoTotp]
    /\ codes = [a \in Admins |-> IF a \in present THEN {RecoveryCode(1, 1)} ELSE {}]
    /\ passkey = [a \in Admins |-> a \in present]

Init ==
    /\ \E first \in Admins, scene \in Scenes : Start(first, scene)
    /\ preauth = [b \in Browsers |-> "none"]
    /\ prompt = [b \in Browsers |-> {}]
    /\ failures = [a \in Admins |-> 0]
    /\ lock = [a \in Admins |-> NoOne]
    /\ req = [b \in Browsers |-> Idle]
    /\ clock = 1 /\ faults = 0 /\ accepted = {} /\ lost = {}

Signing(b) ==
    \/ PasswordArrives(b) \/ PasswordAccepted(b) \/ PasswordRefused(b) \/ PasswordLimited(b)
    \/ StartEnrollment(b) \/ EnrollmentPends(b) \/ EnrollmentOffered(b)
    \/ ConfirmEnrollment(b) \/ VerifyMfa(b) \/ VerifyPasskeyLogin(b)
    \/ PasskeyLoginOptions(b) \/ SecondFactor(b)
    \/ SignInCommits(b) \/ SignInFails(b) \/ SignInAnswered(b)

Routes(b) ==
    \/ StepUpRoute(b) \/ LogoutRoute(b) \/ RotateRecoveryCodesRoute(b)
    \/ ChangeOwnPasswordRoute(b) \/ StartReplacementRoute(b) \/ ConfirmReplacementRoute(b)
    \/ PasskeyOptionsRoute(b) \/ RegisterPasskeyRoute(b) \/ RemovePasskeyRoute(b)
    \/ InviteRoute(b) \/ ChangeRoleRoute(b) \/ DisableRoute(b) \/ ReactivateRoute(b)
    \/ EndSessionRoute(b) \/ EndAllSessionsRoute(b)

Serving(b) ==
    \/ Authorized(b) \/ Unauthorized(b) \/ StepUp(b) \/ Logout(b)
    \/ RotateRecoveryCodes(b) \/ ChangePassword(b) \/ PasswordReissue(b)
    \/ StartReplacement(b) \/ ConfirmReplacement(b) \/ PasskeyOptions(b)
    \/ RegisterPasskey(b) \/ RemovePasskey(b) \/ Invite(b) \/ ChangeRole(b)
    \/ Disable(b) \/ Reactivate(b) \/ EndSession(b) \/ EndAllSessions(b)

Next ==
    \/ \E a \in Admins : SeedAdmin(a) \/ LockoutEnds(a)
    \/ \E b \in Browsers : Signing(b) \/ Routes(b) \/ Serving(b) \/ RequestDies(b)
    \/ \E t \in Tokens : StepUpAges(t) \/ SessionExpires(t)
    \/ Tick

Spec == Init /\ [][Next]_vars
---------------------------------------------------------------------------
(* Properties.                                                             *)

\* The browser's CSRF cookie is the one its session will accept, whenever the
\* browser has no request in flight, its session lives and no answer of its
\* was lost.  Each change spends the token, many ways of refusing come after
\* that, and a refusal that does not bring the replacement makes every later
\* action fail (auth/http.py, auth/admin_authorization.py).
BrowserInStep ==
    \A b \in Browsers \ lost :
        req[b] = Idle /\ Live(Cookie(b)) => jar[b].csrf

\* An authenticator code or a recovery code serves once: no two sign-ins,
\* step-ups or replacements that committed used the same one
\* (AdminTotpCredential.last_accepted_timestep, AdminMfaRecoveryCode.state).
CodesServeOnce ==
    \A x, y \in accepted : x.who = y.who /\ x.proof = y.proof => x.token = y.token

\* Every active recovery code is of the newest batch and of the authenticator
\* in use, whatever order rotations, replacements and sign-ins take.
CodesFollowTheAuthenticator ==
    \A a \in Admins : \A c \in codes[a] :
        c.seed = totp[a].active /\ c.n = totp[a].batches

\* A session that sign-in has stopped accepting is never accepted again, not
\* by reactivating the account, changing its role or ending its sessions once
\* more.  The commit of a password change is left out, for the sessions of that
\* account: change_password reads the clock before it waits for the row, so its
\* mark may lie before a later one.
RefusedStaysRefused ==
    [][\A t \in Tokens : Accepts(t)' =>
           \/ Accepts(t)
           \/ \E b \in Browsers : /\ Who(b) = session[t].admin /\ req[b].op = "password"
                                 /\ req[b].at = "go" /\ req'[b].at = "reissue"]_vars

\* "a deployment always keeps at least one active owner: the one acting"
\* (admin_management.py): once there is an administrator, some owner is active.
AlwaysAnOwner ==
    (\A a \in Admins : admin[a].state = "none")
    \/ \E a \in Admins : admin[a].state = "active" /\ admin[a].role = "owner"
=============================================================================
