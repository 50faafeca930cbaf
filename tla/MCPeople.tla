------------------------------ MODULE MCPeople ------------------------------
(***************************************************************************)
(* The people of a deployment: its administrators, an account from the     *)
(* request for it to its erasure, and the sessions of an account.  A       *)
(* behaviour follows one of the three; the others stand at a first state.  *)
(***************************************************************************)
EXTENDS MCAdminAuth

VARIABLES part,
          request, user, link, late, mailed, tx,
          scope, account, pw, device, login, token, reset, call, row

adminVars == <<person, menu, left, admin, totp, codes, passkey, session, preauth, prompt,
               failures, lock, jar, req, clock, faults, accepted, lost>>
accountVars == <<request, user, link, late, mailed, tx>>
sessionVars == <<scope, account, pw, device, login, token, reset, call, row>>

\* Two requests and two links, or one request and three links.  The processes are
\* the model values of the browsers, to have one symmetry for all parts.
Accounted == INSTANCE Accounts WITH
    Procs <- Browsers, MaxRequests <- 2, MaxLinks <- 3, MaxRows <- 4, Nil <- NoOne, req <- request

\* Against sign-in and rotation: what ends sessions, what changes the password, a
\* forgotten password, what removes the account or its device's identity, and a user's
\* own revocations.
Ending ==
    [operations |-> {"login", "refresh", "logout", "disable", "reactivate", "dropDevice", "dropSession"},
     limit |-> 1, sessions |-> 2, tokens |-> 3]
Passwords ==
    [operations |-> {"login", "refresh", "change"}, limit |-> 2, sessions |-> 2, tokens |-> 3]
Forgotten ==
    [operations |-> {"login", "refresh", "askReset", "doReset", "change"},
     limit |-> 2, sessions |-> 2, tokens |-> 2]
Removal ==
    [operations |-> {"login", "reinstall", "refresh", "askReset", "erase", "remove", "reactivate"},
     limit |-> 2, sessions |-> 2, tokens |-> 2]
Own ==
    [operations |-> {"login", "refresh", "dropOwn", "dropDevice"},
     limit |-> 2, sessions |-> 2, tokens |-> 2]

Signed == INSTANCE UserSessions WITH
    Procs <- Browsers, Scopes <- {Ending, Passwords, Forgotten, Removal, Own},
    MaxDevices <- 2, MaxSessions <- 2, MaxTokens <- 3, MaxResets <- 1, MaxPasswords <- 2, Nil <- NoOne,
    session <- login, tx <- call, lock <- row

MCInit ==
    /\ part \in {"admins", "accounts", "sessions"}
    /\ Init /\ Accounted!Init /\ Signed!Init
    /\ part # "admins" => menu = NewDeployment.menu
    /\ part # "sessions" => scope = Ending

MCNext ==
    \/ part = "admins" /\ Next /\ UNCHANGED <<part, accountVars, sessionVars>>
    \/ part = "accounts" /\ Accounted!Next /\ UNCHANGED <<part, adminVars, sessionVars>>
    \/ part = "sessions" /\ Signed!Next /\ UNCHANGED <<part, adminVars, accountVars>>

MCSpec == MCInit /\ [][MCNext]_<<part, adminVars, accountVars, sessionVars>>

-----------------------------------------------------------------------------
\* A code serves once, and the recovery codes still active are the newest ones of the
\* authenticator in use (AdminAuth!CodesServeOnce, AdminAuth!CodesFollowTheAuthenticator).
SecondFactorsHold == CodesServeOnce /\ CodesFollowTheAuthenticator

\* The tables are well-formed, with one account per address and per request, nothing
\* of an erased one, and only the newest link of an account working (Accounts!TypeOK,
\* Accounts!OneAccount, Accounts!ErasedLeavesNothing, Accounts!OnlyTheNewestLinkWorks).
AccountsAreWhole == part = "accounts" =>
    /\ Accounted!TypeOK /\ Accounted!OneAccount
    /\ Accounted!ErasedLeavesNothing /\ Accounted!OnlyTheNewestLinkWorks

\* An administrator's decision and the first password chosen are not undone by what
\* overlaps them (Accounts!DecisionStands, Accounts!FirstActivationStands).
FirstOneStands == Accounted!DecisionStands /\ Accounted!FirstActivationStands

\* A session, and every refresh token that works, rests on an account, a device, a
\* password and a device limit in force (UserSessions).
SessionsStand == part = "sessions" =>
    /\ Signed!TypeOK /\ Signed!TokensFollowSessions /\ Signed!SessionsStandOnSomething
    /\ Signed!OldPasswordsHoldNothing /\ Signed!DeviceLimitRespected

\* A refresh token presented twice ends its family (UserSessions!ReuseEndsTheFamily).
ReuseEndsTheFamily == Signed!ReuseEndsTheFamily
=============================================================================
