--------------------------- MODULE EnrollmentProofs ---------------------------
(***************************************************************************)
(* One identity per token and per machine, proved for any number of        *)
(* attempts, tokens, labels and addresses.  The handlers are first brought *)
(* down to what they change (MovesRequest, MovesRun, MovesToken); the      *)
(* invariant is then kept by each kind of change.                          *)
(***************************************************************************)
EXTENDS Enrollment, FiniteSetTheorems, TLAPS

Stages == {"none", "sent", "arrived", "held", "granted", "refused", "failed", "dead"}
Steps == Filing \cup {"new", "waiting", "done", "gone"}
TokenRow == [label : Labels \cup {None}, used : BOOLEAN, revoked : BOOLEAN, expired : BOOLEAN]
ServerRow == [endpoint : Endpoints \cup {None}, offers : SUBSET Seeded]
Request == [at : Stages, token : Tokens \cup {None}, endpoint : Endpoints \cup {None}, late : BOOLEAN]
Disk == [key : Attempts \cup {"by hand", Cut, None}, cert : Certs \cup {Cut, None},
         ca : {"trusted", Cut, None}]

TypeInv ==
    /\ token \in [Tokens -> TokenRow]
    /\ server \in [Labels -> ServerRow]
    /\ request \in [Attempts -> Request]
    /\ run \in [Attempts -> Steps]
    /\ file \in Disk
    /\ issued \in SUBSET Certs

\* A request names a token that was minted, and an address.
Asked == \A a \in Attempts : request[a].at # "none" =>
    /\ request[a].token \in Tokens
    /\ token[request[a].token].label \in Labels
    /\ request[a].endpoint \in Endpoints

\* What the row lock of redeem() gives: while it is held the token stays good, and
\* one redemption holds it.
Locked ==
    /\ \A a \in Attempts : request[a].at = "held" =>
         ~token[request[a].token].used /\ ~token[request[a].token].revoked
    /\ \A a, b \in Attempts :
         /\ request[a].at = "held" /\ request[b].at = "held"
         /\ request[a].token = request[b].token
         => a = b

\* A certificate names a server that is listed, and the label of the token it cost.
Sold == \A c \in issued :
    /\ Listed(c.name)
    /\ c.paid # None => token[c.paid].used /\ token[c.paid].label = c.name

Once == \A c, d \in issued : c.paid # None /\ d.paid # None /\ c.name = d.name => c = d

Spent == \A t \in Tokens : token[t].used => ~token[t].revoked /\ \E c \in issued : c.paid = t

\* Only a command whose request was granted writes files.
Answered ==
    /\ \A a \in Attempts : request[a].at = "granted" => CertOf(a) \in issued
    /\ \A a \in Attempts : run[a] \in Filing => request[a].at = "granted"

\* From the content of its first file to that of its last a command owns the key on
\* the disk; while it has created the key and not filled it, no other does.
OwnsKey == {"cert", "cert open", "ca", "ca open"}
Kept ==
    /\ \A a \in Attempts : run[a] \in OwnsKey => file.key = a
    /\ \A a \in Attempts : run[a] = "key open" => file.key = Cut
    /\ \A a, b \in Attempts : run[a] = "key open" /\ run[b] = "key open" => a = b
    /\ FilesFormOneIdentity

IInv == TypeInv /\ Asked /\ Locked /\ Sold /\ Once /\ Spent /\ Answered /\ Kept

\* None is no token, label, address, attempt or content of a file; nor is Cut a content.
LEMMA NoneDiffers ==
    /\ None \notin Tokens /\ None \notin Labels /\ None \notin Endpoints
    /\ None \notin Attempts /\ None \notin Certs /\ None # "by hand" /\ None # Cut
    /\ Cut \notin Attempts /\ Cut \notin Certs /\ Cut # "by hand"
BY NoneAssumption

-----------------------------------------------------------------------------
(* The kinds of change *)

\* Only the request of a changes, and neither starts nor is granted.
MovesRequest(a) ==
    /\ request' \in [Attempts -> Request]
    /\ \A b \in Attempts \ {a} : request'[b] = request[b]
    /\ request[a].at \in {"sent", "arrived", "held"}
    /\ request'[a].at \in {"arrived", "held", "refused", "failed", "dead"}
    /\ request'[a].token = request[a].token /\ request'[a].endpoint = request[a].endpoint
    /\ request'[a].at = "held" => /\ ~Held(request[a].token)
                                  /\ ~token[request[a].token].used
                                  /\ ~token[request[a].token].revoked
    /\ UNCHANGED <<token, server, run, file, issued>>

\* The handlers of POST /enroll that do not commit.
LEMMA RequestSteps ==
    ASSUME IInv, NEW a \in Attempts,
           \/ RedeemArrives(a) \/ AuthorityUnavailable(a) \/ RedeemLocks(a)
           \/ RequestMalformed(a) \/ RedeemDies(a)
    PROVE  MovesRequest(a)
<1>. USE DEF IInv, TypeInv, MovesRequest
<1>0. request[a] \in Request /\ request[a].at \in Stages
    BY DEF Request
<1>1. CASE RedeemArrives(a)
    <2>1. request[a].token \in Tokens
        BY <1>1 DEF RedeemArrives, Asked
    <2>2. token[request[a].token].expired \in BOOLEAN
        BY <2>1 DEF TokenRow
    <2>3. request' = [request EXCEPT ![a] = [request[a] EXCEPT !.at = "arrived",
                                               !.late = token[request[a].token].expired]]
        BY <1>1 DEF RedeemArrives
    <2>4. [request[a] EXCEPT !.at = "arrived", !.late = token[request[a].token].expired] \in Request
        BY <1>0, <2>2 DEF Request, Stages
    <2>. QED
        BY <1>0, <1>1, <2>3, <2>4 DEF RedeemArrives, Request
<1>2. CASE AuthorityUnavailable(a)
    BY <1>0, <1>2 DEF AuthorityUnavailable, Request, Stages
<1>3. CASE RedeemLocks(a)
    BY <1>0, <1>3 DEF RedeemLocks, RedeemReads, is_redeemable, Request, Stages
<1>4. CASE RequestMalformed(a)
    BY <1>0, <1>4 DEF RequestMalformed, Request, Stages
<1>5. CASE RedeemDies(a)
    BY <1>0, <1>5 DEF RedeemDies, Request, Stages
<1>. QED
    BY <1>1, <1>2, <1>3, <1>4, <1>5

\* Such a step keeps the invariant.
LEMMA RequestKeeps ==
    ASSUME IInv, NEW a \in Attempts, MovesRequest(a)
    PROVE  IInv'
<1>. USE DEF IInv
<1>1. TypeInv'
    BY DEF TypeInv, MovesRequest
<1>2. Asked'
    BY DEF Asked, MovesRequest
<1>3. Locked'
    BY DEF Locked, MovesRequest, Held
<1>4. Sold' /\ Once' /\ Spent'
    BY DEF Sold, Once, Spent, MovesRequest, Listed
<1>5. Answered'
    BY DEF Answered, MovesRequest, CertOf
<1>6. Kept'
    BY DEF Kept, FilesFormOneIdentity, Listed, MovesRequest
<1>. QED
    BY <1>1, <1>2, <1>3, <1>4, <1>5, <1>6

\* Only the command of a moves: it ends, or goes on to its first file.
MovesRun(a) ==
    /\ run' \in [Attempts -> Steps]
    /\ \A b \in Attempts \ {a} : run'[b] = run[b]
    /\ run'[a] \in {"gone", "key"}
    /\ run'[a] = "key" => request[a].at = "granted"
    /\ UNCHANGED <<token, server, request, file, issued>>

\* The command's steps that write nothing.
LEMMA RunSteps ==
    ASSUME IInv, NEW a \in Attempts, EnrollGivesUp(a) \/ EnrollAnswered(a) \/ CreateRefused(a)
    PROVE  MovesRun(a)
BY DEF IInv, TypeInv, MovesRun, EnrollGivesUp, EnrollAnswered, CreateRefused, Steps, Filing

\* Nor do they disturb the invariant.
LEMMA RunKeeps ==
    ASSUME IInv, NEW a \in Attempts, MovesRun(a)
    PROVE  IInv'
<1>. USE DEF IInv
<1>1. TypeInv' /\ Asked' /\ Locked'
    BY DEF TypeInv, Asked, Locked, MovesRun
<1>2. Sold' /\ Once' /\ Spent'
    BY DEF Sold, Once, Spent, MovesRun, Listed
<1>3. Answered'
    BY DEF Answered, MovesRun, CertOf, Filing
<1>4. Kept'
    BY DEF Kept, OwnsKey, FilesFormOneIdentity, Listed, MovesRun
<1>. QED
    BY <1>1, <1>2, <1>3, <1>4

\* Only tokens change: none is spent, no label that was given is taken back, and one
\* that becomes revoked was neither spent nor locked.
MovesToken ==
    /\ token' \in [Tokens -> TokenRow]
    /\ \A t \in Tokens :
         /\ token'[t].used <=> token[t].used
         /\ token[t].label # None => token'[t].label = token[t].label
         /\ token'[t].revoked => token[t].revoked \/ (~token[t].used /\ ~Held(t))
    /\ UNCHANGED <<server, request, run, file, issued>>

\* mint and revoke, and the passing of expires_at.
LEMMA TokenSteps ==
    ASSUME IInv, NEW t \in Tokens,
           (\E l \in Labels : MintToken(t, l)) \/ RevokeToken(t) \/ TokenExpires(t)
    PROVE  MovesToken
<1>. USE DEF IInv, TypeInv, MovesToken
<1>0. token[t] \in TokenRow
    OBVIOUS
<1>1. ASSUME NEW l \in Labels, MintToken(t, l)
      PROVE  MovesToken
    <2>1. [token[t] EXCEPT !.label = l] \in TokenRow
        BY <1>0 DEF TokenRow
    <2>. QED
        BY <1>0, <1>1, <2>1 DEF MintToken, TokenRow
<1>2. CASE RevokeToken(t)
    <2>1. [token[t] EXCEPT !.revoked = TRUE] \in TokenRow
        BY <1>0 DEF TokenRow
    <2>. QED
        BY <1>0, <1>2, <2>1 DEF RevokeToken, TokenRow
<1>3. CASE TokenExpires(t)
    <2>1. [token[t] EXCEPT !.expired = TRUE] \in TokenRow
        BY <1>0 DEF TokenRow
    <2>. QED
        BY <1>0, <1>3, <2>1 DEF TokenExpires, TokenRow
<1>. QED
    BY <1>1, <1>2, <1>3

\* And it keeps the invariant.
LEMMA TokenKeeps ==
    ASSUME IInv, MovesToken
    PROVE  IInv'
<1>. USE NoneDiffers DEF IInv
<1>1. TypeInv'
    BY DEF TypeInv, MovesToken
<1>2. Asked'
    BY DEF TypeInv, Asked, MovesToken
<1>3. Locked'
    BY DEF TypeInv, Asked, Locked, MovesToken, Held
<1>4. Sold' /\ Once'
    <2>1. ASSUME NEW c \in issued, c.paid # None
          PROVE  token'[c.paid].used /\ token'[c.paid].label = c.name
        <3>1. c.paid \in Tokens /\ c.name \in Labels /\ token[c.paid].used /\ token[c.paid].label = c.name
            BY <2>1 DEF TypeInv, Sold, Certs
        <3>2. token'[c.paid].used
            BY <3>1 DEF MovesToken
        <3>3. token'[c.paid].label = c.name
            BY <3>1 DEF MovesToken
        <3>. QED
            BY <3>2, <3>3
    <2>. QED
        BY <2>1 DEF Sold, Once, MovesToken, Listed
<1>5. Spent'
    BY DEF Spent, MovesToken
<1>6. Answered'
    <2>1. ASSUME NEW a \in Attempts, request'[a].at = "granted"
          PROVE  CertOf(a)' \in issued'
        BY <2>1 DEF TypeInv, Asked, Answered, MovesToken, CertOf
    <2>. QED
        BY <2>1 DEF Answered, MovesToken
<1>7. Kept'
    BY DEF Kept, FilesFormOneIdentity, Listed, MovesToken
<1>. QED
    BY <1>1, <1>2, <1>3, <1>4, <1>5, <1>6, <1>7

-----------------------------------------------------------------------------
(* The other actions *)

\* create-vpn-server adds a row.
LEMMA ServerKeeps ==
    ASSUME IInv, NEW l \in Labels, NEW e \in Endpoints, CreateVpnServer(l, e)
    PROVE  IInv'
<1>. USE NoneDiffers DEF IInv
<1>0. /\ server' \in [Labels -> ServerRow]
      /\ \A k \in Labels : Listed(k) => Listed(k)'
      /\ UNCHANGED <<token, request, run, file, issued>>
    <2>1. PICK p \in Seeded \cap WireGuard :
            server' = [server EXCEPT ![l] = [endpoint |-> e, offers |-> {p}]]
        BY DEF CreateVpnServer
    <2>2. [endpoint |-> e, offers |-> {p}] \in ServerRow
        BY DEF ServerRow
    <2>3. server' \in [Labels -> ServerRow] /\ ~Listed(l)
        BY <2>1, <2>2 DEF TypeInv, CreateVpnServer
    <2>4. \A k \in Labels : Listed(k) => Listed(k)'
        BY <2>1, <2>3 DEF TypeInv, Listed, Unlisted
    <2>. QED
        BY <2>3, <2>4 DEF CreateVpnServer
<1>1. TypeInv' /\ Asked' /\ Locked' /\ Once' /\ Spent'
    BY <1>0 DEF TypeInv, Asked, Locked, Once, Spent
<1>2. Sold'
    BY <1>0 DEF TypeInv, Sold, Certs
<1>3. Answered'
    BY <1>0 DEF Answered, CertOf
<1>4. Kept'
    BY <1>0 DEF Kept, FilesFormOneIdentity, TypeInv, Disk, Certs
<1>. QED
    BY <1>1, <1>2, <1>3, <1>4

\* sign-server-certificate, with no command running, replaces all three files.
LEMMA SignKeeps ==
    ASSUME IInv, NEW l \in Labels, SignServerCertificate(l)
    PROVE  IInv'
<1>. USE NoneDiffers DEF IInv
<1>. DEFINE cert == Cert("by hand", l, None)
<1>0. /\ cert \in Certs /\ cert.name = l /\ cert.paid = None /\ cert.key = "by hand"
      /\ issued' = issued \cup {cert}
      /\ file' = [key |-> "by hand", cert |-> cert, ca |-> "trusted"]
      /\ Listed(l) /\ Running = {}
      /\ UNCHANGED <<token, server, request, run>>
    BY DEF SignServerCertificate, Cert, Certs
<1>. HIDE DEF cert
<1>1. TypeInv'
    BY <1>0 DEF TypeInv, Disk
<1>2. Asked' /\ Locked'
    BY <1>0 DEF Asked, Locked
<1>3. Sold' /\ Once' /\ Spent'
    BY <1>0 DEF Sold, Once, Spent, Listed
<1>4. Answered'
    BY <1>0 DEF Answered, CertOf
<1>5. Kept'
    BY <1>0 DEF Kept, OwnsKey, Filing, FilesFormOneIdentity, Listed, Running
<1>. QED
    BY <1>1, <1>2, <1>3, <1>4, <1>5

\* The operator removes partial files only when no command is running.
LEMMA RemoveKeeps ==
    ASSUME IInv, RemovePartialFiles
    PROVE  IInv'
<1>. USE NoneDiffers DEF IInv
<1>0. file' = NoFiles /\ Running = {} /\ UNCHANGED <<token, server, request, run, issued>>
    BY DEF RemovePartialFiles
<1>1. TypeInv'
    BY <1>0 DEF TypeInv, Disk, NoFiles
<1>2. Asked' /\ Locked' /\ Sold' /\ Once' /\ Spent'
    BY <1>0 DEF Asked, Locked, Sold, Once, Spent, Listed
<1>3. Answered'
    BY <1>0 DEF Answered, CertOf
<1>4. Kept'
    BY <1>0 DEF Kept, OwnsKey, Filing, FilesFormOneIdentity, Running, NoFiles
<1>. QED
    BY <1>1, <1>2, <1>3, <1>4

\* A command that starts names a token that was minted.
LEMMA StartKeeps ==
    ASSUME IInv, NEW a \in Attempts, NEW t \in Tokens, NEW e \in Endpoints, EnrollStarts(a, t, e)
    PROVE  IInv'
<1>. USE NoneDiffers DEF IInv
<1>. DEFINE sent == [at |-> "sent", token |-> t, endpoint |-> e, late |-> FALSE]
<1>0. /\ sent \in Request /\ sent.at = "sent" /\ sent.token = t /\ sent.endpoint = e
      /\ request' = [request EXCEPT ![a] = sent]
      /\ run' = [run EXCEPT ![a] = "waiting"]
      /\ token[t].label \in Labels
      /\ UNCHANGED <<token, server, file, issued>>
    <2>1. token[t].label \in Labels
        BY DEF EnrollStarts, TypeInv, TokenRow
    <2>. QED
        BY <2>1 DEF EnrollStarts, Request, Stages
<1>. HIDE DEF sent
<1>1. TypeInv'
    BY <1>0 DEF TypeInv, Steps
<1>2. Asked'
    BY <1>0 DEF Asked, TypeInv
<1>3. Locked'
    BY <1>0 DEF Locked, TypeInv
<1>4. Sold' /\ Once' /\ Spent'
    BY <1>0 DEF Sold, Once, Spent, Listed
<1>5. Answered'
    BY <1>0 DEF Answered, CertOf, TypeInv, Filing
<1>6. Kept'
    BY <1>0 DEF Kept, OwnsKey, FilesFormOneIdentity, Listed, TypeInv
<1>. QED
    BY <1>1, <1>2, <1>3, <1>4, <1>5, <1>6

\* redeem() commits: the token is spent, the server listed and the certificate issued
\* in one transaction, when neither the code nor the address was taken.
LEMMA EnlistKeeps ==
    ASSUME IInv, NEW a \in Attempts, request[a].at = "held",
           ~Listed(token[request[a].token].label),
           Enlists(a), UNCHANGED <<run, file>>
    PROVE  IInv'
<1>. USE NoneDiffers DEF IInv
<1>. DEFINE t == request[a].token
            l == token[t].label
            e == request[a].endpoint
            cert == Cert(a, l, t)
            row == [endpoint |-> e, offers |-> Wanted \cap Seeded]
<1>1. t \in Tokens /\ l \in Labels /\ e \in Endpoints /\ token[t] \in TokenRow /\ request[a] \in Request
    BY DEF Asked, TypeInv
<1>2. /\ token' = [token EXCEPT ![t].used = TRUE]
      /\ server' = [server EXCEPT ![l] = row]
      /\ issued' = issued \cup {cert}
      /\ request' = [request EXCEPT ![a].at = "granted"]
    BY DEF Enlists
<1>3. cert \in Certs /\ cert.name = l /\ cert.paid = t /\ cert.key = a
    BY <1>1 DEF Cert, Certs
<1>4. row \in ServerRow /\ row # Unlisted
    BY <1>1 DEF ServerRow, Unlisted
<1>5. ~Listed(l) /\ ~token[t].used /\ ~token[t].revoked
    BY DEF Locked
<1>6. /\ token' \in [Tokens -> TokenRow] /\ token'[t].used
      /\ \A u \in Tokens : token'[u].label = token[u].label /\ (token'[u].revoked <=> token[u].revoked)
      /\ \A u \in Tokens \ {t} : token'[u].used <=> token[u].used
    <2>1. [token[t] EXCEPT !.used = TRUE] \in TokenRow
        BY <1>1 DEF TokenRow
    <2>. QED
        BY <1>1, <1>2, <2>1 DEF TypeInv, TokenRow
<1>7. /\ request' \in [Attempts -> Request] /\ request'[a].at = "granted"
      /\ \A b \in Attempts : request'[b].token = request[b].token /\ request'[b].endpoint = request[b].endpoint
      /\ \A b \in Attempts \ {a} : request'[b] = request[b]
    <2>1. [request[a] EXCEPT !.at = "granted"] \in Request
        BY <1>1 DEF Request, Stages
    <2>. QED
        BY <1>1, <1>2, <2>1 DEF TypeInv, Request
<1>8. server' \in [Labels -> ServerRow] /\ server'[l] # Unlisted /\ \A k \in Labels : Listed(k) => Listed(k)'
    <2>1. server' = [server EXCEPT ![l] = row] /\ l \in Labels
        BY <1>1, <1>2
    <2>. HIDE DEF l, row
    <2>2. server' \in [Labels -> ServerRow]
        BY <1>4, <2>1 DEF TypeInv
    <2>3. server'[l] = row /\ \A k \in Labels \ {l} : server'[k] = server[k]
        BY <2>1 DEF TypeInv
    <2>4. \A k \in Labels : Listed(k) => Listed(k)'
        BY <1>4, <2>3 DEF Listed, Unlisted
    <2>. QED
        BY <1>4, <2>2, <2>3, <2>4
<1>. HIDE DEF t, l, e, cert, row
<1>10. TypeInv'
    BY <1>2, <1>3, <1>6, <1>7, <1>8 DEF TypeInv
<1>11. Asked'
    BY <1>6, <1>7 DEF Asked, t
<1>12. Locked'
    <2>1. ASSUME NEW b \in Attempts, request'[b].at = "held"
          PROVE  /\ b # a /\ request[b].at = "held" /\ request'[b] = request[b]
                 /\ request[b].token \in Tokens /\ request[b].token # t
        BY <1>7, <2>1 DEF Locked, Asked, t
    <2>2. ASSUME NEW b \in Attempts, request'[b].at = "held"
          PROVE  ~token'[request'[b].token].used /\ ~token'[request'[b].token].revoked
        BY <1>6, <2>1, <2>2 DEF Locked
    <2>3. ASSUME NEW b \in Attempts, NEW d \in Attempts,
                 request'[b].at = "held", request'[d].at = "held",
                 request'[b].token = request'[d].token
          PROVE  b = d
        BY <2>1, <2>3 DEF Locked
    <2>. QED
        BY <2>2, <2>3 DEF Locked
<1>13. Sold'
    <2>1. ASSUME NEW c \in issued
          PROVE  /\ Listed(c.name)'
                 /\ c.paid # None => token'[c.paid].used /\ token'[c.paid].label = c.name
        <3>1. c.name \in Labels /\ c.paid \in Tokens \cup {None}
            BY DEF TypeInv, Certs
        <3>2. CASE c.paid = t
            BY <1>1, <1>6, <1>8, <3>1, <3>2 DEF Sold
        <3>3. CASE c.paid # t
            BY <1>6, <1>8, <3>1, <3>3 DEF Sold
        <3>. QED
            BY <3>2, <3>3
    <2>2. server'[cert.name] # Unlisted
        BY <1>3, <1>8
    <2>3. token'[cert.paid].used
        BY <1>3, <1>6
    <2>4. token'[cert.paid].label = cert.name
        BY <1>1, <1>3, <1>6 DEF l
    <2>. QED
        BY <1>2, <2>1, <2>2, <2>3, <2>4 DEF Sold, Listed, Unlisted
<1>14. Once'
    <2>1. \A c \in issued : c.name # cert.name
        BY <1>3, <1>5 DEF Sold
    <2>. QED
        BY <1>2, <2>1 DEF Once
<1>15. Spent'
    <2>1. ASSUME NEW u \in Tokens, token'[u].used
          PROVE  ~token'[u].revoked /\ \E c \in issued' : c.paid = u
        <3>1. CASE u = t
            BY <1>1, <1>2, <1>3, <1>5, <1>6, <3>1
        <3>2. CASE u # t
            <4>1. u \in Tokens \ {t} /\ token[u].used /\ (token'[u].revoked <=> token[u].revoked)
                BY <1>6, <2>1, <3>2
            <4>. QED
                BY <1>2, <4>1 DEF Spent
        <3>. QED
            BY <3>1, <3>2
    <2>. QED
        BY <2>1 DEF Spent
<1>16. Answered'
    <2>1. \A b \in Attempts : request[b].at # "none" => CertOf(b)' = CertOf(b)
        BY <1>6, <1>7 DEF CertOf, Asked
    <2>2. CertOf(a) = cert
        BY DEF CertOf, cert, l, t
    <2>. QED
        BY <1>2, <1>7, <2>1, <2>2 DEF Answered
<1>17. Kept'
    BY <1>2, <1>8 DEF Kept, FilesFormOneIdentity, TypeInv, Disk, Certs
<1>. QED
    BY <1>10, <1>11, <1>12, <1>13, <1>14, <1>15, <1>16, <1>17

\* redeem() as a whole: it commits, or meets a unique constraint and rolls back.
LEMMA CommitKeeps ==
    ASSUME IInv, NEW a \in Attempts, RedeemCommits(a)
    PROVE  IInv'
<1>1. CASE ~Listed(token[request[a].token].label) /\ Enlists(a)
    BY <1>1, EnlistKeeps DEF RedeemCommits
<1>2. CASE request' = [request EXCEPT ![a].at = "failed"] /\ UNCHANGED <<token, server, issued>>
    <2>1. MovesRequest(a)
        BY <1>2 DEF IInv, TypeInv, MovesRequest, RedeemCommits, Request, Stages
    <2>. QED
        BY <2>1, RequestKeeps
<1>. QED
    BY <1>1, <1>2 DEF RedeemCommits

\* A file is created only where none is: a key only while no command owns one.
LEMMA CreateKeeps ==
    ASSUME IInv, NEW a \in Attempts, CreateFile(a)
    PROVE  IInv'
<1>. USE NoneDiffers DEF IInv
<1>0. /\ request[a].at = "granted" /\ file \in Disk
      /\ UNCHANGED <<token, server, request, issued>>
    BY DEF CreateFile, CreateOver, Answered, Filing, TypeInv
<1>1. Asked' /\ Locked' /\ Sold' /\ Once' /\ Spent'
    BY <1>0 DEF Asked, Locked, Sold, Once, Spent, Listed
<1>2. CASE run[a] = "key"
    <2>1. /\ file.key = None /\ file' = [file EXCEPT !.key = Cut]
          /\ run' = [run EXCEPT ![a] = "key open"]
        BY <1>2 DEF CreateFile, CreateOver
    <2>2. file' \in Disk /\ file'.key = Cut /\ file'.cert = file.cert
        BY <1>0, <2>1, Zenon DEF Disk
    <2>3. file.cert \in {None, Cut}
        BY <1>0, <2>1 DEF Kept, FilesFormOneIdentity, Disk, Certs
    <2>4. \A b \in Attempts : run[b] \notin OwnsKey \cup {"key open"}
        BY <2>1 DEF Kept
    <2>5. TypeInv'
        BY <1>0, <2>1, <2>2 DEF TypeInv, Steps, Filing
    <2>6. Answered'
        BY <1>0, <2>1 DEF Answered, CertOf, TypeInv
    <2>7. Kept'
        BY <2>1, <2>2, <2>3, <2>4 DEF Kept, OwnsKey, FilesFormOneIdentity, TypeInv
    <2>. QED
        BY <1>1, <2>5, <2>6, <2>7
<1>3. CASE run[a] = "cert"
    <2>1. /\ file.cert = None /\ file' = [file EXCEPT !.cert = Cut]
          /\ run' = [run EXCEPT ![a] = "cert open"]
        BY <1>3 DEF CreateFile, CreateOver
    <2>2. file' \in Disk /\ file'.key = file.key /\ file'.cert = Cut
        BY <1>0, <2>1, Zenon DEF Disk
    <2>3. TypeInv'
        BY <1>0, <2>1, <2>2 DEF TypeInv, Steps, Filing
    <2>4. Answered'
        BY <1>0, <2>1 DEF Answered, CertOf, TypeInv
    <2>5. Kept'
        BY <1>3, <2>1, <2>2 DEF Kept, OwnsKey, FilesFormOneIdentity, TypeInv
    <2>. QED
        BY <1>1, <2>3, <2>4, <2>5
<1>4. CASE run[a] = "ca"
    <2>1. /\ file' = [file EXCEPT !.ca = Cut]
          /\ run' = [run EXCEPT ![a] = "ca open"]
        BY <1>4 DEF CreateFile, CreateOver
    <2>2. file' \in Disk /\ file'.key = file.key /\ file'.cert = file.cert
        BY <1>0, <2>1, Zenon DEF Disk
    <2>3. TypeInv'
        BY <1>0, <2>1, <2>2 DEF TypeInv, Steps, Filing
    <2>4. Answered'
        BY <1>0, <2>1 DEF Answered, CertOf, TypeInv
    <2>5. FilesFormOneIdentity'
        BY <1>0, <2>2 DEF Kept, FilesFormOneIdentity, Listed, Unlisted
    <2>6. Kept'
        BY <1>4, <2>1, <2>2, <2>5 DEF Kept, OwnsKey, TypeInv
    <2>. QED
        BY <1>1, <2>3, <2>4, <2>6
<1>. QED
    BY <1>2, <1>3, <1>4 DEF CreateFile

\* The content of a file: the key by the command that created it, the certificate by
\* the command whose key is there.
LEMMA WriteKeeps ==
    ASSUME IInv, NEW a \in Attempts, WriteFile(a)
    PROVE  IInv'
<1>. USE NoneDiffers DEF IInv
<1>0. /\ request[a].at = "granted" /\ CertOf(a) \in issued /\ CertOf(a).key = a
      /\ file \in Disk /\ CertOf(a) \in Certs
      /\ UNCHANGED <<token, server, request, issued>>
    BY DEF WriteFile, Answered, Filing, CertOf, Cert, TypeInv
<1>1. Asked' /\ Locked' /\ Sold' /\ Once' /\ Spent'
    BY <1>0 DEF Asked, Locked, Sold, Once, Spent, Listed
<1>2. CASE run[a] = "key open"
    <2>1. /\ file.key = Cut /\ file' = [file EXCEPT !.key = a]
          /\ run' = [run EXCEPT ![a] = "cert"]
        BY <1>2 DEF WriteFile, Kept
    <2>2. file' \in Disk /\ file'.key = a /\ file'.cert = file.cert
        BY <1>0, <2>1, Zenon DEF Disk
    <2>3. file.cert \in {None, Cut}
        BY <1>0, <2>1 DEF Kept, FilesFormOneIdentity, Disk, Certs
    <2>4. \A b \in Attempts \ {a} : run[b] \notin OwnsKey \cup {"key open"}
        BY <1>2, <2>1 DEF Kept
    <2>5. TypeInv'
        BY <1>0, <2>1, <2>2 DEF TypeInv, Steps, Filing
    <2>6. Answered'
        BY <1>0, <2>1 DEF Answered, CertOf, TypeInv
    <2>7. Kept'
        BY <2>1, <2>2, <2>3, <2>4 DEF Kept, OwnsKey, FilesFormOneIdentity, TypeInv
    <2>. QED
        BY <1>1, <2>5, <2>6, <2>7
<1>3. CASE run[a] = "cert open"
    <2>1. /\ file' = [file EXCEPT !.cert = CertOf(a)]
          /\ run' = [run EXCEPT ![a] = "ca"]
        BY <1>3 DEF WriteFile
    <2>2. file' \in Disk /\ file'.key = file.key /\ file'.cert = CertOf(a)
        BY <1>0, <2>1, Zenon DEF Disk
    <2>3. file.key = a
        BY <1>3 DEF Kept, OwnsKey
    <2>4. TypeInv'
        BY <1>0, <2>1, <2>2 DEF TypeInv, Steps, Filing
    <2>5. Answered'
        BY <1>0, <2>1 DEF Answered, CertOf, TypeInv
    <2>6. Listed(CertOf(a).name)
        BY <1>0 DEF Sold
    <2>7. FilesFormOneIdentity'
        BY <1>0, <2>2, <2>3, <2>6 DEF FilesFormOneIdentity, Listed, Unlisted
    <2>8. Kept'
        BY <2>1, <2>2, <2>3, <2>7 DEF Kept, OwnsKey, TypeInv
    <2>. QED
        BY <1>1, <2>4, <2>5, <2>8
<1>4. CASE run[a] = "ca open"
    <2>1. /\ file' = [file EXCEPT !.ca = "trusted"]
          /\ run' = [run EXCEPT ![a] = "done"]
        BY <1>4 DEF WriteFile
    <2>2. file' \in Disk /\ file'.key = file.key /\ file'.cert = file.cert
        BY <1>0, <2>1, Zenon DEF Disk
    <2>3. TypeInv'
        BY <1>0, <2>1, <2>2 DEF TypeInv, Steps, Filing
    <2>4. Answered'
        BY <1>0, <2>1 DEF Answered, CertOf, TypeInv, Filing
    <2>5. FilesFormOneIdentity'
        BY <1>0, <2>2 DEF Kept, FilesFormOneIdentity, Listed, Unlisted
    <2>6. Kept'
        BY <2>1, <2>2, <2>5 DEF Kept, OwnsKey, TypeInv
    <2>. QED
        BY <1>1, <2>3, <2>4, <2>6
<1>. QED
    BY <1>2, <1>3, <1>4 DEF WriteFile

-----------------------------------------------------------------------------

\* A deployment without tokens and servers, and a machine without files, meet the
\* invariant.
LEMMA InitKeeps ==
    ASSUME Init
    PROVE  IInv
<1>. USE NoneDiffers
<1>1. TypeInv
    BY DEF Init, TypeInv, TokenRow, ServerRow, Unlisted, Request, Stages, Steps, Filing, NoFiles, Disk
<1>2. Asked /\ Locked /\ Sold /\ Once /\ Spent /\ Answered
    BY DEF Init, Asked, Locked, Sold, Once, Spent, Answered, Filing
<1>3. Kept
    BY DEF Init, Kept, OwnsKey, FilesFormOneIdentity, NoFiles
<1>. QED
    BY <1>1, <1>2, <1>3 DEF IInv

\* Every step of the operator, of the commands and of the API keeps the invariant.
LEMMA NextKeeps ==
    ASSUME IInv, [Next]_vars
    PROVE  IInv'
<1>1. CASE Next
    <2>1. ASSUME NEW t \in Tokens,
                 (\E l \in Labels : MintToken(t, l)) \/ RevokeToken(t) \/ TokenExpires(t)
          PROVE  IInv'
        BY <2>1, TokenSteps, TokenKeeps
    <2>2. ASSUME NEW l \in Labels,
                 (\E e \in Endpoints : CreateVpnServer(l, e)) \/ SignServerCertificate(l)
          PROVE  IInv'
        BY <2>2, ServerKeeps, SignKeeps
    <2>3. CASE RemovePartialFiles
        BY <2>3, RemoveKeeps
    <2>4. ASSUME NEW a \in Attempts, \E t \in Tokens, e \in Endpoints : EnrollStarts(a, t, e)
          PROVE  IInv'
        BY <2>4, StartKeeps
    <2>5. ASSUME NEW a \in Attempts, EnrollGivesUp(a) \/ EnrollAnswered(a) \/ CreateRefused(a)
          PROVE  IInv'
        BY <2>5, RunSteps, RunKeeps
    <2>6. ASSUME NEW a \in Attempts,
                 \/ RedeemArrives(a) \/ AuthorityUnavailable(a) \/ RedeemLocks(a)
                 \/ RequestMalformed(a) \/ RedeemDies(a)
          PROVE  IInv'
        BY <2>6, RequestSteps, RequestKeeps
    <2>7. ASSUME NEW a \in Attempts, RedeemCommits(a) \/ CreateFile(a) \/ WriteFile(a)
          PROVE  IInv'
        BY <2>7, CommitKeeps, CreateKeeps, WriteKeeps
    <2>. QED
        BY <1>1, <2>1, <2>2, <2>3, <2>4, <2>5, <2>6, <2>7 DEF Next
<1>2. CASE UNCHANGED vars
    BY <1>2 DEF vars, IInv, TypeInv, Asked, Locked, Sold, Once, Spent, Answered, Kept, CertOf,
                FilesFormOneIdentity, Listed
<1>. QED
    BY <1>1, <1>2

\* A set whose elements are all the same has at most one.
LEMMA AtMostOne ==
    ASSUME NEW S, \A c, d \in S : c = d
    PROVE  Cardinality(S) <= 1
<1>1. CASE S = {}
    <2>1. Cardinality(S) = 0
        BY <1>1, FS_EmptySet
    <2>. QED
        BY <2>1
<1>2. CASE S # {}
    <2>1. PICK c : c \in S
        BY <1>2
    <2>2. S = {c}
        BY <2>1
    <2>3. Cardinality(S) = 1
        BY <2>2, FS_Singleton
    <2>. QED
        BY <2>3
<1>. QED
    BY <1>1, <1>2

\* The invariant bounds what a token buys.
LEMMA InvariantSuffices ==
    ASSUME IInv
    PROVE  OneMachineOneIdentity
<1>. USE NoneDiffers DEF IInv
<1>1. ASSUME NEW t \in Tokens
      PROVE  LET bought == {c \in issued : c.paid = t} IN
             /\ Cardinality(bought) <= 1
             /\ bought # {} <=> token[t].used
             /\ ~(token[t].used /\ token[t].revoked)
    <2>. DEFINE bought == {c \in issued : c.paid = t}
    <2>1. \A c, d \in bought : c = d
        <3>1. ASSUME NEW c \in bought
              PROVE  c \in issued /\ c.paid # None /\ c.name = token[t].label
            BY DEF Sold
        <3>. QED
            BY <3>1 DEF Once
    <2>2. Cardinality(bought) <= 1
        BY <2>1, AtMostOne
    <2>3. bought # {} <=> token[t].used
        <3>1. ASSUME NEW c \in bought
              PROVE  token[t].used
            BY DEF Sold
        <3>2. token[t].used => bought # {}
            BY DEF Spent
        <3>. QED
            BY <3>1, <3>2
    <2>4. ~(token[t].used /\ token[t].revoked)
        BY DEF Spent
    <2>. QED
        BY <2>2, <2>3, <2>4
<1>. QED
    BY <1>1 DEF OneMachineOneIdentity, OneIdentityPerToken, Once, Kept

\* A token buys at most one certificate, a revoked one none, no name is sold twice, and
\* the files of the machine form one identity the control plane lists: the row lock of
\* redeem() and revoke(), the unique code of vpn_servers and the exclusive create of
\* _write, for any number of overlapping attempts and tokens.
THEOREM MachineHasOneIdentity == Spec => []OneMachineOneIdentity
<1>1. Init => IInv
    BY InitKeeps
<1>2. IInv /\ [Next]_vars => IInv'
    BY NextKeeps
<1>3. IInv => OneMachineOneIdentity
    BY InvariantSuffices
<1>. QED
    BY <1>1, <1>2, <1>3, PTL DEF Spec
=============================================================================
