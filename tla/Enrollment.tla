------------------------------ MODULE Enrollment ------------------------------
(***************************************************************************)
(* How a machine becomes a server of the fleet: an operator mints a        *)
(* single-use token, nebula-agent-enroll on the machine exchanges it for a *)
(* certificate and a row of vpn_servers, and writes three files.           *)
(*                                                                         *)
(* The machine is reached at the addresses Endpoints (its public host and  *)
(* its private one, say).  Every run of the command is an attempt, with a  *)
(* key of its own; attempts overlap, die, and outlive the wait for their   *)
(* answer.  The request is a process of the API, which goes on when the    *)
(* command has given up.                                                   *)
(***************************************************************************)
EXTENDS Naturals, FiniteSets

CONSTANTS Attempts,    \* runs of nebula-agent-enroll
          Tokens,      \* enrollment tokens ever minted
          Labels,      \* labels of tokens, codes of servers
          Endpoints,   \* the host and port pairs the machine answers on
          Served,      \* profile codes the node says it serves
          Seeded,      \* profile codes the deployment has seeded
          WireGuard,   \* the codes of the WireGuard protocol's profiles
          Twin(_),     \* the "-adblock" code of a profile code
          Cut,         \* a file that is there without its content
          None

VARIABLES token,    \* node_enrollment_tokens
          server,   \* vpn_servers, with the capabilities enrolment gives them
          request,  \* the API's side of an attempt
          run,      \* the command's side of it
          file,     \* the machine's identity files
          issued    \* certificates the control plane has committed to

vars == <<token, server, request, run, file, issued>>

Cert(key, name, paid) == [key |-> key, name |-> name, paid |-> paid]
Certs == [key : Attempts \cup {"by hand"}, name : Labels, paid : Tokens \cup {None}]

\* None is no value of a column; neither it nor Cut is the content of a file.
ASSUME NoneAssumption ==
    /\ None \notin Attempts \cup Tokens \cup Labels \cup Endpoints \cup {"by hand", Cut} \cup Certs
    /\ Cut \notin Attempts \cup {"by hand"} \cup Certs

NoFiles == [key |-> None, cert |-> None, ca |-> None]
Unlisted == [endpoint |-> None, offers |-> {}]

Listed(l) == server[l] # Unlisted
Taken(e) == \E l \in Labels : server[l].endpoint = e

Init ==
    /\ token = [t \in Tokens |-> [label |-> None, used |-> FALSE, revoked |-> FALSE,
                                  expired |-> FALSE]]
    /\ server = [l \in Labels |-> Unlisted]
    /\ request = [a \in Attempts |-> [at |-> "none", token |-> None,
                                      endpoint |-> None, late |-> FALSE]]
    /\ run = [a \in Attempts |-> "new"]
    /\ file = NoFiles
    /\ issued = {}

-----------------------------------------------------------------------------
(* The operator's side *)

MintToken(t, l) ==
    /\ token[t].label = None
    /\ token' = [token EXCEPT ![t].label = l]
    /\ UNCHANGED <<server, request, run, file, issued>>

\* The row lock of the redemption under way, if any.
Held(t) == \E a \in Attempts : request[a].at = "held" /\ request[a].token = t

RevokeUnlocked(t) ==
    /\ token[t].label # None /\ ~token[t].revoked
    /\ token' = [token EXCEPT ![t].revoked = TRUE]
    /\ UNCHANGED <<server, request, run, file, issued>>

\* revoke() locks the row and changes only one that is neither used nor revoked.
RevokeToken(t) ==
    /\ token[t].label # None
    /\ ~Held(t)
    /\ ~token[t].used /\ ~token[t].revoked
    /\ token' = [token EXCEPT ![t].revoked = TRUE]
    /\ UNCHANGED <<server, request, run, file, issued>>

TokenExpires(t) ==
    /\ token[t].label # None /\ ~token[t].expired
    /\ token' = [token EXCEPT ![t].expired = TRUE]
    /\ UNCHANGED <<server, request, run, file, issued>>

\* The create-vpn-server command, at an address given by hand: it enables whichever
\* implemented WireGuard profile the query returns first.
CreateVpnServer(l, e) ==
    /\ ~Listed(l) /\ ~Taken(e)
    /\ \E p \in Seeded \cap WireGuard :
         server' = [server EXCEPT ![l] = [endpoint |-> e, offers |-> {p}]]
    /\ UNCHANGED <<token, request, run, file, issued>>

Filing == {"key", "key open", "cert", "cert open", "ca", "ca open"}
Running == {a \in Attempts : run[a] \in Filing \cup {"waiting"}}

\* What the command's message asks of the operator, once no attempt is running.
RemovePartialFiles ==
    /\ Running = {}
    /\ file # NoFiles
    /\ file.key = None \/ file.cert = None \/ file.ca = None
    /\ file' = NoFiles
    /\ UNCHANGED <<token, server, request, run, issued>>

\* sign-server-certificate, for a request the operator made on the machine and
\* whose key and certificate the operator installs by hand.
SignServerCertificate(l) ==
    /\ Running = {}
    /\ Listed(l)
    /\ LET cert == Cert("by hand", l, None) IN
         /\ issued' = issued \cup {cert}
         /\ file' = [key |-> "by hand", cert |-> cert, ca |-> "trusted"]
    /\ UNCHANGED <<token, server, request, run>>

-----------------------------------------------------------------------------
(* The command, up to the request *)

\* A node with all three files answers "already enrolled", whatever is in them, and
\* one with some of them refuses: both end the command with nothing changed.
EnrollStarts(a, t, e) ==
    /\ run[a] = "new"
    /\ token[t].label # None
    /\ file = NoFiles
    /\ run' = [run EXCEPT ![a] = "waiting"]
    /\ request' = [request EXCEPT ![a] = [at |-> "sent", token |-> t, endpoint |-> e,
                                          late |-> FALSE]]
    /\ UNCHANGED <<token, server, file, issued>>

\* The answer, a timeout, a lost connection or the death of the command.  The
\* request is not withdrawn.
EnrollGivesUp(a) ==
    /\ a \in Running
    /\ run' = [run EXCEPT ![a] = "gone"]
    /\ UNCHANGED <<token, server, request, file, issued>>

EnrollAnswered(a) ==
    /\ run[a] = "waiting"
    /\ request[a].at \in {"granted", "refused", "failed"}
    /\ run' = [run EXCEPT ![a] = IF request[a].at = "granted" THEN "key" ELSE "gone"]
    /\ UNCHANGED <<token, server, request, file, issued>>

-----------------------------------------------------------------------------
(* The API: POST /enroll *)

\* The handler loads the node CA (503 without one) and reads the clock before
\* the transaction.
RedeemArrives(a) ==
    /\ request[a].at = "sent"
    /\ request' = [request EXCEPT ![a].at = "arrived",
                                  ![a].late = token[request[a].token].expired]
    /\ UNCHANGED <<token, server, run, file, issued>>

AuthorityUnavailable(a) ==
    /\ request[a].at = "sent"
    /\ request' = [request EXCEPT ![a].at = "refused"]
    /\ UNCHANGED <<token, server, run, file, issued>>

is_redeemable(t, late) == ~token[t].used /\ ~token[t].revoked /\ ~late

RedeemReads(a) ==
    LET t == request[a].token IN
    /\ request[a].at = "arrived"
    /\ request' = [request EXCEPT ![a].at =
                     IF is_redeemable(t, request[a].late) THEN "held" ELSE "refused"]
    /\ UNCHANGED <<token, server, run, file, issued>>

\* SELECT ... FOR UPDATE: waits for the redemption that holds the row.
RedeemLocks(a) ==
    /\ ~Held(request[a].token)
    /\ RedeemReads(a)

\* The certificate request is not one the CA signs: the token stays unspent.
RequestMalformed(a) ==
    /\ request[a].at = "held"
    /\ request' = [request EXCEPT ![a].at = "refused"]
    /\ UNCHANGED <<token, server, run, file, issued>>

\* The process dies, or the database goes, before the commit.
RedeemDies(a) ==
    /\ request[a].at \in {"sent", "arrived", "held"}
    /\ request' = [request EXCEPT ![a].at = "dead"]
    /\ UNCHANGED <<token, server, run, file, issued>>

Wanted == Served \cup {Twin(p) : p \in Served}

Enlists(a) ==
    LET t == request[a].token
        l == token[t].label IN
    /\ token' = [token EXCEPT ![t].used = TRUE]
    /\ server' = [server EXCEPT ![l] = [endpoint |-> request[a].endpoint,
                                        offers |-> Wanted \cap Seeded]]
    /\ issued' = issued \cup {Cert(a, l, t)}
    /\ request' = [request EXCEPT ![a].at = "granted"]

RedeemUpserts(a) ==
    /\ request[a].at = "held"
    /\ Enlists(a)
    /\ UNCHANGED <<run, file>>

\* The insert of the server meets uq_vpn_servers_code or _agent_endpoint: the
\* transaction rolls back, the token with it, and the answer is a 500.
RedeemCommits(a) ==
    LET l == token[request[a].token].label IN
    /\ request[a].at = "held"
    /\ \/ /\ ~Listed(l) /\ ~Taken(request[a].endpoint)
          /\ Enlists(a)
       \/ /\ Listed(l) \/ Taken(request[a].endpoint)
          /\ request' = [request EXCEPT ![a].at = "failed"]
          /\ UNCHANGED <<token, server, issued>>
    /\ UNCHANGED <<run, file>>

-----------------------------------------------------------------------------
(* The command, from the answer on: the key, the certificate, the client CA *)

CertOf(a) == Cert(a, token[request[a].token].label, request[a].token)

\* The open itself: the file is there and empty.
CreateOver(a) ==
    /\ \/ /\ run[a] = "key"
          /\ file' = [file EXCEPT !.key = Cut]
          /\ run' = [run EXCEPT ![a] = "key open"]
       \/ /\ run[a] = "cert"
          /\ file' = [file EXCEPT !.cert = Cut]
          /\ run' = [run EXCEPT ![a] = "cert open"]
       \/ /\ run[a] = "ca"
          /\ file' = [file EXCEPT !.ca = Cut]
          /\ run' = [run EXCEPT ![a] = "ca open"]
    /\ UNCHANGED <<token, server, request, issued>>

\* os.open with O_EXCL: a file that is there ends the command.
CreateFile(a) ==
    /\ \/ run[a] = "key" /\ file.key = None
       \/ run[a] = "cert" /\ file.cert = None
       \/ run[a] = "ca" /\ file.ca = None
    /\ CreateOver(a)

CreateRefused(a) ==
    /\ \/ run[a] = "key" /\ file.key # None
       \/ run[a] = "cert" /\ file.cert # None
       \/ run[a] = "ca" /\ file.ca # None
    /\ run' = [run EXCEPT ![a] = "gone"]
    /\ UNCHANGED <<token, server, request, file, issued>>

\* The content reaches the file when it is closed; a command that dies before leaves
\* the file Cut.
WriteFile(a) ==
    /\ \/ /\ run[a] = "key open"
          /\ file' = [file EXCEPT !.key = a]
          /\ run' = [run EXCEPT ![a] = "cert"]
       \/ /\ run[a] = "cert open"
          /\ file' = [file EXCEPT !.cert = CertOf(a)]
          /\ run' = [run EXCEPT ![a] = "ca"]
       \/ /\ run[a] = "ca open"
          /\ file' = [file EXCEPT !.ca = "trusted"]
          /\ run' = [run EXCEPT ![a] = "done"]
    /\ UNCHANGED <<token, server, request, issued>>

-----------------------------------------------------------------------------
Next ==
    \/ \E t \in Tokens : \/ \E l \in Labels : MintToken(t, l)
                         \/ RevokeToken(t)
                         \/ TokenExpires(t)
    \/ \E l \in Labels : \/ \E e \in Endpoints : CreateVpnServer(l, e)
                         \/ SignServerCertificate(l)
    \/ RemovePartialFiles
    \/ \E a \in Attempts : \/ \E t \in Tokens, e \in Endpoints : EnrollStarts(a, t, e)
                           \/ EnrollGivesUp(a)
                           \/ EnrollAnswered(a)
                           \/ RedeemArrives(a)
                           \/ AuthorityUnavailable(a)
                           \/ RedeemLocks(a)
                           \/ RequestMalformed(a)
                           \/ RedeemDies(a)
                           \/ RedeemCommits(a)
                           \/ CreateFile(a)
                           \/ CreateRefused(a)
                           \/ WriteFile(a)

Spec == Init /\ [][Next]_vars

-----------------------------------------------------------------------------
\* A token buys at most one certificate, a revoked one buys none, and no name
\* is sold twice: the row lock of redeem() and revoke() and the unique code of
\* vpn_servers, against overlapping redemptions, revocations and lost answers.
OneIdentityPerToken ==
    /\ \A t \in Tokens :
         LET bought == {c \in issued : c.paid = t} IN
         /\ Cardinality(bought) <= 1
         /\ bought # {} <=> token[t].used
         /\ ~(token[t].used /\ token[t].revoked)
    /\ \A c, d \in issued : c.paid # None /\ d.paid # None /\ c.name = d.name => c = d

\* A certificate on the machine is over the very key beside it, in the name of a
\* server the control plane lists: what _write's exclusive create is for, when
\* commands overlap, die between two writes or inside one, or are run again after
\* the operator removed what a dead one left.
FilesFormOneIdentity ==
    file.cert \notin {None, Cut} =>
        /\ file.cert.key = file.key
        /\ file.cert \in issued
        /\ Listed(file.cert.name)

\* A token yields one identity, and the files of a machine belong to one of them.
OneMachineOneIdentity == OneIdentityPerToken /\ FilesFormOneIdentity

\* "remove them and enroll again" (the agent's enrollment.py): with no other attempt
\* running and no file left on the machine, an attempt with a good token whose label
\* is free, from an address no one entered by hand, is not turned away by redeem().
EnrollAgainWorks ==
    [][\A a \in Attempts :
         LET l == token[request[a].token].label IN
         /\ request[a].at = "held" /\ request'[a].at = "failed"
         /\ ~Listed(l) /\ Running = {a} /\ file = NoFiles
         => \E k \in Labels : /\ server[k].endpoint = request[a].endpoint
                              /\ \A c \in issued : c.paid # None => c.name # k]_vars
=============================================================================
