------------------------------ MODULE Bootstrap ------------------------------
(***************************************************************************)
(* nebula-api initialize, which runs at every start of a container: the    *)
(* deployment's row, its secret, its two certificate authorities and the   *)
(* control plane's own client certificate, each made when it is missing;   *)
(* and rotate-control-plane-certificate.  Runs overlap (two containers     *)
(* start together) and are killed at any step.  A file is created first    *)
(* and written next; what is written through an open descriptor follows    *)
(* the file when it is renamed.                                            *)
(***************************************************************************)
EXTENDS Naturals, Sequences, FiniteSets

CONSTANTS MaxRuns,   \* how often one of the commands is started
          None

VARIABLES deployment,  \* the run that inserted the row
          file,        \* what is in each file
          run          \* the runs: the step, the open file, the authority loaded

vars == <<deployment, file, run>>

\* Numbered as they start; each makes keys of its own, and 0 made what was there.
Runs == 1..MaxRuns

\* The secret, then the pairs in the order their files are written.
Items == <<"secret", "nodeCA", "clientCA", "own">>
Files(item) == CASE item = "secret" -> <<<<"secret", "key">>>>
                 [] item \in {"nodeCA", "clientCA"} -> <<<<item, "cert">>, <<item, "key">>>>
                 [] item \in {"own", "old"} -> <<<<item, "key">>, <<item, "cert">>>>
Names == {<<"secret", "key">>} \cup ({"nodeCA", "clientCA", "own", "old"} \X {"cert", "key"})

\* A key is named by who made it; a certificate holds its key and its issuer's.
Key(k) == [key |-> k, by |-> None]
Certificate(k, issuer) == [key |-> k, by |-> issuer]
Empty == Key(None)

Exists(f) == file[f] # None
Written(f) == file[f] \notin {None, Empty}
Present(item) == {i \in DOMAIN Files(item) : Exists(Files(item)[i])}
Complete(item) == \A i \in DOMAIN Files(item) : Written(Files(item)[i])

\* A new installation, or one from before there was a control-plane CA.
Before == [f \in Names |->
    IF f \in {<<"own", "cert">>, <<"nodeCA", "cert">>} THEN Certificate(0, 0)
    ELSE IF f[1] \in {"secret", "nodeCA", "own"} THEN Key(0) ELSE None]

Init ==
    /\ \/ deployment = None /\ file = [f \in Names |-> None]
       \/ deployment = 0 /\ file = Before
    /\ run = [r \in Runs |-> [cmd |-> None, at |-> "new", item |-> None, n |-> 0, open |-> None, ca |-> None]]

-----------------------------------------------------------------------------
Makes(r, ca) == run' = [run EXCEPT ![r].at = "making", ![r].n = 1, ![r].ca = ca]
Ends(r, how) == run' = [run EXCEPT ![r].at = how, ![r].item = None, ![r].n = 0, ![r].open = None, ![r].ca = None]
Active(r) == run[r].at \notin {"new", "done", "dead"}

Turns(r, item) == run' = [run EXCEPT ![r].at = "check", ![r].item = item, ![r].n = 0,
                                        ![r].open = None, ![r].ca = None]

\* On to the next thing to ensure, or the end.
Ensured(r) ==
    LET i == CHOOSE j \in DOMAIN Items : Items[j] = run[r].item IN
    IF i = Len(Items) THEN Ends(r, "done") ELSE Turns(r, Items[i + 1])

\* Two containers at once, and one operator who rotates.
Starts(r, cmd) ==
    /\ run[r].at = "new" /\ \A q \in 1..r - 1 : run[q].at # "new"
    /\ Cardinality({q \in Runs : Active(q)}) < 2
    /\ cmd = "rotate" => \A q \in Runs : run[q].cmd # "rotate"
    /\ run' = [run EXCEPT ![r].cmd = cmd, ![r].at = IF cmd = "rotate" THEN "olds" ELSE "deployment"]
    /\ UNCHANGED <<deployment, file>>

\* Under an advisory lock for the whole transaction.
ensure_deployment(r) ==
    /\ run[r].at = "deployment"
    /\ deployment' = IF deployment = None THEN r ELSE deployment
    /\ Turns(r, Items[1])
    /\ UNCHANGED file

ensure_deployment_secret(r) ==
    /\ run[r].at = "check" /\ run[r].item = "secret"
    /\ IF Exists(<<"secret", "key">>) THEN Ensured(r) ELSE Makes(r, None)
    /\ UNCHANGED <<deployment, file>>

\* Both files, or neither: one without the other ends the command.
CheckPair(r) ==
    CASE Cardinality(Present(run[r].item)) = 2 -> Ensured(r)
      [] Cardinality(Present(run[r].item)) = 1 -> Ends(r, "dead")
      [] OTHER -> Makes(r, None)

ensure_node_authority(r) ==
    /\ run[r].at = "check" /\ run[r].item \in {"nodeCA", "clientCA"}
    /\ CheckPair(r)
    /\ UNCHANGED <<deployment, file>>

\* load_certificate_authority fails on a file that is missing or empty.
ensure_control_plane_identity(r) ==
    /\ run[r].at = "check" /\ run[r].item = "own"
    /\ IF Present("own") # {} THEN CheckPair(r)
       ELSE IF ~Complete("clientCA") THEN Ends(r, "dead")
       ELSE Makes(r, file[<<"clientCA", "key">>].key)
    /\ UNCHANGED <<deployment, file>>

\* The files of an item, one after the other: opened, then written.
Opening(r) == Files(run[r].item)[run[r].n]

OpenOver(r) ==
    /\ run[r].at = "making" /\ run[r].open = None
    /\ file' = [file EXCEPT ![Opening(r)] = Empty]
    /\ run' = [run EXCEPT ![r].open = Opening(r)]
    /\ UNCHANGED deployment

\* O_EXCL: whoever comes second dies.
Open(r) ==
    /\ run[r].at = "making" /\ run[r].open = None
    /\ IF Exists(Opening(r))
       THEN Ends(r, "dead") /\ UNCHANGED file
       ELSE /\ file' = [file EXCEPT ![Opening(r)] = Empty]
            /\ run' = [run EXCEPT ![r].open = Opening(r)]
    /\ UNCHANGED deployment

Content(r) ==
    IF Opening(r)[2] = "key" THEN Key(r)
    ELSE Certificate(r, IF run[r].item = "own" THEN run[r].ca ELSE r)

_write_exclusive(r) ==
    /\ run[r].open # None
    /\ file' = [file EXCEPT ![run[r].open] = Content(r)]
    /\ IF run[r].n < Len(Files(run[r].item))
       THEN run' = [run EXCEPT ![r].open = None, ![r].n = @ + 1]
       ELSE Ensured(r)
    /\ UNCHANGED deployment

-----------------------------------------------------------------------------
rotate_control_plane_identity(r) ==
    /\ run[r].at = "olds"
    /\ IF Present("old") # {} \/ ~Complete("clientCA") THEN Ends(r, "dead")
       ELSE run' = [run EXCEPT ![r].at = "moveCert"]
    /\ UNCHANGED <<deployment, file>>

\* A rename fails when there is nothing to rename; an open descriptor stays with
\* its file.
Moves(r, part, next) ==
    LET from == <<"own", part>>
        to == <<"old", part>> IN
    IF Exists(from)
    THEN /\ file' = [file EXCEPT ![to] = file[from], ![from] = None]
         /\ run' = [q \in Runs |->
               IF q = r THEN [run[q] EXCEPT !.at = next, !.item = "own"]
               ELSE IF run[q].open = from THEN [run[q] EXCEPT !.open = to] ELSE run[q]]
    ELSE Ends(r, "dead") /\ UNCHANGED file

MovesCertificate(r) == run[r].at = "moveCert" /\ Moves(r, "cert", "moveKey") /\ UNCHANGED deployment
MovesKey(r) == run[r].at = "moveKey" /\ Moves(r, "key", "check") /\ UNCHANGED deployment

Dies(r) ==
    /\ Active(r)
    /\ Ends(r, "dead")
    /\ UNCHANGED <<deployment, file>>

Next ==
    \E r \in Runs : \/ Starts(r, "initialize")
                    \/ Starts(r, "rotate")
                    \/ ensure_deployment(r)
                    \/ ensure_deployment_secret(r)
                    \/ ensure_node_authority(r)
                    \/ ensure_control_plane_identity(r)
                    \/ Open(r)
                    \/ _write_exclusive(r)
                    \/ rotate_control_plane_identity(r)
                    \/ MovesCertificate(r)
                    \/ MovesKey(r)
                    \/ Dies(r)

Spec == Init /\ [][Next]_vars

-----------------------------------------------------------------------------
\* A certificate and a key that are both there belong together, in the authorities
\* and in the control plane's pair, the one a rotation put aside included; and the
\* pair was issued by an authority that is on file: overlapping starts and kills
\* between any two writes never mix the halves of two runs.
PairsBelongTogether ==
    /\ \A item \in {"nodeCA", "clientCA", "own", "old"} : Complete(item) =>
           file[<<item, "cert">>].key = file[<<item, "key">>].key
    /\ \A item \in {"own", "old"} : Written(<<item, "cert">>) =>
           \E ca \in {"nodeCA", "clientCA"} :
               Complete(ca) /\ file[<<ca, "key">>].key = file[<<item, "cert">>].by

\* Once a run of initialize has ended well and none is under way, everything is in
\* place, unless a kill left an empty file or a rotation took the pair away: "safe
\* to rerun" (docs/runbooks/deployment.md).
DoneMeansReady ==
    (/\ \E r \in Runs : run[r].cmd = "initialize" /\ run[r].at = "done"
     /\ \A r \in Runs : ~Active(r) /\ run[r].cmd # "rotate"
     /\ \A f \in Names : file[f] # Empty)
    => deployment # None /\ \A i \in DOMAIN Items : Complete(Items[i])
=============================================================================
