------------------------- MODULE MCXrayProvisioning -------------------------
(* Constants for the model-checking runs of XrayProvisioning. *)
EXTENDS XrayProvisioning

CONSTANTS d1, xhttp, vision

\* Faults while the device uses one profile; two rows that compete for the
\* place in the batch without them.  Row 1 is the first one made: its profile
\* may as well be xhttp.
OneTrouble ==
    /\ client'[1].profile # vision
    /\ faults' = 0 \/ \A i, j \in ClientIds : NoClient \notin {client'[i], client'[j]}
                                              => client'[i].profile = client'[j].profile
MCSpec == Init /\ [][Next /\ OneTrouble]_vars /\ Fairness
=============================================================================
