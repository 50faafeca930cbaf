--------------------------- MODULE MCProvisioning ---------------------------
(* Constants for the model-checking runs of Provisioning. *)
EXTENDS Provisioning, TLC

CONSTANTS d1, d2, k1, k2

\* One device, one key; two devices with a key each.
OneKey == k1 :> d1
OneKeyEach == k1 :> d1 @@ k2 :> d2

\* The second device is left alone: it connects and reconnects, and nobody
\* revokes it, signs it out or touches its grants.
Undisturbed ==
    /\ device'[d2] = device[d2] /\ UNCHANGED access
    /\ \A p \in PeerIds : peers'[p].device = d2 => peers'[p].state # "revoking"
MCLiveSpec == Init /\ [][Next /\ Undisturbed]_vars /\ Fairness
=============================================================================
