---------------------------- MODULE MCAdminAuth ----------------------------
(* Situations for TLC: each fixes who is there at the start and which       *)
(* requests compete.                                                        *)
EXTENDS AdminAuth, TLC

\* A new deployment: two browsers of its first owner enrol at once.
NewDeployment == [present |-> "nobody", requests |-> 7,
                  menu |-> {"login", "enroll", "confirm", "mfa", "step-up"}]

\* One owner: sign-ins and step-ups compete for the same codes.
SecondFactors == [present |-> "one", requests |-> 4, menu |-> {"login", "mfa", "step-up"}]

\* One owner: the authenticator and its recovery codes are replaced.
Replacement == [present |-> "one", requests |-> 4,
                menu |-> {"login", "mfa", "codes", "replace", "switch"}]

\* One owner: passkeys are added, used and removed.
Passkeys == [present |-> "one", requests |-> 4,
             menu |-> {"login", "passkey", "passkey-options", "passkey-add", "passkey-remove"}]

\* One owner: the password is changed while another browser signs in.
OwnPassword == [present |-> "one", requests |-> 4,
                menu |-> {"login", "mfa", "password"}]

\* Two owners act on each other.
TwoOwners == [present |-> "two", requests |-> 3,
              menu |-> {"role", "disable", "reactivate"}]

\* An owner acts on another who is changing their own account.
OwnerAndSelf == [present |-> "two", requests |-> 3,
                 menu |-> {"password", "disable"}]

\* One owner invites another administrator.
Invitation == [present |-> "one", requests |-> 3, menu |-> {"invite", "role", "end", "end-all", "logout"}]

MCScenes == {NewDeployment, SecondFactors, Replacement, Passkeys, OwnPassword, TwoOwners, OwnerAndSelf,
             Invitation}
Symmetry == Permutations(Admins) \cup Permutations(Browsers)
=============================================================================
