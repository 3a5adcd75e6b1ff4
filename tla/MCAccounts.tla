------------------------------ MODULE MCAccounts ------------------------------
(* Small instances of Accounts for TLC. *)
EXTENDS Accounts, TLC

CONSTANTS ann, bob, eve
TwoAdmins == (ann :> "admin") @@ (bob :> "admin") @@ (eve :> "none")
WithCode == [otp |-> TRUE, cap |-> 1]
Plain == [otp |-> FALSE, cap |-> 2]
SomePolicies == {WithCode, Plain}
Symmetry == Permutations(Requests) \cup Permutations(Captchas)
=============================================================================
