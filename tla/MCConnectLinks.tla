--------------------------- MODULE MCConnectLinks ---------------------------
(* Instances of ConnectLinks for TLC. *)
EXTENDS ConnectLinks, TLC

Symmetry == Permutations(Links) \cup Permutations(Users) \cup Permutations(Codes)
              \cup Permutations(Requests) \cup Permutations(Accounts)

=============================================================================
