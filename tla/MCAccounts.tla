------------------------------ MODULE MCAccounts ------------------------------
(* Instances of AccountsRefinement for TLC. *)
EXTENDS AccountsRefinement, TLC

\* Accounts, tokens and requests are interchangeable; calendars are not, since
\* some are selected by default.
Symmetry == Permutations(Accounts) \cup Permutations(Tokens)
              \cup Permutations(Requests)

=============================================================================
