------------------------------ MODULE MCAccounts ------------------------------
(* Values for the constants of Accounts: an address is the set of rows made for it. *)
EXTENDS Accounts, TLC

MCMail == [u \in Users |-> IF u \in FirstAdmins THEN {u} ELSE Users \ FirstAdmins]
MCAddresses == { MCMail[u] : u \in Users }

Symmetry == Permutations(FirstAdmins) \cup Permutations(Users \ FirstAdmins)
            \cup Permutations(Calls) \cup Permutations(Tokens)
=============================================================================
