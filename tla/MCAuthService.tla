---------------------------- MODULE MCAuthService ---------------------------
(* Three users, two tenants, plans with two seats and with three.           *)
EXTENDS AuthService, TLC

CONSTANTS small, large

MCMaxUsers == [p \in Plans |-> IF p = small THEN 2 ELSE 3]

Symmetry == Permutations(UserIds) \cup Permutations(TenantIds)
            \cup Permutations(Emails) \cup Permutations(Names)
=============================================================================
