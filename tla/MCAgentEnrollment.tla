-------------------------- MODULE MCAgentEnrollment -------------------------
(* Three agents, two clients, two registrations per two ticks: a client can *)
(* fill its window, be refused, wait for it to slide out and register again.*)
EXTENDS AgentEnrollment, TLC

CONSTANTS a1, a2, a3, adm, h1, h2

MCTokens == {a1, a2, a3, adm}
MCAgents == {a1, a2, a3}
\* a2 and a3 collide: the tenant id is a short prefix of a hash.
MCTenantOf == [a \in MCAgents |-> IF a = a1 THEN h1 ELSE h2]

\* An admin makes another admin, of the first tenant and for a time.
MCPostedRows ==
  {[BootstrapRow EXCEPT !.tenant = h1, !.expiry = "ahead"]}

Symmetry == Permutations(IPs)
=============================================================================
