------------------------------ MODULE GrantStore ------------------------------
(***************************************************************************)
(* The in-memory factory-grant store (diagnostic_mcp/services/grants.py):  *)
(* which user may see which factory.  The code's dict of sets is the       *)
(* relation  grants;  a user with an empty set and a user without an entry *)
(* answer every query alike.  Nothing is persisted: a process that starts  *)
(* again starts from the seeded grants.                                    *)
(***************************************************************************)
EXTENDS Principals

CONSTANT Seed   \* the pairs seeded_grant_store() grants

ASSUME SeedAssumption == Seed \subseteq Users \X Factories

VARIABLE grants

GrantTypeOK == grants \subseteq Users \X Factories

GrantInit == grants = Seed

\* A restarted process has forgotten every change since the seed.
GrantReset == grants' = Seed

Grant(u, f)  == grants' = grants \cup {<<u, f>>}
Revoke(u, f) == grants' = grants \ {<<u, f>>}

\* Mutant: grants looked up in a copy taken at start-up.
IsAuthorizedCached(u, f) == <<u, f>> \in Seed

\* Evaluated on the live relation, for any factory id whatsoever: the answer for
\* a factory that does not exist is the answer for one that is not granted.
IsAuthorized(u, f)  == <<u, f>> \in grants
GrantedFactories(u) == {f \in Factories : <<u, f>> \in grants}
===============================================================================
