--------------------------- MODULE MCToolPipeline ---------------------------
(***************************************************************************)
(* Instances of ToolPipeline for TLC.                                      *)
(***************************************************************************)
EXTENDS PipelineRefinement, TLC

CONSTANTS c1, c2, c3, alice, bob, mbr, beta, ghost, read, write, s1, s2, unknown

MCUsers     == {alice, bob}
MCFactories == {mbr, beta, ghost}
MCScopes    == {read, write}
MCReads     == {read}
MCSeed      == {<<alice, mbr>>, <<bob, beta>>}
MCSeedGhost == MCSeed \cup {<<alice, ghost>>}
MCSessions  == {s1, unknown}
MCTools     == {"scoped", "list", "nosuch"}
MCRegistry  == {"scoped", "list"}
MCExempt    == {"list"}
MCPlants    == {mbr, beta}

\* alice's grant of mbr comes and goes; she may hold ghost, which has no plant record.
MCGrantNone == {}
MCGrantOne  == {<<alice, mbr>>}

Service(exp) == [signed |-> TRUE, exp |-> exp, scopes |-> {read}, sub |-> TRUE]
User(u, exp) == [signed |-> TRUE, exp |-> exp, sub |-> u, org |-> TRUE]

Good(u, tool, f) ==
  [tool |-> tool, session |-> s1, svc |-> Service(2), usr |-> User(u, 2),
   valid |-> TRUE, factory |-> f]

\* Calls that get past both identities: what the grants and the handler decide.
AuthorizedMix ==
  {Good(alice, "scoped", mbr), Good(alice, "scoped", ghost), Good(alice, "list", None)}

\* Calls the pipeline turns away at each of its checks, and one good call.
IdentityMix ==
  LET good == Good(alice, "scoped", mbr)
  IN  {good,
       [good EXCEPT !.svc = [Service(2) EXCEPT !.signed = FALSE]],
       [good EXCEPT !.svc = [Service(2) EXCEPT !.scopes = {read, write}]],
       [good EXCEPT !.svc = [Service(2) EXCEPT !.scopes = {}]],
       [good EXCEPT !.svc = Service(1)],
       [good EXCEPT !.usr = User(alice, 1)],
       [good EXCEPT !.usr = [User(alice, 2) EXCEPT !.org = FALSE], !.session = None],
       [good EXCEPT !.usr = [User(bob, 2) EXCEPT !.signed = FALSE]],
       [good EXCEPT !.valid = FALSE, !.factory = None],
       [good EXCEPT !.factory = None],
       [good EXCEPT !.factory = beta],
       [good EXCEPT !.tool = "nosuch"]}

\* Both kinds side by side.
ControlMix == AuthorizedMix \cup IdentityMix

\* A few calls of two sessions, for the file.
TrailMix ==
  LET good == Good(alice, "scoped", mbr)
  IN  {good, [good EXCEPT !.session = None], [good EXCEPT !.factory = beta]}

\* One call of each kind of ending.
AccessMix ==
  LET good == Good(alice, "scoped", mbr)
  IN  {good, Good(alice, "list", None), Good(alice, "scoped", ghost),
       [good EXCEPT !.valid = FALSE], [good EXCEPT !.tool = "nosuch"]}

CallSymmetry == Permutations(Calls)
===============================================================================
