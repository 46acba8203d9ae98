--------------------------- MODULE MCAgentSession ---------------------------
(***************************************************************************)
(* An instance of AgentSession for TLC: a session of at most two turns and *)
(* two tool calls each, while a grant comes and goes and the server may    *)
(* die.                                                                    *)
(***************************************************************************)
EXTENDS AgentSession

CONSTANTS alice, mbr

MCUsers     == {alice}
MCFactories == {mbr}
MCGrants    == {<<alice, mbr>>}
MCOwn       == <<1, 2, 3>>
MCWants     == {[user |-> alice, factory |-> mbr, listing |-> FALSE]}
===============================================================================
