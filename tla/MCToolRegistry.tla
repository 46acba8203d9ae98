--------------------------- MODULE MCToolRegistry ---------------------------
(***************************************************************************)
(* An instance of ToolRegistry for TLC: the exempt tool, three of the      *)
(* seven shipped specs that differ in nothing but the name, and the ways a *)
(* later change could get a spec wrong.                                    *)
(***************************************************************************)
EXTENDS ToolRegistry

CONSTANTS mbr, beta

Changed(name, handler) == [ShippedSpec(name) EXCEPT !.handler = handler]

MCTools == {"list_factories", "get_current_scores", "get_unit_detail", "explain_score"}

MCSpecs ==
  {ShippedSpec(name) : name \in MCTools} \cup
  {[Changed("list_factories", 1) EXCEPT !.field = "optional"],
   [Changed("list_factories", 2) EXCEPT !.field = "strict", !.requires_factory_scope = TRUE],
   [Changed("get_unit_detail", 3) EXCEPT !.field = "required"],
   [Changed("explain_score", 4) EXCEPT !.field = "absent", !.requires_factory_scope = FALSE],
   [Changed("explain_score", 5) EXCEPT !.field = "optional"],
   [Changed("explain_score", 6) EXCEPT !.classification = "write"]}

MCNames     == MCTools \cup {"nosuch"}
MCExempt    == {"list_factories"}
MCFactories == {mbr, beta}
MCHeld      == {mbr}
===============================================================================
