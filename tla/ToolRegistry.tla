---------------------------- MODULE ToolRegistry ----------------------------
(***************************************************************************)
(* The register-time gate (registry/tool_registry.py), the start of the    *)
(* server (build_registry and build_app in server.py), and what the gate   *)
(* leaves to the call-time checks of run_tool_call.                        *)
(*                                                                         *)
(* A spec is registered under its name; registering the name again         *)
(* replaces it without a word, and whoever holds the registry may do so at *)
(* any time: calls are dispatched to what it holds when they come, while   *)
(* tools/list keeps what build_app found in it.                            *)
(* field is what the argument model says of factory_id: "strict" a         *)
(* required non-empty string, "required" any required value (None and ""   *)
(* validate), "optional", or "absent".  handler tells specs apart that     *)
(* differ in nothing else here.                                            *)
(***************************************************************************)
EXTENDS FiniteSets, Naturals

CONSTANTS
  None,
  Names,
  ExemptNames,      \* FACTORY_SCOPE_EXEMPT_TOOLS
  Specs,            \* what the developers may try to register
  Factories,
  Held              \* the factories the caller holds

Fields == {"strict", "required", "optional", "absent"}
SpecRecords == [name : Names, classification : {"read_only", "write"},
                requires_factory_scope : BOOLEAN, field : Fields, handler : Nat]

\* build_registry(): the eight tools the server ships.
ShippedNames == {"list_factories", "get_plant_overview", "get_unit_detail", "get_current_scores",
                 "explain_score", "get_parameter_history", "get_active_alerts", "get_compliance_status"}
ShippedSpec(name) ==
  [name |-> name, classification |-> "read_only",
   requires_factory_scope |-> name # "list_factories",
   field |-> IF name = "list_factories" THEN "absent" ELSE "strict", handler |-> 0]

ASSUME SpecAssumption  == Specs \subseteq SpecRecords
ASSUME NamesAssumption == ExemptNames \subseteq Names /\ None \notin Factories
ASSUME HeldAssumption  == Held \subseteq Factories

VARIABLES
  phase,    \* building, serving, or aborted when an exception ends the start
  tools,    \* name |-> its spec; the names that are registered are the domain
  listed,   \* what tools/list answers: name |-> the spec whose schema is shown
  ran       \* the last call: the spec that ran and the factory it ran for

vars == <<phase, tools, listed, ran>>

Unset == << >>
Idle  == [status |-> "none"]

Init ==
  /\ phase = "building"
  /\ tools = Unset
  /\ listed = Unset
  /\ ran = Idle

\* Mutant: a tool that asks for no factory scope is let in unreviewed.
AcceptsUnreviewed(spec) ==
  /\ spec.classification = "read_only"
  /\ spec.requires_factory_scope => spec.field \in {"strict", "required"}

\* register() raises NonReadOnlyToolRejected, MissingFactoryScope or
\* UnreviewedFactoryScopeExemption for every other spec.
Accepts(spec) ==
  /\ spec.classification = "read_only"
  /\ spec.requires_factory_scope => spec.field \in {"strict", "required"}
  /\ ~spec.requires_factory_scope => spec.name \in ExemptNames

With(f, name, spec) == [n \in DOMAIN f \cup {name} |-> IF n = name THEN spec ELSE f[n]]

Register(spec) ==
  /\ phase # "aborted" /\ Accepts(spec)
  /\ tools' = With(tools, spec.name, spec)
  /\ UNCHANGED <<phase, listed, ran>>

\* Mutant: the name is freed before the new spec is checked.
RegisterRaisesFreed(spec) ==
  /\ phase # "aborted" /\ ~Accepts(spec)
  /\ phase' = IF phase = "building" THEN "aborted" ELSE phase
  /\ tools' = [n \in DOMAIN tools \ {spec.name} |-> tools[n]]
  /\ UNCHANGED <<listed, ran>>

\* The exception leaves the registry as it was.  Nothing catches it before the
\* server is up: the process does not start.
RegisterRaises(spec) ==
  /\ phase # "aborted" /\ ~Accepts(spec)
  /\ phase' = IF phase = "building" THEN "aborted" ELSE phase
  /\ UNCHANGED <<tools, listed, ran>>

\* build_app: add_tool for every spec that the registry holds now.
BuildApp ==
  /\ phase = "building"
  /\ phase' = "serving"
  /\ listed' = tools
  /\ UNCHANGED <<tools, ran>>

-------------------------------------------------------------------------------
\* A factory_id as the caller wrote it: a factory, None, "" or no such key.
Written == Factories \cup {None, "", "no key"}

Validates(spec, written) ==
  CASE spec.field = "strict"   -> written \in Factories
    [] spec.field = "required" -> written # "no key"
    [] OTHER                   -> TRUE

\* getattr(args, "factory_id", None) or None
FactoryId(spec, written) ==
  IF spec.field # "absent" /\ written \in Factories THEN written ELSE None

MayRun(spec, written) ==
  /\ Validates(spec, written)
  /\ spec.requires_factory_scope => FactoryId(spec, written) # None /\ FactoryId(spec, written) \in Held

Call(name, written) ==
  /\ phase = "serving"
  /\ ran' = IF name \notin DOMAIN tools THEN [status |-> "unknown", name |-> name]
            ELSE IF ~MayRun(tools[name], written) THEN [status |-> "rejected"]
            ELSE [status |-> "ran", spec |-> tools[name], factory |-> FactoryId(tools[name], written)]
  /\ UNCHANGED <<phase, tools, listed>>

Next ==
  \/ \E spec \in Specs : Register(spec) \/ RegisterRaises(spec)
  \/ BuildApp
  \/ \E name \in Names, written \in Written : Call(name, written)

Spec == Init /\ [][Next]_vars

-------------------------------------------------------------------------------
\* No handler runs without a factory its caller holds, unless its tool is one
\* of the reviewed exemptions, and none runs that is not read-only: whatever was
\* registered, replaced and asked for, in any order, before and after the start,
\* the register-time gate and the call-time check leave no gap between them.
NoUnscopedHandler ==
  ran.status = "ran" =>
    /\ ran.spec.classification = "read_only"
    /\ ran.factory \in Held \/ (ran.spec.name \in ExemptNames /\ ~ran.spec.requires_factory_scope)

\* A client that keeps to what tools/list showed it is never told of an unknown
\* tool, the one answer that leaves no audit record: no registration after the
\* start, replacing or refused, takes away what was listed.
ListedIsDispatched == ran.status = "unknown" => ran.name \notin DOMAIN listed
===============================================================================
