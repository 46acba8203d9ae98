-------------------------- MODULE ToolRegistryProofs --------------------------
(***************************************************************************)
(* For every set of names, specs and factories: whatever is registered and *)
(* replaced in whatever order, before and after the start, no handler runs *)
(* without a factory its caller holds, and no listed tool is unknown.      *)
(***************************************************************************)
EXTENDS ToolRegistry, TLAPS

\* What is registered under a name was accepted under that name.
ToolsOK ==
  /\ tools \in [DOMAIN tools -> SpecRecords]
  /\ \A n \in DOMAIN tools : Accepts(tools[n]) /\ tools[n].name = n

\* The registry never forgets a name that was listed, and nothing is called before
\* the list is made.
ListedOK ==
  /\ DOMAIN listed \subseteq DOMAIN tools
  /\ phase = "building" => ran = Idle
  /\ ListedIsDispatched

RegistryInv == ToolsOK /\ ListedOK /\ NoUnscopedHandler

-------------------------------------------------------------------------------
\* A call that may run either runs for a factory its caller holds or needs none.
LEMMA MayRunScoped ==
  ASSUME NEW spec \in SpecRecords, NEW written \in Written, MayRun(spec, written)
  PROVE  spec.requires_factory_scope => FactoryId(spec, written) \in Held
BY DEF MayRun

LEMMA RegistryInit == Init => RegistryInv
<1> SUFFICES ASSUME Init PROVE RegistryInv
  OBVIOUS
<1>1. ToolsOK
  <2>1. tools = << >> /\ DOMAIN tools = {}
    BY DEF Init, Unset
  <2>2. tools = [n \in DOMAIN tools |-> tools[n]]
    BY <2>1
  <2>3. QED
    BY <2>1, <2>2 DEF ToolsOK
<1>2. ListedOK /\ NoUnscopedHandler
  BY DEF Init, Unset, ListedOK, ListedIsDispatched, NoUnscopedHandler, Idle
<1>3. QED
  BY <1>1, <1>2 DEF RegistryInv

LEMMA RegistryStep == RegistryInv /\ [Next]_vars => RegistryInv'
<1> SUFFICES ASSUME RegistryInv, [Next]_vars PROVE RegistryInv'
  OBVIOUS
<1> USE SpecAssumption DEF RegistryInv
<1>1. ASSUME NEW spec \in Specs, Register(spec) PROVE RegistryInv'
  <2>1. ToolsOK'
    <3>1. tools' = [n \in DOMAIN tools \cup {spec.name} |-> IF n = spec.name THEN spec ELSE tools[n]]
      BY <1>1 DEF Register, With
    <3>2. spec \in SpecRecords /\ Accepts(spec)
      BY <1>1 DEF Register
    <3>3. QED
      BY <3>1, <3>2 DEF ToolsOK, Accepts
  <2>2. ListedOK' /\ NoUnscopedHandler'
    BY <1>1 DEF Register, With, ListedOK, ListedIsDispatched, NoUnscopedHandler
  <2>3. QED
    BY <2>1, <2>2
<1>2. ASSUME NEW spec \in Specs, RegisterRaises(spec) PROVE RegistryInv'
  BY <1>2 DEF RegisterRaises, ToolsOK, Accepts, ListedOK, ListedIsDispatched, NoUnscopedHandler
<1>3. CASE BuildApp
  <2>1. ToolsOK' /\ NoUnscopedHandler'
    BY <1>3 DEF BuildApp, ToolsOK, Accepts, NoUnscopedHandler
  <2>2. ListedOK'
    BY <1>3 DEF BuildApp, ListedOK, ListedIsDispatched, Idle
  <2>3. QED
    BY <2>1, <2>2
<1>4. ASSUME NEW name \in Names, NEW written \in Written, Call(name, written) PROVE RegistryInv'
  <2>1. ToolsOK' /\ ListedOK'
    <3>1. ran' = [status |-> "unknown", name |-> name] => name \notin DOMAIN listed
      <4>1. CASE name \in DOMAIN tools /\ ~MayRun(tools[name], written)
        BY <1>4, <4>1 DEF Call
      <4>2. CASE name \in DOMAIN tools /\ MayRun(tools[name], written)
        BY <1>4, <4>2 DEF Call
      <4>3. CASE name \notin DOMAIN tools
        BY <4>3 DEF ListedOK
      <4> QED BY <4>1, <4>2, <4>3
    <3>2. ran'.status = "unknown" => ran' = [status |-> "unknown", name |-> name]
      BY <1>4 DEF Call
    <3>3. ListedIsDispatched'
      BY <1>4, <3>1, <3>2 DEF Call, ListedIsDispatched
    <3> QED BY <1>4, <3>3 DEF Call, ToolsOK, Accepts, ListedOK
  <2>2. NoUnscopedHandler'
    <3>1. CASE name \notin DOMAIN tools \/ ~MayRun(tools[name], written)
      BY <1>4, <3>1 DEF Call, NoUnscopedHandler
    <3>2. CASE name \in DOMAIN tools /\ MayRun(tools[name], written)
      <4>1. ran' = [status |-> "ran", spec |-> tools[name], factory |-> FactoryId(tools[name], written)]
        BY <1>4, <3>2 DEF Call
      <4>2. tools[name] \in SpecRecords /\ Accepts(tools[name])
        BY <3>2 DEF ToolsOK
      <4>3. tools[name].requires_factory_scope => FactoryId(tools[name], written) \in Held
        BY <3>2, <4>2, MayRunScoped
      <4>4. QED
        BY <4>1, <4>2, <4>3 DEF NoUnscopedHandler, Accepts, SpecRecords
    <3>3. QED
      BY <3>1, <3>2
  <2>3. QED
    BY <2>1, <2>2
<1>5. CASE UNCHANGED vars
  BY <1>5 DEF vars, ToolsOK, Accepts, ListedOK, ListedIsDispatched, NoUnscopedHandler
<1>6. QED
  BY <1>1, <1>2, <1>3, <1>4, <1>5 DEF Next

LEMMA RegistryInvariant == Spec => []RegistryInv
BY RegistryInit, RegistryStep, PTL DEF Spec

\* Register-time gate and call-time check leave no gap: a handler that runs is
\* read-only and runs for a factory its caller holds, or is a reviewed exemption.
THEOREM ScopeCorrect == Spec => []NoUnscopedHandler
<1>1. RegistryInv => NoUnscopedHandler
  BY DEF RegistryInv
<1>2. QED
  BY <1>1, RegistryInvariant, PTL

\* Whatever is registered, replaced or refused after the start, a tool that was
\* listed is dispatched and never answered as unknown.
THEOREM ListingIsDispatched == Spec => []ListedIsDispatched
<1>1. RegistryInv => ListedIsDispatched
  BY DEF RegistryInv, ListedOK
<1>2. QED
  BY <1>1, RegistryInvariant, PTL
===============================================================================
