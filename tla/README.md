# Diagnostic MCP server: TLA+ models and proofs

The program is a read-only MCP server that lets a diagnostic agent (Pulse) look at the
state of wastewater plants. Each tool call carries two identities, is authorized per
factory against live grants, runs one of eight read-only tools over the plants' readings,
and leaves one record in an append-only audit file. This directory models that program,
checks the models with TLC and proves the central properties with TLAPS.

`PROJECT.json` maps every definition to the lines it stands for. Paths below are relative
to `src/`.

## 1. Inventory

| Component | State | Operations | Must be true of it |
|---|---|---|---|
| Tool-call pipeline, `diagnostic_mcp/registry/pipeline.py` | per call: where it is, its answer | `run_tool_call`: identities, arguments, grant, handler, `emit` | decided on live grants; nothing before two valid identities; exactly one true record per call; fails closed when the record cannot be written; every call ends |
| Grant store, `services/grants.py` | user -> set of factories, in memory | `grant`, `revoke`, `is_authorized`, `granted_factories` | a revocation counts for every later call; a factory that does not exist is answered like one that is not granted |
| Identities, `auth/` | none (tokens, clock) | issue and verify the service token and the user token | expiry, scopes and claims all checked |
| Audit, `audit/sink.py`, `audit/models.py` | the JSONL file | `write`, `query_by_session` | a session can be reconstructed, or the query says it cannot |
| Registry and server start, `registry/tool_registry.py`, `server.py` | name -> spec; what is listed | `register`, `get`, `build_registry`, `build_app`, `dispatch` | only read-only tools; no handler without a factory the caller holds, reviewed exemptions apart; what is listed is dispatched |
| Scoring, `services/scoring.py`, `models/common.py` | none (readings) | `zone_for`, `_value_as_of`, `score_unit` | the score of a day is made of that day's readings; no score without readings |
| `get_current_scores`, `explain_score` | none | two handlers | one story for one date; deltas fit together |
| `get_parameter_history` | none | clip, bucket, disclose | nothing dropped unsaid; agrees with the scores |
| `list_factories` | none | filter by grants | lists what the caller holds |
| `get_active_alerts`, `get_compliance_status` | none (tables) | filter the alerts; judge each limit by its last reading | tiers at the limit; no limit left out; alerts, scores and compliance fit together |
| `get_plant_overview`, `get_unit_detail` | none (records) | lay out a plant's units and flow, a unit's parameters and bands | what one tool names the next can resolve |
| Fixtures, `services/fixtures.py` | tables | lookups, `resolve_as_of` | dates outside the history are refused |
| Settings, `config.py` | environment | read once | - |
| Providers, `providers/` | none | adapter to a model API | - |
| Agent session, `examples/run_diagnostic_session.py` | messages, turn count | turn loop of at most eight turns | every tool call gets its result back, and no result without a record; the loop stops |
| Import gates, `scripts/` | none | scan source text | no write path imported |

How they interact. `server.py` builds one registry, one grant store and one sink, and
gives FastMCP a `dispatch` that looks the tool up and awaits `run_tool_call`. That calls
the two verifiers, validates the arguments with the tool's model, asks the grant store,
awaits the tool's handler, and awaits the sink before it returns or raises. The handlers
read the fixtures; `list_factories` reads the grant store too. Grants are changed from
outside the pipeline. The agent session is a client: it shares nothing with the server but
the calls it makes, and the server hears nothing of it when it gives a call up.

What is hard. The server is a single asyncio event loop, so calls interleave only where
one of them suspends. The shipped handlers do not suspend, but the contract of `ToolSpec`
is an `async` handler and the server exists to put real, suspending reads there; a
cancellation can also arrive only there. What can go wrong: grants and clock moving while
a call is under way, a sink that refuses or tears a record at any ending, cancellation, a
crash between record and answer, dates checked in one form and compared in another, edges
of windows and weeks, tables kept apart that must fit together, two tools telling different
stories, a client that goes on while the server still works for it. `PROJECT.json` lists these under
`hazards`, each at its line.

## 2. Modules

| Module | Models | Used by |
|---|---|---|
| `Principals` | users, factories, None | all of the pipeline |
| `GrantStore` | the relation `grants`, its changes, its two queries, the seed | `ToolPipeline`, `AuditedAccess` |
| `Identity` | tokens as records of what the verifiers read; the clock `now` | `ToolPipeline` |
| `AuditFile` | the file as the sequence of what each write appended: a line, a line without newline, a torn piece | `ToolPipeline` |
| `ToolPipeline` | the composition: `dispatch`, `run_tool_call`, the handler's read, restarts | the proofs, the refinement |
| `AuditedAccess` | abstract specification: what the server promises | `PipelineRefinement`, `AgentSession` |
| `PipelineRefinement` | the mapping from pipeline to audited access | `MCToolPipeline` |
| `ToolPipelineProofs` | the theorems about the pipeline | `PipelineRefinementProofs` |
| `PipelineRefinementProofs` | the theorem that it implements audited access | - |
| `ToolRegistry` | the register-time gate, the start, and what is left to call time | `MCToolRegistry`, its proofs |
| `ToolRegistryProofs` | the theorems about the registry | - |
| `Scoring` | the engine and the two score tools, with the answers a caller holds | `MCScoring`, `ParameterHistory` |
| `ScoringProofs` | the theorems about the scores | `ParameterHistoryProofs` |
| `ParameterHistory` | the history tool, composed with `explain_score` | `PlantReports` |
| `ParameterHistoryProofs` | lemmas about windows, weekly means and series | `PlantReportsProofs` |
| `PlantReports` | overview, unit detail, alerts and compliance, composed with score and history | `Fixtures` |
| `PlantReportsProofs` | the theorems about all six tools | - |
| `Fixtures` | the shipped tables as values for the constants of `PlantReports` | `MCPlantReports` |
| `AgentSession` | the agent's turn loop, composed with the server it calls | `MCAgentSession`, its proofs |
| `AgentSessionProofs` | the theorems about the session | - |
| `MC...` | instances for TLC | the `.cfg` files |

### The pipeline

A call is cut where it may suspend and nowhere else:

| `pc` | Code | Next |
|---|---|---|
| `idle` | the client has not called | `Arrive` |
| `arrived` | `dispatch` up to `await spec.handler(...)`, one step | `RejectUnknownTool`, `RejectService`, `RejectUser`, `RejectArguments`, `Deny`, `Admit` |
| `handling` | inside the handler, before it has read | `HandlerReads`, `HandlerRaises`, `Cancel` |
| `computed` | the handler has what it returns | `HandlerReturns`, `HandlerRaises`, `Cancel` |
| `replying` | record written, answer not yet out | `Respond`; a `Restart` loses the answer |
| `done`, `lost` | answered; died with the process | - |

The checks stand in the code's order, each guard being the negation of the one before
(`Dispatched`, `ServicePass`, `UserPass`, `ArgsPass`, `Authorized`). `Emit` is `emit(...)`
with the `return` or `raise` after it: the sink takes the record and the answer leaves, or
it refuses and `AuditSinkUnavailable` takes the answer's place. Every other way to write
a record than through `Emit` is absent, as in the code.

Three history variables, read by no action, say when a call arrived (`since`) and which
factories its user held at some time (`ever`) or all the time (`always`) while it was not
decided. They are what "live" is measured against.

What is abstracted: time inside an atomic segment does not pass; `call` in a record stands
for the arguments, latency and timestamp that tell two records apart; a token's expiry
is compared as PyJWT compares it; a request with valid arguments and no factory is
possible only for a spec whose argument model admits an empty `factory_id` (the shipped
models ask for one character at least), which is the defence the code keeps for such a
spec.

### The registry

A spec is its name, classification, scope flag, how its argument model declares
`factory_id`, and a number that tells like specs apart. `Register` stores a spec that passes
the gate; `RegisterRaises` leaves the registry alone, and ends the start if the server is not up
yet. `register()` does not know whether it is, so neither does `Register`: calls are dispatched
to the registry as it is, while `tools/list` shows it as `BuildApp` found it. `Call` runs the call-time checks that the gate leaves. The
module shares no variable with `ToolPipeline`, which takes `RegisteredTools` and `ExemptTools` as
constants: nothing in the repository registers a tool once calls are served, and a call holds
on to the spec it was dispatched with.

### Scores and history

`series` is the daily readings, fixed at the start of a behaviour and arbitrary within the
instance. `scores` keeps the last answer per argument, `explained` and `history` the last
answers of the other two tools: what properties relate is what a caller may hold at once.
A date argument is a day and the form it is written in, because `resolve_as_of` checks the
date and returns the text, which is then compared as text. `ParameterHistory` does not need
the form: it parses dates before it uses them.

### What a caller reads about one plant

`PlantReports` puts `get_plant_overview`, `get_unit_detail`, `get_active_alerts` and
`get_compliance_status` beside `explain_score` and `get_parameter_history`. Each is one
action that sets the tool's answer; `effluent` and `alerts` are the tables behind two of
them. No handler has an effect, so what can go wrong is that answers from different tables
do not fit together, which is what the properties relate: any answer of one tool with any
of another, in either order. `Fixtures` has the shipped tables by value (a series is what
its generator returns), in hundredths, which is exact for all of them; the tiers are
compared exactly, as `0.9 * limit` is exact for the shipped limits.

### The agent session

| `phase` | Code | Next |
|---|---|---|
| `connecting` | `initialize`, `list_tools` | `Connect` |
| `asking` | awaits `next_turn` | `ModelAnswers`, `ModelCalls` |
| `calling` | awaits a tool call of the turn | `CallReturns`, `CallRaises` |
| `answered`, `stopped` | a turn without calls; the last turn is over | - |
| `failed` | an exception nothing catches | - (`SessionFails` leads here from every await) |

The server is `AuditedAccess` and not `ToolPipeline`: that the pipeline implements it is
checked by `access` and proved (`Implements`), and the session sees nothing the mapping leaves
out. `CallRaises` is
the client's side of a timeout or a broken stream; it leaves the server's call where it is, so
a request may arrive, run and be recorded while the session is at a later call or a later
turn. Calls of other clients would add entries of their own to the log and are left out;
changes of grants and the death of the server are not.

## 3. What the runs show

| Run | Instance | Shows |
|---|---|---|
| `access_control` | 2 calls (symmetric) of 14 kinds, a grant that changes, clock 0..1, 1 restart | `TypeOK`; `AuthorizationIsLive`: admitted only if the factory was held at some time since arrival, denied only if not held throughout; `ListingIsLive`; `IdentityBeforeAccess`: neither arguments, grants, handler nor a user's name in the trail without two tokens valid on arrival |
| `trail` | 3 calls, 2 sessions, refused and torn writes, 1 restart | `AnsweredIsAudited`, `TrailIsTruthful`, `SessionIsReconstructible` |
| `access` | 2 calls, one of each kind of ending, refused and torn writes, 1 restart, fair | `ImplementsAuditedAccess`: every step is one of the abstract specification or a stutter; `CallsProgress`: its fairness; `EveryCallSettles` |
| `registry` | 4 shipped tools and 6 changes, any order, before and after the start | `NoUnscopedHandler`; `ListedIsDispatched`: a listed name is never answered as unknown, whatever is registered or refused later |
| `scoring` | 2 units, 4 parameters, 3 days, 512 histories | `ScoringTypeOK`, `ScoreOfTheDay`, `NoFabricatedScore`, `DeltaIsDayOverDay`, `ToolsAgree` |
| `plant` | the code's sizes (30 days, 21 raw, weeks of 7) and tables, two courses of readings, effluents at every side of a tier, a limit without readings; any two answers | `NothingDroppedUnsaid`, `PointsCoverWindow`, `BlindSpotsShown`, `RawAgreesWithScore`; `AlertsAgreeWithScores`: an alert is dated by the first day out of the normal zone and carries that day's reading; `NamesCanBeFollowed`: what one tool names the next can resolve; `AlertsAgreeWithCompliance`: over the limit exactly if an active alert says so; `ConformanceIsComplete`: the overall tier is never understated |
| `session` | 3 calls in at most 2 turns of at most 2, a grant that changes, 1 death of the server | `EvidenceIsOnRecord`: what the model is given as data has exactly one record, a success, and the records stand in the order of the conversation; `ConversationIsComplete`: every tool call has its result, in order, in the next message; `SessionEnds` |

Five runs show where the code does not do what its texts say:

| Run | Found |
|---|---|
| `unknown_tool` | a call for a name the registry does not hold is answered without an audit record, though "one audit record per call, whatever the outcome" |
| `torn_trail` | after a write that failed part-way, the next call's line is appended to the piece, the call succeeds, and the query raises for every session from then on |
| `date_forms` | `20260720` or `2026-W30-1` passes `resolve_as_of` and is then compared with `2026-07-20` as text, so the latest reading is used: a future reading |
| `normal_band` | `zone_for` does not look at the normal bounds; where they differ from the watch bounds (`flow_in`, 10 to 15 and 70 to 80) a value outside the normal band is explained as within it |
| `history_zones` | a weekly point is dated by its last day and classified by the mean; on the shipped pressure readings, asked for from the second day on, the point of 2026-08-09 is normal while that day's score says watch and an alert fires |

Every property of a passing run has a mutant: a plausible bug, written next to the
definition it would replace and marked `Mutant`, under which the run finds the property
violated.

### Bounds and why they are enough

- Calls: 2 or 3. Calls interact only through the grants, the clock, the file and the
  process. Two show every order of decide, change and record; the file wants three (a torn
  piece, the line that merges with it, and one after).
- `MaxNow = 1` in `access_control`: the clock runs over 0 and 1 and tokens expire at 1 or at 2,
  so that either token may be the one that expires, before or after arrival. In the other
  pipeline runs 0 (1 in `unknown_tool`, whose calls are of the same kinds): nothing else reads
  the clock.
- `Pieces`: both kinds of piece a failed write may leave where the file is queried (`trail`,
  `torn_trail`), one where they are told apart by nothing (`access`), none where the file is
  not the question.
- `MaxCrashes = 1`: a restart resets all that is volatile, so a second repeats the first.
- Registry: of the seven shipped specs that are alike but for their names, three; each change
  that the gate accepts or refuses is of one of them or of the exempt one.
- Grants that change: one of an existing factory. The user also holds a factory without a
  plant record, from the seed on, so that the handler is reached for it and raises.
- Scoring, 3 days: a first day, a second (whose delta refers to the first) and one in the
  middle of things. Three parameters of one unit in alarm pass the zero of the scale.
- History: window ends at 0, 1, 2, 10, 22, 30, 31 give windows outside the history on either
  side, of one day, clipped on either side, of exactly 21 days, of 22, of 29 and of 30
  (short last weeks of 1, 1 and 2 days), each with its ends exchanged.
- `MaxAnswers = 2` in `plant`: answers do not depend on earlier ones and every property relates
  at most two. The plant of the instance has the membrane of one shipped plant and the
  sludge basin of the other, so that all shipped alerts are there. Its last COD reading is the
  shipped one, nine tenths of the limit, the limit, or a hundredth above it; BOD is at nine
  tenths of its limit and a hundredth above.
- Session: `MaxTurns = 2` and `MaxToolCalls = 2` give a turn of two calls before or after
  another one, and the end of the turns with results unread; `MaxLate = 1` lets a call that was
  given up, and the one given up next, be under way beside the calls after them. The model
  may call until the calls are used up. The server and its grants are followed no further
  than the session's end, where nothing looks at them any more.
- `CHECK_DEADLOCK FALSE` in the pipeline and registry runs: the calls of a behaviour are
  finitely many, and a start that was aborted stays so. In `session` because sessions end and a
  call whose server died may be awaited for ever, in `plant` because a caller stops asking.

### Fairness

`FairSpec` is weak fairness of `Proceed(c)` for each call. The event loop runs every task
that is ready, and a call between its suspension points runs on by itself; no handler waits
for another call, so it ends. `Cancel` is not in `Proceed`, and nothing makes clients call,
grants change, time pass or the process die. The abstract `FairSpec` asks the same of its
`Progress(c)`.

`SessionSpec` adds weak fairness of what the session's own task does when it is ready
(`Connect`, `ModelTurn`, `CallReturns`: the HTTP clients it uses time out, so connecting and
the model's turn end, if only in `SessionFails`), and of the arrival of the request it waits
for. `CallRaises` and `SessionFails` are not fair: nothing says that a call whose server has
died raises, so `SessionEnds` excepts that call.

## 4. What is proved

Everything below holds for every value of the constants under the named assumptions of the
modules, which TLC evaluates in every run. Every safety property of a passing run but
`NamesCanBeFollowed` is stated by a theorem; where one asks for more than the run's constants,
its hypothesis is named.

### The pipeline

`ToolPipelineProofs`, for every set of users, factories, calls, sessions, tools and
requests: requests are well-formed, the seed and the changing grants are pairs of
users and factories, exempt tools are registered, `None` is no user and no factory.

| Theorem | States |
|---|---|
| `TypeCorrect` | `Spec => []TypeOK` |
| `AuthorizationCorrect` | `Spec => []AuthorizationIsLive` |
| `ListingCorrect` | `Spec => []ListingIsLive` |
| `AuditCorrect` | `Spec => []AnsweredIsAudited` |
| `TrailCorrect` | `Spec => []TrailIsTruthful` |
| `IdentityCorrect` | `Spec => []IdentityBeforeAccess` |
| `ReconstructionCorrect` | `Spec => []SessionIsReconstructible` |

None of them is inductive alone. That a denied user did not hold the factory throughout,
say, follows from what `always` is while the call is undecided, not from anything that is
true after the denial.

- `AccessInv`, of every call: while it is undecided, its user's live grants lie between
  `always` and `ever` and it arrived in the past (`WindowOK`); only a call on its way out
  has an answer (`AnswerOK`); a call past the grant check passed it (`GrantOK`) and both
  identities (`IdentityOK`); a listing that was read lies between the two histories
  (`ListingOK`). That a token valid at the decision was valid on arrival is `EarlierValid`.
- `TrailInv`, of every call, on top of it: `TrailOK` and `AuditedOK` are the two trail
  properties for one call, and `NamedOK` says that a record names the call's session, and no
  user but the verified one. The step that matters is `Emit`: `EmitTrail` says what it
  appends, `EmitKeepsTrail` that this is all the call will ever have in the file, because a
  call that emits has nothing there yet; `RecordUntouched` carries the invariant over
  everybody else's steps. `PositionsCover` joins the calls' own records to what a query
  over the whole file returns, and `ReadableUpToLast` says that only the last of it can lack
  its newline. That is how much more than the answered calls a query gives: calls that died
  with the process after their record, and perhaps the last, which the sink refused.

### The refinement

`PipelineRefinementProofs`, under the same assumptions:

| Theorem | States |
|---|---|
| `Implements` | `Spec => ImplementsAuditedAccess`, that is `Access!Spec` under the mapping |

The proof maps each action. `StageMoves` and `AnswerMoves` say how a call's stage and answer
move with its `pc`, `LogGrows` that the abstract log is the file's whole lines and grows by
what an append leaves readable, and `EmitSettles` that recording an outcome and fixing it is
one abstract step. Only `TypeOK` is
needed besides: the abstract steps have the same guards on the live grants and on the answers,
so every step of a well-typed state is matched (`StepMaps`). Fairness is not part of the theorem.

### The registry

`ToolRegistryProofs`, for every set of names, specs and factories, with specs well-formed:

| Theorem | States |
|---|---|
| `ScopeCorrect` | `Spec => []NoUnscopedHandler` |
| `ListingIsDispatched` | `Spec => []ListedIsDispatched` |

Both follow from `RegistryInv`: what is registered under a name was accepted under that
name, and every name that was listed is registered still. Without the first a call could not
tell that the spec it runs ever passed the gate; without the second a registration that was
refused could have taken its predecessor with it. That the listed schema is still that of the
spec is not claimed: a later registration under the same name would change the one and not the
other.

### The session

`AgentSessionProofs`, for any number of turns and calls, of late calls, grants that change
and deaths of the server; the session's calls are a sequence without repetitions:

| Theorem | States |
|---|---|
| `EvidenceCorrect` | `SessionSpec => []EvidenceIsOnRecord` |
| `ConversationCorrect` | `SessionSpec => []ConversationIsComplete` |

`SessionInv` has two halves, and the evidence needs both. `ServerInv` is the server's: a call
that has not arrived has no entry in the log, one that has an answer has at most one and it
fits the answer. `ConversationInv` is the client's: which calls have been made is told by
the messages (`AskedOK`), what stands in which message (`StartOK`, `AssistantOK`, `ResultsOK`)
and how far the present turn's results have come (`GivenOK`, `CallingOK`). `SentOK` joins them:
no call later than the one being waited for has been sent. `EvidenceOK` then says of every
result given as data that its record is there, alone and a success, and comes before those of
all later calls. It is inductive only with `SentOK`: a later call is not in the log when the
earlier one's record is written, so whatever it leaves comes after, however late a call that
was given up arrives.

### Scores

`ScoringProofs`, for any plant, bands and order of codes, any length of the history and any
readings with one for every day:

| Theorem | States |
|---|---|
| `ScoresTyped` | `Spec => []ScoringTypeOK`: healths in 0..100, deltas in -100..100 |
| `NoScoreIsFabricated` | `Spec => []NoFabricatedScore` |
| `ToolsAgreeAlways` | `Spec => []ToolsAgree` |
| `ScoresAreOfTheDay` | `Forms \subseteq {"extended"}` gives `Spec => []ScoreOfTheDay` |
| `DeltasAreDayOverDay` | `Forms \subseteq {"extended"}` gives `Spec => []DeltaIsDayOverDay` |

`Inv` says that every answer held is what the tool would say again, which turns each property
into one of the operators: `ValueOnDay` (the reading chosen is that of the day, or of the last day
for the other forms of a date), `ContributionFacts`, `HealthInScale`, `WorstExists`,
`WorstUnitIsWorst`. The hypothesis on `Forms` cannot be dropped: that is what `date_forms`
shows. The three theorems without it hold for dates in any form.

### What a caller reads about one plant

`PlantReportsProofs`, over the lemmas of `ParameterHistoryProofs`; besides the above, dates are
integers or no dates, limits are naturals, effluent readings are sequences of integers, and
the history is short enough for its weekly summary to keep to the limit on points
(`Today <= 7 * MaxRaw`; 30 and 21 in the code):

| Theorem | States | Asks for |
|---|---|---|
| `PlantInvariant` | `PlantSpec => []PlantInv` | |
| `NothingDroppedCorrect` | `PlantSpec => []NothingDroppedUnsaid` | |
| `PointsCoverCorrect` | `PlantSpec => []PointsCoverWindow` | |
| `BlindSpotsCorrect` | `PlantSpec => []BlindSpotsShown` | |
| `RawAgreesCorrect` | `PlantSpec => []RawAgreesWithScore` | dates written YYYY-MM-DD |
| `ConformanceCorrect` | `PlantSpec => []ConformanceIsComplete` | |
| `AlertsAgreeCorrect` | `PlantSpec => []AlertsAgreeWithScores` | the same, and `AlertsAreOfTheReadings` |
| `ComplianceAgreesCorrect` | `PlantSpec => []AlertsAgreeWithCompliance` | `ExceedancesAreAlerted` |

`AlertsAgreeCorrect` and `ComplianceAgreesCorrect` are about tables that nothing computes from one another. Their hypotheses say
of the tables what the comments in `fixtures.py` say of the shipped ones, and the theorems that
the tools then add no disagreement of their own: not by the reading they pick, the window they
cut, the tier they give or the alerts they filter. That the shipped tables are such is what
`plant` shows.

`PlantInv` says again that every answer held is what its tool would say again, of tables that
stay what they were. The work is in the operators: `ClipFacts` (whatever two dates are given,
the window is one of the history), `WindowReadings`, `WeekBounds` (the weeks are the window's
days, seven at a time), and the weekly mean. `Totals` is a recursive function; that it exists
for every number of readings (`SumsExist`), is an integer (`TotalsAreInts`) and grows by at
least the least and at most the greatest reading (`SumIsBounded`) is proved by taking the
smallest number for which it fails, and `MeanIsAmong` bounds the rounded mean.

### What stays with TLC

Liveness and fairness: `EveryCallSettles`, `CallsProgress` and `SessionEnds`. That the shipped
tables satisfy the hypotheses above, and the five runs that find violations.
`NamesCanBeFollowed` is a statement about the tables: the tools pass their names on as they are,
so a theorem would have to assume of the tables what it concludes.

## 5. What is not modelled

- A sink that suspends in `write`. The shipped ones do not; with one that does (the real store
  that is to replace the file) other calls, a second cancellation and a restart would fit
  between a decision and its record.
- Failures of a write other than an `OSError`: `sink.py:36` turns only that into
  `AuditSinkUnavailable`, so what the record's serialisation raises ends the call under its own
  name, recorded as little. And a `close` that fails after the whole line reached the file: the
  call is told `AuditSinkUnavailable` and its line stays, which no element of `Pieces` is.
- A signed service token whose `scopes` claim is not a list of strings: `verify_service_token`
  then raises what `pipeline.py:112` does not catch. The model's tokens carry a set of scopes.
- A handler that never ends: the call is awaited without a timeout, and the fairness assumes
  that handlers end.
- What a revocation is worth after a restart: `Restart` brings back the seed, as the code does,
  and decisions are measured against the live grants.
- What the operating system keeps of a file that was closed and not synced, when the
  machine and not only the process dies.
- The in-memory and the always-failing sink, which are test doubles: the sink that never
  and the one that always refuses.
- FastMCP, transport, settings, logging. Settings are environment variables read once.
- Names, geometry, instruments, engines, rule names, severities and hints in the answers of the
  tools: static text that nothing else depends on. Likewise the series of do and mlss, and what
  the second shipped plant has apart from its basin and its effluent.
- The adapter to the model's API beyond what it returns, and the model's stop reason: a turn
  that was cut short and has no tool calls is taken for the final answer.
- The import gates: CI scripts that look once at each import statement of a source tree. (One
  looks at the module of a from-import and not at its names, so `from package import write`
  passes it.)
- That effluent parameters have no history although `compliance_status.py:119-121` sends
  callers to `get_parameter_history` for them (`fixtures.py:499-504` knows it, and leaves the
  unit of the effluent alert empty for that reason). The model has this behaviour (`MCCodes` asks
  for `cod`, and `BlindSpotsShown` says that the answer tells a blind spot); no run states the
  sentence, and `NamesCanBeFollowed` leaves this hop out.
- The wording of rationales and of the bounding reason; a code asked for twice in one
  `get_parameter_history` call, which is answered twice alike.

## 6. Plan

Done, in this order: the pipeline over its three stores; its abstract specification and
refinement; its theorems; registry and start; scores; history; the agent session over the
abstract specification; the plant reports over the shipped tables; the theorems of the registry.

Then the remaining safety theorems: the refinement, the reconstruction of a session, the
session, the scores, the history and the plant reports.

Next:

1. A suspending sink as a variant of `AuditFile`: what survives of the trail properties when
   `write` may be cancelled.
2. Two clients with sessions of their own, if an instance small enough can be found.
