---------------------------- MODULE AgentSession ----------------------------
(***************************************************************************)
(* The diagnostic session of examples/run_diagnostic_session.py as a       *)
(* client of the server: it asks the model for a turn, makes the turn's    *)
(* tool calls one after the other, gives the model their results, and goes *)
(* on until a turn has no tool calls or MaxTurns turns are over.  The      *)
(* server is AuditedAccess, which the pipeline implements: whatever the    *)
(* session can rely on there it can rely on with the pipeline.             *)
(*                                                                         *)
(* The session is one task; it is cut where it awaits: the connection, the *)
(* model's turn, each tool call.  The model (providers/base.py) may answer *)
(* anything, or raise.  A call may raise at the client at any time, before *)
(* its request has arrived, while the server works on it, or when the      *)
(* answer has already left: the server hears nothing of that by itself, so *)
(* a call that was given up may go on beside the next ones.                *)
(***************************************************************************)
EXTENDS AuditedAccess, SequencesExt

CONSTANTS
  OwnCalls,      \* the calls the session may make, in order
  OwnWants,      \* what the model may ask for, as the user of the session's headers
  MaxTurns,      \* MAX_AGENT_TURNS
  MaxToolCalls,  \* bound on the tool calls of one turn
  MaxLate        \* bound on the calls that are given up and still under way

ASSUME OwnCallsAssumption == OwnCalls \in Seq(Calls) /\ IsInjective(OwnCalls) /\ ToSet(OwnCalls) = Calls
ASSUME TurnAssumption     == MaxTurns \in Nat \ {0} /\ MaxToolCalls \in Nat \ {0} /\ MaxLate \in Nat

VARIABLES
  phase,     \* what the session awaits, or how it ended
  turns,     \* turns taken so far
  messages,  \* the conversation
  given      \* results of the tool calls of this turn so far

session     == <<phase, turns, messages, given>>
sessionVars == <<vars, session>>

Question        == [role |-> "user"]
Assistant(cs)   == [role |-> "assistant", calls |-> cs]
ToolResults(rs) == [role |-> "results", results |-> rs]

\* _headers_for_demo_user: one user for all calls of the session.
SessionInit ==
  /\ Init
  /\ \A c \in Calls : wants[c] \in OwnWants
  /\ phase = "connecting"
  /\ turns = 0
  /\ messages = << >>
  /\ given = << >>

\* The calls the model has asked for so far.
Asked == UNION {ToSet(messages[i].calls) : i \in {j \in DOMAIN messages : messages[j].role = "assistant"}}

\* The calls of the turn, and the one under way or about to be.
Turn    == Last(messages).calls
Current == Turn[Len(given) + 1]

\* Calls whose request has left: all that were asked for, save those of this
\* turn that wait for their turn.
Sent == IF phase = "calling" THEN Asked \ {Turn[i] : i \in Len(given) + 2 .. Len(Turn)} ELSE Asked

-------------------------------------------------------------------------------
\* initialize() and list_tools() have returned.
Connect ==
  /\ phase = "connecting"
  /\ phase' = "asking"
  /\ messages' = <<Question>>
  /\ UNCHANGED <<vars, turns, given>>

\* next_turn returns a turn without tool calls.
ModelAnswers ==
  /\ phase = "asking"
  /\ phase' = "answered"
  /\ turns' = turns + 1
  /\ messages' = Append(messages, Assistant(<< >>))
  /\ UNCHANGED <<vars, given>>

\* next_turn returns a turn with n tool calls: what they ask for is in wants.
ModelCalls(n) ==
  /\ phase = "asking"
  /\ Cardinality(Asked) + n <= Len(OwnCalls)
  /\ phase' = "calling"
  /\ turns' = turns + 1
  /\ messages' = Append(messages, Assistant(SubSeq(OwnCalls, Cardinality(Asked) + 1, Cardinality(Asked) + n)))
  /\ UNCHANGED <<vars, given>>

\* Mutant: errors are taken for data.
ContentUnchecked(c) == "data"

\* What _execute_tool_call makes of the answer of a call.
Content(c) == IF answer[c] = "result" THEN "data" ELSE "ERROR"

\* Mutant: the calls after one that failed are not made.
NoteStopping(content) ==
  LET results == Append(given, [call |-> Current, content |-> content])
  IN  IF content = "data" /\ Len(results) < Len(Turn)
      THEN given' = results /\ UNCHANGED <<phase, turns, messages>>
      ELSE /\ messages' = Append(messages, ToolResults(results))
           /\ given' = << >>
           /\ phase' = IF turns = MaxTurns THEN "stopped" ELSE "asking"
           /\ UNCHANGED turns

\* The result is noted; after the last one of the turn the model is told all of
\* them, and asked again unless the turns are over.
Note(content) ==
  LET results == Append(given, [call |-> Current, content |-> content])
  IN  IF Len(results) < Len(Turn)
      THEN given' = results /\ UNCHANGED <<phase, turns, messages>>
      ELSE /\ messages' = Append(messages, ToolResults(results))
           /\ given' = << >>
           /\ phase' = IF turns = MaxTurns THEN "stopped" ELSE "asking"
           /\ UNCHANGED turns

\* Mutant: an answer that is an error is waited out.
CallReturnsData ==
  /\ phase = "calling" /\ stage[Current] = "closed" /\ answer[Current] = "result"
  /\ Note("data")
  /\ UNCHANGED vars

CallReturns ==
  /\ phase = "calling" /\ stage[Current] = "closed"
  /\ Note(Content(Current))
  /\ UNCHANGED vars

UnderWay == {c \in Sent : stage[c] \notin {"closed", "gone"}}

\* call_tool raises: no connection, a timeout, an answer that was lost.
CallRaises ==
  /\ phase = "calling"
  /\ Cardinality(UnderWay) <= MaxLate
  /\ Note("ERROR")
  /\ UNCHANGED vars

\* The model follows the server and its clock no further than the session's end.
Live == phase \in {"connecting", "asking", "calling"}

\* An exception nothing catches: the connection cannot be made or breaks down,
\* or next_turn raises.
SessionFails ==
  /\ Live
  /\ phase' = "failed"
  /\ UNCHANGED <<vars, turns, messages, given>>

\* A request that was sent arrives, possibly after the session has given it up.
RequestArrives(c) == Live /\ Open(c) /\ UNCHANGED session

ServerStep ==
  /\ Live
  /\ (\E c \in Calls : Progress(c)) \/ Vanish \/ ChangeGrants
  /\ UNCHANGED session

ModelTurn ==
  \/ ModelAnswers
  \/ \E n \in 1..MaxToolCalls : ModelCalls(n)

SessionNext ==
  \/ Connect
  \/ ModelTurn
  \/ CallReturns
  \/ CallRaises
  \/ SessionFails
  \/ \E c \in Sent : RequestArrives(c)
  \/ ServerStep

\* Connecting and the model's turn end, if only in an exception (both clients
\* have timeouts), a request that was sent arrives and an answer that left is
\* taken; the server is as fair as it is to anyone.  Nothing says that a call
\* whose server died raises: it may wait for ever.
SessionSpec ==
  /\ SessionInit /\ [][SessionNext]_sessionVars
  /\ WF_sessionVars(Connect)
  /\ WF_sessionVars(ModelTurn)
  /\ WF_sessionVars(phase = "calling" /\ RequestArrives(Current))
  /\ WF_sessionVars(CallReturns)
  /\ \A c \in Calls : WF_sessionVars(Live /\ Progress(c) /\ UNCHANGED session)

-------------------------------------------------------------------------------
\* The conversation with the results of this turn so far, and where in it a
\* result is given as data: in which message, and which of its results.
Transcript  == Append(messages, ToolResults(given))
ResultAt(p) == Transcript[p[1]].results[p[2]]
Told        == UNION {{<<m, k>> : k \in DOMAIN Transcript[m].results} :
                 m \in {i \in DOMAIN Transcript : Transcript[i].role = "results"}}
Data        == {p \in Told : ResultAt(p).content = "data"}

Precedes(p, q) == p[1] < q[1] \/ (p[1] = q[1] /\ p[2] < q[2])

\* The entries of a call in the log.
Entries(c) == {n \in DOMAIN log : log[n].call = c}

\* What the model reasons over is what the server answered for and wrote down:
\* every result it is given as data is of a call that is in the log as a success,
\* once, and the log has them in the order of the conversation, though calls that
\* were given up go on beside it; and the log knows of no call that the model has
\* not asked for.
EvidenceIsOnRecord ==
  /\ \A p \in Data : \E n \in DOMAIN log : Entries(ResultAt(p).call) = {n} /\ log[n].said = "success"
  /\ \A p, q \in Data : Precedes(p, q) =>
       \A m \in Entries(ResultAt(p).call), n \in Entries(ResultAt(q).call) : m < n
  /\ \A n \in DOMAIN log : log[n].call \in Sent

\* Whenever the model is asked, and when it has answered, the conversation is
\* one it can read: every tool call it made has its result, in the order of the
\* calls, in the very next message, failed calls included, and no result stands
\* anywhere else.
ConversationIsComplete ==
  phase \in {"asking", "answered", "stopped"} =>
    /\ messages[1] = Question
    /\ \A i \in DOMAIN messages : messages[i].role = "assistant" =>
         IF messages[i].calls = << >> THEN i = Len(messages)
         ELSE /\ i < Len(messages) /\ messages[i + 1].role = "results"
              /\ [k \in DOMAIN messages[i + 1].results |-> messages[i + 1].results[k].call] = messages[i].calls
    /\ \A i \in DOMAIN messages : messages[i].role = "results" => messages[i - 1].role = "assistant"

\* However the calls end, expired tokens, errors and revocations included, the
\* session ends, unless the server dies on the call it waits for.
SessionEnds ==
  <>(\/ phase \in {"answered", "stopped", "failed"}
     \/ phase = "calling" /\ stage[Current] = "gone")
===============================================================================
