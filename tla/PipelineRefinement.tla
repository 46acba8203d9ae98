-------------------------- MODULE PipelineRefinement --------------------------
(***************************************************************************)
(* The pipeline implements AuditedAccess: the identities, the arguments    *)
(* and the clock disappear, a chunk of the audit file is an entry (spoiled *)
(* unless its line is complete).                                           *)
(***************************************************************************)
EXTENDS ToolPipeline

StageOf(place) ==
  CASE place = "idle"     -> "new"
    [] place = "arrived"  -> "open"
    [] place = "handling" -> "inside"
    [] place = "computed" -> "seen"
    [] place = "replying" -> "settled"
    [] place = "done"     -> "closed"
    [] place = "lost"     -> "gone"

AnswerOf(kind) ==
  CASE kind = "none" -> "none"
    [] kind = "result" -> "result"
    [] kind \in {"AuthenticationError", "ValidationError"} -> "refused"
    [] kind = "AuthorizationDenied" -> "denied"
    [] kind \in {"HandlerError", "CancelledError"} -> "failed"
    [] kind = "AuditSinkUnavailable" -> "unrecorded"
    [] kind = "LookupError" -> "unknown"

EntryOf(chunk) ==
  [call |-> chunk.rec.call, said |-> IF chunk.part = "line" THEN chunk.rec.outcome ELSE "spoiled"]

Access == INSTANCE AuditedAccess WITH
  wants    <- [c \in Calls |-> [user |-> UserId(c), factory |-> FactoryId(c), listing |-> ~Scoped(c)]],
  stage    <- [c \in Calls |-> StageOf(pc[c])],
  shown    <- result,
  answer   <- [c \in Calls |-> AnswerOf(reply[c])],
  log      <- [i \in DOMAIN file |-> EntryOf(file[i])],
  vanished <- crashes,
  MaxVanish <- MaxCrashes

\* The pipeline implements audited access: whatever the tokens, the arguments,
\* the handlers and the sink do, a call is decided on the grants of one moment
\* and its answer and its log entry are one event.
ImplementsAuditedAccess == Access!Spec

\* Under a fair event loop every call progresses as audited access says, which is
\* what a client that waits for its answers relies on.
CallsProgress == Access!Fairness
===============================================================================
