---------------------------- MODULE ToolPipeline ----------------------------
(***************************************************************************)
(* The one path every tool call takes through the server: dispatch() in    *)
(* server.py and run_tool_call() in registry/pipeline.py, over the grant   *)
(* store, the two identities and the audit file.                           *)
(*                                                                         *)
(* The server is one asyncio event loop.  Between two suspension points a  *)
(* call runs alone, and the only await that suspends is the one on the     *)
(* tool's handler: emit() awaits the sink, whose write() does not suspend. *)
(* So a call is taken in these atomic steps:                               *)
(*   "arrived"  -> dispatch, both identities, the arguments, the grant;    *)
(*                 a call that is turned away is audited in the same step; *)
(*   "handling" -> the handler reads what it needs;                        *)
(*   "computed" -> the handler returns and the success is audited;         *)
(*   "replying" -> the answer leaves the server, or the process dies.      *)
(* While a handler is suspended other calls run, grants change, time       *)
(* passes, and the call may be cancelled.                                  *)
(***************************************************************************)
EXTENDS GrantStore, Identity, AuditFile

CONSTANTS
  Calls,             \* the calls of one behaviour, each made once
  Sessions,          \* pulse session ids, "unknown-session" among them
  UnknownSession,
  Tools,             \* tool names a client may ask for
  RegisteredTools,   \* names the registry holds
  ExemptTools,       \* registered with requires_factory_scope = False
  Requests,          \* what a call may carry
  Plants,            \* factories with a plant record
  Grantable,         \* the pairs whose grant changes while the server runs
  MaxCrashes         \* bound on restarts

RequestRecords ==
  [tool : Tools, session : Sessions \cup {None}, svc : ServiceTokens, usr : UserTokens,
   valid : BOOLEAN,                  \* do the arguments validate?
   factory : Factories \cup {None}]  \* factory_id, None if absent or empty

ASSUME SessionAssumption   == UnknownSession \in Sessions /\ None \notin Sessions
ASSUME ToolAssumption      == ExemptTools \subseteq RegisteredTools /\ RegisteredTools \subseteq Tools
ASSUME RequestAssumption   == Requests \subseteq RequestRecords
ASSUME PlantAssumption     == Plants \subseteq Factories
ASSUME GrantableAssumption == Grantable \subseteq Users \X Factories
ASSUME CrashAssumption     == MaxCrashes \in Nat

VARIABLES
  req,      \* the request each call carries
  pc,       \* where each call is
  result,   \* the factories whose data the handler's return value holds
  reply,    \* how the call ended for the client
  crashes,  \* restarts so far
  since,    \* history: when the call arrived
  ever,     \* history: factories its user held at some time while it was decided
  always    \* history: factories its user held all that time

pipeline == <<req, pc, result, reply>>
history  == <<since, ever, always>>
vars     == <<grants, now, file, pipeline, crashes, history>>

Places   == {"idle", "arrived", "handling", "computed", "replying", "done", "lost"}
Outcomes == {"success", "rejected", "error"}
Errors   == {"LookupError", "AuthenticationError", "ValidationError", "AuthorizationDenied",
             "HandlerError", "CancelledError", "AuditSinkUnavailable"}
Replies  == Errors \cup {"none", "result"}

\* An audit record.  call stands for what tells two records of like calls
\* apart: the arguments, the latency and the timestamp.
AuditRecords ==
  [call : Calls, session : Sessions, user : Users \cup {None},
   factory : Factories \cup {None}, tool : Tools, outcome : Outcomes]

TypeOK ==
  /\ GrantTypeOK
  /\ ClockTypeOK
  /\ FileTypeOK(AuditRecords)
  /\ req \in [Calls -> Requests]
  /\ pc \in [Calls -> Places]
  /\ result \in [Calls -> SUBSET Factories]
  /\ reply \in [Calls -> Replies]
  /\ crashes \in 0..MaxCrashes
  /\ since \in [Calls -> 0..MaxNow]
  /\ ever \in [Calls -> SUBSET Factories]
  /\ always \in [Calls -> SUBSET Factories]

Init ==
  /\ GrantInit
  /\ ClockInit
  /\ FileInit
  /\ req \in [Calls -> Requests]
  /\ pc = [c \in Calls |-> "idle"]
  /\ result = [c \in Calls |-> {}]
  /\ reply = [c \in Calls |-> "none"]
  /\ crashes = 0
  /\ since = [c \in Calls |-> 0]
  /\ ever = [c \in Calls |-> {}]
  /\ always = [c \in Calls |-> {}]

-------------------------------------------------------------------------------
SessionId(c) == IF req[c].session = None THEN UnknownSession ELSE req[c].session
UserId(c)    == req[c].usr.sub
Scoped(c)    == req[c].tool \notin ExemptTools

\* factory_id as run_tool_call holds it once the arguments have validated.
FactoryId(c) == IF Scoped(c) THEN req[c].factory ELSE None

Undecided == {"arrived", "handling", "computed"}

\* A call reaches the server's event loop.
Arrive(c) ==
  /\ pc[c] = "idle"
  /\ pc' = [pc EXCEPT ![c] = "arrived"]
  /\ since' = [since EXCEPT ![c] = now]
  /\ ever' = [ever EXCEPT ![c] = GrantedFactories(UserId(c))]
  /\ always' = [always EXCEPT ![c] = GrantedFactories(UserId(c))]
  /\ UNCHANGED <<grants, now, file, req, result, reply, crashes>>

\* emit(outcome) and then the return or raise that follows it: when the sink
\* refuses the record, AuditSinkUnavailable takes the place of the answer.
\* Mutant: the whole user token is logged, not the id in it.
EmitToken(c, user, factory, outcome, answer) ==
  LET record == [call |-> c, session |-> SessionId(c), user |-> req[c].usr, factory |-> factory,
                 tool |-> req[c].tool, outcome |-> outcome]
  IN  /\ WriteAccepted(record) /\ reply' = [reply EXCEPT ![c] = answer]
      /\ pc' = [pc EXCEPT ![c] = "replying"]
      /\ UNCHANGED <<grants, now, req, crashes, history>>

\* Mutant: a refused record is logged and forgotten, the call goes on.
EmitFailOpen(c, user, factory, outcome, answer) ==
  LET record == [call |-> c, session |-> SessionId(c), user |-> user, factory |-> factory,
                 tool |-> req[c].tool, outcome |-> outcome]
  IN  /\ WriteAccepted(record) \/ WriteRefused(record)
      /\ reply' = [reply EXCEPT ![c] = answer]
      /\ pc' = [pc EXCEPT ![c] = "replying"]
      /\ UNCHANGED <<grants, now, req, crashes, history>>

Emit(c, user, factory, outcome, answer) ==
  LET record == [call |-> c, session |-> SessionId(c), user |-> user, factory |-> factory,
                 tool |-> req[c].tool, outcome |-> outcome]
  IN  /\ \/ WriteAccepted(record) /\ reply' = [reply EXCEPT ![c] = answer]
         \/ WriteRefused(record)  /\ reply' = [reply EXCEPT ![c] = "AuditSinkUnavailable"]
      /\ pc' = [pc EXCEPT ![c] = "replying"]
      /\ UNCHANGED <<grants, now, req, crashes, history>>

\* dispatch(): a name the registry does not hold never enters the pipeline.
RejectUnknownTool(c) ==
  /\ pc[c] = "arrived"
  /\ req[c].tool \notin RegisteredTools
  /\ reply' = [reply EXCEPT ![c] = "LookupError"]
  /\ pc' = [pc EXCEPT ![c] = "replying"]
  /\ UNCHANGED <<grants, now, file, req, result, crashes, history>>

Dispatched(c)  == pc[c] = "arrived" /\ req[c].tool \in RegisteredTools
ServicePass(c) == Dispatched(c) /\ VerifyServiceToken(req[c].svc)
UserPass(c)    == ServicePass(c) /\ VerifyUserContext(req[c].usr)
ArgsPass(c)    == UserPass(c) /\ req[c].valid
Authorized(c)  == Scoped(c) => FactoryId(c) # None /\ IsAuthorized(UserId(c), FactoryId(c))

RejectService(c) ==
  /\ Dispatched(c) /\ ~VerifyServiceToken(req[c].svc)
  /\ Emit(c, None, None, "rejected", "AuthenticationError")
  /\ UNCHANGED result

RejectUser(c) ==
  /\ ServicePass(c) /\ ~VerifyUserContext(req[c].usr)
  /\ Emit(c, None, None, "rejected", "AuthenticationError")
  /\ UNCHANGED result

RejectArguments(c) ==
  /\ UserPass(c) /\ ~req[c].valid
  /\ Emit(c, UserId(c), None, "rejected", "ValidationError")
  /\ UNCHANGED result

\* Mutant: the factory is looked up before the grant.
DenyKnownFactory(c) ==
  /\ ArgsPass(c) /\ ~Authorized(c) /\ FactoryId(c) \in Plants
  /\ Emit(c, UserId(c), FactoryId(c), "rejected", "AuthorizationDenied")
  /\ UNCHANGED result

Deny(c) ==
  /\ ArgsPass(c) /\ ~Authorized(c)
  /\ Emit(c, UserId(c), FactoryId(c), "rejected", "AuthorizationDenied")
  /\ UNCHANGED result

\* Mutant: success is recorded before the handler has run.
AdmitAudited(c) ==
  /\ ArgsPass(c) /\ Authorized(c)
  /\ pc' = [pc EXCEPT ![c] = "handling"]
  /\ WriteAccepted([call |-> c, session |-> SessionId(c), user |-> UserId(c),
                    factory |-> FactoryId(c), tool |-> req[c].tool, outcome |-> "success"])
  /\ UNCHANGED <<grants, now, req, result, reply, crashes, history>>

\* The call is authorized and its handler starts.
Admit(c) ==
  /\ ArgsPass(c) /\ Authorized(c)
  /\ pc' = [pc EXCEPT ![c] = "handling"]
  /\ UNCHANGED <<grants, now, file, req, result, reply, crashes, history>>

-------------------------------------------------------------------------------
\* What the handler's return value shows: list_factories lists the user's live
\* grants that have a plant record, every other tool reads the one factory it
\* was called for and raises when that factory has no plant record.

\* Mutant: the listing is the fleet, what the service principal could read.
FleetListing(c) == Plants

Listing(c) == GrantedFactories(UserId(c)) \cap Plants

HandlerData(c) == IF Scoped(c) THEN {FactoryId(c)} ELSE Listing(c)

HandlerReads(c) ==
  /\ pc[c] = "handling"
  /\ HandlerData(c) \subseteq Plants
  /\ result' = [result EXCEPT ![c] = HandlerData(c)]
  /\ pc' = [pc EXCEPT ![c] = "computed"]
  /\ UNCHANGED <<grants, now, file, req, reply, crashes, history>>

HandlerReturns(c) ==
  /\ pc[c] = "computed"
  /\ Emit(c, UserId(c), FactoryId(c), "success", "result")
  /\ UNCHANGED result

\* The await on the handler raises: an error of its own at any point of its
\* run, or the CancelledError of a call whose client has gone.
HandlerFails(c, error) ==
  /\ pc[c] \in {"handling", "computed"}
  /\ Emit(c, UserId(c), FactoryId(c), "error", error)
  /\ result' = [result EXCEPT ![c] = {}]

HandlerRaises(c) == HandlerFails(c, "HandlerError")
Cancel(c)        == HandlerFails(c, "CancelledError")

\* The answer leaves the server.
Respond(c) ==
  /\ pc[c] = "replying"
  /\ pc' = [pc EXCEPT ![c] = "done"]
  /\ UNCHANGED <<grants, now, file, req, result, reply, crashes, history>>

-------------------------------------------------------------------------------
GrantStep(u, f) ==
  /\ Grant(u, f)
  /\ ever' = [c \in Calls |-> IF pc[c] \in Undecided /\ UserId(c) = u
                              THEN ever[c] \cup {f} ELSE ever[c]]
  /\ UNCHANGED <<now, file, pipeline, crashes, since, always>>

RevokeStep(u, f) ==
  /\ Revoke(u, f)
  /\ always' = [c \in Calls |-> IF pc[c] \in Undecided /\ UserId(c) = u
                                THEN always[c] \ {f} ELSE always[c]]
  /\ UNCHANGED <<now, file, pipeline, crashes, since, ever>>

\* The process dies and is started again: the calls under way get no answer,
\* the audit file stays, the grants are the seeded ones.
Restart ==
  /\ crashes < MaxCrashes
  /\ crashes' = crashes + 1
  /\ pc' = [c \in Calls |-> IF pc[c] \in Undecided \cup {"replying"} THEN "lost" ELSE pc[c]]
  /\ GrantReset
  /\ UNCHANGED <<now, file, req, result, reply, history>>

Tick == Advance /\ UNCHANGED <<grants, file, pipeline, crashes, history>>

Decide(c) ==
  \/ RejectUnknownTool(c)
  \/ RejectService(c)
  \/ RejectUser(c)
  \/ RejectArguments(c)
  \/ Deny(c)
  \/ Admit(c)

Proceed(c) ==
  \/ Decide(c)
  \/ HandlerReads(c)
  \/ HandlerReturns(c)
  \/ HandlerRaises(c)
  \/ Respond(c)

Next ==
  \/ \E c \in Calls : Arrive(c) \/ Proceed(c) \/ Cancel(c)
  \/ \E p \in Grantable : GrantStep(p[1], p[2]) \/ RevokeStep(p[1], p[2])
  \/ Restart
  \/ Tick

Spec == Init /\ [][Next]_vars

\* The event loop runs every task that is ready, and every handler ends: none
\* of them loops or waits on another call.  Nothing makes clients call, grants
\* change, or the process die.
FairSpec == Spec /\ \A c \in Calls : WF_vars(Proceed(c))

-------------------------------------------------------------------------------
(***************************************************************************)
(* Properties.                                                             *)
(***************************************************************************)
Positions(c) == {i \in DOMAIN file : file[i].rec.call = c}
Ended(c)     == pc[c] \in {"replying", "done"}
Admitted(c)  == pc[c] \in {"handling", "computed"} \/ reply[c] \in {"result", "HandlerError", "CancelledError"}

\* How the audit trail names an ending.
OutcomeOf(kind) ==
  CASE kind = "result" -> "success"
    [] kind \in {"HandlerError", "CancelledError"} -> "error"
    [] OTHER -> "rejected"

\* "One audit record per call, whatever the outcome", and fail closed: a call
\* whose ending is on its way to the client, other than by a failure of the
\* sink, has its complete line in the file, with the session, the user and the
\* factory of the call and the outcome the client is told.  The exception is a
\* name the registry does not hold, which is never audited.
AnsweredIsAudited ==
  \A c \in Calls :
    Ended(c) /\ reply[c] \notin {"AuditSinkUnavailable", "LookupError"} =>
      \E i \in Positions(c) :
        /\ file[i].part = "line"
        /\ file[i].rec.session = SessionId(c)
        /\ file[i].rec.tool = req[c].tool
        /\ file[i].rec.outcome = OutcomeOf(reply[c])
        /\ Admitted(c) => file[i].rec.user = UserId(c) /\ file[i].rec.factory = FactoryId(c)

\* The trail never says more than happened: at most one piece of one record
\* for each call, none for a call still under way, and a complete line belongs
\* to a call that ended as the line says (or died before its answer left).  A
\* piece, which may be read as a record as long as nothing follows it, belongs
\* to a call that failed for the sink.
TrailIsTruthful ==
  \A c \in Calls :
    /\ \A i, j \in Positions(c) : i = j
    /\ pc[c] \in {"idle"} \cup Undecided => Positions(c) = {}
    /\ \A i \in Positions(c) :
         IF file[i].part = "line"
         THEN reply[c] \in Replies \ {"none", "AuditSinkUnavailable"} /\ file[i].rec.outcome = OutcomeOf(reply[c])
         ELSE reply[c] = "AuditSinkUnavailable"

\* Authorization is decided per call from live grants: a scoped call runs its
\* handler only if its user held the factory at some time after the call
\* arrived (a revocation counts for every later call until a restart brings the
\* seed back), it is denied only if the user did not hold it all that time, and nothing but
\* the grants decides, so an unknown factory is denied like an ungranted one.
AuthorizationIsLive ==
  \A c \in Calls : Scoped(c) =>
    /\ Admitted(c) => FactoryId(c) \in ever[c]
    /\ reply[c] = "AuthorizationDenied" => FactoryId(c) \notin always[c]

\* The tool exempt from the factory check enforces it itself: a listing shows
\* only factories the caller held while the call was under way, and every
\* factory with a plant record that the caller held throughout.
ListingIsLive ==
  \A c \in Calls : ~Scoped(c) /\ reply[c] = "result" =>
    /\ result[c] \subseteq ever[c]
    /\ always[c] \cap Plants \subseteq result[c]

\* Both identities come first: a call gets to its arguments, its grants or its
\* handler, and the trail names a user for it, only if both of its tokens
\* verified after it arrived, and then the user is the one in the token.
IdentityBeforeAccess ==
  /\ \A c \in Calls :
       Admitted(c) \/ reply[c] \in {"ValidationError", "AuthorizationDenied"} =>
         ServiceTokenValidAt(req[c].svc, since[c]) /\ UserTokenValidAt(req[c].usr, since[c])
  /\ \A i \in DOMAIN file : file[i].rec.user # None =>
       LET c == file[i].rec.call
       IN  /\ file[i].rec.user = UserId(c)
           /\ ServiceTokenValidAt(req[c].svc, since[c]) /\ UserTokenValidAt(req[c].usr, since[c])

\* A session can be reconstructed from the file: either the query raises, or it
\* returns the record of every audited call of the session, calls of that
\* session only, and no call twice.  What it returns beyond the answered calls is
\* of calls that died with the process after their record, and at the very end of
\* the file that of a call whose write failed before the newline: every other
\* record says how its call ended.
SessionIsReconstructible ==
  \A s \in Sessions : ~QueryRaises =>
    LET found == QueryBySession(s)
    IN  /\ \A i \in DOMAIN found :
             LET c == found[i].call
             IN  /\ SessionId(c) = s
                 /\ Ended(c) \/ pc[c] = "lost"
                 /\ IF reply[c] = "AuditSinkUnavailable" THEN i = Len(file)
                    ELSE found[i].outcome = OutcomeOf(reply[c])
        /\ \A c \in Calls :
             Ended(c) /\ reply[c] \notin {"AuditSinkUnavailable", "LookupError"} /\ SessionId(c) = s
               => \E i \in DOMAIN found : found[i].call = c
        /\ \A i, j \in DOMAIN found : found[i].call = found[j].call => i = j

\* Every call that reaches the server is answered, unless the process dies.
EveryCallSettles == \A c \in Calls : pc[c] = "arrived" ~> pc[c] \in {"done", "lost"}

\* audit/models.py:1 and server.py:296-298 say it of every call, unknown names
\* included.
EveryCallIsAudited ==
  \A c \in Calls : Ended(c) /\ reply[c] # "AuditSinkUnavailable" => Positions(c) # {}

\* audit/sink.py:1-4: the call fails rather than proceeding with a gap in the
\* audit trail, so a call that succeeded stays readable.
SuccessStaysReadable ==
  \A c \in Calls : reply[c] = "result" => \E i \in Positions(c) : Parses(i)
===============================================================================
