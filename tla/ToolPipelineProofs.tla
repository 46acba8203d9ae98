------------------------- MODULE ToolPipelineProofs -------------------------
(***************************************************************************)
(* Theorems about the tool-call pipeline, for every set of users,          *)
(* factories, calls and requests and every value of the bounds.            *)
(***************************************************************************)
EXTENDS ToolPipeline, TLAPS

\* What emit does to the state: the file keeps or gains one chunk of the call's
\* own record, and the call is on its way out with its answer or the sink's.
LEMMA EmitTypes ==
  ASSUME TypeOK, NEW c \in Calls, NEW user \in Users \cup {None},
         NEW factory \in Factories \cup {None}, NEW outcome \in Outcomes,
         NEW answer \in Replies, req[c].tool \in Tools,
         Emit(c, user, factory, outcome, answer)
  PROVE  /\ FileTypeOK(AuditRecords)' 
         /\ pc' \in [Calls -> Places] 
         /\ reply' \in [Calls -> Replies]
         /\ UNCHANGED <<grants, now, req, crashes, since, ever, always>>
<1> DEFINE record == [call |-> c, session |-> SessionId(c), user |-> user, factory |-> factory,
                      tool |-> req[c].tool, outcome |-> outcome]
<1>1. record \in AuditRecords
  <2>1. SessionId(c) \in Sessions
    BY RequestAssumption, SessionAssumption DEF TypeOK, SessionId, RequestRecords
  <2> QED BY <2>1 DEF AuditRecords
<1>2. FileTypeOK(AuditRecords)'
  <2>1. \A p \in Parts : Chunk(record, p) \in [rec : AuditRecords, part : Parts]
    BY <1>1 DEF Chunk
  <2>2. \/ file' = file
        \/ \E p \in Parts : file' = Append(file, Chunk(record, p))
    BY PiecesAssumption DEF Emit, WriteAccepted, WriteRefused, Parts
  <2>3. file \in Seq([rec : AuditRecords, part : Parts])
    BY DEF TypeOK, FileTypeOK
  <2>4. file' \in Seq([rec : AuditRecords, part : Parts])
    <3> DEFINE S == [rec : AuditRecords, part : Parts]
    <3>1. ASSUME NEW p \in Parts, file' = Append(file, Chunk(record, p)) PROVE file' \in Seq(S)
      <4>1. Chunk(record, p) \in S
        BY <2>1
      <4>2. file \in Seq(S)
        BY <2>3
      <4> HIDE DEF S, record
      <4> QED BY <3>1, <4>1, <4>2
    <3> QED BY <3>1, <2>2, <2>3
  <2> QED BY <2>4 DEF FileTypeOK, AuditRecords
<1>3. pc' \in [Calls -> Places] /\ reply' \in [Calls -> Replies]
  BY DEF Emit, TypeOK, Places, Replies, Errors
<1> QED BY <1>2, <1>3 DEF Emit, history

\* Every variable keeps its type through every step.
THEOREM TypeCorrect == Spec => []TypeOK
<1>1. Init => TypeOK
  BY SeedAssumption, MaxNowAssumption, CrashAssumption
     DEF Init, TypeOK, GrantInit, GrantTypeOK, ClockInit, ClockTypeOK, FileInit, FileTypeOK,
         Places, Replies
<1>2. TypeOK /\ [Next]_vars => TypeOK'
  <2> SUFFICES ASSUME TypeOK, [Next]_vars PROVE TypeOK'
    OBVIOUS
  <2> USE DEF TypeOK
  <2>0. ASSUME NEW c \in Calls
        PROVE  /\ req[c] \in RequestRecords 
               /\ req[c].tool \in Tools
               /\ UserId(c) \in Users \cup {None}
               /\ FactoryId(c) \in Factories \cup {None}
    BY RequestAssumption DEF RequestRecords, UserTokens, UserId, FactoryId
  <2>1. ASSUME NEW c \in Calls, Arrive(c) PROVE TypeOK'
    BY <2>1, MaxNowAssumption DEF Arrive, GrantedFactories, Places, GrantTypeOK, ClockTypeOK, FileTypeOK
  <2>2. ASSUME NEW c \in Calls, RejectUnknownTool(c) PROVE TypeOK'
    BY <2>2 DEF RejectUnknownTool, Places, Replies, Errors, GrantTypeOK, ClockTypeOK, FileTypeOK, history
  <2>3. ASSUME NEW c \in Calls, RejectService(c) PROVE TypeOK'
    BY <2>3, <2>0, EmitTypes DEF RejectService, Outcomes, Replies, Errors, GrantTypeOK, ClockTypeOK
  <2>4. ASSUME NEW c \in Calls, RejectUser(c) PROVE TypeOK'
    BY <2>4, <2>0, EmitTypes DEF RejectUser, Outcomes, Replies, Errors, GrantTypeOK, ClockTypeOK
  <2>5. ASSUME NEW c \in Calls, RejectArguments(c) PROVE TypeOK'
    BY <2>5, <2>0, EmitTypes DEF RejectArguments, Outcomes, Replies, Errors, GrantTypeOK, ClockTypeOK
  <2>6. ASSUME NEW c \in Calls, Deny(c) PROVE TypeOK'
    BY <2>6, <2>0, EmitTypes DEF Deny, Outcomes, Replies, Errors, GrantTypeOK, ClockTypeOK
  <2>7. ASSUME NEW c \in Calls, Admit(c) PROVE TypeOK'
    BY <2>7 DEF Admit, Places, GrantTypeOK, ClockTypeOK, FileTypeOK, history
  <2>8. ASSUME NEW c \in Calls, HandlerReads(c) PROVE TypeOK'
    BY <2>8, PlantAssumption DEF HandlerReads, Places, GrantTypeOK, ClockTypeOK, FileTypeOK, history
  <2>9. ASSUME NEW c \in Calls, HandlerReturns(c) PROVE TypeOK'
    BY <2>9, <2>0, EmitTypes DEF HandlerReturns, Outcomes, Replies, Errors, GrantTypeOK, ClockTypeOK
  <2>10. ASSUME NEW c \in Calls, HandlerRaises(c) \/ Cancel(c) PROVE TypeOK'
    BY <2>10, <2>0, EmitTypes
       DEF HandlerRaises, Cancel, HandlerFails, Outcomes, Replies, Errors, GrantTypeOK, ClockTypeOK
  <2>11. ASSUME NEW c \in Calls, Respond(c) PROVE TypeOK'
    BY <2>11 DEF Respond, Places, GrantTypeOK, ClockTypeOK, FileTypeOK, history
  <2>12. ASSUME NEW p \in Grantable, GrantStep(p[1], p[2]) PROVE TypeOK'
    BY <2>12, GrantableAssumption
       DEF GrantStep, Grant, GrantTypeOK, ClockTypeOK, FileTypeOK, pipeline
  <2>13. ASSUME NEW p \in Grantable, RevokeStep(p[1], p[2]) PROVE TypeOK'
    BY <2>13 DEF RevokeStep, Revoke, GrantTypeOK, ClockTypeOK, FileTypeOK, pipeline
  <2>14. CASE Restart
    BY <2>14, SeedAssumption, CrashAssumption
       DEF Restart, GrantReset, Places, GrantTypeOK, ClockTypeOK, FileTypeOK, history
  <2>15. CASE Tick
    BY <2>15, MaxNowAssumption DEF Tick, Advance, GrantTypeOK, ClockTypeOK, FileTypeOK, pipeline, history
  <2>16. CASE UNCHANGED vars
    BY <2>16 DEF vars, pipeline, history, GrantTypeOK, ClockTypeOK, FileTypeOK
  <2> QED
    BY <2>1, <2>2, <2>3, <2>4, <2>5, <2>6, <2>7, <2>8, <2>9, <2>10, <2>11, <2>12, <2>13, <2>14,
       <2>15, <2>16 DEF Next, Proceed, Decide
<1> QED BY <1>1, <1>2, PTL DEF Spec

-------------------------------------------------------------------------------
(***************************************************************************)
(* Authorization and identity.  The properties are not inductive: that a   *)
(* denied call's user did not hold the factory throughout, say, rests on   *)
(* what  always  records while the call is undecided.  CallInv is what is  *)
(* kept of every call:                                                     *)
(*   - while a call is undecided, the live grants of its user lie between  *)
(*     the two histories, and the call arrived in the past;                *)
(*   - only a call that is on its way out has an answer;                   *)
(*   - a call beyond the grant check passed it, and both identities;       *)
(*   - a listing was read between the two histories.                       *)
(***************************************************************************)
WindowOK(d) ==
  pc[d] \in Undecided =>
    /\ always[d] \subseteq GrantedFactories(UserId(d))
    /\ GrantedFactories(UserId(d)) \subseteq ever[d]
    /\ since[d] <= now

AnswerOK(d) == pc[d] \in {"idle"} \cup Undecided => reply[d] = "none"

GrantOK(d) ==
  Scoped(d) =>
    /\ Admitted(d) => FactoryId(d) \in ever[d]
    /\ reply[d] = "AuthorizationDenied" => FactoryId(d) \notin always[d]

ListingOK(d) ==
  ~Scoped(d) /\ (pc[d] = "computed" \/ reply[d] = "result") =>
    result[d] \subseteq ever[d] /\ always[d] \cap Plants \subseteq result[d]

IdentityOK(d) ==
  Admitted(d) \/ reply[d] \in {"ValidationError", "AuthorizationDenied"} =>
    ServiceTokenValidAt(req[d].svc, since[d]) /\ UserTokenValidAt(req[d].usr, since[d])

CallInv(d) == WindowOK(d) /\ AnswerOK(d) /\ GrantOK(d) /\ ListingOK(d) /\ IdentityOK(d)
AccessInv  == \A d \in Calls : CallInv(d)

\* A token that is valid now was valid at any earlier time.
LEMMA EarlierValid ==
  ASSUME NEW s \in Nat, NEW t \in Nat, s <= t, NEW svc \in ServiceTokens, NEW usr \in UserTokens
  PROVE  /\ ServiceTokenValidAt(svc, t) => ServiceTokenValidAt(svc, s)
         /\ UserTokenValidAt(usr, t) => UserTokenValidAt(usr, s)
BY DEF ServiceTokenValidAt, UserTokenValidAt, Decodes, ServiceTokens, UserTokens

\* A step that leaves a call and the grants alone keeps what is kept of the call.
LEMMA CallUntouched ==
  ASSUME TypeOK, NEW d \in Calls, CallInv(d), UNCHANGED <<grants, req>>, now <= now', now' \in Nat,
         UNCHANGED <<pc[d], reply[d], result[d], since[d], ever[d], always[d]>>
  PROVE  CallInv(d)'
BY MaxNowAssumption
   DEF CallInv, WindowOK, AnswerOK, GrantOK, ListingOK, IdentityOK, Admitted, Scoped, FactoryId, UserId,
       GrantedFactories, TypeOK, ClockTypeOK, ServiceTokenValidAt, UserTokenValidAt, Decodes

\* The same for every other call when c takes a step.
LEMMA OthersUntouched ==
  ASSUME TypeOK, AccessInv, NEW c \in Calls, UNCHANGED <<grants, req, now>>, CallInv(c)',
         \A d \in Calls \ {c} :
           UNCHANGED <<pc[d], reply[d], result[d], since[d], ever[d], always[d]>>
  PROVE  AccessInv'
<1>1. now <= now' /\ now' \in Nat
  BY MaxNowAssumption DEF TypeOK, ClockTypeOK
<1>2. ASSUME NEW d \in Calls, d # c PROVE CallInv(d)'
  BY <1>1, <1>2, CallUntouched DEF AccessInv
<1> QED BY <1>2 DEF AccessInv

\* What a decision step of the pipeline does besides the file.
LEMMA EmitEffect ==
  ASSUME TypeOK, NEW c \in Calls, NEW user, NEW factory, NEW outcome, NEW answer,
         Emit(c, user, factory, outcome, answer)
  PROVE  /\ pc' = [pc EXCEPT ![c] = "replying"]
         /\ reply'[c] \in {answer, "AuditSinkUnavailable"}
         /\ \A d \in Calls \ {c} : reply'[d] = reply[d]
         /\ UNCHANGED <<grants, now, req, since, ever, always>>
BY DEF Emit, history, TypeOK

\* A rejection before the grant check.
LEMMA RejectedKeeps ==
  ASSUME TypeOK, AccessInv, NEW c \in Calls, pc[c] = "arrived", NEW user, NEW factory, NEW outcome,
         NEW answer \in {"AuthenticationError", "ValidationError", "AuthorizationDenied"},
         Emit(c, user, factory, outcome, answer), UNCHANGED result,
         answer # "AuthenticationError" =>
           ServiceTokenValidAt(req[c].svc, since[c]) /\ UserTokenValidAt(req[c].usr, since[c]),
         answer = "AuthorizationDenied" /\ Scoped(c) => FactoryId(c) \notin always[c]
  PROVE  AccessInv'
<1>1. /\ pc' = [pc EXCEPT ![c] = "replying"]
      /\ reply'[c] \in {answer, "AuditSinkUnavailable"}
      /\ \A d \in Calls \ {c} : reply'[d] = reply[d]
      /\ UNCHANGED <<grants, now, req, since, ever, always>>
  BY EmitEffect
<1>2. pc'[c] = "replying"
  BY <1>1 DEF TypeOK
<1>3. CallInv(c)'
  <2>1. WindowOK(c)' /\ AnswerOK(c)' /\ ListingOK(c)'
    BY <1>1, <1>2 DEF WindowOK, AnswerOK, ListingOK, Undecided
  <2>2. GrantOK(c)'
    BY <1>1, <1>2 DEF GrantOK, Admitted, Scoped, FactoryId
  <2>3. IdentityOK(c)'
    BY <1>1, <1>2 DEF IdentityOK, Admitted, ServiceTokenValidAt, UserTokenValidAt, Decodes
  <2> QED BY <2>1, <2>2, <2>3 DEF CallInv
<1>4. \A d \in Calls \ {c} : UNCHANGED <<pc[d], reply[d], result[d], since[d], ever[d], always[d]>>
  BY <1>1 DEF TypeOK
<1> QED BY <1>1, <1>3, <1>4, OthersUntouched

\* A call that passes both checks now passed them when it arrived.
LEMMA PassedOnArrival ==
  ASSUME TypeOK, AccessInv, NEW c \in Calls, UserPass(c)
  PROVE  /\ pc[c] = "arrived"
         /\ ServiceTokenValidAt(req[c].svc, since[c])
         /\ UserTokenValidAt(req[c].usr, since[c])
<1>1. pc[c] = "arrived" /\ ServiceTokenValidAt(req[c].svc, now) /\ UserTokenValidAt(req[c].usr, now)
  BY DEF UserPass, ServicePass, Dispatched, VerifyServiceToken, VerifyUserContext
<1>2. req[c].svc \in ServiceTokens /\ req[c].usr \in UserTokens
  BY RequestAssumption DEF TypeOK, RequestRecords
<1>3. since[c] \in Nat /\ now \in Nat /\ since[c] <= now
  BY <1>1, MaxNowAssumption DEF TypeOK, ClockTypeOK, AccessInv, CallInv, WindowOK, Undecided
<1> QED BY <1>1, <1>2, <1>3, EarlierValid

LEMMA AccessInvariant == Spec => []AccessInv
<1>1. Init => AccessInv
  BY DEF Init, AccessInv, CallInv, WindowOK, AnswerOK, GrantOK, ListingOK, IdentityOK, Admitted, Undecided
<1>2. TypeOK /\ TypeOK' /\ AccessInv /\ [Next]_vars => AccessInv'
  <2> SUFFICES ASSUME TypeOK, TypeOK', AccessInv, [Next]_vars PROVE AccessInv'
    OBVIOUS
  <2>0. ASSUME NEW c \in Calls
        PROVE  CallInv(c) /\ now \in Nat /\ since[c] \in Nat
    BY MaxNowAssumption DEF AccessInv, TypeOK, ClockTypeOK
  <2>1. ASSUME NEW c \in Calls, Arrive(c) PROVE AccessInv'
    <3>1. CallInv(c)'
      BY <2>0, <2>1 DEF Arrive, TypeOK, CallInv, WindowOK, AnswerOK, GrantOK, ListingOK, IdentityOK,
           Admitted, Undecided, GrantedFactories, UserId
    <3> QED BY <2>1, <3>1, OthersUntouched DEF Arrive, TypeOK
  <2>2. ASSUME NEW c \in Calls, RejectUnknownTool(c) PROVE AccessInv'
    <3>1. CallInv(c)'
      BY <2>0, <2>2 DEF RejectUnknownTool, history, TypeOK, CallInv, WindowOK, AnswerOK, GrantOK,
           ListingOK, IdentityOK, Admitted, Undecided
    <3> QED BY <2>2, <3>1, OthersUntouched DEF RejectUnknownTool, history, TypeOK
  <2>3. ASSUME NEW c \in Calls, RejectService(c) PROVE AccessInv'
    BY <2>3, RejectedKeeps DEF RejectService, Dispatched
  <2>4. ASSUME NEW c \in Calls, RejectUser(c) PROVE AccessInv'
    BY <2>4, RejectedKeeps DEF RejectUser, ServicePass, Dispatched
  <2>5. ASSUME NEW c \in Calls, RejectArguments(c) PROVE AccessInv'
    BY <2>5, RejectedKeeps, PassedOnArrival DEF RejectArguments
  <2>6. ASSUME NEW c \in Calls, Deny(c) PROVE AccessInv'
    <3>1. UserPass(c) /\ pc[c] = "arrived"
      BY <2>6 DEF Deny, ArgsPass, UserPass, ServicePass, Dispatched
    <3>2. Scoped(c) => FactoryId(c) \notin always[c]
      <4>1. always[c] \subseteq GrantedFactories(UserId(c)) /\ always[c] \subseteq Factories
        BY <3>1, <2>0 DEF CallInv, WindowOK, Undecided, TypeOK
      <4>2. Scoped(c) => FactoryId(c) = None \/ ~IsAuthorized(UserId(c), FactoryId(c))
        BY <2>6 DEF Deny, Authorized
      <4> QED BY <4>1, <4>2, NoneAssumption DEF IsAuthorized, GrantedFactories
    <3> QED BY <2>6, <3>1, <3>2, RejectedKeeps, PassedOnArrival DEF Deny
  <2>7. ASSUME NEW c \in Calls, Admit(c) PROVE AccessInv'
    <3>1. UserPass(c) /\ pc[c] = "arrived"
      BY <2>7 DEF Admit, ArgsPass, UserPass, ServicePass, Dispatched
    <3>2. Scoped(c) => FactoryId(c) \in ever[c]
      <4>1. GrantedFactories(UserId(c)) \subseteq ever[c]
        BY <3>1, <2>0 DEF CallInv, WindowOK, Undecided
      <4>2. Scoped(c) => FactoryId(c) \in Factories /\ IsAuthorized(UserId(c), FactoryId(c))
        BY <2>7, RequestAssumption DEF Admit, Authorized, FactoryId, TypeOK, RequestRecords
      <4> QED BY <4>1, <4>2 DEF IsAuthorized, GrantedFactories
    <3>3. CallInv(c)'
      BY <2>0, <2>7, <3>1, <3>2, PassedOnArrival
         DEF Admit, history, TypeOK, CallInv, WindowOK, AnswerOK, GrantOK, ListingOK, IdentityOK,
             Admitted, Undecided, GrantedFactories, UserId, FactoryId, Scoped,
             ServiceTokenValidAt, UserTokenValidAt, Decodes
    <3> QED BY <2>7, <3>3, OthersUntouched DEF Admit, history, TypeOK
  <2>8. ASSUME NEW c \in Calls, HandlerReads(c) PROVE AccessInv'
    <3>1. CallInv(c)'
      BY <2>0, <2>8
         DEF HandlerReads, HandlerData, Listing, history, TypeOK, CallInv, WindowOK, AnswerOK, GrantOK,
             ListingOK, IdentityOK, Admitted, Undecided, GrantedFactories, UserId, FactoryId, Scoped,
             ServiceTokenValidAt, UserTokenValidAt, Decodes
    <3> QED BY <2>8, <3>1, OthersUntouched DEF HandlerReads, history, TypeOK
  <2>9. ASSUME NEW c \in Calls, HandlerReturns(c) \/ HandlerRaises(c) \/ Cancel(c) PROVE AccessInv'
    <3>1. PICK answer \in {"result", "HandlerError", "CancelledError"}, outcome \in Outcomes :
            /\ Emit(c, UserId(c), FactoryId(c), outcome, answer)
            /\ pc[c] \in {"handling", "computed"}
            /\ answer = "result" => pc[c] = "computed" /\ UNCHANGED result
            /\ \A d \in Calls \ {c} : result'[d] = result[d]
      BY <2>9 DEF HandlerReturns, HandlerRaises, Cancel, HandlerFails, Outcomes, TypeOK
    <3>2. /\ pc' = [pc EXCEPT ![c] = "replying"]
          /\ reply'[c] \in {answer, "AuditSinkUnavailable"}
          /\ \A d \in Calls \ {c} : reply'[d] = reply[d]
          /\ UNCHANGED <<grants, now, req, since, ever, always>>
      BY <3>1, EmitEffect
    <3>3. CallInv(c)'
      BY <2>0, <3>1, <3>2
         DEF TypeOK, CallInv, WindowOK, AnswerOK, GrantOK, ListingOK, IdentityOK, Admitted, Undecided,
             UserId, FactoryId, Scoped, ServiceTokenValidAt, UserTokenValidAt, Decodes
    <3>4. \A d \in Calls \ {c} : UNCHANGED <<pc[d], reply[d], result[d], since[d], ever[d], always[d]>>
      BY <3>1, <3>2 DEF TypeOK
    <3> QED BY <3>2, <3>3, <3>4, OthersUntouched
  <2>10. ASSUME NEW c \in Calls, Respond(c) PROVE AccessInv'
    <3>1. CallInv(c)'
      BY <2>0, <2>10
         DEF Respond, history, TypeOK, CallInv, WindowOK, AnswerOK, GrantOK, ListingOK, IdentityOK,
             Admitted, Undecided, UserId, FactoryId, Scoped,
             ServiceTokenValidAt, UserTokenValidAt, Decodes
    <3> QED BY <2>10, <3>1, OthersUntouched DEF Respond, history, TypeOK
  <2>11. ASSUME NEW p \in Grantable, GrantStep(p[1], p[2]) PROVE AccessInv'
    <3>1. p[1] \in Users /\ p[2] \in Factories
      BY GrantableAssumption
    <3>2. ASSUME NEW d \in Calls PROVE CallInv(d)'
      BY <2>0, <2>11, <3>1
         DEF GrantStep, Grant, pipeline, TypeOK, CallInv, WindowOK, AnswerOK, GrantOK, ListingOK,
             IdentityOK, Admitted, Undecided, GrantedFactories, UserId, FactoryId, Scoped,
             ServiceTokenValidAt, UserTokenValidAt, Decodes
    <3> QED BY <3>2 DEF AccessInv
  <2>12. ASSUME NEW p \in Grantable, RevokeStep(p[1], p[2]) PROVE AccessInv'
    <3>1. ASSUME NEW d \in Calls PROVE CallInv(d)'
      BY <2>0, <2>12
         DEF RevokeStep, Revoke, pipeline, TypeOK, CallInv, WindowOK, AnswerOK, GrantOK, ListingOK,
             IdentityOK, Admitted, Undecided, GrantedFactories, UserId, FactoryId, Scoped,
             ServiceTokenValidAt, UserTokenValidAt, Decodes
    <3> QED BY <3>1 DEF AccessInv
  <2>13. CASE Restart
    <3>1. ASSUME NEW d \in Calls PROVE CallInv(d)'
      BY <2>0, <2>13
         DEF Restart, history, TypeOK, CallInv, WindowOK, AnswerOK, GrantOK, ListingOK,
             IdentityOK, Admitted, Undecided, UserId, FactoryId, Scoped,
             ServiceTokenValidAt, UserTokenValidAt, Decodes
    <3> QED BY <3>1 DEF AccessInv
  <2>14. CASE Tick
    <3>1. ASSUME NEW d \in Calls PROVE CallInv(d)'
      BY <2>0, <2>14, CallUntouched DEF Tick, Advance, pipeline, history
    <3> QED BY <3>1 DEF AccessInv
  <2>15. CASE UNCHANGED vars
    <3>1. ASSUME NEW d \in Calls PROVE CallInv(d)'
      BY <2>0, <2>15, CallUntouched DEF vars, pipeline, history
    <3> QED BY <3>1 DEF AccessInv
  <2> QED
    BY <2>1, <2>2, <2>3, <2>4, <2>5, <2>6, <2>7, <2>8, <2>9, <2>10, <2>11, <2>12, <2>13, <2>14, <2>15
       DEF Next, Proceed, Decide
<1> QED BY <1>1, <1>2, TypeCorrect, PTL DEF Spec

\* A scoped call runs its handler only for a factory its user held after it
\* arrived, and is denied only one its user did not hold all that time.
THEOREM AuthorizationCorrect == Spec => []AuthorizationIsLive
<1>1. AccessInv => AuthorizationIsLive
  BY DEF AccessInv, CallInv, GrantOK, AuthorizationIsLive
<1> QED BY <1>1, AccessInvariant, PTL

\* A listing shows only what its user held while the call was under way, and
\* all of what the user held throughout that has a plant record.
THEOREM ListingCorrect == Spec => []ListingIsLive
<1>1. AccessInv => ListingIsLive
  BY DEF AccessInv, CallInv, ListingOK, ListingIsLive
<1> QED BY <1>1, AccessInvariant, PTL

-------------------------------------------------------------------------------
(***************************************************************************)
(* The audit trail.  TrailOK and AuditedOK say of one call what            *)
(* TrailIsTruthful and AnsweredIsAudited say of all; NamedOK says that the *)
(* user a record names is the verified one, and its session the call's.    *)
(***************************************************************************)
TrailOK(d) ==
  /\ \A i, j \in Positions(d) : i = j
  /\ pc[d] \in {"idle"} \cup Undecided => Positions(d) = {}
  /\ \A i \in Positions(d) :
       IF file[i].part = "line"
       THEN reply[d] \in Replies \ {"none", "AuditSinkUnavailable"} /\ file[i].rec.outcome = OutcomeOf(reply[d])
       ELSE reply[d] = "AuditSinkUnavailable"

AuditedOK(d) ==
  Ended(d) /\ reply[d] \notin {"AuditSinkUnavailable", "LookupError"} =>
    \E i \in Positions(d) :
      /\ file[i].part = "line"
      /\ file[i].rec.session = SessionId(d)
      /\ file[i].rec.tool = req[d].tool
      /\ file[i].rec.outcome = OutcomeOf(reply[d])
      /\ Admitted(d) => file[i].rec.user = UserId(d) /\ file[i].rec.factory = FactoryId(d)

NamedOK(d) ==
  \A i \in Positions(d) :
    /\ file[i].rec.session = SessionId(d)
    /\ file[i].rec.user # None =>
         /\ file[i].rec.user = UserId(d)
         /\ ServiceTokenValidAt(req[d].svc, since[d]) /\ UserTokenValidAt(req[d].usr, since[d])

RecordInv(d) == TrailOK(d) /\ AuditedOK(d) /\ NamedOK(d)
TrailInv     == \A d \in Calls : RecordInv(d)

\* What emit does to the file when the call has nothing in it yet.
LEMMA EmitTrail ==
  ASSUME TypeOK, NEW c \in Calls, NEW user, NEW factory, NEW outcome, NEW answer,
         Emit(c, user, factory, outcome, answer), Positions(c) = {}
  PROVE  /\ \A d \in Calls \ {c} : Positions(d)' = Positions(d)
         /\ \A i \in DOMAIN file : i \in DOMAIN file' /\ file'[i] = file[i]
         /\ \A i \in Positions(c)' :
              /\ i = Len(file) + 1
              /\ file'[i].rec = [call |-> c, session |-> SessionId(c), user |-> user, factory |-> factory,
                                 tool |-> req[c].tool, outcome |-> outcome]
              /\ reply'[c] = IF file'[i].part = "line" THEN answer ELSE "AuditSinkUnavailable"
         /\ \/ reply'[c] = "AuditSinkUnavailable"
            \/ /\ reply'[c] = answer
               /\ Len(file) + 1 \in Positions(c)'
               /\ file'[Len(file) + 1].part = "line"
<1> DEFINE record == [call |-> c, session |-> SessionId(c), user |-> user, factory |-> factory,
                      tool |-> req[c].tool, outcome |-> outcome]
<1>1. PICK p \in Parts \cup {"none"} :
        /\ p = "none" => file' = file
        /\ p # "none" => file' = Append(file, Chunk(record, p))
        /\ p = "line" => reply'[c] = answer
        /\ p # "line" => reply'[c] = "AuditSinkUnavailable"
  <2> DEFINE Appended(p) == file' = Append(file, Chunk(record, p))
  <2>1. \/ Appended("line") /\ reply'[c] = answer
        \/ file' = file /\ reply'[c] = "AuditSinkUnavailable"
        \/ (\E p \in Pieces : Appended(p)) /\ reply'[c] = "AuditSinkUnavailable"
    BY DEF Emit, WriteAccepted, WriteRefused, TypeOK
  <2> HIDE DEF Appended
  <2>2. Pieces \subseteq Parts \ {"line"} /\ "line" \in Parts
    BY PiecesAssumption DEF Parts
  <2>3. \E p \in Parts \cup {"none"} :
          /\ p = "none" => file' = file
          /\ p # "none" => Appended(p)
          /\ p = "line" => reply'[c] = answer
          /\ p # "line" => reply'[c] = "AuditSinkUnavailable"
    <3>1. CASE Appended("line") /\ reply'[c] = answer
      BY <2>2, <3>1
    <3>2. CASE file' = file /\ reply'[c] = "AuditSinkUnavailable"
      BY <3>2
    <3>3. ASSUME NEW p \in Pieces, Appended(p), reply'[c] = "AuditSinkUnavailable"
          PROVE  p \in Parts /\ p # "none" /\ p # "line"
      BY PiecesAssumption, <2>2 DEF Parts
    <3> QED BY <2>1, <3>1, <3>2, <3>3
  <2> QED BY <2>3 DEF Appended
<1>2. record.call = c
  OBVIOUS
<1> HIDE DEF record
<1>3. file \in Seq([rec : AuditRecords, part : Parts])
  BY DEF TypeOK, FileTypeOK
<1>4. CASE p = "none"
  BY <1>1, <1>4 DEF Positions
<1>5. CASE p # "none"
  <2>1. /\ DOMAIN file' = DOMAIN file \cup {Len(file) + 1}
        /\ Len(file) + 1 \notin DOMAIN file
        /\ \A i \in DOMAIN file : file'[i] = file[i]
        /\ file'[Len(file) + 1] = Chunk(record, p)
    BY <1>1, <1>3, <1>5
  <2>2. Positions(c)' = {Len(file) + 1} /\ \A d \in Calls \ {c} : Positions(d)' = Positions(d)
    BY <1>2, <2>1 DEF Positions, Chunk
  <2> QED BY <1>1, <1>5, <2>1, <2>2 DEF Chunk, record
<1> QED BY <1>4, <1>5

\* A step that leaves the file and a call's ending alone keeps its record.
LEMMA RecordUntouched ==
  ASSUME TypeOK, NEW d \in Calls, RecordInv(d), UNCHANGED <<req, since[d], reply[d]>>,
         Positions(d)' = Positions(d), \A i \in Positions(d) : file'[i] = file[i],
         pc'[d] \in {"idle"} \cup Undecided => Positions(d) = {},
         Ended(d)' => Ended(d)
  PROVE  RecordInv(d)'
<1>1. TrailOK(d)'
  BY DEF RecordInv, TrailOK
<1>2. AuditedOK(d)'
  BY DEF RecordInv, AuditedOK, SessionId, UserId, FactoryId, Scoped, Admitted, Ended, Undecided
<1>3. NamedOK(d)'
  BY DEF RecordInv, NamedOK, SessionId, UserId, ServiceTokenValidAt, UserTokenValidAt, Decodes
<1> QED BY <1>1, <1>2, <1>3 DEF RecordInv

\* A call that ends through emit ends with its record in the file.
LEMMA EmitKeepsTrail ==
  ASSUME TypeOK, TrailInv, NEW c \in Calls, pc[c] \in Undecided,
         NEW user, NEW factory, NEW outcome,
         NEW answer \in {"result", "AuthenticationError", "ValidationError", "AuthorizationDenied",
                         "HandlerError", "CancelledError"},
         outcome = OutcomeOf(answer),
         Emit(c, user, factory, outcome, answer),
         answer \in {"result", "HandlerError", "CancelledError"} =>
           user = UserId(c) /\ factory = FactoryId(c),
         user # None =>
           /\ user = UserId(c)
           /\ ServiceTokenValidAt(req[c].svc, since[c]) /\ UserTokenValidAt(req[c].usr, since[c])
  PROVE  TrailInv'
<1>1. Positions(c) = {}
  BY DEF TrailInv, RecordInv, TrailOK
<1>2. /\ \A d \in Calls \ {c} : Positions(d)' = Positions(d)
      /\ \A i \in DOMAIN file : i \in DOMAIN file' /\ file'[i] = file[i]
      /\ \A i \in Positions(c)' :
           /\ i = Len(file) + 1
           /\ file'[i].rec = [call |-> c, session |-> SessionId(c), user |-> user, factory |-> factory,
                              tool |-> req[c].tool, outcome |-> outcome]
           /\ reply'[c] = IF file'[i].part = "line" THEN answer ELSE "AuditSinkUnavailable"
      /\ \/ reply'[c] = "AuditSinkUnavailable"
         \/ /\ reply'[c] = answer
            /\ Len(file) + 1 \in Positions(c)'
            /\ file'[Len(file) + 1].part = "line"
  BY <1>1, EmitTrail
<1>3. /\ pc' = [pc EXCEPT ![c] = "replying"]
      /\ \A d \in Calls \ {c} : reply'[d] = reply[d]
      /\ UNCHANGED <<req, since>>
  BY EmitEffect
<1>4. pc'[c] = "replying" /\ \A d \in Calls \ {c} : pc'[d] = pc[d]
  BY <1>3 DEF TypeOK
<1>5. RecordInv(c)'
  <2>1. TrailOK(c)'
    BY <1>2, <1>4 DEF TrailOK, Undecided, OutcomeOf, Replies, Errors
  <2>2. AuditedOK(c)'
    BY <1>2, <1>3, <1>4 DEF AuditedOK, Ended, Admitted, SessionId, UserId, FactoryId, Scoped, OutcomeOf
  <2>3. NamedOK(c)'
    BY <1>2, <1>3 DEF NamedOK, SessionId, UserId, ServiceTokenValidAt, UserTokenValidAt, Decodes
  <2> QED BY <2>1, <2>2, <2>3 DEF RecordInv
<1>6. ASSUME NEW d \in Calls, d # c PROVE RecordInv(d)'
  <2>1. RecordInv(d) /\ (pc[d] \in {"idle"} \cup Undecided => Positions(d) = {})
    BY DEF TrailInv, RecordInv, TrailOK
  <2>2. Ended(d)' => Ended(d)
    BY <1>4, <1>6 DEF Ended
  <2> QED BY <1>2, <1>3, <1>4, <1>6, <2>1, <2>2, RecordUntouched DEF Positions
<1> QED BY <1>5, <1>6 DEF TrailInv

LEMMA TrailInvariant == Spec => []TrailInv
<1>1. Init => TrailInv
  BY DEF Init, FileInit, TrailInv, RecordInv, TrailOK, AuditedOK, NamedOK, Positions, Ended
<1>2. TypeOK /\ AccessInv /\ TrailInv /\ [Next]_vars => TrailInv'
  <2> SUFFICES ASSUME TypeOK, AccessInv, TrailInv, [Next]_vars PROVE TrailInv'
    OBVIOUS
  <2>0. ASSUME NEW c \in Calls
        PROVE  RecordInv(c) /\ (pc[c] \in {"idle"} \cup Undecided => Positions(c) = {})
    BY DEF TrailInv, RecordInv, TrailOK
  \* Steps that leave the file and every ending alone.
  <2>1. ASSUME UNCHANGED <<req, reply, file>>,
               \A d \in Calls : since'[d] = since[d] \/ pc[d] = "idle",
               \A d \in Calls : pc'[d] \in {"idle"} \cup Undecided => pc[d] \in {"idle"} \cup Undecided,
               \A d \in Calls : Ended(d)' => Ended(d)
        PROVE  TrailInv'
    <3>1. ASSUME NEW d \in Calls PROVE RecordInv(d)'
      <4>1. CASE since'[d] = since[d]
        BY <2>0, <2>1, <4>1, RecordUntouched DEF Positions
      <4>2. CASE pc[d] = "idle"
        <5>1. Positions(d)' = {} /\ ~Ended(d)'
          BY <2>0, <2>1, <4>2 DEF Positions, Ended
        <5> QED BY <5>1 DEF RecordInv, TrailOK, AuditedOK, NamedOK
      <4> QED BY <2>1, <4>1, <4>2
    <3> QED BY <3>1 DEF TrailInv
  <2>2. ASSUME NEW c \in Calls, Arrive(c) PROVE TrailInv'
    BY <2>1, <2>2 DEF Arrive, TypeOK, Undecided, Ended
  <2>3. ASSUME NEW c \in Calls, RejectUnknownTool(c) PROVE TrailInv'
    <3>1. Positions(c)' = {} /\ reply'[c] = "LookupError" /\ pc'[c] = "replying"
      BY <2>0, <2>3 DEF RejectUnknownTool, TypeOK, Positions, Undecided
    <3>2. RecordInv(c)'
      BY <3>1 DEF RecordInv, TrailOK, AuditedOK, NamedOK
    <3>3. ASSUME NEW d \in Calls, d # c PROVE RecordInv(d)'
      BY <2>0, <2>3, <3>3, RecordUntouched DEF RejectUnknownTool, TypeOK, Positions, Ended, history
    <3> QED BY <3>2, <3>3 DEF TrailInv
  <2>4. ASSUME NEW c \in Calls, RejectService(c) \/ RejectUser(c) PROVE TrailInv'
    BY <2>4, EmitKeepsTrail
       DEF RejectService, RejectUser, ServicePass, Dispatched, Undecided, OutcomeOf
  <2>5. ASSUME NEW c \in Calls, RejectArguments(c) \/ Deny(c) PROVE TrailInv'
    <3>1. UserPass(c)
      BY <2>5 DEF RejectArguments, Deny, ArgsPass
    <3> QED BY <2>5, <3>1, PassedOnArrival, EmitKeepsTrail DEF RejectArguments, Deny, Undecided, OutcomeOf
  <2>6. ASSUME NEW c \in Calls, Admit(c) \/ HandlerReads(c) PROVE TrailInv'
    BY <2>1, <2>6
       DEF Admit, ArgsPass, UserPass, ServicePass, Dispatched, HandlerReads, history, TypeOK, Undecided, Ended
  <2>7. ASSUME NEW c \in Calls, HandlerReturns(c) \/ HandlerRaises(c) \/ Cancel(c) PROVE TrailInv'
    <3>1. PICK answer \in {"result", "HandlerError", "CancelledError"} :
            Emit(c, UserId(c), FactoryId(c), OutcomeOf(answer), answer)
      BY <2>7 DEF HandlerReturns, HandlerRaises, Cancel, HandlerFails, OutcomeOf
    <3>2. pc[c] \in {"handling", "computed"}
      BY <2>7 DEF HandlerReturns, HandlerRaises, Cancel, HandlerFails
    <3>3. ServiceTokenValidAt(req[c].svc, since[c]) /\ UserTokenValidAt(req[c].usr, since[c])
      BY <3>2 DEF AccessInv, CallInv, IdentityOK, Admitted
    <3> QED BY <3>1, <3>2, <3>3, EmitKeepsTrail DEF Undecided
  <2>8. ASSUME NEW c \in Calls, Respond(c) PROVE TrailInv'
    BY <2>1, <2>8 DEF Respond, history, TypeOK, Undecided, Ended
  <2>9. CASE \E p \in Grantable : GrantStep(p[1], p[2]) \/ RevokeStep(p[1], p[2])
    BY <2>1, <2>9 DEF GrantStep, RevokeStep, pipeline, Ended
  <2>10. CASE Restart
    BY <2>1, <2>10 DEF Restart, history, TypeOK, Undecided, Ended
  <2>11. CASE Tick \/ UNCHANGED vars
    BY <2>1, <2>11 DEF Tick, vars, pipeline, history, Ended
  <2> QED
    BY <2>2, <2>3, <2>4, <2>5, <2>6, <2>7, <2>8, <2>9, <2>10, <2>11 DEF Next, Proceed, Decide
<1> QED BY <1>1, <1>2, TypeCorrect, AccessInvariant, PTL DEF Spec

\* Every answered call, failures of the sink and unknown names apart, has its
\* own complete line in the audit file, and the line says how the call ended.
THEOREM AuditCorrect == Spec => []AnsweredIsAudited
<1>1. TrailInv => AnsweredIsAudited
  BY DEF TrailInv, RecordInv, AuditedOK, AnsweredIsAudited
<1> QED BY <1>1, TrailInvariant, PTL

\* The file never holds two pieces for one call, a piece for a call still under
\* way, or a complete line that contradicts the call's ending.
THEOREM TrailCorrect == Spec => []TrailIsTruthful
<1>1. TrailInv => TrailIsTruthful
  BY DEF TrailInv, RecordInv, TrailOK, TrailIsTruthful
<1> QED BY <1>1, TrailInvariant, PTL

\* Every position of the file is a position of a call.
LEMMA PositionsCover ==
  ASSUME TypeOK, NEW i \in DOMAIN file
  PROVE  file[i].rec.call \in Calls /\ i \in Positions(file[i].rec.call)
<1> DEFINE S == [rec : AuditRecords, part : Parts]
<1>1. file \in Seq(S)
  BY DEF TypeOK, FileTypeOK
<1>2. file[i] \in S
  <2> HIDE DEF S
  <2> QED BY <1>1
<1> QED BY <1>2 DEF AuditRecords, Positions

\* No call gets past the identity checks, or has a user named in the trail,
\* without two tokens that were valid when it arrived.
THEOREM IdentityCorrect == Spec => []IdentityBeforeAccess
<1>1. TypeOK /\ AccessInv /\ TrailInv => IdentityBeforeAccess
  <2> SUFFICES ASSUME TypeOK, AccessInv, TrailInv PROVE IdentityBeforeAccess
    OBVIOUS
  <2>2. ASSUME NEW i \in DOMAIN file, file[i].rec.user # None
        PROVE  LET c == file[i].rec.call
               IN  /\ file[i].rec.user = UserId(c)
                   /\ ServiceTokenValidAt(req[c].svc, since[c]) /\ UserTokenValidAt(req[c].usr, since[c])
    BY <2>2, PositionsCover DEF TrailInv, RecordInv, NamedOK
  <2>3. ASSUME NEW c \in Calls, Admitted(c) \/ reply[c] \in {"ValidationError", "AuthorizationDenied"}
        PROVE  ServiceTokenValidAt(req[c].svc, since[c]) /\ UserTokenValidAt(req[c].usr, since[c])
    BY <2>3 DEF AccessInv, CallInv, IdentityOK
  <2> QED BY <2>2, <2>3 DEF IdentityBeforeAccess
<1> QED BY <1>1, TypeCorrect, AccessInvariant, TrailInvariant, PTL

\* In a file that a query can read, only the last piece may lack its newline.
LEMMA ReadableUpToLast ==
  ASSUME ~QueryRaises, NEW i \in DOMAIN file, file[i].part # "line"
  PROVE  i = Len(file)
<1>1. Parses(i)
  BY DEF QueryRaises
<1> QED BY <1>1 DEF Parses

\* A query of the file that does not raise gives every audited call of the
\* session, no call of another session, and none of them twice; and every record
\* it gives, but perhaps that of a refused call at the end of the file, says how
\* its call ended.
THEOREM ReconstructionCorrect == Spec => []SessionIsReconstructible
<1>1. TypeOK /\ TrailInv => SessionIsReconstructible
  <2> SUFFICES ASSUME TypeOK, TrailInv, NEW s \in Sessions, ~QueryRaises
               PROVE  LET found == QueryBySession(s)
                      IN  /\ \A i \in DOMAIN found :
                               LET c == found[i].call
                               IN  /\ SessionId(c) = s
                                   /\ Ended(c) \/ pc[c] = "lost"
                                   /\ IF reply[c] = "AuditSinkUnavailable" THEN i = Len(file)
                                      ELSE found[i].outcome = OutcomeOf(reply[c])
                          /\ \A c \in Calls :
                               Ended(c) /\ reply[c] \notin {"AuditSinkUnavailable", "LookupError"} /\ SessionId(c) = s
                                 => \E i \in DOMAIN found : found[i].call = c
                          /\ \A i, j \in DOMAIN found : found[i].call = found[j].call => i = j
    BY DEF SessionIsReconstructible
  <2> DEFINE found == QueryBySession(s)
  <2>1. /\ DOMAIN found = {j \in DOMAIN file : file[j].rec.session = s}
        /\ \A i \in DOMAIN found : found[i] = file[i].rec
    BY DEF QueryBySession
  <2> HIDE DEF found
  <2>2. ASSUME NEW i \in DOMAIN found
        PROVE  /\ SessionId(found[i].call) = s
               /\ Ended(found[i].call) \/ pc[found[i].call] = "lost"
               /\ IF reply[found[i].call] = "AuditSinkUnavailable" THEN i = Len(file)
                  ELSE found[i].outcome = OutcomeOf(reply[found[i].call])
    <3> DEFINE c == found[i].call
    <3>1. i \in DOMAIN file /\ found[i] = file[i].rec /\ found[i].session = s
      BY <2>1
    <3>2. c \in Calls /\ i \in Positions(c)
      BY <3>1, PositionsCover
    <3> HIDE DEF c
    <3>3. SessionId(c) = s
      BY <3>1, <3>2 DEF TrailInv, RecordInv, NamedOK
    <3>4. Ended(c) \/ pc[c] = "lost"
      BY <3>2 DEF TrailInv, RecordInv, TrailOK, TypeOK, Places, Undecided, Ended
    <3>5. IF file[i].part = "line"
          THEN reply[c] # "AuditSinkUnavailable" /\ file[i].rec.outcome = OutcomeOf(reply[c])
          ELSE reply[c] = "AuditSinkUnavailable"
      BY <3>2 DEF TrailInv, RecordInv, TrailOK
    <3>6. IF reply[c] = "AuditSinkUnavailable" THEN i = Len(file) ELSE found[i].outcome = OutcomeOf(reply[c])
      BY <3>1, <3>5, ReadableUpToLast
    <3> QED BY <3>3, <3>4, <3>6 DEF c
  <2>3. ASSUME NEW c \in Calls, Ended(c), reply[c] \notin {"AuditSinkUnavailable", "LookupError"}, SessionId(c) = s
        PROVE  \E i \in DOMAIN found : found[i].call = c
    BY <2>1, <2>3 DEF TrailInv, RecordInv, AuditedOK, Positions
  <2>4. \A i, j \in DOMAIN found : found[i].call = found[j].call => i = j
    BY <2>1, PositionsCover DEF TrailInv, RecordInv, TrailOK
  <2> QED BY <2>2, <2>3, <2>4 DEF found
<1> QED BY <1>1, TypeCorrect, TrailInvariant, PTL
===============================================================================
