----------------------- MODULE PipelineRefinementProofs -----------------------
(***************************************************************************)
(* The pipeline implements audited access, step by step: every step of it  *)
(* is one step of AuditedAccess or leaves all of its variables alone.      *)
(***************************************************************************)
EXTENDS PipelineRefinement, ToolPipelineProofs

\* The abstract variables the pipeline's own determine.
stageBar == [c \in Calls |-> StageOf(pc[c])]
answerBar == [c \in Calls |-> AnswerOf(reply[c])]
logBar == [i \in DOMAIN file |-> EntryOf(file[i])]
wantsBar == [c \in Calls |-> [user |-> UserId(c), factory |-> FactoryId(c), listing |-> ~Scoped(c)]]

\* A step that moves one call moves its stage and no other.
LEMMA StageMoves ==
  ASSUME TypeOK, NEW c \in Calls, NEW place \in Places, pc' = [pc EXCEPT ![c] = place]
  PROVE  stageBar' = [stageBar EXCEPT ![c] = StageOf(place)]
BY DEF TypeOK, stageBar

LEMMA AnswerMoves ==
  ASSUME TypeOK, NEW c \in Calls, NEW kind \in Replies, reply' = [reply EXCEPT ![c] = kind]
  PROVE  answerBar' = [answerBar EXCEPT ![c] = AnswerOf(kind)]
BY DEF TypeOK, answerBar

\* A chunk appended to the file is an entry appended to the log.
LEMMA LogGrows ==
  ASSUME TypeOK, NEW r, NEW p, file' = Append(file, Chunk(r, p))
  PROVE  logBar' = Append(logBar, EntryOf(Chunk(r, p)))
<1>1. /\ file \in Seq([rec : AuditRecords, part : Parts]) 
      /\ DOMAIN file = 1..Len(file) 
      /\ Len(file) \in Nat
  BY DEF TypeOK, FileTypeOK
<1> DEFINE chunk == Chunk(r, p)
<1> HIDE DEF chunk
<1>2. /\ DOMAIN file' = 1..(Len(file) + 1)
      /\ \A i \in 1..Len(file) : file'[i] = file[i]
      /\ file'[Len(file) + 1] = chunk
  BY <1>1 DEF chunk
<1>3. DOMAIN logBar = 1..Len(file) /\ Len(logBar) = Len(file)
  BY <1>1 DEF logBar
<1>4. logBar' = [i \in 1..(Len(file) + 1) |-> EntryOf(file'[i])]
  BY <1>2 DEF logBar
<1>5. /\ Append(logBar, EntryOf(chunk)) = [i \in 1..(Len(file) + 1) |-> Append(logBar, EntryOf(chunk))[i]]
      /\ \A i \in 1..(Len(file) + 1) :
           Append(logBar, EntryOf(chunk))[i] = IF i = Len(file) + 1 THEN EntryOf(chunk) ELSE logBar[i]
  <2> DEFINE S == {logBar[i] : i \in 1..Len(file)} \cup {EntryOf(chunk)}
  <2>1. logBar \in [1..Len(file) -> S]
    BY <1>1 DEF logBar
  <2>2. logBar \in Seq(S) /\ EntryOf(chunk) \in S
    BY <1>1, <2>1
  <2> HIDE DEF S
  <2> DEFINE longer == Append(logBar, EntryOf(chunk))
  <2>3. longer \in Seq(S) /\ Len(longer) = Len(file) + 1
    BY <1>3, <2>2
  <2>4. \A i \in 1..(Len(file) + 1) : longer[i] = IF i = Len(file) + 1 THEN EntryOf(chunk) ELSE logBar[i]
    BY <1>1, <1>3, <2>2
  <2>5. longer = [i \in 1..(Len(file) + 1) |-> longer[i]]
    <3> HIDE DEF longer
    <3> QED BY <2>3
  <2> QED BY <2>4, <2>5
<1>6. \A i \in 1..(Len(file) + 1) :
        EntryOf(file'[i]) = IF i = Len(file) + 1 THEN EntryOf(chunk) ELSE logBar[i]
  BY <1>1, <1>2 DEF logBar
<1> QED BY <1>4, <1>5, <1>6 DEF chunk

\* emit and the answer that follows it are one settling step.
LEMMA EmitSettles ==
  ASSUME TypeOK, NEW c \in Calls, NEW user, NEW factory, NEW outcome,
         NEW answer \in Replies, Emit(c, user, factory, outcome, answer)
  PROVE  Access!Settle(c, outcome, AnswerOf(answer))
<1> DEFINE record == [call |-> c, session |-> SessionId(c), user |-> user, factory |-> factory,
                      tool |-> req[c].tool, outcome |-> outcome]
<1>1. record.call = c /\ record.outcome = outcome
  OBVIOUS
<1>2. /\ \/ WriteAccepted(record) /\ reply' = [reply EXCEPT ![c] = answer]
         \/ WriteRefused(record) /\ reply' = [reply EXCEPT ![c] = "AuditSinkUnavailable"]
      /\ pc' = [pc EXCEPT ![c] = "replying"]
      /\ UNCHANGED <<grants, req, crashes>>
  BY DEF Emit
<1> HIDE DEF record
<1>3. stageBar' = [stageBar EXCEPT ![c] = "settled"]
  BY <1>2, StageMoves DEF StageOf, Places
<1>4. wantsBar' = wantsBar
  BY <1>2 DEF wantsBar, UserId, FactoryId, Scoped
<1>5. \/ /\ logBar' = Append(logBar, Access!Entry(c, outcome))
         /\ answerBar' = [answerBar EXCEPT ![c] = AnswerOf(answer)]
      \/ /\ logBar' \in {logBar, Append(logBar, Access!Entry(c, "spoiled"))}
         /\ answerBar' = [answerBar EXCEPT ![c] = "unrecorded"]
  <2>1. CASE WriteAccepted(record) /\ reply' = [reply EXCEPT ![c] = answer]
    <3>1. EntryOf(Chunk(record, "line")) = Access!Entry(c, outcome)
      BY <1>1 DEF EntryOf, Chunk, Access!Entry
    <3> QED BY <2>1, <3>1, LogGrows, AnswerMoves DEF WriteAccepted
  <2>2. CASE WriteRefused(record) /\ reply' = [reply EXCEPT ![c] = "AuditSinkUnavailable"]
    <3>1. answerBar' = [answerBar EXCEPT ![c] = "unrecorded"]
      BY <2>2, AnswerMoves DEF AnswerOf, Replies, Errors
    <3>2. CASE file' = file
      BY <3>1, <3>2 DEF logBar
    <3>3. ASSUME NEW p \in Pieces, file' = Append(file, Chunk(record, p))
          PROVE  logBar' = Append(logBar, Access!Entry(c, "spoiled"))
      <4>1. EntryOf(Chunk(record, p)) = Access!Entry(c, "spoiled")
        BY <1>1, PiecesAssumption DEF EntryOf, Chunk, Access!Entry
      <4> QED BY <3>3, <4>1, LogGrows
    <3> QED BY <2>2, <3>1, <3>2, <3>3 DEF WriteRefused
  <2> QED BY <1>2, <2>1, <2>2
<1> QED
  BY <1>2, <1>3, <1>4, <1>5 DEF Access!Settle, stageBar, wantsBar, logBar, answerBar

-------------------------------------------------------------------------------
\* The initial states of the pipeline are initial states of audited access.
LEMMA InitMaps == Init => Access!Init
<1> SUFFICES ASSUME Init PROVE Access!Init
  OBVIOUS
<1>1. wantsBar \in [Calls -> [user : Users \cup {None}, factory : Factories \cup {None}, listing : BOOLEAN]]
  <2>1. \A c \in Calls : req[c] \in RequestRecords
    BY RequestAssumption DEF Init
  <2>2. \A c \in Calls : UserId(c) \in Users \cup {None} /\ FactoryId(c) \in Factories \cup {None}
    BY <2>1 DEF RequestRecords, UserTokens, UserId, FactoryId
  <2>3. \A c \in Calls : (~Scoped(c)) \in BOOLEAN
    BY DEF Scoped
  <2> QED BY <2>2, <2>3 DEF wantsBar
<1>2. stageBar = [c \in Calls |-> "new"] /\ answerBar = [c \in Calls |-> "none"]
  BY DEF Init, stageBar, answerBar, StageOf, AnswerOf
<1>3. logBar = << >>
  BY DEF Init, FileInit, logBar
<1> QED
  BY <1>1, <1>2, <1>3
     DEF Init, GrantInit, Access!Init, Access!GrantInit, stageBar, answerBar, logBar, wantsBar

\* What a step that touches neither requests nor file nor answers leaves alone.
LEMMA Unsaid ==
  ASSUME UNCHANGED <<req, reply, file>>
  PROVE  UNCHANGED <<wantsBar, answerBar, logBar>>
BY DEF wantsBar, answerBar, logBar, UserId, FactoryId, Scoped

\* Every step of the pipeline is a step of audited access, or none.
LEMMA StepMaps == TypeOK /\ [Next]_vars => [Access!Next]_(Access!vars)
<1> SUFFICES ASSUME TypeOK, [Next]_vars PROVE Access!Next \/ UNCHANGED Access!vars
  OBVIOUS
<1>0. ASSUME NEW c \in Calls
      PROVE  /\ stageBar[c] = StageOf(pc[c])
             /\ wantsBar[c] = [user |-> UserId(c), factory |-> FactoryId(c), listing |-> ~Scoped(c)]
  BY DEF stageBar, wantsBar
<1>1. ASSUME NEW c \in Calls, Arrive(c) PROVE Access!Open(c)
  <2>1. stageBar' = [stageBar EXCEPT ![c] = "open"]
    BY <1>1, StageMoves DEF Arrive, Places, StageOf
  <2>2. stageBar[c] = "new"
    BY <1>0, <1>1 DEF Arrive, StageOf
  <2> QED BY <1>1, <2>1, <2>2, Unsaid DEF Arrive, Access!Open, stageBar, wantsBar, answerBar, logBar
<1>2. ASSUME NEW c \in Calls, RejectUnknownTool(c) PROVE Access!Ignore(c)
  <2>1. stageBar' = [stageBar EXCEPT ![c] = "settled"]
    BY <1>2, StageMoves DEF RejectUnknownTool, Places, StageOf
  <2>2. answerBar' = [answerBar EXCEPT ![c] = "unknown"]
    BY <1>2, AnswerMoves DEF RejectUnknownTool, Replies, Errors, AnswerOf
  <2>3. stageBar[c] = "open"
    BY <1>0, <1>2 DEF RejectUnknownTool, StageOf
  <2>4. UNCHANGED <<wantsBar, logBar>>
    BY <1>2 DEF RejectUnknownTool, wantsBar, logBar, UserId, FactoryId, Scoped
  <2> QED
    BY <1>2, <2>1, <2>2, <2>3, <2>4 DEF RejectUnknownTool, Access!Ignore, stageBar, wantsBar, answerBar, logBar
<1>3. ASSUME NEW c \in Calls, RejectService(c) \/ RejectUser(c) \/ RejectArguments(c) PROVE Access!Refuse(c)
  <2>1. PICK answer, user, factory :
          /\ answer \in {"AuthenticationError", "ValidationError"}
          /\ Emit(c, user, factory, "rejected", answer) /\ UNCHANGED result
    BY <1>3 DEF RejectService, RejectUser, RejectArguments
  <2>2. Access!Settle(c, "rejected", "refused")
    BY <2>1, EmitSettles DEF AnswerOf, Replies, Errors
  <2>3. stageBar[c] = "open"
    BY <1>0, <1>3 DEF RejectService, RejectUser, RejectArguments, UserPass, ServicePass, Dispatched, StageOf
  <2> QED BY <2>1, <2>2, <2>3 DEF Access!Refuse, stageBar
<1>4. ASSUME NEW c \in Calls PROVE Access!Entitled(c) <=> Authorized(c)
  <2>1. <<UserId(c), None>> \notin grants
    BY NoneAssumption DEF TypeOK, GrantTypeOK
  <2> QED
    BY <1>0, <2>1 DEF Access!Entitled, Access!IsAuthorized, Authorized, IsAuthorized, wantsBar
<1>5. ASSUME NEW c \in Calls, Deny(c) PROVE Access!Deny(c)
  <2>1. Access!Settle(c, "rejected", "denied")
    BY <1>5, EmitSettles DEF Deny, AnswerOf, Replies, Errors
  <2>2. stageBar[c] = "open"
    BY <1>0, <1>5 DEF Deny, ArgsPass, UserPass, ServicePass, Dispatched, StageOf
  <2> QED BY <1>4, <1>5, <2>1, <2>2 DEF Deny, Access!Deny, stageBar
<1>6. ASSUME NEW c \in Calls, Admit(c) PROVE Access!Enter(c)
  <2>1. stageBar' = [stageBar EXCEPT ![c] = "inside"]
    BY <1>6, StageMoves DEF Admit, Places, StageOf
  <2>2. stageBar[c] = "open"
    BY <1>0, <1>6 DEF Admit, ArgsPass, UserPass, ServicePass, Dispatched, StageOf
  <2> QED BY <1>4, <1>6, <2>1, <2>2, Unsaid DEF Admit, Access!Enter, stageBar, wantsBar, answerBar, logBar
<1>7. ASSUME NEW c \in Calls, HandlerReads(c) PROVE Access!See(c)
  <2>1. stageBar' = [stageBar EXCEPT ![c] = "seen"]
    BY <1>7, StageMoves DEF HandlerReads, Places, StageOf
  <2>2. stageBar[c] = "inside"
    BY <1>0, <1>7 DEF HandlerReads, StageOf
  <2>3. Access!Visible(c) = HandlerData(c)
    <3>1. Scoped(c) => Access!Visible(c) = {FactoryId(c)}
      BY DEF Access!Visible
    <3>2. ~Scoped(c) => Access!Visible(c) = Access!GrantedFactories(UserId(c)) \cap Plants
      BY DEF Access!Visible
    <3>3. Access!GrantedFactories(UserId(c)) = GrantedFactories(UserId(c))
      BY DEF Access!GrantedFactories, GrantedFactories
    <3> QED BY <3>1, <3>2, <3>3 DEF HandlerData, Listing
  <2> QED
    BY <1>7, <2>1, <2>2, <2>3, Unsaid DEF HandlerReads, Access!See, stageBar, wantsBar, answerBar, logBar
<1>8. ASSUME NEW c \in Calls, HandlerReturns(c) PROVE Access!Finish(c)
  <2>1. Access!Settle(c, "success", "result")
    BY <1>8, EmitSettles DEF HandlerReturns, AnswerOf, Replies
  <2>2. stageBar[c] = "seen"
    BY <1>0, <1>8 DEF HandlerReturns, StageOf
  <2> QED BY <1>8, <2>1, <2>2 DEF HandlerReturns, Access!Finish, stageBar
<1>9. ASSUME NEW c \in Calls, HandlerRaises(c) \/ Cancel(c) PROVE Access!Fail(c)
  <2>1. PICK error \in {"HandlerError", "CancelledError"} : HandlerFails(c, error)
    BY <1>9 DEF HandlerRaises, Cancel
  <2>2. Access!Settle(c, "error", "failed")
    BY <2>1, EmitSettles DEF HandlerFails, AnswerOf, Replies, Errors
  <2>3. stageBar[c] \in {"inside", "seen"}
    BY <1>0, <2>1 DEF HandlerFails, StageOf
  <2> QED BY <2>1, <2>2, <2>3 DEF HandlerFails, Access!Fail, stageBar
<1>10. ASSUME NEW c \in Calls, Respond(c) PROVE Access!Close(c)
  <2>1. stageBar' = [stageBar EXCEPT ![c] = "closed"]
    BY <1>10, StageMoves DEF Respond, Places, StageOf
  <2>2. stageBar[c] = "settled"
    BY <1>0, <1>10 DEF Respond, StageOf
  <2> QED BY <1>10, <2>1, <2>2, Unsaid DEF Respond, Access!Close, stageBar, wantsBar, answerBar, logBar
<1>11. ASSUME NEW p \in Grantable, GrantStep(p[1], p[2]) \/ RevokeStep(p[1], p[2]) PROVE Access!ChangeGrants
  <2>1. UNCHANGED <<stageBar, result, crashes>> /\ UNCHANGED <<req, reply, file>>
    BY <1>11 DEF GrantStep, RevokeStep, pipeline, stageBar
  <2>2. Access!Grant(p[1], p[2]) \/ Access!Revoke(p[1], p[2])
    BY <1>11 DEF GrantStep, RevokeStep, Grant, Revoke, Access!Grant, Access!Revoke
  <2> QED BY <2>1, <2>2, Unsaid DEF Access!ChangeGrants, stageBar, wantsBar, answerBar, logBar
<1>12. CASE Restart
  <2>1. stageBar' = [c \in Calls |-> IF stageBar[c] \in {"new", "closed", "gone"} THEN stageBar[c] ELSE "gone"]
    <3>1. ASSUME NEW c \in Calls
          PROVE  StageOf(pc'[c]) = IF StageOf(pc[c]) \in {"new", "closed", "gone"} THEN StageOf(pc[c]) ELSE "gone"
      BY <1>12 DEF Restart, TypeOK, Places, Undecided, StageOf
    <3> QED BY <3>1 DEF stageBar
  <2>2. UNCHANGED <<wantsBar, answerBar, logBar, result>> /\ crashes < MaxCrashes /\ crashes' = crashes + 1
    BY <1>12, Unsaid DEF Restart
  <2> QED
    BY <1>12, <2>1, <2>2
       DEF Access!Next, Restart, GrantReset, Access!Vanish, Access!GrantReset, stageBar, wantsBar, answerBar, logBar
<1>13. CASE Tick \/ UNCHANGED vars
  <2>1. UNCHANGED <<grants, pc, result, crashes>> /\ UNCHANGED <<req, reply, file>>
    BY <1>13 DEF Tick, vars, pipeline
  <2>2. UNCHANGED stageBar
    BY <2>1 DEF stageBar
  <2> QED BY <2>1, <2>2, Unsaid DEF Access!vars, stageBar, wantsBar, answerBar, logBar
<1> QED
  BY <1>1, <1>2, <1>3, <1>5, <1>6, <1>7, <1>8, <1>9, <1>10, <1>11, <1>12, <1>13
     DEF Next, Proceed, Decide, Access!Next, Access!Progress

\* The pipeline implements audited access: whatever the tokens, the arguments,
\* the handlers and the sink do, each call is decided on the grants of one
\* moment and its answer and its log entry are one event.
THEOREM Implements == Spec => ImplementsAuditedAccess
BY InitMaps, StepMaps, TypeCorrect, PTL DEF Spec, ImplementsAuditedAccess, Access!Spec
===============================================================================
