-------------------------- MODULE AgentSessionProofs --------------------------
(***************************************************************************)
(* Theorems about the agent session, for any number of calls, turns and    *)
(* tool calls, any grants and any misfortune of the server's.              *)
(***************************************************************************)
EXTENDS AgentSession, FiniteSetTheorems, TLAPS

(***************************************************************************)
(* The server: what its log says of each call.                             *)
(***************************************************************************)
Stages    == {"new", "open", "inside", "seen", "settled", "closed", "gone"}
UnderTest == {"new", "open", "inside", "seen"}
LogEntries == [call : Calls, said : {"rejected", "success", "error", "spoiled"}]

LogTypeOK == stage \in [Calls -> Stages] /\ DOMAIN answer = Calls /\ log \in Seq(LogEntries)

\* A call has no entry before it is settled, at most one ever, and a result
\* only with a success.
EntryOK(c) ==
  /\ stage[c] \in UnderTest => Entries(c) = {} /\ answer[c] = "none"
  /\ \A m, n \in Entries(c) : m = n
  /\ answer[c] = "result" => \E n \in Entries(c) : log[n].said = "success"

ServerInv == LogTypeOK /\ \A c \in Calls : EntryOK(c)

\* Every entry of d stands before every entry of c.
Before(d, c) == \A m \in Entries(d), n \in Entries(c) : m < n

\* One entry more is the last one, and the entry of its call.
LEMMA LogAppended ==
  ASSUME LogTypeOK, NEW e \in LogEntries, log' = Append(log, e)
  PROVE  /\ log' \in Seq(LogEntries)
         /\ Len(log) + 1 \in DOMAIN log' /\ log'[Len(log) + 1] = e
         /\ \A n \in DOMAIN log : n < Len(log) + 1 /\ n \in DOMAIN log' /\ log'[n] = log[n]
         /\ \A c \in Calls : Entries(c)' = IF c = e.call THEN Entries(c) \cup {Len(log) + 1} ELSE Entries(c)
<1>1. log \in Seq(LogEntries)
  BY DEF LogTypeOK
<1>2. /\ log' \in Seq(LogEntries)
      /\ DOMAIN log = 1..Len(log) /\ DOMAIN log' = 1..(Len(log) + 1) /\ Len(log) \in Nat
      /\ \A n \in DOMAIN log : log'[n] = log[n]
      /\ log'[Len(log) + 1] = e
  BY <1>1
<1> QED BY <1>2 DEF Entries

\* What a step of the server never does: undo an answer that was taken, add
\* to the log for a call that is over, or mention a call that has not arrived.
StepOK ==
  \A d \in Calls :
    /\ stage[d] = "closed" => stage'[d] = "closed" /\ answer'[d] = answer[d]
    /\ \A c \in Calls : stage[d] = "closed" /\ Before(d, c) => Before(d, c)'

\* A settling step, from the stages that are under way.
LEMMA SettleKeeps ==
  ASSUME ServerInv, NEW c \in Calls, stage[c] \in {"open", "inside", "seen"},
         NEW said \in {"rejected", "success", "error"}, NEW ans,
         ans = "result" => said = "success", Settle(c, said, ans)
  PROVE  ServerInv' /\ StepOK
<1>1. /\ stage' = [stage EXCEPT ![c] = "settled"]
      /\ stage'[c] = "settled" /\ \A d \in Calls \ {c} : stage'[d] = stage[d]
      /\ stage' \in [Calls -> Stages]
  BY DEF Settle, ServerInv, LogTypeOK, Stages
<1>2. Entries(c) = {} /\ answer[c] = "none"
  BY DEF ServerInv, EntryOK, UnderTest
<1>3. DOMAIN answer' = Calls /\ \A d \in Calls \ {c} : answer'[d] = answer[d]
  BY DEF Settle, ServerInv, LogTypeOK
<1>4. CASE log' = log /\ answer'[c] = "unrecorded"
  <2>1. \A d \in Calls : Entries(d)' = Entries(d)
    BY <1>4 DEF Entries
  <2>2. \A d \in Calls : EntryOK(d)'
    BY <1>1, <1>2, <1>3, <1>4, <2>1 DEF ServerInv, EntryOK, UnderTest
  <2> QED
    BY <1>1, <1>3, <1>4, <2>1, <2>2 DEF ServerInv, LogTypeOK, StepOK, Before
<1>5. ASSUME NEW s \in {said, "spoiled"}, log' = Append(log, Entry(c, s)),
             s = "spoiled" => answer'[c] = "unrecorded", s = said => answer'[c] = ans
      PROVE  ServerInv' /\ StepOK
  <2> DEFINE e == Entry(c, s)
  <2>1. e \in LogEntries /\ e.call = c /\ e.said = s
    BY DEF Entry, LogEntries
  <2> HIDE DEF e
  <2>2. /\ log' \in Seq(LogEntries)
        /\ Len(log) + 1 \in DOMAIN log' /\ log'[Len(log) + 1] = e
        /\ \A n \in DOMAIN log : n < Len(log) + 1 /\ n \in DOMAIN log' /\ log'[n] = log[n]
        /\ Entries(c)' = {Len(log) + 1}
        /\ \A d \in Calls \ {c} : Entries(d)' = Entries(d)
    BY <1>2, <1>5, <2>1, LogAppended DEF ServerInv, e
  <2>3. EntryOK(c)'
    BY <1>1, <1>5, <2>1, <2>2 DEF EntryOK, UnderTest
  <2>4. ASSUME NEW d \in Calls, d # c PROVE EntryOK(d)'
    <3>1. EntryOK(d) /\ Entries(d) \subseteq DOMAIN log
      BY DEF ServerInv, Entries
    <3> QED BY <1>1, <1>3, <2>2, <2>4, <3>1 DEF EntryOK
  <2>5. StepOK
    <3>1. ASSUME NEW d \in Calls, stage[d] = "closed" PROVE stage'[d] = "closed" /\ answer'[d] = answer[d]
      BY <1>1, <1>3, <3>1
    <3>2. ASSUME NEW d \in Calls, stage[d] = "closed", NEW b \in Calls, Before(d, b) PROVE Before(d, b)'
      <4>1. Entries(d)' = Entries(d) /\ Entries(d) \subseteq DOMAIN log
        BY <2>2, <3>2 DEF Entries
      <4> QED BY <2>2, <3>2, <4>1 DEF Before
    <3> QED BY <3>1, <3>2 DEF StepOK
  <2> QED BY <1>1, <1>3, <2>2, <2>3, <2>4, <2>5 DEF ServerInv, LogTypeOK
<1> QED BY <1>3, <1>4, <1>5 DEF Settle, ServerInv, LogTypeOK

\* A step that leaves the log and the answers alone.
LEMMA SilentKeeps ==
  ASSUME ServerInv, UNCHANGED <<log, answer>>, stage' \in [Calls -> Stages],
         \A d \in Calls : stage'[d] \in UnderTest => stage[d] \in UnderTest,
         \A d \in Calls : stage[d] = "closed" => stage'[d] = "closed"
  PROVE  ServerInv' /\ StepOK
<1>1. \A d \in Calls : Entries(d)' = Entries(d)
  BY DEF Entries
<1>2. \A d \in Calls : EntryOK(d)'
  BY <1>1 DEF ServerInv, EntryOK
<1> QED BY <1>1, <1>2 DEF ServerInv, LogTypeOK, StepOK, Before

LEMMA ServerKeeps ==
  ASSUME ServerInv, Next
  PROVE  ServerInv' /\ StepOK
<1> USE DEF ServerInv, LogTypeOK
<1>1. ASSUME NEW c \in Calls, Open(c) \/ Enter(c) \/ See(c) \/ Close(c) PROVE ServerInv' /\ StepOK
  BY <1>1, SilentKeeps DEF Open, Enter, See, Close, Stages, UnderTest
<1>2. ASSUME NEW c \in Calls, Refuse(c) \/ Deny(c) \/ Finish(c) \/ Fail(c) PROVE ServerInv' /\ StepOK
  BY <1>2, SettleKeeps DEF Refuse, Deny, Finish, Fail
<1>3. ASSUME NEW c \in Calls, Ignore(c) PROVE ServerInv' /\ StepOK
  <2>1. \A d \in Calls : Entries(d)' = Entries(d)
    BY <1>3 DEF Ignore, Entries
  <2>2. \A d \in Calls : EntryOK(d)'
    BY <1>3, <2>1 DEF Ignore, EntryOK, UnderTest
  <2> QED BY <1>3, <2>1, <2>2 DEF Ignore, Stages, StepOK, Before
<1>4. CASE Vanish
  BY <1>4, SilentKeeps DEF Vanish, Stages, UnderTest
<1>5. CASE ChangeGrants
  BY <1>5, SilentKeeps DEF ChangeGrants
<1> QED BY <1>1, <1>2, <1>3, <1>4, <1>5 DEF Next, Progress

-------------------------------------------------------------------------------
(***************************************************************************)
(* The conversation: its messages alternate, its calls are those of        *)
(* OwnCalls in their order, its results those of the calls before them.    *)
(***************************************************************************)
Results  == [call : Calls, content : {"data", "ERROR"}]
Messages == {Question} \cup [role : {"assistant"}, calls : Seq(Calls)]
            \cup [role : {"results"}, results : Seq(Results)]
Phases   == {"connecting", "asking", "calling", "answered", "stopped", "failed"}

IsAssistant(i) == i \in DOMAIN messages /\ messages[i].role = "assistant"
IsResults(i)   == i \in DOMAIN messages /\ messages[i].role = "results"

\* d comes after c in the order of the session's calls.
Later(c, d) == \E k, l \in DOMAIN OwnCalls : k < l /\ OwnCalls[k] = c /\ OwnCalls[l] = d

FirstCalls(n) == {OwnCalls[k] : k \in 1..n}

\* How many calls were asked for.
Count == Cardinality(Asked)

ConversationTypeOK ==
  /\ messages \in Seq(Messages)
  /\ given \in Seq(Results)
  /\ phase \in Phases

\* What was asked for is a first part of OwnCalls, in order.
AskedOK ==
  /\ Count \in 0..Len(OwnCalls)
  /\ Asked = FirstCalls(Count)
  /\ \A i, j : IsAssistant(i) /\ IsAssistant(j) =>
       \A k \in DOMAIN messages[i].calls, l \in DOMAIN messages[j].calls :
         Precedes(<<i, k>>, <<j, l>>) => Later(messages[i].calls[k], messages[j].calls[l])

StartOK ==
  /\ phase = "connecting" => messages = << >>
  /\ phase \in {"asking", "calling", "answered", "stopped"} => messages # << >>
  /\ messages # << >> => messages[1] = Question

\* A message of the assistant is followed by its results, unless it is the last.
AssistantOK ==
  /\ \A i : IsAssistant(i) /\ i # Len(messages) => IsResults(i + 1) /\ messages[i].calls # << >>
  /\ phase \in {"asking", "stopped"} => ~IsAssistant(Len(messages))
  /\ phase = "answered" => IsAssistant(Len(messages)) /\ messages[Len(messages)].calls = << >>

\* Results are those of the calls of the message before.
ResultsOK ==
  \A i : IsResults(i) =>
    /\ i > 1 /\ IsAssistant(i - 1)
    /\ Len(messages[i].results) = Len(messages[i - 1].calls)
    /\ \A k \in DOMAIN messages[i].results : messages[i].results[k].call = messages[i - 1].calls[k]

\* So are the results of this turn.
GivenOK ==
  /\ phase \in {"connecting", "asking", "answered", "stopped"} => given = << >>
  /\ given # << >> =>
       /\ IsAssistant(Len(messages)) /\ Len(given) <= Len(Turn)
       /\ \A k \in DOMAIN given : given[k].call = Turn[k]

\* The calls of the turn are the last that were asked for, and one is left.
CallingOK ==
  phase = "calling" =>
    /\ IsAssistant(Len(messages)) /\ Len(given) < Len(Turn) /\ Len(Turn) <= Count
    /\ \A k \in DOMAIN Turn : Turn[k] = OwnCalls[Count - Len(Turn) + k]

ConversationInv ==
  /\ ConversationTypeOK /\ AskedOK /\ StartOK /\ AssistantOK /\ ResultsOK /\ GivenOK /\ CallingOK

\* The server knows only calls that were sent.
SentOK == \A c \in Calls \ Sent : stage[c] = "new"

\* What the model was given as data was taken from an answer that is recorded
\* before any entry of a later call.
GivenAsData(c) ==
  \/ \E i : IsResults(i) /\ \E k \in DOMAIN messages[i].results : messages[i].results[k] = [call |-> c, content |-> "data"]
  \/ \E k \in DOMAIN given : given[k] = [call |-> c, content |-> "data"]

EvidenceOK ==
  \A c \in Calls : GivenAsData(c) =>
    /\ stage[c] = "closed" /\ answer[c] = "result"
    /\ \A d \in Calls : Later(c, d) => Before(c, d)

SessionInv == ServerInv /\ ConversationInv /\ SentOK /\ EvidenceOK

-------------------------------------------------------------------------------
(***************************************************************************)
(* What the definitions say of a conversation.                             *)
(***************************************************************************)
LEMMA MessageFacts ==
  ASSUME NEW x \in Messages
  PROVE  /\ x.role = "assistant" => x.calls \in Seq(Calls)
         /\ x.role = "results" => x.results \in Seq(Results)
BY DEF Messages, Question

LEMMA CallFacts ==
  ASSUME NEW cs \in Seq(Calls)
  PROVE  Assistant(cs) \in Messages /\ Assistant(cs).role = "assistant" /\ Assistant(cs).calls = cs
BY DEF Messages, Assistant

LEMMA ResultsFacts ==
  ASSUME NEW rs \in Seq(Results)
  PROVE  ToolResults(rs) \in Messages /\ ToolResults(rs).role = "results" /\ ToolResults(rs).results = rs
BY DEF Messages, ToolResults

LEMMA MessageAppended ==
  ASSUME messages \in Seq(Messages), NEW m \in Messages, messages' = Append(messages, m)
  PROVE  /\ messages' \in Seq(Messages) /\ messages' # << >>
         /\ Len(messages) \in Nat /\ Len(messages') = Len(messages) + 1
         /\ DOMAIN messages = 1..Len(messages) /\ DOMAIN messages' = 1..(Len(messages) + 1)
         /\ \A i \in 1..Len(messages) : messages'[i] = messages[i]
         /\ messages'[Len(messages) + 1] = m
OBVIOUS

LEMMA AskedIs ==
  \A x : x \in Asked <=> \E i : IsAssistant(i) /\ \E k \in DOMAIN messages[i].calls : messages[i].calls[k] = x
BY DEF Asked, ToSet, IsAssistant

\* Where the session stands among its calls.
SentTo == IF phase = "calling" THEN Count - Len(Turn) + Len(given) + 1 ELSE Count

\* OwnCalls has no call twice, so its first n calls are n.
LEMMA PrefixCount ==
  ASSUME NEW n \in 0..Len(OwnCalls)
  PROVE  Cardinality(FirstCalls(n)) = n
<1>1. OwnCalls \in [1..Len(OwnCalls) -> Calls] /\ Len(OwnCalls) \in Nat
  BY OwnCallsAssumption
<1> DEFINE f == [i \in 1..n |-> OwnCalls[i]]
<1>2. f \in Bijection(1..n, FirstCalls(n))
  BY <1>1, OwnCallsAssumption DEF FirstCalls, IsInjective, Bijection, Injection, Surjection
<1> QED BY <1>2, FS_CountingElements DEF ExistsBijection

SentPrefixed ==
  /\ SentTo \in 0..Len(OwnCalls) /\ SentTo <= Count
  /\ Sent = FirstCalls(SentTo)
  /\ phase = "calling" => SentTo \in DOMAIN OwnCalls /\ Current = OwnCalls[SentTo] /\ Current \in Calls

LEMMA SentIsPrefix == ConversationInv => SentPrefixed
<1> SUFFICES ASSUME ConversationInv PROVE SentPrefixed
  OBVIOUS
<1> USE DEF SentPrefixed
<1>1. OwnCalls \in [1..Len(OwnCalls) -> Calls] /\ Len(OwnCalls) \in Nat /\ DOMAIN OwnCalls = 1..Len(OwnCalls)
  BY OwnCallsAssumption
<1>2. Count \in 0..Len(OwnCalls) /\ Asked = FirstCalls(Count)
  BY DEF ConversationInv, AskedOK
<1>3. CASE phase # "calling"
  BY <1>2, <1>3 DEF Sent, SentTo
<1>4. CASE phase = "calling"
  <2> DEFINE N == Count  T == Len(Turn)  g == Len(given)
  <2>1. g \in Nat /\ T \in Nat /\ g < T /\ T <= N /\ \A k \in 1..T : Turn[k] = OwnCalls[N - T + k]
    <3>1. Turn \in Seq(Calls)
      BY <1>4, MessageFacts DEF ConversationInv, ConversationTypeOK, CallingOK, IsAssistant, Turn, Last
    <3> QED BY <1>4, <3>1 DEF ConversationInv, ConversationTypeOK, CallingOK
  <2>2. SentTo = N - T + g + 1
    BY <1>4 DEF SentTo
  <2>3. Sent = Asked \ {Turn[i] : i \in g + 2 .. T}
    BY <1>4 DEF Sent
  <2> HIDE DEF N, T, g
  <2>4. N \in 0..Len(OwnCalls) /\ Asked = FirstCalls(N)
    BY <1>2 DEF N
  <2>5. Sent \subseteq FirstCalls(SentTo)
    <3> SUFFICES ASSUME NEW k \in 1..N, OwnCalls[k] \in Sent PROVE k \in 1..SentTo
      BY <2>3, <2>4 DEF FirstCalls
    <3>1. ASSUME k > N - T + g + 1 PROVE FALSE
      <4>1. k - (N - T) \in g + 2 .. T /\ k - (N - T) \in 1..T
        BY <2>1, <2>4, <3>1
      <4>2. Turn[k - (N - T)] = OwnCalls[k]
        BY <2>1, <2>4, <4>1
      <4> QED BY <2>3, <4>1, <4>2
    <3> QED BY <2>1, <2>2, <2>4, <3>1
  <2>6. FirstCalls(SentTo) \subseteq Sent
    <3> SUFFICES ASSUME NEW k \in 1..SentTo PROVE OwnCalls[k] \in Sent
      BY DEF FirstCalls
    <3>1. k \in 1..N /\ k \in 1..Len(OwnCalls) /\ OwnCalls[k] \in Asked
      BY <2>1, <2>2, <2>4 DEF FirstCalls
    <3>2. ASSUME NEW i \in g + 2 .. T, Turn[i] = OwnCalls[k] PROVE FALSE
      <4>1. OwnCalls[N - T + i] = OwnCalls[k] /\ N - T + i \in 1..Len(OwnCalls)
        BY <2>1, <2>4, <3>2
      <4>2. N - T + i = k
        BY <1>1, <3>1, <4>1, OwnCallsAssumption DEF IsInjective
      <4> QED BY <2>1, <2>2, <2>4, <4>2
    <3> QED BY <2>3, <3>1, <3>2
  <2>7. Current = OwnCalls[SentTo]
    BY <2>1, <2>2, <2>4 DEF Current, g
  <2>8. SentTo \in 1..Len(OwnCalls) /\ SentTo <= N
    BY <2>1, <2>2, <2>4
  <2> QED BY <1>1, <2>5, <2>6, <2>7, <2>8 DEF N
<1> QED BY <1>3, <1>4

\* The calls the session has still to make are later ones.
LEMMA LaterIsUnsent ==
  ASSUME ConversationInv, phase = "calling", NEW d \in Calls, Later(Current, d)
  PROVE  d \notin Sent
<1>1. SentTo \in DOMAIN OwnCalls /\ Current = OwnCalls[SentTo] /\ Sent = FirstCalls(SentTo)
  BY SentIsPrefix DEF SentPrefixed
<1>2. PICK k, l \in DOMAIN OwnCalls : k < l /\ OwnCalls[k] = Current /\ OwnCalls[l] = d
  BY DEF Later
<1>3. k = SentTo /\ DOMAIN OwnCalls = 1..Len(OwnCalls) /\ Len(OwnCalls) \in Nat
  BY <1>1, <1>2, OwnCallsAssumption DEF IsInjective
<1> SUFFICES ASSUME NEW j \in 1..SentTo, OwnCalls[j] = d PROVE FALSE
  BY <1>1 DEF FirstCalls
<1>4. j \in DOMAIN OwnCalls /\ j = l
  BY <1>1, <1>2, <1>3, OwnCallsAssumption DEF IsInjective
<1> QED BY <1>1, <1>2, <1>3, <1>4

-------------------------------------------------------------------------------
(***************************************************************************)
(* The steps of the session keep the conversation in shape.                *)
(***************************************************************************)

\* The model's turn: none, or the next ones of the session's calls.
LEMMA TurnAppended ==
  ASSUME ConversationInv, phase = "asking", NEW cs \in Seq(Calls),
         Count + Len(cs) <= Len(OwnCalls),
         \A k \in DOMAIN cs : cs[k] = OwnCalls[Count + k],
         messages' = Append(messages, Assistant(cs)), given' = given,
         phase' = IF cs = << >> THEN "answered" ELSE "calling"
  PROVE  ConversationInv' /\ Sent \subseteq Sent'
<1> PICK L \in Nat : L = Len(messages)
  BY DEF ConversationInv, ConversationTypeOK
<1> PICK N : N = Count
  OBVIOUS
<1>1. /\ messages' \in Seq(Messages) /\ messages' # << >> /\ L \in Nat /\ Len(messages') = L + 1
      /\ DOMAIN messages = 1..L /\ DOMAIN messages' = 1..(L + 1)
      /\ \A i \in 1..L : messages'[i] = messages[i]
      /\ messages'[L + 1].role = "assistant" /\ messages'[L + 1].calls = cs
  BY CallFacts, MessageAppended DEF ConversationInv, ConversationTypeOK
<1>2. /\ given = << >> /\ messages # << >> /\ L >= 1 /\ messages[1] = Question /\ ~IsAssistant(L)
  BY <1>1 DEF ConversationInv, GivenOK, StartOK, AssistantOK
<1>3. /\ \A i \in 1..L : (IsAssistant(i)' <=> IsAssistant(i)) /\ (IsResults(i)' <=> IsResults(i))
      /\ IsAssistant(L + 1)' /\ ~IsResults(L + 1)'
      /\ \A i : IsAssistant(i)' \/ IsResults(i)' => i \in 1..(L + 1)
      /\ \A i : IsAssistant(i) \/ IsResults(i) => i \in 1..L
  BY <1>1 DEF IsAssistant, IsResults
<1>4. OwnCalls \in [1..Len(OwnCalls) -> Calls] /\ Len(OwnCalls) \in Nat /\ DOMAIN OwnCalls = 1..Len(OwnCalls)
  BY OwnCallsAssumption
<1>5. N \in 0..Len(OwnCalls) /\ Asked = FirstCalls(N)
  BY DEF ConversationInv, AskedOK
<1>6. Len(cs) \in Nat /\ DOMAIN cs = 1..Len(cs) /\ N + Len(cs) \in 0..Len(OwnCalls)
  BY <1>4, <1>5
<1>7. Asked' = FirstCalls(N + Len(cs))
  <2>1. \A x : x \in Asked' <=> x \in Asked \/ \E k \in DOMAIN cs : cs[k] = x
    <3>1. \A x : x \in Asked' <=>
            \E i : IsAssistant(i)' /\ \E k \in DOMAIN messages'[i].calls : messages'[i].calls[k] = x
      BY DEF Asked, ToSet, IsAssistant
    <3> QED BY <1>1, <1>3, <3>1, AskedIs
  <2>2. \A x : x \in FirstCalls(N + Len(cs)) <=> x \in FirstCalls(N) \/ \E k \in DOMAIN cs : cs[k] = x
    <3>1. ASSUME NEW j \in 1..(N + Len(cs)), j \notin 1..N PROVE j - N \in DOMAIN cs /\ cs[j - N] = OwnCalls[j]
      BY <1>4, <1>5, <1>6, <3>1
    <3>2. \A k \in DOMAIN cs : N + k \in 1..(N + Len(cs)) /\ cs[k] = OwnCalls[N + k]
      BY <1>5, <1>6
    <3>3. 1..N \subseteq 1..(N + Len(cs))
      BY <1>5, <1>6
    <3> QED BY <3>1, <3>2, <3>3 DEF FirstCalls
  <2> QED BY <1>5, <2>1, <2>2
<1>8. Count' = N + Len(cs)
  BY <1>6, <1>7, PrefixCount DEF Count
<1>9. ConversationTypeOK'
  BY <1>1 DEF ConversationInv, ConversationTypeOK, Phases
<1>10. AskedOK'
  <2> SUFFICES ASSUME NEW i, NEW j, IsAssistant(i)', IsAssistant(j)',
                      NEW k \in DOMAIN messages'[i].calls, NEW l \in DOMAIN messages'[j].calls,
                      Precedes(<<i, k>>, <<j, l>>)
               PROVE  Later(messages'[i].calls[k], messages'[j].calls[l])
    BY <1>6, <1>7, <1>8 DEF AskedOK
  <2>1. CASE i \in 1..L /\ j \in 1..L
    BY <1>1, <1>3, <2>1 DEF ConversationInv, AskedOK
  <2>2. CASE i \in 1..L /\ j = L + 1
    <3>1. messages[i].calls[k] \in Asked
      BY <1>1, <1>3, <2>2, AskedIs
    <3>2. PICK a \in 1..N : OwnCalls[a] = messages[i].calls[k]
      BY <1>5, <3>1 DEF FirstCalls
    <3>3. l \in DOMAIN cs /\ cs[l] = OwnCalls[N + l]
      BY <1>1, <2>2
    <3>4. a \in DOMAIN OwnCalls /\ N + l \in DOMAIN OwnCalls /\ a < N + l
      BY <1>4, <1>5, <1>6, <3>3
    <3> QED BY <1>1, <2>2, <3>2, <3>3, <3>4 DEF Later
  <2>3. CASE i = L + 1 /\ j = L + 1
    <3>1. k \in DOMAIN cs /\ l \in DOMAIN cs /\ cs[k] = OwnCalls[N + k] /\ cs[l] = OwnCalls[N + l]
      BY <1>1, <2>3
    <3>2. k < l
      BY <1>1, <2>3 DEF Precedes
    <3>3. N + k \in DOMAIN OwnCalls /\ N + l \in DOMAIN OwnCalls /\ N + k < N + l
      BY <1>4, <1>5, <1>6, <3>1, <3>2
    <3> QED BY <1>1, <2>3, <3>1, <3>3 DEF Later
  <2>4. i = L + 1 => j = L + 1
    BY <1>1, <1>3 DEF Precedes
  <2> QED BY <1>1, <1>3, <2>1, <2>2, <2>3, <2>4
<1>11. StartOK'
  BY <1>1, <1>2 DEF StartOK
<1>12. AssistantOK'
  BY <1>1, <1>2, <1>3 DEF ConversationInv, AssistantOK
<1>13. ResultsOK'
  <2> SUFFICES ASSUME NEW i, IsResults(i)'
               PROVE  /\ i > 1 /\ IsAssistant(i - 1)'
                      /\ Len(messages'[i].results) = Len(messages'[i - 1].calls)
                      /\ \A k \in DOMAIN messages'[i].results : messages'[i].results[k].call = messages'[i - 1].calls[k]
    BY DEF ResultsOK
  <2>1. i \in 1..L /\ IsResults(i) /\ i - 1 \in 1..L /\ IsAssistant(i - 1)
    BY <1>1, <1>3 DEF ConversationInv, ResultsOK
  <2> QED BY <1>1, <1>3, <2>1 DEF ConversationInv, ResultsOK
<1>14. GivenOK'
  BY <1>2 DEF GivenOK
<1>15. Turn' = cs /\ given' = << >> /\ Len(given') = 0 /\ (cs # << >> => Len(cs) > 0)
  BY <1>1, <1>2 DEF Turn, Last
<1>16. CallingOK'
  <2> SUFFICES ASSUME cs # << >>
               PROVE  /\ IsAssistant(Len(messages))' /\ Len(given)' < Len(Turn)' /\ Len(Turn)' <= Count'
                      /\ \A k \in DOMAIN Turn' : Turn'[k] = OwnCalls[Count' - Len(Turn)' + k]
    BY DEF CallingOK
  <2>1. IsAssistant(Len(messages))'
    BY <1>1 DEF IsAssistant
  <2>2. Count' - Len(Turn)' = N
    BY <1>4, <1>5, <1>6, <1>8, <1>15
  <2> QED BY <1>4, <1>5, <1>6, <1>8, <1>15, <2>1, <2>2
<1>17. Sent \subseteq Sent'
  <2>1. Sent = FirstCalls(N)
    BY <1>5 DEF Sent
  <2>2. ConversationInv'
    BY <1>9, <1>10, <1>11, <1>12, <1>13, <1>14, <1>16 DEF ConversationInv
  <2>3. Sent' = FirstCalls(SentTo')
    <3>1. SentPrefixed'
      BY <2>2, SentIsPrefix, PTL
    <3> QED BY <3>1 DEF SentPrefixed
  <2>4. SentTo' >= N /\ SentTo' \in Int
    <3>1. SentTo' = IF cs = << >> THEN Count' ELSE Count' - Len(cs) + Len(given') + 1
      BY <1>15 DEF SentTo
    <3> QED BY <1>4, <1>5, <1>6, <1>8, <1>15, <3>1
  <2>5. 1..N \subseteq 1..SentTo'
    BY <1>5, <2>4
  <2> QED BY <2>1, <2>3, <2>5 DEF FirstCalls
<1> QED BY <1>9, <1>10, <1>11, <1>12, <1>13, <1>14, <1>16, <1>17 DEF ConversationInv

\* One result more of a turn that has calls left.
LEMMA ResultNoted ==
  ASSUME ConversationInv, phase = "calling", NEW content \in {"data", "ERROR"},
         given' = Append(given, [call |-> Current, content |-> content]),
         Len(given) + 1 < Len(Turn), UNCHANGED <<phase, messages>>
  PROVE  ConversationInv' /\ Sent \subseteq Sent'
<1> DEFINE r == [call |-> Current, content |-> content]
<1>1. SentTo \in 0..Len(OwnCalls) /\ Sent = FirstCalls(SentTo) /\ Current \in Calls
  BY SentIsPrefix DEF SentPrefixed
<1>2. r \in Results /\ r.call = Current
  BY <1>1 DEF Results
<1> HIDE DEF r
<1>3. /\ given' \in Seq(Results) /\ Len(given) \in Nat /\ Len(given') = Len(given) + 1
      /\ DOMAIN given' = 1..(Len(given) + 1) /\ DOMAIN given = 1..Len(given)
      /\ \A k \in DOMAIN given : given'[k] = given[k]
      /\ given'[Len(given) + 1].call = Turn[Len(given) + 1]
  BY <1>2 DEF ConversationInv, ConversationTypeOK, r, Current
<1>4. Asked' = Asked /\ Turn' = Turn /\ Count' = Count
  BY DEF Asked, Turn, Count
<1>5. /\ ConversationTypeOK' /\ AskedOK' /\ StartOK' /\ AssistantOK' /\ ResultsOK'
  BY <1>3, <1>4 DEF ConversationInv, ConversationTypeOK, AskedOK, StartOK, AssistantOK, ResultsOK, IsAssistant, IsResults
<1>6. GivenOK' /\ CallingOK'
  <2>1. IsAssistant(Len(messages))' /\ Len(given)' < Len(Turn)' /\ Len(Turn) <= Count /\ Len(Turn) \in Nat
    <3>1. Turn \in Seq(Calls)
      BY MessageFacts DEF ConversationInv, ConversationTypeOK, CallingOK, IsAssistant, Turn, Last
    <3> QED BY <1>3, <1>4, <3>1 DEF ConversationInv, CallingOK, IsAssistant
  <2>2. \A k \in DOMAIN given' : given'[k].call = Turn'[k]
    BY <1>3, <1>4 DEF ConversationInv, GivenOK
  <2>3. CallingOK'
    BY <1>4, <2>1 DEF ConversationInv, CallingOK
  <2>4. GivenOK'
    BY <1>3, <1>4, <2>1, <2>2 DEF GivenOK
  <2> QED BY <2>3, <2>4
<1>7. ConversationInv'
  BY <1>5, <1>6 DEF ConversationInv
<1>8. Sent' = FirstCalls(SentTo') /\ SentTo' = SentTo + 1
  <2>1. SentPrefixed'
    BY <1>7, SentIsPrefix, PTL
  <2>2. Len(Turn) \in Int /\ Count \in Int
    <3>1. Turn \in Seq(Calls)
      BY MessageFacts DEF ConversationInv, ConversationTypeOK, CallingOK, IsAssistant, Turn, Last
    <3> QED BY <3>1, OwnCallsAssumption DEF ConversationInv, AskedOK
  <2> QED BY <1>3, <1>4, <2>1, <2>2 DEF SentPrefixed, SentTo
<1>9. 1..SentTo \subseteq 1..SentTo'
  BY <1>1, <1>8, OwnCallsAssumption
<1> QED BY <1>1, <1>7, <1>8, <1>9 DEF FirstCalls

\* The last result of a turn: the model is told all of them.
LEMMA ResultsAppended ==
  ASSUME ConversationInv, phase = "calling", NEW content \in {"data", "ERROR"},
         messages' = Append(messages, ToolResults(Append(given, [call |-> Current, content |-> content]))),
         ~(Len(given) + 1 < Len(Turn)), given' = << >>, phase' \in {"asking", "stopped"}
  PROVE  ConversationInv' /\ Sent \subseteq Sent'
<1> PICK L \in Nat : L = Len(messages)
  BY DEF ConversationInv, ConversationTypeOK
<1> DEFINE r == [call |-> Current, content |-> content]  rs == Append(given, r)
<1>1. SentTo \in 0..Len(OwnCalls) /\ SentTo <= Count /\ Sent = FirstCalls(SentTo) /\ Current \in Calls
  BY SentIsPrefix DEF SentPrefixed
<1>2. r \in Results /\ r.call = Current
  BY <1>1 DEF Results
<1> HIDE DEF r
<1>3. Turn \in Seq(Calls) /\ IsAssistant(L) /\ Turn = messages[L].calls
  BY MessageFacts DEF ConversationInv, ConversationTypeOK, CallingOK, IsAssistant, Turn, Last
<1>4. rs \in Seq(Results) /\ Len(rs) = Len(Turn) /\ \A k \in DOMAIN rs : rs[k].call = Turn[k]
  <2>1. /\ rs \in Seq(Results) /\ Len(given) \in Nat /\ Len(rs) = Len(given) + 1
        /\ DOMAIN rs = 1..(Len(given) + 1) /\ DOMAIN given = 1..Len(given)
        /\ \A k \in DOMAIN given : rs[k] = given[k]
        /\ rs[Len(given) + 1].call = Turn[Len(given) + 1]
    BY <1>2 DEF ConversationInv, ConversationTypeOK, Current
  <2>2. Len(given) < Len(Turn) /\ Len(Turn) \in Nat
    BY <1>3 DEF ConversationInv, CallingOK
  <2>3. \A k \in DOMAIN given : given[k].call = Turn[k]
    BY DEF ConversationInv, GivenOK
  <2> QED BY <2>1, <2>2, <2>3
<1>5. messages' = Append(messages, ToolResults(rs))
  BY DEF r
<1> HIDE DEF rs
<1>6. /\ messages' \in Seq(Messages) /\ messages' # << >> /\ Len(messages') = L + 1
      /\ DOMAIN messages = 1..L /\ DOMAIN messages' = 1..(L + 1)
      /\ \A i \in 1..L : messages'[i] = messages[i]
      /\ messages'[L + 1].role = "results" /\ messages'[L + 1].results = rs
  BY <1>4, <1>5, ResultsFacts, MessageAppended DEF ConversationInv, ConversationTypeOK
<1>7. /\ \A i \in 1..L : (IsAssistant(i)' <=> IsAssistant(i)) /\ (IsResults(i)' <=> IsResults(i))
      /\ ~IsAssistant(L + 1)' /\ IsResults(L + 1)'
      /\ \A i : IsAssistant(i)' \/ IsResults(i)' => i \in 1..(L + 1)
      /\ \A i : IsAssistant(i) \/ IsResults(i) => i \in 1..L
  BY <1>6 DEF IsAssistant, IsResults
<1>8. Asked' = Asked
  <2>1. \A x : x \in Asked' <=>
          \E i : IsAssistant(i)' /\ \E k \in DOMAIN messages'[i].calls : messages'[i].calls[k] = x
    BY DEF Asked, ToSet, IsAssistant
  <2>2. \A x : x \in Asked' <=> x \in Asked
    BY <1>6, <1>7, <2>1, AskedIs
  <2> QED BY <2>2
<1>9. Count' = Count
  BY <1>8 DEF Count
<1>10. ConversationTypeOK'
  BY <1>6 DEF ConversationTypeOK, Phases
<1>11. AskedOK'
  <2> SUFFICES ASSUME NEW i, NEW j, IsAssistant(i)', IsAssistant(j)',
                      NEW k \in DOMAIN messages'[i].calls, NEW l \in DOMAIN messages'[j].calls,
                      Precedes(<<i, k>>, <<j, l>>)
               PROVE  Later(messages'[i].calls[k], messages'[j].calls[l])
    BY <1>8, <1>9 DEF ConversationInv, AskedOK
  <2>1. i \in 1..L /\ j \in 1..L /\ IsAssistant(i) /\ IsAssistant(j)
    BY <1>7
  <2> QED BY <1>6, <2>1 DEF ConversationInv, AskedOK
<1>12. StartOK'
  <2>1. 1 \in 1..L /\ messages # << >>
    BY <1>3, <1>7 DEF ConversationInv, StartOK
  <2> QED BY <1>6, <2>1 DEF ConversationInv, StartOK
<1>13. AssistantOK'
  <2> SUFFICES ASSUME NEW i, IsAssistant(i)', i # Len(messages')
               PROVE  IsResults(i + 1)' /\ messages'[i].calls # << >>
    BY <1>6, <1>7 DEF AssistantOK
  <2>1. i \in 1..L /\ IsAssistant(i)
    BY <1>6, <1>7
  <2>2. CASE i = L
    <3>1. Turn # << >>
      BY DEF ConversationInv, ConversationTypeOK, CallingOK
    <3> QED BY <1>3, <1>6, <1>7, <2>1, <2>2, <3>1
  <2>3. CASE i # L
    <3>1. IsResults(i + 1) /\ messages[i].calls # << >>
      BY <2>1, <2>3 DEF ConversationInv, AssistantOK
    <3> QED BY <1>6, <1>7, <2>1, <3>1
  <2> QED BY <2>2, <2>3
<1>14. ResultsOK'
  <2> SUFFICES ASSUME NEW i, IsResults(i)'
               PROVE  /\ i > 1 /\ IsAssistant(i - 1)'
                      /\ Len(messages'[i].results) = Len(messages'[i - 1].calls)
                      /\ \A k \in DOMAIN messages'[i].results : messages'[i].results[k].call = messages'[i - 1].calls[k]
    BY DEF ResultsOK
  <2>1. CASE i \in 1..L
    <3>1. IsResults(i) /\ i - 1 \in 1..L /\ IsAssistant(i - 1)
      BY <1>6, <1>7, <2>1 DEF ConversationInv, ResultsOK
    <3> QED BY <1>6, <1>7, <2>1, <3>1 DEF ConversationInv, ResultsOK
  <2>2. CASE i = L + 1
    <3>1. i - 1 = L /\ L \in 1..L
      BY <1>3, <1>7, <2>2
    <3> QED BY <1>3, <1>4, <1>6, <1>7, <2>2, <3>1
  <2> QED BY <1>7, <2>1, <2>2
<1>15. GivenOK' /\ CallingOK'
  BY DEF GivenOK, CallingOK
<1>16. Sent \subseteq Sent'
  <2>1. Sent' = Asked /\ Asked = FirstCalls(Count) /\ Count \in Int
    BY <1>8, OwnCallsAssumption DEF Sent, ConversationInv, AskedOK
  <2>2. 1..SentTo \subseteq 1..Count
    BY <1>1, <2>1, OwnCallsAssumption
  <2> QED BY <1>1, <2>1, <2>2 DEF FirstCalls
<1> QED BY <1>10, <1>11, <1>12, <1>13, <1>14, <1>15, <1>16 DEF ConversationInv

\* The question, and nothing asked for yet.
LEMMA QuestionAsked ==
  ASSUME ConversationInv, Connect
  PROVE  ConversationInv' /\ Sent \subseteq Sent'
<1>1. /\ phase = "connecting" /\ messages = << >> /\ given = << >>
      /\ phase' = "asking" /\ messages' = <<Question>> /\ given' = << >>
  BY DEF Connect, ConversationInv, StartOK, GivenOK
<1>2. \A i : ~IsAssistant(i) /\ ~IsAssistant(i)' /\ ~IsResults(i) /\ ~IsResults(i)'
  BY <1>1 DEF IsAssistant, IsResults, Question
<1>3. Asked = {} /\ Asked' = {}
  <2>1. \A x : x \in Asked' <=>
          \E i : IsAssistant(i)' /\ \E k \in DOMAIN messages'[i].calls : messages'[i].calls[k] = x
    BY DEF Asked, ToSet, IsAssistant
  <2> QED BY <1>2, <2>1, AskedIs
<1>4. Count' = Count
  BY <1>3 DEF Count
<1>5. messages' \in Seq(Messages) /\ given' \in Seq(Results)
  <2>1. Question \in Messages
    BY DEF Messages
  <2> QED BY <1>1, <2>1
<1>6. AskedOK' /\ AssistantOK' /\ ResultsOK'
  BY <1>1, <1>2, <1>3, <1>4 DEF ConversationInv, AskedOK, AssistantOK, ResultsOK
<1>7. StartOK' /\ GivenOK' /\ CallingOK' /\ ConversationTypeOK'
  BY <1>1, <1>5 DEF StartOK, GivenOK, CallingOK, ConversationTypeOK, Phases
<1> QED BY <1>1, <1>3, <1>6, <1>7 DEF ConversationInv, Sent

LEMMA ConversationUnchanged ==
  ASSUME ConversationInv, UNCHANGED <<messages, given>>, phase' \in {phase, "failed"}
  PROVE  ConversationInv' /\ Sent \subseteq Sent'
<1>1. Asked' = Asked /\ Turn' = Turn /\ Count' = Count
  BY DEF Asked, Turn, Count
<1>2. ConversationTypeOK' /\ AskedOK' /\ StartOK' /\ AssistantOK' /\ ResultsOK'
  BY <1>1 DEF ConversationInv, ConversationTypeOK, AskedOK, StartOK, AssistantOK, ResultsOK,
              IsAssistant, IsResults, Phases
<1>3. GivenOK' /\ CallingOK'
  BY <1>1 DEF ConversationInv, GivenOK, CallingOK, IsAssistant
<1>4. Sent \subseteq Sent'
  BY <1>1 DEF Sent
<1> QED BY <1>2, <1>3, <1>4 DEF ConversationInv

\* Noting a result shows the model that result and no other.
LEMMA NoteKeeps ==
  ASSUME ConversationInv, phase = "calling", NEW content \in {"data", "ERROR"}, Note(content)
  PROVE  /\ ConversationInv' /\ Sent \subseteq Sent'
         /\ \A c : GivenAsData(c)' => GivenAsData(c) \/ (content = "data" /\ c = Current)
<1> DEFINE r == [call |-> Current, content |-> content]  rs == Append(given, r)
<1>1. Current \in Calls /\ r \in Results
  BY SentIsPrefix DEF SentPrefixed, Results
<1> HIDE DEF r
<1>2. /\ rs \in Seq(Results) /\ Len(given) \in Nat /\ Len(rs) = Len(given) + 1
      /\ DOMAIN rs = 1..(Len(given) + 1) /\ DOMAIN given = 1..Len(given)
      /\ \A k \in DOMAIN given : rs[k] = given[k]
      /\ rs[Len(given) + 1] = r
  BY <1>1 DEF ConversationInv, ConversationTypeOK
<1> HIDE DEF rs
<1>3. \A c, k : k \in DOMAIN rs /\ rs[k] = [call |-> c, content |-> "data"] =>
                GivenAsData(c) \/ (content = "data" /\ c = Current)
  <2> SUFFICES ASSUME NEW c, NEW k \in DOMAIN rs, rs[k] = [call |-> c, content |-> "data"], k \notin DOMAIN given
               PROVE  content = "data" /\ c = Current
    BY <1>2 DEF GivenAsData
  <2>1. r = [call |-> c, content |-> "data"]
    BY <1>2
  <2>2. r.call = c /\ r.content = "data"
    BY <2>1
  <2> QED BY <2>2 DEF r
<1>4. CASE Len(rs) < Len(Turn)
  <2>1. given' = rs /\ UNCHANGED <<phase, messages>>
    BY <1>4 DEF Note, rs, r
  <2>2. ConversationInv' /\ Sent \subseteq Sent'
    BY <1>2, <1>4, <2>1, ResultNoted DEF rs, r
  <2> QED BY <1>3, <2>1, <2>2 DEF GivenAsData, IsResults
<1>5. CASE ~(Len(rs) < Len(Turn))
  <2>1. /\ messages' = Append(messages, ToolResults(rs)) /\ given' = << >> /\ phase' \in {"asking", "stopped"}
    BY <1>5 DEF Note, rs, r
  <2>2. ConversationInv' /\ Sent \subseteq Sent'
    BY <1>2, <1>5, <2>1, ResultsAppended DEF rs, r
  <2>3. /\ Len(messages) \in Nat
        /\ DOMAIN messages = 1..Len(messages) /\ DOMAIN messages' = 1..(Len(messages) + 1)
        /\ \A i \in 1..Len(messages) : messages'[i] = messages[i]
        /\ messages'[Len(messages) + 1].results = rs
    BY <1>2, <2>1, ResultsFacts, MessageAppended DEF ConversationInv, ConversationTypeOK
  <2>4. ASSUME NEW c, GivenAsData(c)' PROVE GivenAsData(c) \/ (content = "data" /\ c = Current)
    <3> PICK i : IsResults(i)' /\ \E k \in DOMAIN messages'[i].results :
                     messages'[i].results[k] = [call |-> c, content |-> "data"]
      <4>1. DOMAIN given' = {}
        BY <2>1
      <4> QED BY <2>4, <4>1 DEF GivenAsData
    <3>2. CASE i \in 1..Len(messages)
      BY <2>3, <3>2 DEF GivenAsData, IsResults
    <3>3. CASE i = Len(messages) + 1
      BY <1>3, <2>3, <3>3
    <3> QED BY <2>3, <3>2, <3>3 DEF IsResults
  <2> QED BY <2>2, <2>4
<1> QED BY <1>4, <1>5

-------------------------------------------------------------------------------
(***************************************************************************)
(* The invariant of the session.                                           *)
(***************************************************************************)

\* Messages that are no results, and more calls asked for, show the model nothing.
LEMMA TellsNothing ==
  ASSUME ConversationInv, given' = given,
         \/ messages' = messages
         \/ \E m \in Messages : m.role # "results" /\ messages' = Append(messages, m)
  PROVE  \A c : GivenAsData(c)' => GivenAsData(c)
<1>1. CASE messages' = messages
  BY <1>1 DEF GivenAsData, IsResults
<1>2. ASSUME NEW m \in Messages, m.role # "results", messages' = Append(messages, m)
      PROVE  \A c : GivenAsData(c)' => GivenAsData(c)
  <2>1. /\ DOMAIN messages = 1..Len(messages) /\ DOMAIN messages' = 1..(Len(messages) + 1)
        /\ \A i \in 1..Len(messages) : messages'[i] = messages[i]
        /\ messages'[Len(messages) + 1].role # "results" /\ Len(messages) \in Nat
    BY <1>2, MessageAppended DEF ConversationInv, ConversationTypeOK
  <2>2. \A i : IsResults(i)' => IsResults(i) /\ messages'[i] = messages[i]
    BY <2>1 DEF IsResults
  <2> QED BY <2>2 DEF GivenAsData
<1> QED BY <1>1, <1>2

\* A step of the session's own: the server is where it was.
LEMMA SessionMoves ==
  ASSUME SessionInv, UNCHANGED vars, ConversationInv', Sent \subseteq Sent',
         \A c : GivenAsData(c)' => \/ GivenAsData(c)
                                   \/ /\ c = Current /\ phase = "calling"
                                      /\ stage[c] = "closed" /\ answer[c] = "result"
  PROVE  SessionInv'
<1>1. /\ stage' = stage /\ answer' = answer /\ log' = log
      /\ \A c : Entries(c)' = Entries(c)
  BY DEF vars, Entries
<1>2. ServerInv' /\ SentOK'
  BY <1>1 DEF SessionInv, ServerInv, LogTypeOK, EntryOK, SentOK
<1>3. EvidenceOK'
  <2> SUFFICES ASSUME NEW c \in Calls, GivenAsData(c)'
               PROVE  stage[c] = "closed" /\ answer[c] = "result" /\ \A d \in Calls : Later(c, d) => Before(c, d)
    BY <1>1 DEF EvidenceOK, Before
  <2>1. CASE GivenAsData(c)
    BY <2>1 DEF SessionInv, EvidenceOK
  <2>2. CASE c = Current /\ phase = "calling" /\ stage[c] = "closed" /\ answer[c] = "result"
    <3> SUFFICES ASSUME NEW d \in Calls, Later(c, d) PROVE Entries(d) = {}
      BY <2>2 DEF Before
    <3>1. d \notin Sent
      BY <2>2, LaterIsUnsent DEF SessionInv
    <3> QED BY <3>1 DEF SessionInv, SentOK, ServerInv, EntryOK, UnderTest
  <2> QED BY <2>1, <2>2
<1> QED BY <1>2, <1>3 DEF SessionInv

\* A step of the server's: the conversation is where it was.
LEMMA ServerMoves ==
  ASSUME SessionInv, Next, UNCHANGED session,
         \A c \in Calls \ Sent : stage'[c] = "new"
  PROVE  SessionInv'
<1>1. ServerInv' /\ StepOK
  BY ServerKeeps DEF SessionInv
<1>2. phase' = phase /\ messages' = messages /\ given' = given
  BY DEF session
<1>3. ConversationInv'
  BY <1>2, ConversationUnchanged DEF SessionInv
<1>4. Sent' = Sent
  BY <1>2 DEF Sent, Asked, Turn
<1>5. SentOK'
  BY <1>4 DEF SentOK
<1>6. \A c : GivenAsData(c)' => GivenAsData(c)
  BY <1>2, TellsNothing DEF SessionInv
<1>7. EvidenceOK'
  BY <1>1, <1>6 DEF SessionInv, EvidenceOK, StepOK
<1> QED BY <1>1, <1>3, <1>5, <1>7 DEF SessionInv

LEMMA SessionStarts == SessionInit => SessionInv
<1> SUFFICES ASSUME SessionInit PROVE SessionInv
  OBVIOUS
<1> USE DEF SessionInit, Init
<1>1. log = << >> /\ messages = << >> /\ given = << >> /\ phase = "connecting"
  OBVIOUS
<1>2. ServerInv
  <2>1. \A c \in Calls : stage[c] = "new" /\ answer[c] = "none" /\ Entries(c) = {}
    BY <1>1 DEF Entries
  <2> QED BY <2>1 DEF ServerInv, LogTypeOK, EntryOK, Stages, UnderTest
<1>3. \A i : ~IsAssistant(i) /\ ~IsResults(i)
  BY <1>1 DEF IsAssistant, IsResults
<1>4. Asked = {} /\ Count = 0
  BY <1>3, AskedIs, FS_EmptySet DEF Count
<1>5. AskedOK
  BY <1>3, <1>4, OwnCallsAssumption DEF AskedOK, FirstCalls
<1>6. ConversationInv
  BY <1>1, <1>3, <1>5 DEF ConversationInv, ConversationTypeOK, StartOK, AssistantOK, ResultsOK, GivenOK, CallingOK, Phases
<1>7. SentOK /\ EvidenceOK
  BY <1>1, <1>3 DEF SentOK, EvidenceOK, GivenAsData
<1> QED BY <1>2, <1>6, <1>7 DEF SessionInv

LEMMA SessionKeeps == SessionInv /\ [SessionNext]_sessionVars => SessionInv'
<1> SUFFICES ASSUME SessionInv, [SessionNext]_sessionVars PROVE SessionInv'
  OBVIOUS
<1>0. ConversationInv /\ ConversationTypeOK
  BY DEF SessionInv, ConversationInv
<1>1. CASE Connect
  <2>1. messages' = <<Question>> /\ messages = << >> /\ given' = given /\ UNCHANGED vars
    BY <1>0, <1>1 DEF Connect, ConversationInv, StartOK
  <2>2. \A c : GivenAsData(c)' => GivenAsData(c)
    BY <2>1 DEF GivenAsData, IsResults, Question
  <2> QED BY <1>0, <1>1, <2>1, <2>2, QuestionAsked, SessionMoves
<1>2. CASE ModelAnswers
  <2>1. << >> \in Seq(Calls) /\ Len(<< >>) = 0 /\ DOMAIN << >> = {}
    OBVIOUS
  <2>2. Count + 0 <= Len(OwnCalls)
    BY <1>0, OwnCallsAssumption DEF ConversationInv, AskedOK
  <2>3. ConversationInv' /\ Sent \subseteq Sent'
    BY <1>0, <1>2, <2>1, <2>2, TurnAppended DEF ModelAnswers
  <2>4. \A c : GivenAsData(c)' => GivenAsData(c)
    BY <1>0, <1>2, <2>1, CallFacts, TellsNothing DEF ModelAnswers
  <2> QED BY <1>2, <2>3, <2>4, SessionMoves DEF ModelAnswers
<1>3. ASSUME NEW n \in 1..MaxToolCalls, ModelCalls(n) PROVE SessionInv'
  <2> DEFINE cs == SubSeq(OwnCalls, Count + 1, Count + n)
  <2>1. Count \in Nat /\ n \in Nat /\ n >= 1 /\ Count + n <= Len(OwnCalls)
    BY <1>0, <1>3, OwnCallsAssumption, TurnAssumption DEF ModelCalls, Count, ConversationInv, AskedOK
  <2>2. /\ phase = "asking" /\ phase' = "calling" /\ messages' = Append(messages, Assistant(cs))
        /\ given' = given /\ UNCHANGED vars
    BY <1>3 DEF ModelCalls, Count
  <2>3. /\ cs \in Seq(Calls) /\ Len(cs) = n /\ cs # << >>
        /\ \A k \in DOMAIN cs : cs[k] = OwnCalls[Count + k]
    BY <2>1, OwnCallsAssumption
  <2> HIDE DEF cs
  <2>4. ConversationInv' /\ Sent \subseteq Sent'
    BY <1>0, <2>1, <2>2, <2>3, TurnAppended
  <2>5. \A c : GivenAsData(c)' => GivenAsData(c)
    BY <1>0, <2>2, <2>3, CallFacts, TellsNothing
  <2> QED BY <2>2, <2>4, <2>5, SessionMoves
<1>4. CASE CallReturns
  <2>1. /\ phase = "calling" /\ stage[Current] = "closed" /\ UNCHANGED vars
        /\ Content(Current) \in {"data", "ERROR"} /\ Note(Content(Current))
        /\ Content(Current) = "data" => answer[Current] = "result"
    BY <1>4 DEF CallReturns, Content
  <2> QED BY <1>0, <2>1, NoteKeeps, SessionMoves
<1>5. CASE CallRaises
  <2>1. phase = "calling" /\ UNCHANGED vars /\ Note("ERROR")
    BY <1>5 DEF CallRaises
  <2> QED BY <1>0, <2>1, NoteKeeps, SessionMoves
<1>6. CASE SessionFails
  <2>1. UNCHANGED vars /\ UNCHANGED <<messages, given>> /\ phase' = "failed"
    BY <1>6 DEF SessionFails
  <2> QED BY <1>0, <2>1, ConversationUnchanged, TellsNothing, SessionMoves
<1>7. ASSUME NEW c \in Sent, RequestArrives(c) PROVE SessionInv'
  <2>1. c \in Calls
    BY <1>0, SentIsPrefix, OwnCallsAssumption DEF SentPrefixed, FirstCalls
  <2>2. Open(c) /\ UNCHANGED session
    BY <1>7 DEF RequestArrives
  <2>3. \A d \in Calls \ Sent : stage'[d] = "new"
    BY <2>2 DEF Open, SessionInv, SentOK, ServerInv, LogTypeOK
  <2> QED BY <2>1, <2>2, <2>3, ServerMoves DEF Next
<1>8. CASE ServerStep
  <2>1. Next /\ UNCHANGED session
    BY <1>8 DEF ServerStep, Next
  <2>2. \A d \in Calls \ Sent : stage'[d] = "new"
    BY <1>8 DEF ServerStep, Progress, Refuse, Deny, Ignore, Enter, See, Finish, Fail, Close, Settle, Vanish,
                ChangeGrants, SessionInv, SentOK, ServerInv, LogTypeOK
  <2> QED BY <2>1, <2>2, ServerMoves
<1>9. CASE UNCHANGED sessionVars
  <2>1. UNCHANGED vars /\ UNCHANGED <<messages, given, phase>>
    BY <1>9 DEF sessionVars, session
  <2> QED BY <1>0, <2>1, ConversationUnchanged, TellsNothing, SessionMoves
<1> QED BY <1>1, <1>2, <1>3, <1>4, <1>5, <1>6, <1>7, <1>8, <1>9 DEF SessionNext, ModelTurn

THEOREM SessionInvariant == SessionSpec => []SessionInv
BY SessionStarts, SessionKeeps, PTL DEF SessionSpec

-------------------------------------------------------------------------------
(***************************************************************************)
(* What follows from it.                                                   *)
(***************************************************************************)

\* A result stands right behind its call, in messages or among those given.
LEMMA ToldFacts ==
  ASSUME ConversationInv, NEW p \in Told
  PROVE  /\ p[1] \in Nat /\ p[2] \in Nat /\ IsAssistant(p[1] - 1) /\ p[2] \in DOMAIN messages[p[1] - 1].calls
         /\ ResultAt(p) \in Results
         /\ ResultAt(p).call = messages[p[1] - 1].calls[p[2]]
         /\ ResultAt(p).content = "data" => GivenAsData(ResultAt(p).call)
<1> DEFINE L == Len(messages)
<1>1. messages \in Seq(Messages) /\ given \in Seq(Results) /\ L \in Nat /\ DOMAIN messages = 1..L
  BY DEF ConversationInv, ConversationTypeOK
<1>2. /\ DOMAIN Transcript = 1..(L + 1) /\ \A i \in 1..L : Transcript[i] = messages[i]
      /\ Transcript[L + 1].results = given
  <2> DEFINE m == ToolResults(given)
  <2>1. m \in Messages /\ m.results = given
    BY <1>1, ResultsFacts
  <2> HIDE DEF m
  <2>2. Transcript = Append(messages, m)
    BY DEF Transcript, m
  <2> QED BY <1>1, <2>1, <2>2
<1> HIDE DEF L
<1>3. PICK i, k : /\ i \in 1..(L + 1) /\ Transcript[i].role = "results"
                  /\ k \in DOMAIN Transcript[i].results /\ p = <<i, k>>
  BY <1>2 DEF Told
<1>4. p[1] = i /\ p[2] = k /\ ResultAt(p) = Transcript[i].results[k]
  BY <1>3 DEF ResultAt
<1>5. CASE i \in 1..L
  <2>1. /\ IsResults(i) /\ Transcript[i] = messages[i] /\ k \in DOMAIN messages[i].results
        /\ messages[i].results \in Seq(Results)
    BY <1>1, <1>2, <1>3, <1>5, MessageFacts DEF IsResults
  <2>2. IsAssistant(i - 1) /\ Len(messages[i].results) = Len(messages[i - 1].calls)
        /\ messages[i].results[k].call = messages[i - 1].calls[k]
    BY <2>1 DEF ConversationInv, ResultsOK
  <2>3. messages[i - 1].calls \in Seq(Calls)
    BY <1>1, <2>2, MessageFacts DEF IsAssistant
  <2>4. k \in Nat /\ k \in DOMAIN messages[i - 1].calls /\ ResultAt(p) \in Results
    BY <1>4, <2>1, <2>2, <2>3
  <2>5. ResultAt(p).content = "data" => GivenAsData(ResultAt(p).call)
    <3>1. ASSUME ResultAt(p).content = "data"
          PROVE  messages[i].results[k] = [call |-> ResultAt(p).call, content |-> "data"]
      BY <1>4, <2>1, <2>4, <3>1 DEF Results
    <3> QED BY <2>1, <3>1 DEF GivenAsData
  <2> QED BY <1>1, <1>4, <1>5, <2>1, <2>2, <2>4, <2>5
<1>6. CASE i = L + 1
  <2>1. k \in DOMAIN given /\ given # << >> /\ ResultAt(p) = given[k] /\ ResultAt(p) \in Results /\ k \in Nat
    BY <1>1, <1>2, <1>3, <1>4, <1>6
  <2>2. /\ IsAssistant(L) /\ Turn = messages[L].calls /\ Len(given) <= Len(Turn) /\ given[k].call = Turn[k]
    BY <2>1 DEF ConversationInv, GivenOK, Turn, Last, L
  <2>3. Turn \in Seq(Calls)
    BY <1>1, <2>2, MessageFacts DEF IsAssistant
  <2>4. k \in DOMAIN Turn
    BY <1>1, <2>1, <2>2, <2>3
  <2>5. ResultAt(p).content = "data" => GivenAsData(ResultAt(p).call)
    <3>1. ASSUME ResultAt(p).content = "data"
          PROVE  given[k] = [call |-> ResultAt(p).call, content |-> "data"]
      BY <2>1, <3>1 DEF Results
    <3> QED BY <2>1, <3>1 DEF GivenAsData
  <2>6. p[1] - 1 = L
    BY <1>1, <1>4, <1>6
  <2> QED BY <1>1, <1>4, <1>6, <2>1, <2>2, <2>4, <2>5, <2>6
<1> QED BY <1>1, <1>3, <1>5, <1>6

LEMMA EvidenceFollows == SessionInv => EvidenceIsOnRecord
<1> SUFFICES ASSUME SessionInv PROVE EvidenceIsOnRecord
  OBVIOUS
<1>1. ConversationInv
  BY DEF SessionInv
<1>2. ASSUME NEW p \in Data
      PROVE  \E n \in DOMAIN log : Entries(ResultAt(p).call) = {n} /\ log[n].said = "success"
  <2> DEFINE c == ResultAt(p).call
  <2>1. c \in Calls /\ GivenAsData(c)
    BY <1>1, <1>2, ToldFacts DEF Data, Results
  <2>2. answer[c] = "result" /\ EntryOK(c)
    BY <2>1 DEF SessionInv, EvidenceOK, ServerInv
  <2>3. PICK n \in Entries(c) : log[n].said = "success"
    BY <2>2 DEF EntryOK
  <2>4. Entries(c) = {n} /\ n \in DOMAIN log
    BY <2>2, <2>3 DEF EntryOK, Entries
  <2> QED BY <2>3, <2>4
<1>3. ASSUME NEW p \in Data, NEW q \in Data, Precedes(p, q)
      PROVE  Before(ResultAt(p).call, ResultAt(q).call)
  <2>1. p \in Told /\ q \in Told /\ ResultAt(p).content = "data"
    BY DEF Data
  <2>2. /\ p[1] \in Nat /\ p[2] \in Nat /\ IsAssistant(p[1] - 1) /\ p[2] \in DOMAIN messages[p[1] - 1].calls
        /\ ResultAt(p) \in Results /\ ResultAt(p).call = messages[p[1] - 1].calls[p[2]]
        /\ GivenAsData(ResultAt(p).call)
    BY <1>1, <2>1, ToldFacts
  <2>3. /\ q[1] \in Nat /\ q[2] \in Nat /\ IsAssistant(q[1] - 1) /\ q[2] \in DOMAIN messages[q[1] - 1].calls
        /\ ResultAt(q) \in Results /\ ResultAt(q).call = messages[q[1] - 1].calls[q[2]]
    BY <1>1, <2>1, ToldFacts
  <2>4. Precedes(<<p[1] - 1, p[2]>>, <<q[1] - 1, q[2]>>)
    BY <1>3, <2>2, <2>3 DEF Precedes
  <2>5. Later(ResultAt(p).call, ResultAt(q).call)
    BY <1>1, <2>2, <2>3, <2>4 DEF ConversationInv, AskedOK
  <2>6. ResultAt(p).call \in Calls /\ ResultAt(q).call \in Calls
    BY <2>2, <2>3 DEF Results
  <2> QED BY <2>2, <2>5, <2>6 DEF SessionInv, EvidenceOK
<1>4. ASSUME NEW n \in DOMAIN log PROVE log[n].call \in Sent
  <2>1. log[n].call \in Calls /\ n \in Entries(log[n].call)
    <3>1. log \in Seq(LogEntries)
      BY DEF SessionInv, ServerInv, LogTypeOK
    <3>2. log[n] \in LogEntries
      BY <3>1
    <3> QED BY <3>2 DEF LogEntries, Entries
  <2> QED BY <2>1 DEF SessionInv, SentOK, ServerInv, EntryOK, UnderTest
<1> QED BY <1>2, <1>3, <1>4 DEF EvidenceIsOnRecord, Before

LEMMA CompletenessFollows == SessionInv => ConversationIsComplete
<1> SUFFICES ASSUME SessionInv, phase \in {"asking", "answered", "stopped"}
             PROVE  /\ messages[1] = Question
                    /\ \A i \in DOMAIN messages : messages[i].role = "assistant" =>
                         IF messages[i].calls = << >> THEN i = Len(messages)
                         ELSE /\ i < Len(messages) /\ messages[i + 1].role = "results"
                              /\ [k \in DOMAIN messages[i + 1].results |-> messages[i + 1].results[k].call] = messages[i].calls
                    /\ \A i \in DOMAIN messages : messages[i].role = "results" => messages[i - 1].role = "assistant"
  BY DEF ConversationIsComplete
<1> USE DEF SessionInv, ConversationInv
<1>1. messages \in Seq(Messages) /\ DOMAIN messages = 1..Len(messages) /\ Len(messages) \in Nat
  BY DEF ConversationTypeOK
<1>2. messages[1] = Question
  BY DEF StartOK
<1>3. ASSUME NEW i \in DOMAIN messages, messages[i].role = "assistant", messages[i].calls # << >>
      PROVE  /\ i < Len(messages) /\ messages[i + 1].role = "results"
             /\ [k \in DOMAIN messages[i + 1].results |-> messages[i + 1].results[k].call] = messages[i].calls
  <2>1. IsAssistant(i) /\ i # Len(messages)
    BY <1>3 DEF IsAssistant, AssistantOK
  <2>2. IsResults(i + 1)
    BY <2>1 DEF AssistantOK
  <2>3. /\ Len(messages[i + 1].results) = Len(messages[i].calls)
        /\ \A k \in DOMAIN messages[i + 1].results : messages[i + 1].results[k].call = messages[i].calls[k]
    <3>1. (i + 1) - 1 = i
      BY <1>1
    <3> QED BY <2>2, <3>1 DEF ResultsOK
  <2>4. messages[i + 1].results \in Seq(Results) /\ messages[i].calls \in Seq(Calls)
    BY <1>1, <1>3, <2>2, MessageFacts DEF IsResults
  <2>5. [k \in DOMAIN messages[i + 1].results |-> messages[i + 1].results[k].call] = messages[i].calls
    BY <2>3, <2>4
  <2> QED BY <1>1, <2>1, <2>2, <2>5 DEF IsResults
<1>4. ASSUME NEW i \in DOMAIN messages, messages[i].role = "assistant", messages[i].calls = << >>
      PROVE  i = Len(messages)
  BY <1>4 DEF IsAssistant, AssistantOK
<1>5. ASSUME NEW i \in DOMAIN messages, messages[i].role = "results" PROVE messages[i - 1].role = "assistant"
  BY <1>5 DEF IsResults, IsAssistant, ResultsOK
<1> QED BY <1>2, <1>3, <1>4, <1>5

\* Whatever the model is given as data is in the log, once, as a success, in
\* the order of the conversation, though calls that were given up go on beside
\* the next ones (_execute_tool_call and the loop of run_session, over any
\* server that keeps AuditedAccess).
THEOREM EvidenceCorrect == SessionSpec => []EvidenceIsOnRecord
BY SessionInvariant, EvidenceFollows, PTL

\* Whenever the model is asked it is given every call it made with its result,
\* in order, right behind the turn that made it (the loop of run_session).
THEOREM ConversationCorrect == SessionSpec => []ConversationIsComplete
BY SessionInvariant, CompletenessFollows, PTL
===============================================================================
