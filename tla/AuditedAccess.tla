---------------------------- MODULE AuditedAccess ----------------------------
(***************************************************************************)
(* What the server promises whoever calls it and whoever audits it, with   *)
(* no tokens, clock, headers or file format: every call is decided against *)
(* the grants of one moment, sees what its user may see at one moment, and *)
(* ends in one step that both settles its answer and enters it in the log. *)
(* If the log cannot take the entry the call fails instead, and may leave  *)
(* a spoiled entry.  A name the server does not know is answered without   *)
(* an entry.                                                               *)
(***************************************************************************)
EXTENDS GrantStore, Naturals, Sequences

CONSTANTS Calls, Grantable, Plants, MaxVanish

VARIABLES
  wants,    \* call |-> its user, and the factory it is for (None: a listing)
  stage,    \* new, open, inside, seen, settled, closed or gone
  shown,    \* the factories the answer tells of
  answer,
  log,      \* entries: the call and how it is said to have ended
  vanished  \* times the server has disappeared so far

vars == <<grants, wants, stage, shown, answer, log, vanished>>

Entry(c, said) == [call |-> c, said |-> said]

Init ==
  /\ GrantInit
  /\ wants \in [Calls -> [user : Users \cup {None}, factory : Factories \cup {None}, listing : BOOLEAN]]
  /\ stage = [c \in Calls |-> "new"]
  /\ shown = [c \in Calls |-> {}]
  /\ answer = [c \in Calls |-> "none"]
  /\ log = << >>
  /\ vanished = 0

Entitled(c) == wants[c].listing \/ IsAuthorized(wants[c].user, wants[c].factory)

Visible(c) == IF wants[c].listing THEN GrantedFactories(wants[c].user) \cap Plants
              ELSE {wants[c].factory}

Open(c) ==
  /\ stage[c] = "new"
  /\ stage' = [stage EXCEPT ![c] = "open"]
  /\ UNCHANGED <<grants, wants, shown, answer, log, vanished>>

\* One step: the entry and the answer, or a failure and at most a spoiled entry.
Settle(c, said, ans) ==
  /\ stage' = [stage EXCEPT ![c] = "settled"]
  /\ \/ log' = Append(log, Entry(c, said)) /\ answer' = [answer EXCEPT ![c] = ans]
     \/ log' \in {log, Append(log, Entry(c, "spoiled"))} /\ answer' = [answer EXCEPT ![c] = "unrecorded"]
  /\ UNCHANGED <<grants, wants, vanished>>

Refuse(c) ==
  /\ stage[c] = "open"
  /\ Settle(c, "rejected", "refused")
  /\ UNCHANGED shown

Deny(c) ==
  /\ stage[c] = "open" /\ ~Entitled(c)
  /\ Settle(c, "rejected", "denied")
  /\ UNCHANGED shown

Ignore(c) ==
  /\ stage[c] = "open"
  /\ stage' = [stage EXCEPT ![c] = "settled"]
  /\ answer' = [answer EXCEPT ![c] = "unknown"]
  /\ UNCHANGED <<grants, wants, shown, log, vanished>>

Enter(c) ==
  /\ stage[c] = "open" /\ Entitled(c)
  /\ stage' = [stage EXCEPT ![c] = "inside"]
  /\ UNCHANGED <<grants, wants, shown, answer, log, vanished>>

See(c) ==
  /\ stage[c] = "inside"
  /\ Visible(c) \subseteq Plants
  /\ stage' = [stage EXCEPT ![c] = "seen"]
  /\ shown' = [shown EXCEPT ![c] = Visible(c)]
  /\ UNCHANGED <<grants, wants, answer, log, vanished>>

Finish(c) ==
  /\ stage[c] = "seen"
  /\ Settle(c, "success", "result")
  /\ UNCHANGED shown

Fail(c) ==
  /\ stage[c] \in {"inside", "seen"}
  /\ Settle(c, "error", "failed")
  /\ shown' = [shown EXCEPT ![c] = {}]

Close(c) ==
  /\ stage[c] = "settled"
  /\ stage' = [stage EXCEPT ![c] = "closed"]
  /\ UNCHANGED <<grants, wants, shown, answer, log, vanished>>

Vanish ==
  /\ vanished < MaxVanish
  /\ vanished' = vanished + 1
  /\ stage' = [c \in Calls |-> IF stage[c] \in {"new", "closed", "gone"} THEN stage[c] ELSE "gone"]
  /\ GrantReset
  /\ UNCHANGED <<wants, shown, answer, log>>

ChangeGrants ==
  /\ \E p \in Grantable : Grant(p[1], p[2]) \/ Revoke(p[1], p[2])
  /\ UNCHANGED <<wants, stage, shown, answer, log, vanished>>

Progress(c) ==
  Refuse(c) \/ Deny(c) \/ Ignore(c) \/ Enter(c) \/ See(c) \/ Finish(c) \/ Fail(c) \/ Close(c)

Next ==
  \/ \E c \in Calls : Open(c) \/ Progress(c)
  \/ Vanish
  \/ ChangeGrants

Spec     == Init /\ [][Next]_vars
Fairness == \A c \in Calls : WF_vars(Progress(c))
FairSpec == Spec /\ Fairness
===============================================================================
