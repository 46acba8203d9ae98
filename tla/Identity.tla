------------------------------- MODULE Identity -------------------------------
(***************************************************************************)
(* The two identities of a call (diagnostic_mcp/auth): the service         *)
(* principal's token and the calling user's token, verified against the    *)
(* wall clock  now.  A token is the record of what PyJWT and the checks    *)
(* after it look at: the signature, the expiry, and the claims read.  A    *)
(* header that is absent is a token that is not signed.                    *)
(***************************************************************************)
EXTENDS Naturals, Principals

CONSTANTS Scopes,      \* scopes a service token may carry
          ReadScopes,  \* those that start with "lite.read:"
          MaxNow       \* horizon of the model's clock

ASSUME ReadScopesAssumption == ReadScopes \subseteq Scopes
ASSUME MaxNowAssumption == MaxNow \in Nat

VARIABLE now

ServiceTokens == [signed : BOOLEAN, exp : Nat, scopes : SUBSET Scopes, sub : BOOLEAN]
UserTokens    == [signed : BOOLEAN, exp : Nat, sub : Users \cup {None}, org : BOOLEAN]

ClockTypeOK == now \in 0..MaxNow
ClockInit   == now = 0

\* Wall-clock time passes, up to the model's horizon MaxNow.
Advance == now < MaxNow /\ now' = now + 1

\* jwt.decode(token, secret, algorithms=["HS256"]): the signature, then
\* the expiry (PyJWT refuses exp <= now).
Decodes(token, t) == token.signed /\ t < token.exp

ServiceTokenValidAt(token, t) ==
  /\ Decodes(token, t)
  /\ token.scopes # {}
  /\ token.scopes \subseteq ReadScopes
  /\ token.sub

UserTokenValidAt(token, t) ==
  /\ Decodes(token, t)
  /\ token.sub # None
  /\ token.org

\* Mutant: the service token's claims are not looked at.
VerifySignature(token) == Decodes(token, now)

VerifyServiceToken(token) == ServiceTokenValidAt(token, now)
VerifyUserContext(token)  == UserTokenValidAt(token, now)
===============================================================================
