---------------------------- MODULE Administration ----------------------------
(***************************************************************************)
(* Roles and Tokens put together: the requests that change roles are       *)
(* admitted by the access tokens the service signed, and the roles those   *)
(* tokens carry are the ones the requests change.                          *)
(*                                                                         *)
(* Either component leaves the other open.  Roles has a set of holders     *)
(* that pass the route, and says only how they may come and go; Tokens has *)
(* roles that change at any moment.  Here holders are those with a token,  *)
(* and roles change by the statements of Roles.                            *)
(***************************************************************************)
EXTENDS Integers

CONSTANTS Users, Roots, Sessions, RoleNames, Priority, Patchers,
          RoleAnon, RoleUser, RoleSuperAdmin,
          Jtis, AccessTTL, RefreshTTL, RequestTimeout, MaxTime, MaxTokens,
          NoUser, NoJti, NoRole, NoSession

VARIABLES role,                           \* of both components
          lastHeld, refreshes, accesses, now,
          request, claims,                \* pc and job of Tokens
          lock, booted,
          at, update                      \* pc and job of Roles

\* The components, with what is proved of them.
T == INSTANCE TokensProofs WITH pc <- request, job <- claims
R == INSTANCE RolesProofs WITH holders <- T!Holders, pc <- at, job <- update

\* The statements of Roles without its middleware: whom the route lets through is left to
\* the tokens, so every user holds it.
Rows == INSTANCE Roles WITH holders <- {u \in Users : TRUE}, pc <- at, job <- update

signedIn == <<refreshes, accesses, now, request, claims>>
administered == <<lock, booted, at, update>>
vars == <<role, lastHeld, signedIn, administered>>

\* What the components ask of their constants.
Assumption == T!TokensAssumption /\ R!RolesAssumption

-----------------------------------------------------------------------------
\* A session does one thing at a time: a request of its own, a role update, or the init job.
TokenStep(s) ==
  /\ at[s] = "idle"
  /\ \/ \E u \in Users : T!SignIn(s, u)
     \/ \E j \in Jtis : T!SignRefreshToken(s, j)
     \/ T!SignAccessToken(s) \/ T!Reload(s) \/ T!End(s)
     \/ \E a \in accesses : T!Admit(s, a) \/ \E t \in refreshes : T!Refresh(s, a, t)
  /\ UNCHANGED administered

\* Auth.Middleware with credentials:role:patch, and the handler: the actor is the user of
\* the claims.
UpdateRole(s, a, t, r) ==
  /\ a.role \in Patchers
  /\ T!Admit(s, a)
  /\ Rows!UpdateRole(s, a.user, t, r)

\* The other statements happen on the rows; Tokens sees them as a role that changes.
Statement ==
  \/ \E u \in Users : Rows!Register(u)
  \/ \E s \in Sessions :
       \/ Rows!SelectTarget(s) \/ Rows!SelectActor(s) \/ Rows!Update(s)
       \/ request[s] = "idle" /\ \E u \in Roots : Rows!Bootstrap(s, u)
       \/ Rows!BootInsert(s) \/ Rows!BootPassword(s) \/ Rows!BootRole(s)
       \/ Rows!Abort(s)
RoleStep == /\ Statement
            /\ \/ UNCHANGED <<role, lastHeld, signedIn>>
               \/ \E u \in Users, r \in RoleNames : T!SetRole(u, r)

Init == /\ T!Init
        /\ lock = [u \in Users |-> NoSession] /\ booted = FALSE
        /\ at = [s \in Sessions |-> "idle"] /\ update = [s \in Sessions |-> Rows!Idle]

Next == \/ (T!Tick \/ T!SignAnon) /\ UNCHANGED administered
        \/ \E s \in Sessions : TokenStep(s)
        \/ \E s \in Sessions, a \in accesses, t \in Users, r \in RoleNames :
             UpdateRole(s, a, t, r)
        \/ RoleStep

Spec == Init /\ [][Next]_vars

-----------------------------------------------------------------------------
(* Properties.                                                              *)
\* The composition implements its components: what holds of Tokens and of Roles, each
\* with the other left open, holds of the service.
ImplementsTokens == T!Spec
ImplementsRoles == R!Spec

\* A request that changes roles acts for the user of an access token.
Updating(s) == at[s] \in {"target", "actor", "update"}
Authorised(s) == Updating(s) => /\ request[s] = "acting" /\ update[s].actor = claims[s].user
                                /\ claims[s].role \in Patchers /\ claims[s].user \in Users

\* Losing the role takes the power to change those of others, if not at once: whoever has
\* a role update in flight had a role that grants it no longer ago than an access token
\* lives, its signing took and the request may take (Auth.Middleware, TokenRefresh,
\* REST_TIMEOUT_REQUEST).
PowerFades ==
  \A s \in Sessions : Updating(s) =>
    \E r \in Patchers : LET held == lastHeld[update[s].actor][r]
                        IN held >= 0 /\ now <= held + AccessTTL + 2 * RequestTimeout
=============================================================================
