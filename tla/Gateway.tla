------------------------------ MODULE Gateway ------------------------------
(***************************************************************************)
(* The API gateway (services/gateway/app) and the helpers it shares with   *)
(* the services (shared/shared/auth.py, security.py): users register and   *)
(* log in, and calls that carry a token are forwarded to a service with    *)
(* identity headers.                                                       *)
(*                                                                         *)
(* A user is named by the registration request that inserts it, a token by *)
(* the login request it was issued to.  Registrations overlap: the check   *)
(* for the email and the INSERT are separate steps.  The gateway stops     *)
(* waiting for a service after 15 seconds, but the service goes on.  What  *)
(* a service does with a call is the subject of its own module: here it    *)
(* performs the call or answers an error.  A call may come with X-User-Id  *)
(* and X-User-Role headers of its own, which are forwarded like its other  *)
(* headers, beside those the gateway sets.                                 *)
(***************************************************************************)
EXTENDS Integers, FiniteSets

CONSTANTS
  Registrations, Logins, Calls,   \* requests
  EmailOf,      \* EmailOf[r]: email in registration or login r
  PasswordOf,   \* PasswordOf[r]: password in registration or login r
  RoleOf,       \* RoleOf[r]: role in registration r
  Encode,       \* Encode[p]: the first 72 bytes of password p
  RouteOf,      \* RouteOf[c]: what call c asks for
  Own           \* Own[c]: the user and the role, if any, in call c's own headers

Roles == {"CUSTOMER", "ADMIN"}
Routes == {"read", "create_order", "cancel_order", "create_product"}

\* The routes behind require_admin, and require_role("ADMIN") in the service.
AdminRoutes == {"create_product"}

ASSUME GatewayAssumption ==
  /\ RoleOf \in [Registrations -> Roles]
  /\ RouteOf \in [Calls -> Routes]
  /\ Own \in [Calls -> [user : SUBSET Registrations, role : SUBSET Roles]]

VARIABLES
  users,        \* registrations whose user is committed
  registering,  \* registering[r]: where registration r is
  token,        \* token[l]: {} or {the user l's token was issued for}
  expired,      \* logins whose token has expired
  bearer,       \* bearer[c]: {} or {the login whose token call c carries}
  call,         \* call[c]: where call c is in the gateway
  upstream      \* upstream[c]: where call c is in the service

accounts == <<users, registering>>
tokens == <<token, expired>>
calls == <<bearer, call, upstream>>
vars == <<accounts, tokens, calls>>

TypeOK ==
  /\ users \subseteq Registrations
  /\ registering \in
       [Registrations -> {"idle", "insert", "created", "conflict", "failed"}]
  /\ token \in [Logins -> SUBSET users]
  /\ expired \subseteq Logins
  /\ bearer \in [Calls -> SUBSET Logins]
  /\ call \in [Calls -> {"idle", "waiting", "ok", "error", "401", "403", "500"}]
  /\ upstream \in [Calls -> {"none", "received", "performed", "refused", "lost"}]

Init ==
  /\ users = {}
  /\ registering = [r \in Registrations |-> "idle"]
  /\ token = [l \in Logins |-> {}]
  /\ expired = {}
  /\ bearer = [c \in Calls |-> {}]
  /\ call = [c \in Calls |-> "idle"]
  /\ upstream = [c \in Calls |-> "none"]

-----------------------------------------------------------------------------
(* POST /auth/register.                                                    *)

\* Mutant of Owners: rows that are not committed are seen.
OwnersUncommitted(email) ==
  {u \in Registrations : registering[u] \in {"insert", "created"} /\ EmailOf[u] = email}

\* The users with an email.
Owners(email) == {u \in users : EmailOf[u] = email}

(* The email is looked up: it is registered (409) ...                      *)
RegisterConflict(r) ==
  /\ registering[r] = "idle"
  /\ Owners(EmailOf[r]) # {}
  /\ registering' = [registering EXCEPT ![r] = "conflict"]
  /\ UNCHANGED <<users, tokens, calls>>

(* ... or it is not, and the user will be inserted.                        *)
RegisterCheck(r) ==
  /\ registering[r] = "idle"
  /\ Owners(EmailOf[r]) = {}
  /\ registering' = [registering EXCEPT ![r] = "insert"]
  /\ UNCHANGED <<users, tokens, calls>>

\* Mutant of RegisterCommit: users.email has no unique index.
InsertNotUnique(r) ==
  /\ registering[r] = "insert"
  /\ users' = users \cup {r}
  /\ registering' = [registering EXCEPT ![r] = "created"]
  /\ UNCHANGED <<tokens, calls>>

(* INSERT and COMMIT, under the unique index on email.                     *)
RegisterCommit(r) ==
  /\ registering[r] = "insert"
  /\ Owners(EmailOf[r]) = {}
  /\ users' = users \cup {r}
  /\ registering' = [registering EXCEPT ![r] = "created"]
  /\ UNCHANGED <<tokens, calls>>

(* An IntegrityError, since another registration of the email came first,  *)
(* or any other failure: answered 500.                                     *)
RegisterFails(r) ==
  /\ registering[r] = "insert"
  /\ registering' = [registering EXCEPT ![r] = "failed"]
  /\ UNCHANGED <<users, tokens, calls>>

-----------------------------------------------------------------------------
\* Mutant of Verified: the hash is made of the email.
VerifiedByEmail(l, u) == EmailOf[l] = EmailOf[u]

\* verify_password of the login's password against the user's hash.
Verified(l, u) == Encode[PasswordOf[l]] = Encode[PasswordOf[u]]

(* POST /auth/login issues a token; the request is else answered 401.      *)
Login(l) ==
  /\ token[l] = {}
  /\ \E u \in Owners(EmailOf[l]) :
       /\ Verified(l, u)
       /\ token' = [token EXCEPT ![l] = {u}]
  /\ UNCHANGED <<accounts, expired, calls>>

(* The token's exp has passed.                                             *)
TokenExpires(l) ==
  /\ token[l] # {}
  /\ expired' = expired \cup {l}
  /\ UNCHANGED <<accounts, token, calls>>

-----------------------------------------------------------------------------
(* The routing surface.                                                    *)

\* decode_token accepts the token of login l.
Valid(l) == token[l] # {} /\ l \notin expired

\* The users whose token call c carries; there is one, once it is accepted.
TokenUsers(c) == UNION {token[l] : l \in bearer[c]}

\* What a service reads of a header it gets from the caller and from the gateway:
\* the caller's own copy comes first.
FirstOf(own, verified) == IF own = {} THEN {verified} ELSE own

\* get_identity: who the service takes the caller to be.
Identity(c) ==
  UNION {[user : FirstOf(Own[c].user, u), role : FirstOf(Own[c].role, RoleOf[u])] :
           u \in TokenUsers(c)}

Permitted(c, role) == RouteOf[c] \in AdminRoutes => role = "ADMIN"

(* current_user: no token, or one that decode_token does not accept.       *)
Unauthorized(c) ==
  /\ call[c] = "idle"
  /\ \E B \in {{}} \cup {{l} : l \in {l \in Logins : ~Valid(l)}} :
       bearer' = [bearer EXCEPT ![c] = B]
  /\ call' = [call EXCEPT ![c] = "401"]
  /\ UNCHANGED <<accounts, tokens, upstream>>

(* require_admin: the token is valid, its role is not ADMIN.               *)
Forbidden(c, l) ==
  /\ call[c] = "idle" /\ Valid(l)
  /\ \E u \in token[l] : ~Permitted(c, RoleOf[u])
  /\ bearer' = [bearer EXCEPT ![c] = {l}]
  /\ call' = [call EXCEPT ![c] = "403"]
  /\ UNCHANGED <<accounts, tokens, upstream>>

(* forward: the request goes to the service with its own headers but for   *)
(* Authorization, and then the token's identity.                           *)
Forward(c, l) ==
  /\ call[c] = "idle" /\ Valid(l)
  /\ \A u \in token[l] : Permitted(c, RoleOf[u])
  /\ bearer' = [bearer EXCEPT ![c] = {l}]
  /\ call' = [call EXCEPT ![c] = "waiting"]
  /\ upstream' = [upstream EXCEPT ![c] = "received"]
  /\ UNCHANGED <<accounts, tokens>>

(* The service takes the identity from the headers, checks its role, and   *)
(* does what is asked, whether or not the gateway still waits.             *)
Perform(c) ==
  /\ upstream[c] = "received"
  /\ \A id \in Identity(c) : Permitted(c, id.role)
  /\ upstream' = [upstream EXCEPT ![c] = "performed"]
  /\ UNCHANGED <<accounts, tokens, bearer, call>>

(* It answers an error (403, 404, 409, 422), and does nothing; or it       *)
(* cannot be reached, or dies.                                             *)
Refuse(c) ==
  /\ upstream[c] = "received"
  /\ upstream' \in {[upstream EXCEPT ![c] = "refused"], [upstream EXCEPT ![c] = "lost"]}
  /\ UNCHANGED <<accounts, tokens, bearer, call>>

\* Mutant of Answer: the Response is made without the upstream status code.
AnswerOk(c) ==
  /\ call[c] = "waiting"
  /\ upstream[c] \in {"performed", "refused"}
  /\ call' = [call EXCEPT ![c] = "ok"]
  /\ UNCHANGED <<accounts, tokens, bearer, upstream>>

(* forward passes the service's answer on.                                 *)
Answer(c) ==
  /\ call[c] = "waiting"
  /\ upstream[c] \in {"performed", "refused"}
  /\ call' = [call EXCEPT ![c] = IF upstream[c] = "performed" THEN "ok" ELSE "error"]
  /\ UNCHANGED <<accounts, tokens, bearer, upstream>>

(* The client raises, after 15 seconds or a lost connection: answered 500. *)
Timeout(c) ==
  /\ call[c] = "waiting"
  /\ call' = [call EXCEPT ![c] = "500"]
  /\ UNCHANGED <<accounts, tokens, bearer, upstream>>

Register(r) ==
  RegisterConflict(r) \/ RegisterCheck(r) \/ RegisterCommit(r) \/ RegisterFails(r)

Next ==
  \/ \E r \in Registrations : Register(r)
  \/ \E l \in Logins : Login(l) \/ TokenExpires(l)
  \/ \E c \in Calls :
       \/ Unauthorized(c) \/ Perform(c) \/ Refuse(c) \/ Answer(c) \/ Timeout(c)
       \/ \E l \in Logins : Forbidden(c, l) \/ Forward(c, l)

Spec == Init /\ [][Next]_vars

-----------------------------------------------------------------------------
(* Properties.                                                             *)

\* However registrations of one email overlap, one of them makes a user: the
\* check alone does not ensure it (register; User.email).
OneUserPerEmail == \A u, v \in users : EmailOf[u] = EmailOf[v] => u = v

\* What a service performs was asked for with the token of a login that proved
\* the email and password of a registered user, and an admin's operation with the
\* token of a user registered as ADMIN, whatever headers the call came with.  For
\* a call without X-User headers of its own the service also takes the caller to
\* be that user, in the role registered; for one with them it need not (register,
\* login, current_user, require_admin, forward, get_identity).
PerformedAsRegistered ==
  \A c \in Calls : upstream[c] = "performed" =>
    \E l \in bearer[c], u \in users :
      /\ token[l] = {u}
      /\ EmailOf[l] = EmailOf[u] /\ Encode[PasswordOf[l]] = Encode[PasswordOf[u]]
      /\ Permitted(c, RoleOf[u])
      /\ Own[c] = [user |-> {}, role |-> {}]
           => Identity(c) = {[user |-> u, role |-> RoleOf[u]]}

\* The gateway's answer is true for good: a call answered as successful was
\* performed, and one refused at the edge or by the service is never performed,
\* not even later.  Only a 500 leaves it open, since a service goes on after the
\* gateway's timeout (forward, current_user, require_admin).
AnswersTrue ==
  \A c \in Calls :
    /\ call[c] = "ok" => upstream[c] = "performed"
    /\ call[c] \in {"401", "403", "error"} => upstream[c] \in {"none", "refused"}
=============================================================================
