--------------------------- MODULE GatewayProofs ---------------------------
(***************************************************************************)
(* Proofs about Gateway for any registrations, logins and calls.           *)
(***************************************************************************)
EXTENDS Gateway, TLAPS

\* The login proved the user's email and password.
Proved(l, u) == EmailOf[l] = EmailOf[u] /\ Encode[PasswordOf[l]] = Encode[PasswordOf[u]]

\* A token belongs to the one user its login proved.
TokensProved ==
  \A l \in Logins : token[l] # {} => \E u \in users : token[l] = {u} /\ Proved(l, u)

\* A call has reached a service only under a token that permits it; what the
\* gateway refused never has, and what it passed on is what the service answered.
Permit(c, l, u) ==
  bearer[c] = {l} /\ token[l] = {u} /\ Proved(l, u) /\ Permitted(c, RoleOf[u])
CallSound(c) ==
  /\ upstream[c] # "none" => \E l \in Logins, u \in users : Permit(c, l, u)
  /\ call[c] \in {"idle", "401", "403"} => upstream[c] = "none"
  /\ call[c] = "ok" => upstream[c] = "performed"
  /\ call[c] = "error" => upstream[c] = "refused"
CallsSound == \A c \in Calls : CallSound(c)

GatewayInv == TypeOK /\ OneUserPerEmail /\ TokensProved /\ CallsSound

LEMMA GatewayInit == Init => GatewayInv
  BY DEF Init, GatewayInv, TypeOK, OneUserPerEmail, TokensProved, CallsSound, CallSound

\* A registration adds at most one user, under an email nobody has.
LEMMA RegisterStep ==
  ASSUME GatewayInv, NEW r \in Registrations, Register(r)
  PROVE  GatewayInv'
<1>1. /\ users \subseteq users'
      /\ users' \subseteq users \cup {r}
      /\ users' # users => Owners(EmailOf[r]) = {}
      /\ UNCHANGED <<token, expired, bearer, call, upstream>>
  BY DEF Register, RegisterConflict, RegisterCheck, RegisterCommit, RegisterFails,
         tokens, calls
<1>2. TypeOK'
  BY <1>1 DEF Register, RegisterConflict, RegisterCheck, RegisterCommit, RegisterFails,
              GatewayInv, TypeOK
<1>3. OneUserPerEmail'
  BY <1>1 DEF GatewayInv, OneUserPerEmail, Owners
<1>4. TokensProved' /\ CallsSound'
  BY <1>1 DEF GatewayInv, TokensProved, CallsSound, CallSound, Permit, Proved, Permitted
<1>5. QED
  BY <1>2, <1>3, <1>4 DEF GatewayInv

\* A token is issued for a user whose email and password the login gives, and
\* tokens are never replaced.
LEMMA TokenStep ==
  ASSUME GatewayInv, NEW l \in Logins, Login(l) \/ TokenExpires(l)
  PROVE  GatewayInv'
<1>1. /\ UNCHANGED <<users, registering, bearer, call, upstream>>
      /\ TypeOK'
  BY DEF Login, TokenExpires, accounts, calls, GatewayInv, TypeOK, Owners
<1>2. \A k \in Logins : token[k] # {} => token'[k] = token[k]
  BY DEF Login, TokenExpires, GatewayInv, TypeOK
<1>3. TokensProved'
  BY <1>1, <1>2 DEF Login, TokenExpires, GatewayInv, TypeOK, TokensProved, Proved,
                    Verified, Owners
<1>4. CallsSound'
  BY <1>1, <1>2 DEF GatewayInv, CallsSound, CallSound, Permit, Permitted, Proved
<1>5. QED
  BY <1>1, <1>3, <1>4 DEF GatewayInv, OneUserPerEmail

LEMMA CallStep ==
  ASSUME GatewayInv, NEW c \in Calls,
         \/ Unauthorized(c) \/ Perform(c) \/ Refuse(c) \/ Answer(c) \/ Timeout(c)
         \/ \E l \in Logins : Forbidden(c, l) \/ Forward(c, l)
  PROVE  GatewayInv'
<1>1. UNCHANGED <<users, registering, token, expired>>
  BY DEF Unauthorized, Perform, Refuse, Answer, Timeout, Forbidden, Forward, accounts, tokens
<1>2. TypeOK'
  BY <1>1 DEF Unauthorized, Perform, Refuse, Answer, Timeout, Forbidden, Forward,
              GatewayInv, TypeOK
<1>3. \A k \in Calls : k # c => bearer'[k] = bearer[k] /\ call'[k] = call[k]
                                 /\ upstream'[k] = upstream[k]
  BY DEF Unauthorized, Perform, Refuse, Answer, Timeout, Forbidden, Forward,
         GatewayInv, TypeOK
<1>4. \A k \in Calls : k # c => CallSound(k)'
  BY <1>1, <1>3 DEF GatewayInv, CallsSound, CallSound, Permit, Permitted, Proved
<1>5. CallSound(c)
  BY DEF GatewayInv, CallsSound
<1>6. CallSound(c)'
  <2>1. CASE Unauthorized(c) \/ \E l \in Logins : Forbidden(c, l)
    <3>1. upstream'[c] = "none" /\ call'[c] \in {"401", "403"}
      BY <1>5, <2>1 DEF Unauthorized, Forbidden, GatewayInv, TypeOK, CallSound
    <3>2. QED
      BY <3>1 DEF CallSound
  <2>2. ASSUME NEW l \in Logins, Forward(c, l) PROVE CallSound(c)'
    <3>1. PICK u \in users : token[l] = {u} /\ Proved(l, u) /\ Permitted(c, RoleOf[u])
      BY <2>2 DEF Forward, Valid, GatewayInv, TokensProved
    <3>2. bearer'[c] = {l} /\ call'[c] = "waiting" /\ upstream'[c] = "received"
      BY <2>2 DEF Forward, GatewayInv, TypeOK
    <3>3. Permit(c, l, u)'
      BY <1>1, <3>1, <3>2 DEF Permit, Permitted, Proved
    <3>4. QED
      BY <1>1, <3>2, <3>3 DEF CallSound
  <2>3. CASE Perform(c) \/ Refuse(c) \/ Answer(c) \/ Timeout(c)
    <3>1. bearer' = bearer /\ (upstream'[c] # "none" => upstream[c] # "none")
      BY <2>3 DEF Perform, Refuse, Answer, Timeout, GatewayInv, TypeOK
    <3>2. \A l \in Logins, u \in users : Permit(c, l, u) => Permit(c, l, u)'
      BY <1>1, <3>1 DEF Permit, Permitted, Proved
    <3>3. upstream'[c] # "none" => \E l \in Logins, u \in users' : Permit(c, l, u)'
      BY <1>1, <1>5, <3>1, <3>2 DEF CallSound
    <3>4. /\ call'[c] \in {"idle", "401", "403"} => upstream'[c] = "none"
          /\ call'[c] = "ok" => upstream'[c] = "performed"
          /\ call'[c] = "error" => upstream'[c] = "refused"
      BY <1>5, <2>3 DEF Perform, Refuse, Answer, Timeout, GatewayInv, TypeOK, CallSound
    <3>5. QED
      BY <3>3, <3>4 DEF CallSound
  <2>4. QED
    BY <2>1, <2>2, <2>3
<1>7. CallsSound'
  BY <1>4, <1>6 DEF CallsSound
<1>8. QED
  BY <1>1, <1>2, <1>7 DEF GatewayInv, OneUserPerEmail, TokensProved, Proved

LEMMA GatewayStep ==
  ASSUME GatewayInv, [Next]_vars
  PROVE  GatewayInv'
<1>1. CASE UNCHANGED vars
  BY <1>1 DEF vars, accounts, tokens, calls, GatewayInv, TypeOK, OneUserPerEmail,
              TokensProved, CallsSound, CallSound, Permit, Proved, Permitted
<1>2. CASE Next
  BY <1>2, RegisterStep, TokenStep, CallStep DEF Next
<1>3. QED
  BY <1>1, <1>2

\* The state of the gateway keeps its types; in particular a token is issued only
\* for a committed user (login).
THEOREM GatewayTypes == Spec => []TypeOK
<1>1. GatewayInv /\ [Next]_vars => GatewayInv'
  BY GatewayStep
<1>2. GatewayInv => TypeOK
  BY DEF GatewayInv
<1>3. QED
  BY <1>1, <1>2, GatewayInit, PTL DEF Spec

\* However many registrations of one email overlap, it has one user (register,
\* User.email).
THEOREM EmailsUnique == Spec => []OneUserPerEmail
<1>1. GatewayInv /\ [Next]_vars => GatewayInv'
  BY GatewayStep
<1>2. GatewayInv => OneUserPerEmail
  BY DEF GatewayInv
<1>3. QED
  BY <1>1, <1>2, GatewayInit, PTL DEF Spec

\* The service takes a call without X-User headers of its own for the user of its
\* token (forward, get_identity).
LEMMA IdentityOfToken ==
  ASSUME NEW c \in Calls, NEW l \in Logins, NEW u \in users, Permit(c, l, u),
         Own[c] = [user |-> {}, role |-> {}]
  PROVE  Identity(c) = {[user |-> u, role |-> RoleOf[u]]}
<1>1. TokenUsers(c) = {u}
  BY DEF Permit, TokenUsers
<1>2. FirstOf(Own[c].user, u) = {u} /\ FirstOf(Own[c].role, RoleOf[u]) = {RoleOf[u]}
  BY DEF FirstOf
<1>3. [user : {u}, role : {RoleOf[u]}] = {[user |-> u, role |-> RoleOf[u]]}
  <2>1. ASSUME NEW r, NEW id \in [user : {u}, role : {r}]
        PROVE  id = [user |-> u, role |-> r]
    <3>1. id.user = u /\ id.role = r
      OBVIOUS
    <3>2. id = [user |-> id.user, role |-> id.role]
      OBVIOUS
    <3>3. QED
      BY <3>1, <3>2
  <2>2. \A r : [user |-> u, role |-> r] \in [user : {u}, role : {r}]
    OBVIOUS
  <2>3. QED
    BY <2>1, <2>2
<1>4. QED
  BY <1>1, <1>2, <1>3 DEF Identity

\* What a service performs was asked for with the token of a login that proved a
\* registered user, within that user's role; without X-User headers of the call's
\* own it is performed for that user (login, current_user, require_admin, forward,
\* get_identity).
THEOREM IdentityKept == Spec => []PerformedAsRegistered
<1>1. GatewayInv /\ [Next]_vars => GatewayInv'
  BY GatewayStep
<1>2. GatewayInv => PerformedAsRegistered
  <2>1. SUFFICES ASSUME GatewayInv, NEW c \in Calls, upstream[c] = "performed"
                 PROVE  \E l \in bearer[c], u \in users :
                          /\ token[l] = {u}
                          /\ Proved(l, u)
                          /\ Permitted(c, RoleOf[u])
                          /\ Own[c] = [user |-> {}, role |-> {}]
                               => Identity(c) = {[user |-> u, role |-> RoleOf[u]]}
    BY DEF PerformedAsRegistered, Proved
  <2>2. PICK l \in Logins, u \in users : Permit(c, l, u)
    BY <2>1 DEF GatewayInv, CallsSound, CallSound
  <2>3. l \in bearer[c] /\ token[l] = {u} /\ Proved(l, u) /\ Permitted(c, RoleOf[u])
    BY <2>2 DEF Permit
  <2>4. QED
    BY <2>2, <2>3, IdentityOfToken
<1>3. QED
  BY <1>1, <1>2, GatewayInit, PTL DEF Spec

\* The gateway's answers stay true: nothing it refused is performed later
\* (forward, current_user, require_admin).
THEOREM AnswersStayTrue == Spec => []AnswersTrue
<1>1. GatewayInv /\ [Next]_vars => GatewayInv'
  BY GatewayStep
<1>2. GatewayInv => AnswersTrue
  BY DEF GatewayInv, CallsSound, CallSound, AnswersTrue
<1>3. QED
  BY <1>1, <1>2, GatewayInit, PTL DEF Spec
=============================================================================
