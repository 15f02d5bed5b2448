SPECIFICATION Spec
CONSTANTS
  Registrations = {1, 2, 3}
  Logins = {4, 5, 6}
  Calls = {1, 2}
  EmailOf <- Emails
  PasswordOf <- Passwords
  RoleOf <- MixedRoles
  Encode <- FirstBytes
  RouteOf <- MixedRoutes
  Own <- OwnHeaders
INVARIANT TypeOK
INVARIANT OneUserPerEmail
 
INVARIANT AnswersTrue
CHECK_DEADLOCK FALSE
