SPECIFICATION Spec
CONSTANTS
  Emails = {e1, e2, e3}
  Roots = {e1}
  Operator = Operator
  Users = {u1, u2}
  Codes = {c1, c2, c3}
  Sessions = {s1, s2}
  NoEmail = NoEmail
  Nobody = Nobody
  NoUser = NoUser
SYMMETRY Symmetry
INVARIANTS PasswordsEarned SessionsEarned AddressesConfirmed IInv
PROPERTIES MovesFollowLastAsk
