SPECIFICATION Spec
CONSTANTS
    Role <- OnlyAdmins
    Name = {n1, n2}
    AdminName = n1
    Password = {k1}
    Request = {q1, q2}
    NoUser = NoUser
    MaxId = 2
    MaxTokens = 2
INVARIANTS
    DeleteSparesLastAdmin
CHECK_DEADLOCK FALSE
