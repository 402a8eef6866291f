SPECIFICATION FairSpec
CONSTANTS
    Role <- MCRole
    Name = {n1, n2, n3}
    AdminName = n1
    Password = {k1, k2}
    Request = {q1, q2}
    NoUser = NoUser
    MaxId = 2
    MaxTokens = 2
INVARIANTS
    TypeOK
    IssuedIsCurrent
    TokenNamesItsUser
    LastAdminSurvives
PROPERTIES
    DeletedUserIsLockedOut
CHECK_DEADLOCK FALSE
