\* A user who may type anything at any prompt, eight lines in all.
CONSTANTS
    Name = {"ann", "1"}
    Password = {"pw", "1"}
    MaxAttempts = 3
    MaxTyped = 8
    MaxForeign = 1
SPECIFICATION FairSpec
INVARIANTS
    BelieversAuthenticated
    CredentialsAsTyped
    LinesInTurn
PROPERTIES
    UserGetsTurn
    ImplementsAuthentication
