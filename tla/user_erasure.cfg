SPECIFICATION FairSpec
CONSTANTS
    u1 = u1
    u2 = u2
    f1 = f1
    x1 = x1
    NoUser = NoUser
    NoPath = NoPath
    Users = {u1, u2}
    Files = {f1}
    Exports = {x1}
    OwnerOf <- Owners
    Sharers = {u1}
    QueueLimit = 1
    MaxTries = 2
INVARIANTS
    TypeOK
    RetainedBytesAreKept
    ErasedAreQueued
PROPERTIES
    DueAreErased
    QueuedAreErased
    KeepsCustody
