SPECIFICATION FairSpec
CONSTANTS
    Dids = {d}
    Authorizors = {a}
    Ttl = 1
    Delay = 1
    MaxTx = 3
    None = None
INVARIANTS TypeOK OwnWritesSeen BoundedStaleness AnswersTrue
PROPERTIES ImplementsReader DeactivationNoticed
