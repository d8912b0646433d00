SPECIFICATION FairSpec
CONSTANTS
    Client = {c1, c2, c3}
    NoClient = NoClient
INVARIANTS
    AnswersMatch
PROPERTIES
    LookupEnds
    RetrySucceeds
