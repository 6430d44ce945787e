SPECIFICATION Http
CONSTANTS
    None = None
    Registry <- MCRegistry
    Tokens <- MCTokens
    TrackerSize = 2
    Conns = {c1, c2}
    HttpRequests <- MCHttpRequests
    OperationOutcomes <- MCOperationOutcomes
    MaximumBody = 2
    Times = {0, 1}
INVARIANTS
    AnsweredAsServed
PROPERTIES
    IdentityChangesHands
    InstantsInOrder
    RequestEnds
