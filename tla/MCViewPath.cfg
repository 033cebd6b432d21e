SPECIFICATION ViewFairSpec
CONSTANTS
    Punches = 2
    Width = 20
    MaxDups = 1
    Requests = 2
    MaxChallenges = 2
    Tickets = {t1, t2}
    Ids = {i1, i2}
    Viewers = {v1, v2}
    NoTicket = NoTicket
    NoId = NoId
INVARIANTS
    
    OwnAnswers
    CountersAgree
    AnswersInOrder
    NonceCountOnce
    RemoteAccounted
PROPERTIES
    HandshakeEnds
    ClientIsAnswered
CHECK_DEADLOCK FALSE
