SPECIFICATION AnswersSpec

CONSTANTS
    a = a
    b = b
    c = c
    NoServer = NoServer
    Server = {a, b, c}
    IPv4 = {a, b}
    Query = {q1}
    Configuration <- MCConfiguration
    Algorithms = {"failover", "weighted"}
    CounterLimit = 4
    MaxChanges = 3

INVARIANTS
    AnswerWasServing
    FailureJustified
    PoolFair
