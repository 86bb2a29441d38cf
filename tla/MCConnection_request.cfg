SPECIFICATION FairSpec
CONSTANTS
    MaxRequests = 3
    retries = 1
    Answers <- SomeAnswers
    MaxBreaks = 2
    MaxTries = 3
INVARIANTS TypeOK GivesUpInTime
PROPERTIES KeepsPromise RequestReturns
