SPECIFICATION FairSpec
CONSTANTS
    w1 = w1
    w2 = w2
    a1 = a1
    a2 = a2
    None = None
    Jobs <- OneJob
    Workers = {w1, w2}
    AppOf <- Own
    MaxRetries = 1
    MaxGen = 3
PROPERTIES SubmissionsResolve QueueDrains
