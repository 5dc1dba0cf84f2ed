SPECIFICATION WebSpec
CONSTANTS
    w1 = w1
    a1 = a1
    None = None
    Jobs <- OneJob
    Workers = {w1}
    AppOf <- Own
    MaxRetries = 2
    MaxGen = 5
INVARIANT RequeueNeverClicksAgain
