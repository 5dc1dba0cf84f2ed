SPECIFICATION Spec
CONSTANTS
    w1 = w1
    w2 = w2
    a1 = a1
    a2 = a2
    None = None
    Jobs <- OneJob
    Workers = {w1, w2}
    AppOf <- Own
    MaxRetries = 2
    MaxGen = 5
SYMMETRY WorkerSymmetry
INVARIANTS TypeOK NoSecondClick ClickIsAccountedFor ClickIsUndisturbed
PROPERTIES GenerationFences StaleWorkerWritesNothing AmbiguityNeedsForce ImplementsSubmission
