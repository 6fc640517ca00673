\* two observers, who keep asking, beside submitter, supervisor and worker
SPECIFICATION FairSpec
CONSTANTS
    Observers = {o1, o2}
    Nobody = Nobody
INVARIANTS
    EndedIsOver
    NoCompletionAfterCancel
    PublishedNotAbandoned
PROPERTIES
    KeepsContract
    JobSettles
\* the job ends
CHECK_DEADLOCK FALSE
