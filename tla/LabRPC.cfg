SPECIFICATION FairSpec
CONSTANTS
    Request = {q1, q2}
    Peer = {q2}
    MaxStarts = 2
    q1 = q1
    q2 = q2
INVARIANT AcknowledgedSurvives
PROPERTIES CallsReturn 
