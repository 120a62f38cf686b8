SPECIFICATION FairSpec
CONSTANTS
    N1 = N1
    N2 = N2
    T1 = T1
    T2 = T2
    Nobody = Nobody
    Handlers = {h1, h2}
    Notifiers = {N1, N2}
    Topics = {T1, T2}
    Match <- MCMatch
    Cap = 1
    MaxEvents = 4
CHECK_DEADLOCK FALSE
INVARIANTS TypeOK ExactlyOnceInOrder
  
