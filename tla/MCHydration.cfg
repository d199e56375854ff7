SPECIFICATION FairSpec
CONSTANTS
    feed = feed
    event = event
    n = n
    t = t
    r1 = r1
    r2 = r2
    q1 = q1
    q2 = q2
    Relays = {r1, r2}
    Callers = {feed, event}
    Values = {n, t}
    Has <- MCHas
    Flaky = {r1}
    MaxFaults = 1
    Own = {feed}
    Strict = {feed}
    First <- MCFirst
    ById <- MCById
    Requests = {q1, q2}
    KeysOf <- MCKeysOf
INVARIANTS TypeOK OneFetchPerValue CompleteMeansStored
PROPERTIES HydrationEnds
