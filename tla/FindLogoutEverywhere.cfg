\* A refresh commits its new token after revokeAll has looked for live ones.
SPECIFICATION Spec
CONSTANTS
    h1 = h1
    h2 = h2
    t1 = t1
    t2 = t2
    t3 = t3
    None = None
    Handlers <- MCHandlers
    Tokens <- MCTokens
    Ttl = 1
    Grace = 0
    MaxTime = 1
INVARIANT
    OldSessionsEnd
