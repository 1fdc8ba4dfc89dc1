\* Two requests at a time on an address that two accounts may have; three on an
\* OTP that lives for three units of time.
SPECIFICATION MCSpec
CONSTANTS
    h1 = h1
    h2 = h2
    h3 = h3
    u1 = u1
    u2 = u2
    p1 = p1
    p2 = p2
    None = None
    Handlers <- MCHandlers
    Users <- MCUsers
    Passwords <- MCPasswords
    OtpHandlers <- MCOtpHandlers
    OtpTtl = 3
    Cooldown = 1
    MaxAttempts = 3
SYMMETRY MCSymmetry
INVARIANTS
    TypeOK
    ResetsBounded
    OtpTypeOK
    GuessesBounded
