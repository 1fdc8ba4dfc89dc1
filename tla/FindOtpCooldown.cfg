\* One request at a time: an OTP that was used makes way for a new one.
SPECIFICATION OtpSpec
CONSTANTS
    OtpHandlers = {h1}
    OtpTtl = 3
    Cooldown = 1
    MaxAttempts = 3
INVARIANT
    CooldownKept
