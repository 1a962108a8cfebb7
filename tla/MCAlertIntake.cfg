CONSTANTS
    Requests = {r1, r2}
    Alerts = {a, b, d}
    a = a
    b = b
    d = d
    cpu = cpu
    Names = {cpu}
    Anonymous = Anonymous
    None = None
    MaxLen = 2
    NameOf <- mcNameOf
    Payloads <- mcPayloads
    MaxFaults = 2
SPECIFICATION FairSpec
INVARIANT IntakeSound
PROPERTY EveryWebhookAccepted
CHECK_DEADLOCK FALSE
