SPECIFICATION Spec
CONSTANTS
    Providers = {"passphrase", "hardware"}
    Timeout = 1
    MaxTime = 3
    MaxSession = 2
    Never = Never
INVARIANTS
    TypeOK
    SessionConsistent
    MfaOfThisSession
    OneCallOutlivesSession
PROPERTIES
    AdmittedInTime
    GatewayAnswers
    SocketAnswers
