\* Every provider and every tool, three attempts, an unreliable server.
CONSTANTS
    Providers = {"duckduckgo", "brave", "duckduckgo+brave", "stub"}
    MaxRetries = 3
    Faulty = TRUE
SPECIFICATION Spec
INVARIANTS
    TypeOK
    AnsweredInTime
    RecordedAsItWas
