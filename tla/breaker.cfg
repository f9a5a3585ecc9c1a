SPECIFICATION Spec
CONSTANTS
    Providers <- TwoProviders
    Uploads = {u1, u2}
    failure_threshold = 2
    failure_window_seconds = 1
    cooldown_seconds = 2
    half_open_success_threshold = 2
INVARIANTS
    TypeOK
    ClosedIsHealthy
    FlagHasCanary
PROPERTIES
    OpensOnFailures
    Recovers
