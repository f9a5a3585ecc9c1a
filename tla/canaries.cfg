SPECIFICATION Spec
CONSTANTS
    Providers <- OneProvider
    Uploads = {u1, u2}
    failure_threshold = 1
    failure_window_seconds = 1
    cooldown_seconds = 1
    half_open_success_threshold = 1
INVARIANTS
    OneCanary
