SPECIFICATION ConfigSpec
CONSTANTS
    d1 = d1  d2 = d2
    r1 = r1  r2 = r2
    h1 = h1  h2 = h2
    revoked = revoked  default = default  acme = acme
    Deliveries = {d1, d2}
    Runs <- MCRuns
    MAX_RETRIES = 3
    Orgs = {default, acme}
    DefaultOrg = default
    Events = {revoked}
    Hooks = {h1, h2}
    Updates <- MCUpdates
INVARIANTS InOnePlace QueueHasTimer
PROPERTIES DeliveriesEnd NothingAfterDeletion
CHECK_DEADLOCK FALSE
