\* Once quiet, the panel's requests are over and nothing is left to do.
SPECIFICATION LiveSpec
CONSTANTS
    Requests = {r1, r2}
    None = None
INVARIANTS
    ListedHasCredentialApart
    KeyIsRemembered
    PoolsHoldNoGhost
PROPERTY DeletionCompletes
CHECK_DEADLOCK FALSE
\* Refuted in the same instance:
\* INVARIANT ListedHasCredential
\* PROPERTY DeletedOnRequestOnly
