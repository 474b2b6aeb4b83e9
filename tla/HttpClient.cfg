SPECIFICATION Spec
CONSTANTS
    Requests = {r1, r2}
    Statuses = {200, 401, 500}
    MaxRetries = 1
    MaxGrant = 3
    Nobody = Nobody
INVARIANTS
    RefreshTokenSpentOnce
    SessionLossReal
    EverySendPaid
PROPERTIES
    RequestsEnd
CHECK_DEADLOCK FALSE
