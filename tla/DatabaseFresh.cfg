SPECIFICATION Spec
CONSTANTS
    MaxBusy = 6000
    Request <- OneRequest
    Tx = {}
    Pooled = {q1, q2}
    Closer = {x1}
    Nobody = Nobody
INVARIANT NoFreshDatabaseForQueries
