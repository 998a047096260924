SPECIFICATION PoolSpec
CONSTANTS
    MaxTxn = 4
    t1 = t1
    t2 = t2
    Transaction <- MCTransaction
    Discovery = Discovery
INVARIANTS
    ExclusiveOwnership
PROPERTIES
    FarthestReuse
\* Once the discovery service has taken every number, nothing can be
\* allocated or released again: the pool really stops.
CHECK_DEADLOCK FALSE
