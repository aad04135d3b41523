CONSTANTS
    api1 = api1
    api2 = api2
    None = None
    Relays = {api1, api2}
    Mortal = {api1, api2}
    Rows = {1, 2, 3}
    BatchSize = 2
    MaxFailures = 1
SYMMETRY Replicas
SPECIFICATION Spec
INVARIANTS TypeOK ExclusiveBatch MarkedWasPushed RepeatsAreFailures NoLostWakeup
PROPERTY InOrder
