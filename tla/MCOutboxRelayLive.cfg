CONSTANTS
    api1 = api1
    api2 = api2
    None = None
    Relays = {api1, api2}
    Mortal = {api1}
    Rows = {1, 2}
    BatchSize = 1
    MaxFailures = 2
SPECIFICATION FairSpec
PROPERTIES KeepsOutbox KeepsPromise
