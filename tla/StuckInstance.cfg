CONSTANTS
    NotJson = NotJson
    JsonNull = JsonNull
    Other = Other
    None = None
    NotAnAddress = NotAnAddress
    Unset = Unset
    Limit <- MCCutTo
    MaxLength <- MCMaxLength
    CountryOf <- MCCountryOf
    AsnOf <- MCAsnOf
    SizeOf <- MCSizeOf
    Ahead = 600
    Since = 0
    Longest = 604800
    MaxEvents = 3
    MaxBatchEvents = 3
    MaxBatchBytes = 1100
    EnvelopeBytes = 256
    Backoffs = 1
    Now <- MCNow
    MaxRuns = 2
    Files <- OneConnect
    SensorName <- MCSensor
    LiveSensor <- MCSensor
    Shipped = {0}
    Boot = 980
    ChunkRows = 1
    MaxBody = 1200
    MaxRead = 4000
    IngestToken = "ingest"
    RollupsToken = "rollups"
    CronSecret = "cron"
    HashSecret = "hash"
    DatabaseUrl = "postgres"
    GeoConfigured <- MCGeoConfigured
    GeoBundled <- MCGeoBundled
    Deployments = {"functions"}
    Casts <- OnlyReader
    Probes <- MCProbes
    MaxFaults = 1
SPECIFICATION FairSpec
PROPERTIES ReadsRecover
