SPECIFICATION Spec
CONSTANTS
    c1 = c1
    c2 = c2
    proxy = proxy
    spoofed = spoofed
    ann = ann
    Clients <- MCClients
    RetryDelays <- MCDelays
    MaxDelay = 4
    Timeout = 50
    Latencies = {50}
    Missing = Missing
    Null = Null
    Blank = Blank
    Text = Text
    Other = Other
    MaxSize = 5
    Users = {ann, c2}
    Addresses <- MCAddresses
    Proxies <- MCProxies
    Unset = Unset
    Empty = Empty
    NotANumber = NotANumber
    Default = Default
    RawEnvs <- MCRawEnvs
    Inputs <- MCInputs
    OpsToken = OpsToken
CHECK_DEADLOCK FALSE
INVARIANTS TypeOK ServerErrorsExplained WorkIsAuthorised LoginTimeBounded OnlyDatabaseKeepsDefaults
PROPERTIES QuotasHold
