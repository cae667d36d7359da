SPECIFICATION Spec
CONSTANTS
    NoInvoice = NoInvoice
    NoDiscovery = NoDiscovery
    NoOp = NoOp
    Calls = {k1}
    Ops = {store}
    Invoices = {i1}
    Configs <- AllConfigs
    HasKey = TRUE
    MaxRedeploys = 1
    MaxTime = 0
    MaxFaults = 0
INVARIANT ClearForcesFreshFetch
CHECK_DEADLOCK FALSE
