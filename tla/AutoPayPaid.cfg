SPECIFICATION Spec
CONSTANTS
    NoInvoice = NoInvoice
    NoDiscovery = NoDiscovery
    NoOp = NoOp
    Calls = {k1}
    Ops = {store}
    Invoices = {i1}
    Configs <- OneConfig
    HasKey = FALSE
    MaxRedeploys = 0
    MaxTime = 0
    MaxFaults = 0
INVARIANT RefusedUnpaid
CHECK_DEADLOCK FALSE
