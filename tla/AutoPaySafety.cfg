SPECIFICATION Spec
CONSTANTS
    NoInvoice = NoInvoice
    NoDiscovery = NoDiscovery
    NoOp = NoOp
    Calls = {k1, k2}
    Ops = {store}
    Invoices = {i1, i2}
    Configs <- AllConfigs
    HasKey = TRUE
    MaxRedeploys = 1
    MaxTime = 1
    MaxFaults = 1
SYMMETRY Symmetry
INVARIANTS TypeOK NoSettlementOnEntitlement OnePaymentPerCall PaidServedUndisturbed
CHECK_DEADLOCK FALSE
