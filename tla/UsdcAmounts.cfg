SPECIFICATION Spec
CONSTANTS
    UnitsPerUsd = 1000
    ReceiptUnits = 1000
    BytesPerMb = 4
    MinChargeMb = 2
    Sizes = {1, 8, 9}
    Hours = {1, 24, 333, 500, 668, 1001, 1003}
    MaxPrice = 2147
    MaxQuotes = 2
INVARIANTS TypeOK AcceptedWithinOneUnit RefusedByOneUnitOnly ReceiptAtDefaultRate
CHECK_DEADLOCK FALSE
