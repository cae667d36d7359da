SPECIFICATION Spec
CONSTANTS
    UnitsPerUsd = 650
    ReceiptUnits = 1000
    BytesPerMb = 4
    MinChargeMb = 1
    Sizes = {4}
    Hours = {650}
    MaxPrice = 2147
    MaxQuotes = 2
INVARIANT ReceiptStatesAmountPaid
CHECK_DEADLOCK FALSE
