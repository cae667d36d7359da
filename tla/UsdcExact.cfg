SPECIFICATION Spec
CONSTANTS
    UnitsPerUsd = 1000
    ReceiptUnits = 1000
    BytesPerMb = 4
    MinChargeMb = 1
    Sizes = {4}
    Hours = {24, 720, 1001}
    MaxPrice = 2147
    MaxQuotes = 2
INVARIANT ExactPaymentAccepted
CHECK_DEADLOCK FALSE
