------------------------------ MODULE X402Amount ------------------------------
(***************************************************************************)
(* Amounts on the x402 rail: the price of a storage lease (lib/pricing.ts),*)
(* the USDC string of the challenge (issueDualChallenge), the transfers a  *)
(* client sends for it, the comparison with the chain (verifyAnyPayment,   *)
(* BaseUSDCProvider) and the receipt (lib/payment-receipt.ts).             *)
(*                                                                         *)
(* The code computes price / SATS_PER_USD and its product with 1e6 in IEEE *)
(* doubles.  The model computes what those operations return, exactly, in  *)
(* integers.  It counts satoshis in units of BASE_RATE_PER_MB_HOUR, so     *)
(* that UnitsPerUsd is SATS_PER_USD / BASE_RATE_PER_MB_HOUR: the quotient, *)
(* and so every double, is the same.                                       *)
(***************************************************************************)
EXTENDS Integers, Sequences, FiniteSets

CONSTANTS
    UnitsPerUsd,     \* SATS_PER_USD in units of the base rate
    ReceiptUnits,    \* the 100_000 of buildPaymentReceipt in the same units
    BytesPerMb,      \* the 1048576, in the model's grain of size
    MinChargeMb,     \* MIN_CHARGE_MB
    Sizes, Hours,    \* leases clients ask for
    MaxPrice,        \* bound: 10^6 times a price must fit TLC's integers
    MaxQuotes        \* bound: challenges before the client's transaction

ASSUME SizeAssumption == BytesPerMb \in Nat \ {0} /\ MinChargeMb \in Nat \ {0}
ASSUME LeaseAssumption == Sizes \subseteq Nat \ {0} /\ Hours \subseteq Nat \ {0}

Micro == 1000 * 1000

\* No rate is so high that the smallest price is no millionth of a dollar.
ASSUME RateAssumption == UnitsPerUsd \in 1..Micro /\ ReceiptUnits \in 1..Micro /\ MaxPrice \in Nat

-----------------------------------------------------------------------------
(* lib/pricing.ts *)

CeilMb(bytes) == (bytes + BytesPerMb - 1) \div BytesPerMb

ChargedMb(bytes) == IF CeilMb(bytes) > MinChargeMb THEN CeilMb(bytes) ELSE MinChargeMb

StoragePrice(bytes, hours) == ChargedMb(bytes) * hours

-----------------------------------------------------------------------------
(***************************************************************************)
(* The double nearest a/u is (a/u) + d/(u 2^e): e places its 53 bits after *)
(* the leading one, and the remainder of a 2^e by u says how far it was    *)
(* rounded, down when that is less than u/2, else up.  No tie arises: a    *)
(* quotient of such small integers that needs 54 bits needs more.          *)
(***************************************************************************)
Pow2[k \in Nat] == IF k = 0 THEN 1 ELSE 2 * Pow2[k - 1]

\* floor(log2(a/u)), for a and u below 2^21.
Log2(a, u) ==
    IF a >= u
    THEN CHOOSE h \in 0..20 : u * Pow2[h] <= a /\ a < u * Pow2[h + 1]
    ELSE -(CHOOSE h \in 1..20 : a * Pow2[h - 1] < u /\ u <= a * Pow2[h])

\* (a 2^k) % u
Shifted(a, u, k) ==
    LET rest[i \in 0..k] == IF i = 0 THEN a % u ELSE (2 * rest[i - 1]) % u
    IN  rest[k]

RoundingError(a, u) ==
    LET rest == Shifted(a, u, 52 - Log2(a, u))
    IN  IF 2 * rest < u THEN -rest ELSE u - rest

\* The exact product with 10^6: whole part, and remainder over u.
Whole(a, u) == (a * Micro) \div u
Part(a, u) == (a * Micro) % u

\* floor(log2(n - x)) for a tiny x > 0.
Log2Below(n) == CHOOSE g \in 0..30 : Pow2[g] < n /\ n <= Pow2[g + 1]

\* Mutant: the dollars are floored, not the millionths.
FloorDollars(a, u) == (a \div u) * Micro

(***************************************************************************)
(* Math.floor(quotient * 1e6).  Only when the exact product is whole can   *)
(* the quotient's error change the floor: an error downward survives the   *)
(* second rounding if it is more than half the spacing of the doubles just *)
(* below.  Both sides of the comparison are divided by 2^6.                *)
(***************************************************************************)
FloorProduct(a, u) ==
    LET n == Whole(a, u)
        lost == -RoundingError(a, u)
        half == u * Pow2[Log2Below(n) - Log2(a, u) - 7]
    IN  IF Part(a, u) = 0 /\ lost > 0 /\ lost * (Micro \div 64) > half THEN n - 1 ELSE n

\* Mutants: the challenge always rounds up, or to dollars.
CeilFixed(a, u) == Whole(a, u) + 1
FixedDollars(a, u) == (a \div u) * Micro

\* (a / u).toFixed(6): nearest, and in the middle the side the quotient is on.
ToFixed(a, u) ==
    LET n == Whole(a, u)
        twice == 2 * Part(a, u)
    IN  IF twice < u \/ (twice = u /\ RoundingError(a, u) < 0) THEN n ELSE n + 1

-----------------------------------------------------------------------------
VARIABLES
    stage,     \* "challenged" until the transaction is sent, then "sent", "answered"
    quotes,    \* amounts of the challenges received, in millionths of a dollar
    logs,      \* Transfer events of the transaction: [to, value]
    price,     \* price of the request that presents it
    accepted,  \* verifyUSDCPayment's answer
    receipt    \* amountPaid of the answer, 0 without one

vars == <<stage, quotes, logs, price, accepted, receipt>>

Init ==
    /\ stage = "challenged"
    /\ quotes = {}
    /\ logs = <<>>
    /\ price = 0
    /\ accepted = FALSE
    /\ receipt = 0

Payable(bytes, hours) == StoragePrice(bytes, hours) <= MaxPrice

\* POST /store without proof: the 402 names the amount.
Challenge(bytes, hours) ==
    /\ stage = "challenged"
    /\ Payable(bytes, hours)
    /\ Cardinality(quotes) < MaxQuotes
    /\ quotes' = quotes \cup {ToFixed(StoragePrice(bytes, hours), UnitsPerUsd)}
    /\ UNCHANGED <<stage, logs, price, accepted, receipt>>

\* The client's transaction pays one or two challenged amounts, to the node or
\* to others.
Send(tx) ==
    /\ stage = "challenged"
    /\ logs' = tx
    /\ stage' = "sent"
    /\ UNCHANGED <<quotes, price, accepted, receipt>>

\* The first event to the node's address decides: another value throws
\* WRONG_AMOUNT, and no event at all is a refusal.
Decides(tx, i) ==
    tx[i].to = "node" /\ \A j \in 1..(i - 1) : tx[j].to # "node"

Verified(tx, cost) ==
    \E i \in 1..Len(tx) : Decides(tx, i) /\ tx[i].value = FloorProduct(cost, UnitsPerUsd)

\* Mutant: the receipt is made out for the size without the minimum charge.
PresentBareSize(bytes, hours) ==
    LET cost == StoragePrice(bytes, hours) IN
    /\ stage = "sent"
    /\ Payable(bytes, hours)
    /\ stage' = "answered"
    /\ price' = cost
    /\ accepted' = Verified(logs, cost)
    /\ receipt' = IF accepted' THEN ToFixed(CeilMb(bytes) * hours, ReceiptUnits) ELSE 0
    /\ UNCHANGED <<quotes, logs>>

\* POST /store with the transaction's hash.
Present(bytes, hours) ==
    LET cost == StoragePrice(bytes, hours) IN
    /\ stage = "sent"
    /\ Payable(bytes, hours)
    /\ stage' = "answered"
    /\ price' = cost
    /\ accepted' = Verified(logs, cost)
    /\ receipt' = IF accepted' THEN ToFixed(cost, ReceiptUnits) ELSE 0
    /\ UNCHANGED <<quotes, logs>>

Log == [to : {"node", "other"}, value : quotes]

Next ==
    \/ \E bytes \in Sizes, hours \in Hours : Challenge(bytes, hours) \/ Present(bytes, hours)
    \/ \E one \in Log : Send(<<one>>)
    \/ \E one, two \in Log : Send(<<one, two>>)

Spec == Init /\ [][Next]_vars

-----------------------------------------------------------------------------
(* Properties *)

\* Every challenge names a positive amount, and only an answer has a receipt.
TypeOK ==
    /\ stage \in {"challenged", "sent", "answered"}
    /\ quotes \subseteq Nat \ {0}
    /\ logs \in Seq([to : {"node", "other"}, value : quotes])
    /\ price \in 0..MaxPrice
    /\ accepted \in BOOLEAN
    /\ receipt \in Nat
    /\ accepted = (receipt # 0)

Answered == stage = "answered"
Distance(x, y) == IF x < y THEN y - x ELSE x - y

(* Whatever the doubles do, what the node takes for a lease is the value of  *)
(* a transfer to it within a millionth of a dollar of the exact price.       *)
AcceptedWithinOneUnit ==
    accepted => \E i \in 1..Len(logs) :
                    /\ Decides(logs, i)
                    /\ Distance(logs[i].value * UnitsPerUsd, price * Micro) <= UnitsPerUsd

(* A client that sends exactly the challenged amount is refused only because *)
(* the challenge was one millionth above what the verifier computes, never   *)
(* because it was asked too little or for anything else.                     *)
RefusedByOneUnitOnly ==
    LET quote == ToFixed(price, UnitsPerUsd) IN
    Answered /\ logs = <<[to |-> "node", value |-> quote]>> /\ ~accepted =>
        quote = FloorProduct(price, UnitsPerUsd) + 1

(* x402-implementation-guide.md 7: the amount of the challenge matches the   *)
(* on-chain value.  A client that transfers exactly the challenged amount is *)
(* refused where the product of doubles falls just short of the whole number.*)
ExactPaymentAccepted ==
    Answered /\ logs = <<[to |-> "node", value |-> ToFixed(price, UnitsPerUsd)]>> => accepted

(* x402-implementation-guide.md 7: of several transfers in a transaction the *)
(* one to the node's wallet is verified.  The first one to it decides.       *)
MatchingTransferAccepted ==
    Answered /\ [to |-> "node", value |-> FloorProduct(price, UnitsPerUsd)]
                    \in {logs[i] : i \in 1..Len(logs)} => accepted

(* Where SATS_PER_USD has its default, the receipt states, to a millionth of  *)
(* a dollar, the transfer that was taken: the two conversions, of which one   *)
(* floors a product and the other rounds a quotient, never come further apart.*)
ReceiptAtDefaultRate ==
    UnitsPerUsd = ReceiptUnits /\ accepted =>
        \A i \in 1..Len(logs) : Decides(logs, i) => Distance(receipt, logs[i].value) <= 1

(* lib/payments/index.ts: x402 amounts convert by SATS_PER_USD.  The receipt *)
(* converts by 100,000 whatever the rate.                                    *)
ReceiptStatesAmountPaid ==
    accepted => \A i \in 1..Len(logs) :
                    Decides(logs, i) => Distance(receipt, logs[i].value) <= 1

=============================================================================
