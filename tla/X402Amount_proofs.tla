--------------------------- MODULE X402Amount_proofs ---------------------------
(***************************************************************************)
(* Proofs about X402Amount, for every conversion rate, every price and     *)
(* every transaction.  They use of the arithmetic of doubles only that an  *)
(* error of the quotient changes a floor when the exact product is whole.  *)
(***************************************************************************)
EXTENDS X402Amount, TLAPS

(* Whole division with its remainder. *)
LEMMA Division ==
    ASSUME NEW a \in Nat, NEW b \in Nat \ {0}
    PROVE  /\ a \div b \in Nat /\ a % b \in Nat /\ a % b < b
           /\ a = b * (a \div b) + (a % b)
<1>1. a \div b \in Nat
  OBVIOUS
<1>2. a % b \in Nat /\ a % b < b
  OBVIOUS
<1>3. a = b * (a \div b) + (a % b)
  OBVIOUS
<1> QED BY <1>1, <1>2, <1>3

(* The millionths of a dollar are a number. *)
LEMMA MicroNat == Micro \in Nat
BY DEF Micro

(* A positive price is positive in millionths of a dollar, whatever the rate. *)
LEMMA Exact ==
    ASSUME NEW a \in Nat \ {0}, NEW u \in 1..Micro
    PROVE  /\ Whole(a, u) \in Nat \ {0} /\ Part(a, u) \in Nat /\ Part(a, u) < u
           /\ a * Micro = u * Whole(a, u) + Part(a, u)
<1>0. Micro \in Nat
  BY MicroNat
<1>1. u \in Nat \ {0} /\ u <= Micro
  BY <1>0
<1>2. PICK m \in Nat : m = a * Micro /\ m >= Micro
  <2>1. a * Micro >= 1 * Micro
    BY SMT, <1>0
  <2> QED BY <1>0, <2>1
<1>3. /\ Whole(a, u) \in Nat /\ Part(a, u) \in Nat /\ Part(a, u) < u
      /\ m = u * Whole(a, u) + Part(a, u)
  BY <1>1, <1>2, Division DEF Whole, Part
<1>4. Whole(a, u) # 0
  <2> SUFFICES ASSUME Whole(a, u) = 0 PROVE FALSE
    OBVIOUS
  <2>1. u * 0 = 0
    BY <1>1
  <2>2. m = Part(a, u)
    BY <1>3, <2>1
  <2> QED BY <1>0, <1>1, <1>2, <1>3, <2>2
<1> QED BY <1>2, <1>3, <1>4

(* What the verifier expects is the exact amount rounded down, or, where that *)
(* is whole, possibly one below.                                              *)
LEMMA FloorNear ==
    ASSUME NEW a \in Nat \ {0}, NEW u \in 1..Micro
    PROVE  \/ FloorProduct(a, u) = Whole(a, u)
           \/ FloorProduct(a, u) = Whole(a, u) - 1 /\ Part(a, u) = 0
BY DEF FloorProduct

(* What the challenge names is the exact amount rounded down or up, and exact *)
(* where that is whole.                                                       *)
LEMMA FixedNear ==
    ASSUME NEW a \in Nat \ {0}, NEW u \in 1..Micro
    PROVE  /\ ToFixed(a, u) \in {Whole(a, u), Whole(a, u) + 1}
           /\ Part(a, u) = 0 => ToFixed(a, u) = Whole(a, u)
           /\ ToFixed(a, u) \in Nat \ {0}
<1>1. ToFixed(a, u) \in {Whole(a, u), Whole(a, u) + 1}
  BY DEF ToFixed
<1>2. Part(a, u) = 0 => ToFixed(a, u) = Whole(a, u)
  BY DEF ToFixed
<1> QED BY <1>1, <1>2, Exact

(* A lease has a positive price. *)
LEMMA PricePositive ==
    ASSUME NEW bytes \in Sizes, NEW hours \in Hours
    PROVE  StoragePrice(bytes, hours) \in Nat \ {0}
<1>1. bytes + BytesPerMb - 1 \in Nat /\ hours \in Nat \ {0}
  BY SizeAssumption, LeaseAssumption
<1>2. CeilMb(bytes) \in Nat
  BY <1>1, SizeAssumption, Division DEF CeilMb
<1>3. ChargedMb(bytes) \in Nat \ {0}
  BY <1>2, SizeAssumption DEF ChargedMb
<1>4. \A c, h \in Nat \ {0} : c * h \in Nat \ {0}
  OBVIOUS
<1> QED BY <1>1, <1>3, <1>4 DEF StoragePrice

-----------------------------------------------------------------------------
(* The inductive invariant: no transaction before it is sent, no price and no *)
(* receipt before the answer, and the answer is the verifier's.               *)

AmountInv ==
    /\ TypeOK
    /\ stage = "challenged" => logs = <<>>
    /\ stage # "answered" => ~accepted
    /\ stage = "answered" => price # 0 /\ accepted = Verified(logs, price)
    /\ accepted => receipt = ToFixed(price, ReceiptUnits)

(* A challenge adds a positive amount. *)
LEMMA ChallengeKeeps ==
    ASSUME AmountInv, NEW bytes \in Sizes, NEW hours \in Hours, Challenge(bytes, hours)
    PROVE  AmountInv'
<1>1. ToFixed(StoragePrice(bytes, hours), UnitsPerUsd) \in Nat \ {0}
  BY PricePositive, FixedNear, RateAssumption
<1>2. quotes' \subseteq Nat \ {0}
  BY <1>1 DEF Challenge, AmountInv, TypeOK
<1>3. logs' = <<>> /\ logs' \in Seq([to : {"node", "other"}, value : quotes'])
  BY DEF Challenge, AmountInv
<1> QED BY <1>2, <1>3 DEF Challenge, AmountInv, TypeOK

(* A transaction pays amounts that were named. *)
LEMMA SendKeeps ==
    ASSUME AmountInv, NEW tx \in Seq(Log), Send(tx)
    PROVE  AmountInv'
BY DEF AmountInv, TypeOK, Send, Log

(* An answer has a price, and a receipt exactly if it accepts. *)
LEMMA PresentKeeps ==
    ASSUME AmountInv, NEW bytes \in Sizes, NEW hours \in Hours, Present(bytes, hours)
    PROVE  AmountInv'
<1> DEFINE cost == StoragePrice(bytes, hours)
<1>1. cost \in Nat \ {0} /\ cost <= MaxPrice
  BY PricePositive DEF Present, Payable
<1>2. ToFixed(cost, ReceiptUnits) \in Nat \ {0}
  BY <1>1, FixedNear, RateAssumption
<1>3. /\ stage' = "answered" /\ price' = cost /\ accepted' = Verified(logs, cost)
      /\ receipt' = IF accepted' THEN ToFixed(cost, ReceiptUnits) ELSE 0
      /\ quotes' = quotes /\ logs' = logs
  BY DEF Present
<1> HIDE DEF cost
<1>4. accepted' \in BOOLEAN
  BY <1>3 DEF Verified
<1>5. receipt' \in Nat /\ accepted' = (receipt' # 0)
  BY <1>2, <1>3, <1>4
<1>6. price' \in 0..MaxPrice
  BY <1>1, <1>3, RateAssumption
<1>7. TypeOK'
  BY <1>3, <1>4, <1>5, <1>6 DEF AmountInv, TypeOK
<1>8. accepted' = Verified(logs, price)'
  BY <1>3 DEF Verified, Decides
<1> QED BY <1>1, <1>3, <1>7, <1>8 DEF AmountInv

(* The invariant of every reachable state. *)
THEOREM AmountInvariant == Spec => []AmountInv
<1>1. Init => AmountInv
  <2> SUFFICES ASSUME Init PROVE AmountInv
    OBVIOUS
  <2>1. price \in 0..MaxPrice /\ quotes \subseteq Nat \ {0} /\ receipt \in Nat
    BY RateAssumption DEF Init
  <2>2. accepted = FALSE /\ receipt = 0 /\ logs = <<>> /\ stage = "challenged"
    BY DEF Init
  <2>3. accepted = (receipt # 0)
    BY <2>2
  <2> QED BY <2>1, <2>2, <2>3 DEF AmountInv, TypeOK
<1>2. AmountInv /\ [Next]_vars => AmountInv'
  <2> SUFFICES ASSUME AmountInv, [Next]_vars PROVE AmountInv'
    OBVIOUS
  <2>1. ASSUME NEW one \in Log, NEW two \in Log, Send(<<one>>) \/ Send(<<one, two>>)
        PROVE  AmountInv'
    <3>1. <<one>> \in Seq(Log) /\ <<one, two>> \in Seq(Log)
      OBVIOUS
    <3> QED BY <2>1, <3>1, SendKeeps
  <2>2. CASE UNCHANGED vars
    BY <2>2 DEF vars, AmountInv, TypeOK, Verified, Decides
  <2> QED BY <2>1, <2>2, ChallengeKeeps, PresentKeeps DEF Next
<1> QED BY <1>1, <1>2, PTL DEF Spec

(* Every challenge names a positive amount, and only an answer has a receipt. *)
THEOREM AmountTypes == Spec => []TypeOK
BY AmountInvariant, PTL DEF AmountInv

(* What the node takes is within a millionth of a dollar of the exact price. *)
THEOREM AcceptedIsExact == Spec => []AcceptedWithinOneUnit
<1>1. AmountInv => AcceptedWithinOneUnit
  <2> SUFFICES ASSUME AmountInv, accepted PROVE AcceptedWithinOneUnit
    BY DEF AcceptedWithinOneUnit
  <2>1. price \in Nat \ {0} /\ Verified(logs, price) /\ UnitsPerUsd \in 1..Micro
    BY RateAssumption DEF AmountInv, TypeOK
  <2>2. PICK i \in 1..Len(logs) :
            Decides(logs, i) /\ logs[i].value = FloorProduct(price, UnitsPerUsd)
    BY <2>1 DEF Verified
  <2> DEFINE w == Whole(price, UnitsPerUsd)
             p == Part(price, UnitsPerUsd)
             m == price * Micro
  <2>3. /\ w \in Nat /\ p \in Nat /\ p < UnitsPerUsd /\ m = UnitsPerUsd * w + p /\ m \in Nat
    BY <2>1, Exact, MicroNat
  <2>4. logs[i].value = w \/ (logs[i].value = w - 1 /\ p = 0)
    BY <2>1, <2>2, FloorNear
  <2> HIDE DEF w, p, m
  <2>5. w * UnitsPerUsd = UnitsPerUsd * w /\ (w - 1) * UnitsPerUsd = UnitsPerUsd * w - UnitsPerUsd
    BY <2>1, <2>3
  <2>6. Distance(logs[i].value * UnitsPerUsd, m) <= UnitsPerUsd
    <3>1. CASE logs[i].value = w
      BY <2>1, <2>3, <2>5, <3>1 DEF Distance
    <3>2. CASE logs[i].value = w - 1 /\ p = 0
      BY <2>1, <2>3, <2>5, <3>2 DEF Distance
    <3> QED BY <2>4, <3>1, <3>2
  <2> QED BY <2>2, <2>6 DEF AcceptedWithinOneUnit, m
<1> QED BY <1>1, AmountInvariant, PTL

(* Two transfers cannot both be the first to the node. *)
LEMMA OneDecides ==
    ASSUME NEW i \in 1..Len(logs), NEW j \in 1..Len(logs), Len(logs) \in Nat,
           Decides(logs, i), Decides(logs, j)
    PROVE  i = j
<1>1. ~(i < j) /\ ~(j < i)
  BY DEF Decides
<1> QED BY <1>1

(* At the default rate the receipt states what was paid, to one unit. *)
THEOREM ReceiptIsExact == Spec => []ReceiptAtDefaultRate
<1>1. AmountInv => ReceiptAtDefaultRate
  <2> SUFFICES ASSUME AmountInv, UnitsPerUsd = ReceiptUnits, accepted,
                      NEW j \in 1..Len(logs), Decides(logs, j)
               PROVE  Distance(receipt, logs[j].value) <= 1
    BY DEF ReceiptAtDefaultRate
  <2>1. /\ price \in Nat \ {0} /\ Verified(logs, price) /\ UnitsPerUsd \in 1..Micro
        /\ receipt = ToFixed(price, UnitsPerUsd)
        /\ Len(logs) \in Nat
    BY RateAssumption DEF AmountInv, TypeOK
  <2>2. PICK i \in 1..Len(logs) :
            Decides(logs, i) /\ logs[i].value = FloorProduct(price, UnitsPerUsd)
    BY <2>1 DEF Verified
  <2>3. i = j
    BY <2>1, <2>2, OneDecides
  <2> DEFINE w == Whole(price, UnitsPerUsd)
             p == Part(price, UnitsPerUsd)
  <2>4. w \in Nat
    BY <2>1, Exact
  <2>5. logs[j].value = w \/ (logs[j].value = w - 1 /\ p = 0)
    BY <2>1, <2>2, <2>3, FloorNear
  <2>6. receipt \in {w, w + 1} /\ (p = 0 => receipt = w)
    BY <2>1, FixedNear
  <2> HIDE DEF w, p
  <2> QED BY <2>4, <2>5, <2>6 DEF Distance
<1> QED BY <1>1, AmountInvariant, PTL

(* An exact payment is refused only where the challenge was one unit too high. *)
THEOREM RefusalIsByOneUnit == Spec => []RefusedByOneUnitOnly
<1>1. AmountInv => RefusedByOneUnitOnly
  <2> DEFINE quote == ToFixed(price, UnitsPerUsd)
  <2> SUFFICES ASSUME AmountInv, Answered, ~accepted, logs = <<[to |-> "node", value |-> quote]>>
               PROVE  quote = FloorProduct(price, UnitsPerUsd) + 1
    BY DEF RefusedByOneUnitOnly
  <2>1. price \in Nat \ {0} /\ ~Verified(logs, price) /\ UnitsPerUsd \in 1..Micro
    BY RateAssumption DEF AmountInv, TypeOK, Answered
  <2>2. quote # FloorProduct(price, UnitsPerUsd)
    <3>1. Len(logs) = 1 /\ logs[1] = [to |-> "node", value |-> quote]
      OBVIOUS
    <3>2. Decides(logs, 1) /\ logs[1].value = quote
      BY <3>1 DEF Decides
    <3> QED BY <2>1, <3>1, <3>2 DEF Verified
  <2>3. Whole(price, UnitsPerUsd) \in Nat
    BY <2>1, Exact
  <2> QED BY <2>1, <2>2, <2>3, FloorNear, FixedNear
<1> QED BY <1>1, AmountInvariant, PTL

=============================================================================
