-------------------------- MODULE PaymentGate_proofs --------------------------
(***************************************************************************)
(* Proofs about PaymentGate, for every set of payments, texts that name    *)
(* them, prices and requests.                                              *)
(***************************************************************************)
EXTENDS PaymentGate, FiniteSetTheorems, TLAPS

\* A Lightning invoice settles for the amount it was issued for.
InvoicesExact == \A p \in L402 : settled[p] # 0 => settled[p] = quoted[p]

\* The payment a text names, if it names one, has settled.
NamedSettled(i) == Names[i] \in Payments => settled[Names[i]] # 0

\* What a request past the check knows about its proof.  Nothing undoes it
\* while the request waits: amounts never change once they are set.
RequestsKnow ==
    \A r \in Requests :
        LET p == req[r].proof IN
        /\ req[r].pc \in {"check", "verify", "mark", "grant"} /\ p.kind = "legacy"
              => NamedSettled(p.id)
        /\ req[r].pc \in {"verify", "mark", "grant"} /\ p.kind = "token" => p.stated = req[r].price
        /\ req[r].pc \in {"mark", "grant"} => NamedSettled(p.id) /\ Ledger!Backed(p, req[r].price)
        /\ req[r].pc = "grant" => p.id \in used
        /\ req[r].late => p \in Proofs /\ granted[p.id] > 0

\* The table covers every grant, and what it names has settled.
UsedExact ==
    /\ \A i \in PaymentIds : granted[i] > 0 => i \in used
    /\ \A i \in used : NamedSettled(i)

\* Whatever was served is backed.
ServedBacked == \A g \in served : NamedSettled(g.proof.id) /\ Ledger!Backed(g.proof, g.price)

GateInv ==
    /\ TypeOK
    /\ InvoicesExact
    /\ RequestsKnow
    /\ UsedExact
    /\ ServedBacked
    /\ LateProofRefused
    /\ ConsumedForService

(* The initial state satisfies the invariant. *)
LEMMA GateInit == Init => GateInv
<1> SUFFICES ASSUME Init PROVE GateInv
  OBVIOUS
<1>1. TypeOK
  BY DEF Init, TypeOK, Request, Idle
<1>2. InvoicesExact
  BY DEF Init, InvoicesExact, Payments
<1>3. RequestsKnow
  BY DEF Init, RequestsKnow, Idle
<1>4. UsedExact /\ ServedBacked /\ LateProofRefused /\ ConsumedForService
  BY DEF Init, UsedExact, ServedBacked, LateProofRefused, ConsumedForService, Idle
<1> QED BY <1>1, <1>2, <1>3, <1>4 DEF GateInv

(* What each kind of proof is: its text, what that names, the amount it states. *)
LEMMA ProofKinds ==
    ASSUME NEW p \in Proofs
    PROVE  /\ p.id \in PaymentIds
           /\ Names[p.id] \in Payments \cup {Nothing}
           /\ p.kind \in {"token", "legacy", "mock", "x402"}
           /\ p.kind = "x402" <=> Names[p.id] \in X402
           /\ p.kind = "token" => p.stated \in Prices
           /\ p.kind = "mock" => Names[p.id] = Nothing
BY NamesAssumption, RailsAssumption DEF Proofs, Payments

USE PricesAssumption, RailsAssumption DEF TypeOK, Request, Idle, history, Payments, NamedSettled,
    Ledger!Backed

(* A payment that settles changes nothing a request has relied on. *)
LEMMA SettleKeeps ==
    ASSUME GateInv, NEW p \in Payments, NEW amount \in Prices, settled[p] = 0,
           p \in L402 => amount = quoted[p],
           settled' = [settled EXCEPT ![p] = amount],
           UNCHANGED <<quoted, used, req, faults, history>>
    PROVE  GateInv'
<1> USE DEF GateInv
<1>1. TypeOK' /\ InvoicesExact'
  BY DEF InvoicesExact
<1>2. ASSUME NEW i, NamedSettled(i) PROVE NamedSettled(i)'
  BY <1>2
<1>3. ASSUME NEW q \in Proofs, NEW price \in Prices, Ledger!Backed(q, price)
      PROVE  Ledger!Backed(q, price)'
  BY <1>3, ProofKinds
<1>4. RequestsKnow'
  <2> SUFFICES ASSUME NEW r \in Requests
               PROVE  LET q == req[r].proof IN
                      /\ req[r].pc \in {"check", "verify", "mark", "grant"} /\ q.kind = "legacy"
                            => NamedSettled(q.id)'
                      /\ req[r].pc \in {"verify", "mark", "grant"} /\ q.kind = "token"
                            => q.stated = req[r].price
                      /\ req[r].pc \in {"mark", "grant"} =>
                            NamedSettled(q.id)' /\ Ledger!Backed(q, req[r].price)'
                      /\ req[r].pc = "grant" => q.id \in used
                      /\ req[r].late => q \in Proofs /\ granted[q.id] > 0
    BY Zenon DEF RequestsKnow
  <2>1. req[r].pc \in {"mark", "grant"} => req[r].proof \in Proofs /\ req[r].price \in Prices
    OBVIOUS
  <2> HIDE DEF NamedSettled, Ledger!Backed
  <2> QED BY <1>2, <1>3, <2>1 DEF RequestsKnow
<1>5. UsedExact'
  BY <1>2 DEF UsedExact
<1>6. ServedBacked'
  BY <1>2, <1>3 DEF ServedBacked
<1>7. LateProofRefused' /\ ConsumedForService'
  BY DEF LateProofRefused, ConsumedForService
<1> QED BY <1>1, <1>4, <1>5, <1>6, <1>7

(* A request that arrives knows nothing yet but what made its proof: it is late *)
(* only if its text was granted, and has a preimage only of a paid invoice.     *)
LEMMA ArriveKeeps ==
    ASSUME GateInv, NEW r \in Requests, NEW price \in Prices,
           \/ ArriveUnpaid(r, price)
           \/ \E p \in Proofs : ArrivePaid(r, p, price)
    PROVE  GateInv'
<1> USE DEF GateInv, Arrive
<1>1. CASE ArriveUnpaid(r, price)
  BY <1>1 DEF ArriveUnpaid, InvoicesExact, RequestsKnow, UsedExact, ServedBacked,
     LateProofRefused, ConsumedForService
<1>2. ASSUME NEW p \in Proofs, ArrivePaid(r, p, price) PROVE GateInv'
  <2>1. TypeOK' /\ InvoicesExact' /\ UsedExact' /\ ServedBacked'
    BY <1>2, ProofKinds DEF ArrivePaid, InvoicesExact, UsedExact, ServedBacked
  <2>2. p.kind = "legacy" => NamedSettled(p.id)
    BY <1>2, ProofKinds DEF ArrivePaid, Presentable
  <2>3. RequestsKnow'
    BY <1>2, <2>2, ProofKinds DEF ArrivePaid, RequestsKnow
  <2>4. LateProofRefused' /\ ConsumedForService'
    BY <1>2 DEF ArrivePaid, LateProofRefused, ConsumedForService
  <2> QED BY <2>1, <2>3, <2>4
<1> QED BY <1>1, <1>2

(* The check lets no late request past it: a granted text is in the table.  A *)
(* token it lets past states the price; a preimage or a mock has no more to   *)
(* show.                                                                      *)
LEMMA CheckUsedKeeps ==
    ASSUME GateInv, NEW r \in Requests, CheckUsed(r)
    PROVE  GateInv'
<1> USE DEF GateInv, CheckUsed, Goto, Refuse, Used, AmountBound
<1>0. req[r].proof \in Proofs
  OBVIOUS
<1>1. req[r].late => req[r].proof.id \in used
  BY <1>0, ProofKinds DEF RequestsKnow, UsedExact
<1>2. TypeOK' /\ InvoicesExact' /\ UsedExact' /\ ServedBacked'
  BY DEF InvoicesExact, UsedExact, ServedBacked
<1>3. req[r].proof.kind \in {"legacy", "mock"} =>
         NamedSettled(req[r].proof.id) /\ Ledger!Backed(req[r].proof, req[r].price)
  BY <1>0, ProofKinds DEF RequestsKnow
<1>4. RequestsKnow'
  BY <1>0, <1>3, ProofKinds DEF RequestsKnow
<1>5. LateProofRefused' /\ ConsumedForService'
  BY <1>1 DEF LateProofRefused, ConsumedForService
<1> QED BY <1>2, <1>4, <1>5

(* A confirmed proof is backed: its transfer has exactly the value, or its *)
(* invoice is settled.                                                     *)
LEMMA VerifyKeeps ==
    ASSUME GateInv, NEW r \in Requests, VerifySettled(r)
    PROVE  GateInv'
<1> USE DEF GateInv, VerifySettled, Goto, Refuse
<1>0. req[r].proof \in Proofs /\ req[r].price \in Prices
  OBVIOUS
<1>1. Confirmed(req[r].proof, req[r].price) /\ req[r].proof.kind \in {"token", "x402"} =>
         NamedSettled(req[r].proof.id) /\ Ledger!Backed(req[r].proof, req[r].price)
  BY <1>0, ProofKinds DEF Confirmed, RequestsKnow
<1>2. req[r].proof.kind \in {"legacy", "mock"} =>
         NamedSettled(req[r].proof.id) /\ Ledger!Backed(req[r].proof, req[r].price)
  BY <1>0, ProofKinds DEF RequestsKnow
<1>3. TypeOK' /\ InvoicesExact' /\ UsedExact' /\ ServedBacked'
  BY DEF InvoicesExact, UsedExact, ServedBacked
<1>4. RequestsKnow'
  BY <1>0, <1>1, <1>2, ProofKinds DEF RequestsKnow
<1>5. LateProofRefused'
  BY DEF LateProofRefused
<1>6. ConsumedForService'
  <2>1. used' = used /\ granted' = granted /\ cut' = cut
    OBVIOUS
  <2>2. \A q \in Requests : req[q].pc = "grant" => req'[q] = req[q]
    OBVIOUS
  <2> QED BY <2>1, <2>2 DEF ConsumedForService
<1> QED BY <1>3, <1>4, <1>5, <1>6

(* A caught error refuses the proof; a mark it leaves behind is of a settled *)
(* payment, or of no payment.                                                *)
LEMMA ErrorKeeps ==
    ASSUME GateInv, NEW r \in Requests, ErrorCaught(r)
    PROVE  GateInv'
<1> USE DEF GateInv, ErrorCaught, Goto, Refuse
<1>0. req[r].proof \in Proofs
  OBVIOUS
<1>1. TypeOK' /\ InvoicesExact' /\ ServedBacked'
  BY <1>0, ProofKinds DEF InvoicesExact, ServedBacked
<1>2. RequestsKnow'
  <2>1. \A i : NamedSettled(i)' <=> NamedSettled(i)
    OBVIOUS
  <2>2. \A p, price : Ledger!Backed(p, price)' <=> Ledger!Backed(p, price)
    OBVIOUS
  <2>3. used \subseteq used'
    OBVIOUS
  <2> HIDE DEF NamedSettled, Ledger!Backed
  <2> QED BY <2>1, <2>2, <2>3 DEF RequestsKnow
<1>3. UsedExact'
  BY <1>0, ProofKinds DEF RequestsKnow, UsedExact
<1>4. LateProofRefused'
  BY DEF LateProofRefused
<1>5. ConsumedForService'
  BY DEF ConsumedForService
<1> QED BY <1>1, <1>2, <1>3, <1>4, <1>5

(* Marking consumes a settled payment, for a request about to be granted. *)
LEMMA MarkUsedKeeps ==
    ASSUME GateInv, NEW r \in Requests, MarkUsed(r)
    PROVE  GateInv'
<1> USE DEF GateInv, MarkUsed, Goto
<1>0. req[r].proof \in Proofs
  OBVIOUS
<1>1. TypeOK' /\ InvoicesExact' /\ ServedBacked'
  BY <1>0, ProofKinds DEF InvoicesExact, ServedBacked
<1>2. RequestsKnow'
  <2>1. \A i : NamedSettled(i)' <=> NamedSettled(i)
    OBVIOUS
  <2>2. \A p, price : Ledger!Backed(p, price)' <=> Ledger!Backed(p, price)
    OBVIOUS
  <2>3. used \subseteq used'
    OBVIOUS
  <2> HIDE DEF NamedSettled, Ledger!Backed
  <2> QED BY <2>1, <2>2, <2>3 DEF RequestsKnow
<1>3. UsedExact'
  BY <1>0, ProofKinds DEF RequestsKnow, UsedExact
<1>4. LateProofRefused' /\ ConsumedForService'
  BY DEF LateProofRefused, ConsumedForService
<1> QED BY <1>1, <1>2, <1>3, <1>4

(* A grant serves its price for a marked proof that backs it. *)
LEMMA GrantKeeps ==
    ASSUME GateInv, NEW r \in Requests, Grant(r)
    PROVE  GateInv'
<1> USE DEF GateInv, Grant
<1>0. req[r].proof \in Proofs /\ req[r].price \in Prices
  OBVIOUS
<1>1. TypeOK' /\ InvoicesExact'
  BY <1>0, ProofKinds DEF InvoicesExact
<1>2. RequestsKnow'
  BY ProofKinds DEF RequestsKnow
<1>3. UsedExact'
  BY DEF UsedExact, RequestsKnow
<1>4. ServedBacked'
  BY <1>0 DEF ServedBacked, RequestsKnow
<1>5. LateProofRefused' /\ ConsumedForService'
  BY DEF LateProofRefused, ConsumedForService
<1> QED BY <1>1, <1>2, <1>3, <1>4, <1>5

(* A challenge issues only an invoice that was not issued before. *)
LEMMA ChallengeKeeps ==
    ASSUME GateInv, NEW r \in Requests, Challenge(r)
    PROVE  GateInv'
<1> USE DEF GateInv, Challenge, CreateInvoice, InvoiceAmount
<1>1. TypeOK' /\ InvoicesExact'
  <2>1. req[r].price \in Prices
    OBVIOUS
  <2>2. CASE \E p \in L402 : quoted[p] = 0 /\ quoted' = [quoted EXCEPT ![p] = req[r].price]
    BY <2>1, <2>2 DEF InvoicesExact
  <2>3. CASE quoted' = quoted
    BY <2>3 DEF InvoicesExact
  <2> QED BY <2>2, <2>3
<1>2. RequestsKnow'
  BY DEF RequestsKnow
<1>3. UsedExact' /\ LateProofRefused' /\ ConsumedForService'
  BY DEF UsedExact, LateProofRefused, ConsumedForService
<1>4. ServedBacked'
  BY DEF ServedBacked
<1> QED BY <1>1, <1>2, <1>3, <1>4

(* A request that is lost after its mark leaves its payment_id in cut. *)
LEMMA RequestLostKeeps ==
    ASSUME GateInv, NEW r \in Requests, RequestLost(r)
    PROVE  GateInv'
<1> USE DEF GateInv, RequestLost
<1>1. TypeOK' /\ InvoicesExact' /\ UsedExact' /\ ServedBacked'
  BY FaultsAssumption, ProofKinds DEF InvoicesExact, UsedExact, ServedBacked
<1>2. RequestsKnow'
  BY DEF RequestsKnow
<1>3. LateProofRefused' /\ ConsumedForService'
  BY DEF LateProofRefused, ConsumedForService
<1> QED BY <1>1, <1>2, <1>3

(* Every step keeps the invariant. *)
LEMMA GateStep == GateInv /\ [Next]_vars => GateInv'
<1> SUFFICES ASSUME GateInv, [Next]_vars PROVE GateInv'
  OBVIOUS
<1>1. ASSUME NEW p \in L402, PayInvoice(p) PROVE GateInv'
  <2>1. quoted[p] \in Prices
    BY <1>1 DEF PayInvoice, GateInv
  <2> QED BY <1>1, <2>1, SettleKeeps DEF PayInvoice
<1>2. ASSUME NEW p \in X402, NEW amount \in Prices, Transfer(p, amount) PROVE GateInv'
  BY <1>2, SettleKeeps DEF Transfer
<1>3. ASSUME NEW r \in Requests, NEW price \in Prices,
             ArriveUnpaid(r, price) \/ \E p \in Proofs : ArrivePaid(r, p, price)
      PROVE  GateInv'
  BY <1>3, ArriveKeeps
<1>4. CASE UNCHANGED vars
  BY <1>4 DEF vars, GateInv, InvoicesExact, RequestsKnow, UsedExact, ServedBacked,
     LateProofRefused, ConsumedForService
<1> QED BY <1>1, <1>2, <1>3, <1>4, CheckUsedKeeps, VerifyKeeps, ErrorKeeps, MarkUsedKeeps,
        GrantKeeps, ChallengeKeeps, RequestLostKeeps DEF Next

(* The invariant of every reachable state. *)
THEOREM GateInvariant == Spec => []GateInv
BY GateInit, GateStep, PTL DEF Spec

(* Every variable of the gate stays within its type; in particular no invoice *)
(* and no settlement is of an amount that is not the price of an operation.   *)
THEOREM GateTypeCorrect == Spec => []TypeOK
BY GateInvariant, PTL DEF GateInv

(* A transaction hash buys only operations of exactly the price its transfer *)
(* settled; a token only operations of the amount it states, of an invoice   *)
(* that is settled, for that price if the token states the invoice's amount. *)
THEOREM GrantsAreSettled == Spec => []GrantsMatchSettlement
<1>1. GateInv => GrantsMatchSettlement
  <2> SUFFICES ASSUME GateInv, NEW g \in served
               PROVE  /\ g.proof.kind = "x402" => settled[Names[g.proof.id]] = g.price
                      /\ g.proof.kind = "token" =>
                             /\ settled[Names[g.proof.id]] # 0
                             /\ g.proof.stated = quoted[Names[g.proof.id]] =>
                                    settled[Names[g.proof.id]] = g.price
    BY DEF GrantsMatchSettlement
  <2>1. g.proof \in Proofs /\ Ledger!Backed(g.proof, g.price)
    BY DEF GateInv, ServedBacked
  <2>2. CASE g.proof.kind = "token"
    <3>1. Names[g.proof.id] \in L402
      BY <2>1, <2>2, ProofKinds
    <3> QED BY <2>1, <2>2, <3>1 DEF GateInv, InvoicesExact
  <2>3. CASE g.proof.kind # "token"
    BY <2>1, <2>3
  <2> QED BY <2>2, <2>3
<1> QED BY <1>1, GateInvariant, PTL

(* A request with a payment_id that was granted before it arrived is refused. *)
THEOREM LateReuseRefused == Spec => []LateProofRefused
BY GateInvariant, PTL DEF GateInv

(* No payment_id is consumed without an operation that it authorises. *)
THEOREM NothingConsumedInVain == Spec => []ConsumedForService
BY GateInvariant, PTL DEF GateInv

(* Requests past the check are as many as a natural number, at most as many as *)
(* there are requests.                                                         *)
LEMMA PastFinite ==
    ASSUME NEW i
    PROVE  /\ IsFiniteSet(Past(i)) /\ Cardinality(Past(i)) \in Nat
           /\ Cardinality(Requests) \in Nat
           /\ Cardinality(Past(i)) <= Cardinality(Requests)
BY FS_Subset, FS_CardinalityType, RequestsAssumption DEF Past

(* What a step does to the requests past the check with one proof: it lets some *)
(* go, it grants the operation of one, or the proof has not been granted yet.   *)
LEMMA PastMoves ==
    ASSUME GateInv, Next, NEW i \in PaymentIds
    PROVE  \/ granted'[i] = granted[i] /\ Past(i)' \subseteq Past(i)
           \/ \E r \in Past(i) : granted'[i] = granted[i] + 1 /\ Past(i)' = Past(i) \ {r}
           \/ granted'[i] = 0
<1> USE DEF GateInv, Past
<1>1. ASSUME NEW r \in Requests, CheckUsed(r)
      PROVE  \/ granted'[i] = granted[i] /\ Past(i)' \subseteq Past(i)
             \/ granted'[i] = 0
  <2>1. CASE req[r].proof.id = i /\ ~Used(i)
    <3>1. granted[i] = 0
      BY <2>1 DEF Used, UsedExact
    <3> QED BY <1>1, <3>1 DEF CheckUsed
  <2>2. CASE req[r].proof.id # i \/ Used(i)
    <3>1. granted'[i] = granted[i]
      BY <1>1 DEF CheckUsed
    <3>2. Past(i)' \subseteq Past(i)
      BY <1>1, <2>2 DEF CheckUsed, Goto, Refuse
    <3> QED BY <3>1, <3>2
  <2> QED BY <2>1, <2>2
<1>2. ASSUME NEW r \in Requests, Grant(r)
      PROVE  \/ granted'[i] = granted[i] /\ Past(i)' \subseteq Past(i)
             \/ \E q \in Past(i) : granted'[i] = granted[i] + 1 /\ Past(i)' = Past(i) \ {q}
  <2>1. CASE req[r].proof.id = i
    <3>1. r \in Past(i) /\ granted'[i] = granted[i] + 1
      BY <1>2, <2>1 DEF Grant
    <3>2. Past(i)' = Past(i) \ {r}
      BY <1>2, <2>1 DEF Grant
    <3> QED BY <3>1, <3>2
  <2>2. CASE req[r].proof.id # i
    BY <1>2, <2>2 DEF Grant
  <2> QED BY <2>1, <2>2
<1>3. ASSUME NEW r \in Requests,
             \/ VerifySettled(r) \/ MarkUsed(r) \/ ErrorCaught(r)
             \/ Challenge(r) \/ RequestLost(r)
             \/ \E price \in Prices : ArriveUnpaid(r, price)
             \/ \E q \in Proofs, price \in Prices : ArrivePaid(r, q, price)
      PROVE  granted'[i] = granted[i] /\ Past(i)' \subseteq Past(i)
  BY <1>3 DEF VerifySettled, MarkUsed, ErrorCaught, Challenge, RequestLost, ArriveUnpaid,
     ArrivePaid, Arrive, Goto, Refuse
<1>4. ASSUME \/ \E q \in L402 : PayInvoice(q)
             \/ \E q \in X402, amount \in Prices : Transfer(q, amount)
      PROVE  granted'[i] = granted[i] /\ Past(i)' \subseteq Past(i)
  BY <1>4 DEF PayInvoice, Transfer
<1> QED BY <1>1, <1>2, <1>3, <1>4 DEF Next

(* A payment_id buys at most one operation for each request that ran at the   *)
(* same time: with one request at a time, one operation.  The bound is one of *)
(* the text, and each text that names the same payment has it.                *)
THEOREM ReuseIsBounded == Spec => []GrantsBounded
<1>1. Init => GrantsBounded
  <2> SUFFICES ASSUME Init, NEW i \in PaymentIds
               PROVE  granted[i] + Cardinality(Past(i)) <= Cardinality(Requests)
    BY DEF GrantsBounded
  <2>1. granted[i] = 0
    BY DEF Init
  <2> QED BY <2>1, PastFinite
<1>2. GateInv /\ GateInv' /\ GrantsBounded /\ [Next]_vars => GrantsBounded'
  <2> SUFFICES ASSUME GateInv, GateInv', GrantsBounded, [Next]_vars, NEW i \in PaymentIds
               PROVE  granted'[i] + Cardinality(Past(i)') <= Cardinality(Requests)
    BY DEF GrantsBounded, Past
  <2>1. /\ granted[i] + Cardinality(Past(i)) <= Cardinality(Requests)
        /\ granted[i] \in Nat /\ granted'[i] \in Nat
    BY DEF GrantsBounded, GateInv
  <2>2. /\ IsFiniteSet(Past(i)) /\ Cardinality(Past(i)) \in Nat
        /\ Cardinality(Requests) \in Nat
        /\ Cardinality(Past(i)') \in Nat /\ Cardinality(Past(i)') <= Cardinality(Requests)
    BY PastFinite, FS_Subset, FS_CardinalityType, RequestsAssumption DEF Past
  <2>3. CASE granted'[i] = granted[i] /\ Past(i)' \subseteq Past(i)
    <3>1. Cardinality(Past(i)') <= Cardinality(Past(i))
      BY <2>2, <2>3, FS_Subset
    <3> QED BY <2>1, <2>2, <2>3, <3>1
  <2>4. ASSUME NEW r \in Past(i), granted'[i] = granted[i] + 1, Past(i)' = Past(i) \ {r}
        PROVE  granted'[i] + Cardinality(Past(i)') <= Cardinality(Requests)
    <3>1. \A S : IsFiniteSet(S) /\ r \in S => Cardinality(S \ {r}) = Cardinality(S) - 1
      BY FS_RemoveElement
    <3>2. Cardinality(Past(i) \ {r}) = Cardinality(Past(i)) - 1
      BY <2>2, <2>4, <3>1
    <3>3. Cardinality(Past(i)') = Cardinality(Past(i)) - 1
      BY <2>4, <3>2
    <3> QED BY <2>1, <2>2, <2>4, <3>3
  <2>5. CASE granted'[i] = 0
    BY <2>2, <2>5
  <2>6. CASE UNCHANGED vars
    BY <2>3, <2>6 DEF vars, Past
  <2> QED BY <2>3, <2>4, <2>5, <2>6, PastMoves
<1> QED BY <1>1, <1>2, GateInvariant, PTL DEF Spec

(* Every step of the gate is a step of the ledger or changes nothing in it. *)
THEOREM GateImplementsLedger == Spec => ImplementsLedger
<1>1. Init => Ledger!Init
  BY DEF Init, Ledger!Init
<1>2. GateInv /\ [Next]_vars => [Ledger!Next]_(Ledger!vars)
  <2> SUFFICES ASSUME GateInv, [Next]_vars PROVE [Ledger!Next]_(Ledger!vars)
    OBVIOUS
  <2> USE DEF GateInv, Ledger!Next, Ledger!vars
  <2>1. ASSUME NEW p \in L402, PayInvoice(p) PROVE Ledger!Next
    <3>1. quoted[p] \in Prices
      BY <2>1 DEF PayInvoice
    <3>2. Ledger!Settle(p, quoted[p])
      BY <2>1 DEF PayInvoice, Ledger!Settle
    <3> QED BY <3>1, <3>2
  <2>2. ASSUME NEW p \in X402, NEW amount \in Prices, Transfer(p, amount) PROVE Ledger!Next
    BY <2>2 DEF Transfer, Ledger!Settle
  <2>3. ASSUME NEW r \in Requests, MarkUsed(r) PROVE Ledger!Next
    <3>1. NamedSettled(req[r].proof.id) /\ req[r].proof \in Proofs
      BY <2>3 DEF MarkUsed, RequestsKnow
    <3>2. Ledger!Consume(req[r].proof.id)
      BY <2>3, <3>1 DEF MarkUsed, Ledger!Consume
    <3> QED BY <3>1, <3>2, ProofKinds
  <2>4. ASSUME NEW r \in Requests, ErrorCaught(r) PROVE [Ledger!Next]_(Ledger!vars)
    <3>1. CASE UNCHANGED used
      BY <2>4, <3>1 DEF ErrorCaught
    <3>2. CASE req[r].pc = "mark" /\ used' = used \cup {req[r].proof.id}
      <4>1. NamedSettled(req[r].proof.id) /\ req[r].proof \in Proofs
        BY <3>2 DEF RequestsKnow
      <4>2. Ledger!Consume(req[r].proof.id)
        BY <2>4, <3>2, <4>1 DEF ErrorCaught, Ledger!Consume
      <4> QED BY <4>1, <4>2, ProofKinds
    <3> QED BY <2>4, <3>1, <3>2 DEF ErrorCaught
  <2>5. ASSUME NEW r \in Requests, Grant(r) PROVE Ledger!Next
    <3>1. /\ req[r].proof.id \in used /\ Ledger!Backed(req[r].proof, req[r].price)
          /\ req[r].proof \in Proofs /\ req[r].price \in Prices
      BY <2>5 DEF Grant, RequestsKnow
    <3>2. Ledger!Serve(req[r].proof, req[r].price)
      BY <2>5, <3>1 DEF Grant, Ledger!Serve
    <3> QED BY <3>1, <3>2
  <2>6. ASSUME NEW r \in Requests,
               \/ \E price \in Prices : ArriveUnpaid(r, price)
               \/ \E p \in Proofs, price \in Prices : ArrivePaid(r, p, price)
               \/ CheckUsed(r) \/ VerifySettled(r)
               \/ Challenge(r) \/ RequestLost(r)
        PROVE  UNCHANGED <<settled, used, served>>
    BY <2>6 DEF ArriveUnpaid, ArrivePaid, Arrive, CheckUsed, VerifySettled,
       Challenge, RequestLost
  <2>7. CASE UNCHANGED vars
    BY <2>7 DEF vars
  <2> QED BY <2>1, <2>2, <2>3, <2>5, <2>6, <2>7, <2>4 DEF Next
<1> QED BY <1>1, <1>2, GateInvariant, PTL DEF Spec, ImplementsLedger, Ledger!Spec

=============================================================================
