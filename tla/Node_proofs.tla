------------------------------ MODULE Node_proofs ------------------------------
(***************************************************************************)
(* Proofs about Node: the composition of the middleware and the gate is    *)
(* each of them to itself, so what DidAuth guarantees it still guarantees, *)
(* and together they bound what the copies of a request can buy.           *)
(***************************************************************************)
EXTENDS Node, DidAuth_proofs

\* A slot is in the middleware or at the gate, never in both, and its header
\* carries the X-DID-Signature text of the request that is there.
HeadersMatch ==
    /\ header \in [Requests -> Header]
    /\ \A r \in Requests : req[r] # Idle =>
           /\ req[r].pc # "idle"
           /\ gate[r] = Gate!Idle /\ header[r].text = req[r].text
    /\ \A r \in Requests : gate[r] # Gate!Idle => header[r].text \in SigTexts

-----------------------------------------------------------------------------
(* Every step of the node is a step of the middleware, or none. *)
LEMMA AuthSteps == [NodeNext]_nodeVars => [Next]_vars
<1> SUFFICES ASSUME NodeNext PROVE [Next]_vars
  BY DEF nodeVars
<1>1. CASE \E r \in Requests : \/ \E x \in SigTexts, p \in Gate!Proofs \cup {NoProof} :
                                      Receive(r, x, p)
                               \/ Authenticate(r)
                               \/ \E billed \in BOOLEAN : Admit(r, billed)
  BY <1>1 DEF Receive, Authenticate, Admit, Next
<1>2. CASE \E r \in Requests : Bill(r) \/ Authorize(r)
  BY <1>2 DEF Bill, Authorize
<1>3. CASE Around
  BY <1>3 DEF Around, Next
<1>4. CASE Settle
  BY <1>4 DEF Settle
<1> QED BY <1>1, <1>2, <1>3, <1>4 DEF NodeNext

(* The node is a middleware: payments do not disturb it. *)
THEOREM NodeImplementsAuth == NodeSpec => Spec
BY AuthSteps, PTL DEF NodeSpec, NodeInit, Spec

(* What the middleware guarantees holds of every request the node bills. *)
LEMMA NodeAuth == NodeSpec => []AuthInv
BY NodeImplementsAuth, AuthInit, AuthStep, PTL DEF Spec

(* A request that leaves the middleware has the price of what its signature *)
(* binds.                                                                   *)
LEMMA BillingArrives ==
    ASSUME TypeOK, HeadersMatch, NEW r \in Requests, req[r].pc = "verify", RequireBilling(r)
    PROVE  Gate!Next
<1>1. header[r] \in Header /\ header[r].text \in SigTexts
  BY DEF HeadersMatch, TypeOK, Idle
<1>2. Cost[SigOf[header[r].text]] \in Prices
  BY <1>1, CostAssumption, TextsAssumption
<1>3. CASE header[r].proof = NoProof
  BY <1>2, <1>3 DEF RequireBilling, Gate!Next
<1>4. CASE header[r].proof # NoProof
  <2>1. header[r].proof \in Gate!Proofs
    BY <1>1, <1>4 DEF Header
  <2> QED BY <1>2, <1>4, <2>1 DEF RequireBilling, Gate!Next
<1> QED BY <1>3, <1>4

(* Every step of the node is a step of the gate, or none. *)
LEMMA GateSteps ==
    TypeOK /\ HeadersMatch /\ [NodeNext]_nodeVars => [Gate!Next]_(Gate!vars)
<1> SUFFICES ASSUME TypeOK, HeadersMatch, NodeNext PROVE Gate!Next \/ UNCHANGED gateVars
  BY DEF nodeVars, gateVars, Gate!vars
<1>1. ASSUME NEW r \in Requests, NEW billed \in BOOLEAN, Admit(r, billed)
      PROVE  Gate!Next \/ UNCHANGED gateVars
  <2>1. req[r].pc = "verify" /\ (RequireBilling(r) \/ UNCHANGED gateVars)
    BY <1>1 DEF Admit, Verify
  <2> QED BY <2>1, BillingArrives
<1>2. ASSUME NEW r \in Requests, Bill(r) PROVE Gate!Next
  BY <1>2 DEF Bill, Gate!Next
<1>3. ASSUME NEW r \in Requests, Authorize(r) PROVE Gate!Next
  BY <1>3 DEF Authorize, Gate!Next
<1>4. CASE Settle
  BY <1>4 DEF Settle, Gate!Next
<1>5. CASE \/ \E r \in Requests : \/ \E x \in SigTexts, p \in Gate!Proofs \cup {NoProof} :
                                         Receive(r, x, p)
                                  \/ Authenticate(r)
           \/ Around
  BY <1>5 DEF Receive, Authenticate, Around
<1> QED BY <1>1, <1>2, <1>3, <1>4, <1>5 DEF NodeNext

(* The variables of the gate keep their types. *)
LEMMA GateTypeStep == Gate!TypeOK /\ [Gate!Next]_(Gate!vars) => Gate!TypeOK'
<1> SUFFICES ASSUME Gate!TypeOK, [Gate!Next]_(Gate!vars) PROVE Gate!TypeOK'
  OBVIOUS
<1>0. \A p \in Gate!Proofs : p.id \in PaymentIds
  BY ProofsAssumption DEF Gate!Proofs
<1> USE DEF Gate!TypeOK, Gate!Request, Gate!Idle, Gate!history, Gate!Goto, Gate!Refuse
<1>1. ASSUME NEW p \in L402, Gate!PayInvoice(p) PROVE Gate!TypeOK'
  BY <1>1 DEF Gate!PayInvoice
<1>2. ASSUME NEW p \in X402, NEW amount \in Prices, Gate!Transfer(p, amount) PROVE Gate!TypeOK'
  BY <1>2 DEF Gate!Transfer
<1>3. ASSUME NEW r \in Requests, NEW price \in Prices, Gate!ArriveUnpaid(r, price)
      PROVE  Gate!TypeOK'
  BY <1>3 DEF Gate!ArriveUnpaid, Gate!Arrive
<1>4. ASSUME NEW r \in Requests, NEW p \in Gate!Proofs, NEW price \in Prices,
             Gate!ArrivePaid(r, p, price)
      PROVE  Gate!TypeOK'
  BY <1>4 DEF Gate!ArrivePaid, Gate!Arrive
<1>5. ASSUME NEW r \in Requests, Gate!CheckUsed(r) PROVE Gate!TypeOK'
  BY <1>5 DEF Gate!CheckUsed
<1>6. ASSUME NEW r \in Requests, Gate!VerifySettled(r) PROVE Gate!TypeOK'
  BY <1>6 DEF Gate!VerifySettled
<1>7. ASSUME NEW r \in Requests, Gate!MarkUsed(r) PROVE Gate!TypeOK'
  BY <1>0, <1>7 DEF Gate!MarkUsed
<1>8. ASSUME NEW r \in Requests, Gate!ErrorCaught(r) PROVE Gate!TypeOK'
  BY <1>0, <1>8 DEF Gate!ErrorCaught
<1>9. ASSUME NEW r \in Requests, Gate!Grant(r) PROVE Gate!TypeOK'
  BY <1>0, <1>9 DEF Gate!Grant
<1>10. ASSUME NEW r \in Requests, Gate!Challenge(r) PROVE Gate!TypeOK'
  BY <1>10 DEF Gate!Challenge, Gate!CreateInvoice, Gate!InvoiceAmount
<1>11. ASSUME NEW r \in Requests, Gate!RequestLost(r) PROVE Gate!TypeOK'
  BY <1>0, <1>11 DEF Gate!RequestLost
<1>12. CASE UNCHANGED Gate!vars
  BY <1>12 DEF Gate!vars
<1> QED BY <1>1, <1>2, <1>3, <1>4, <1>5, <1>6, <1>7, <1>8, <1>9, <1>10, <1>11, <1>12
       DEF Gate!Next

(* A step at the gate is a step of one slot, which stays there or becomes free. *)
LEMMA BillOneSlot ==
    ASSUME Gate!TypeOK, NEW r \in Requests, Bill(r) \/ Gate!Grant(r)
    PROVE  /\ gate[r] # Gate!Idle
           /\ \A q \in Requests \ {r} : gate'[q] = gate[q]
<1> USE DEF Gate!TypeOK, Gate!Request, Gate!Idle, Gate!Goto, Gate!Refuse
<1>1. CASE Gate!CheckUsed(r) \/ Gate!VerifySettled(r) \/ Gate!MarkUsed(r)
  BY <1>1 DEF Gate!CheckUsed, Gate!VerifySettled, Gate!MarkUsed
<1>2. CASE Gate!ErrorCaught(r)
  BY <1>2 DEF Gate!ErrorCaught
<1>3. CASE Gate!Challenge(r) \/ Gate!RequestLost(r) \/ Gate!Grant(r)
  BY <1>3 DEF Gate!Challenge, Gate!RequestLost, Gate!Grant
<1> QED BY <1>1, <1>2, <1>3 DEF Bill

(* A step in the middleware is a step of one slot, which keeps its header or *)
(* leaves the middleware.                                                    *)
LEMMA AuthOneSlot ==
    ASSUME TypeOK, NEW r \in Requests, SelectNonce(r) \/ InsertNonce(r) \/ Lost(r) \/ Verify(r)
    PROVE  /\ req[r] # Idle
           /\ \A q \in Requests \ {r} : req'[q] = req[q]
           /\ req'[r] = Idle \/ (req'[r].text = req[r].text /\ req'[r].pc # "idle")
           /\ Verify(r) => req'[r] = Idle
BY DEF TypeOK, Request, Idle, SelectNonce, InsertNonce, Lost, Verify

(* A request enters the gate by a step of its own slot. *)
LEMMA BillingOneSlot ==
    ASSUME Gate!TypeOK, NEW r \in Requests, RequireBilling(r)
    PROVE  \A q \in Requests \ {r} : gate'[q] = gate[q]
BY DEF RequireBilling, Gate!ArriveUnpaid, Gate!ArrivePaid, Gate!Arrive, Gate!TypeOK

(* A slot keeps its header until it is free. *)
LEMMA HeadersStep ==
    TypeOK /\ TypeOK' /\ Gate!TypeOK /\ HeadersMatch /\ [NodeNext]_nodeVars => HeadersMatch'
<1> SUFFICES ASSUME TypeOK, TypeOK', Gate!TypeOK, HeadersMatch, [NodeNext]_nodeVars
             PROVE  HeadersMatch'
  OBVIOUS
<1> USE DEF HeadersMatch
<1>0. NoHeader \in Header
  BY DEF NoHeader, Header
<1>1. ASSUME NEW r \in Requests, NEW x \in SigTexts, NEW p \in Gate!Proofs \cup {NoProof},
             Receive(r, x, p)
      PROVE  HeadersMatch'
  <2>1. [text |-> x, proof |-> p] \in Header
    BY DEF Header
  <2> QED BY <1>1, <2>1 DEF Receive, Arrive, Free, Idle, gateVars, TypeOK
<1>2. \A r \in Requests : req[r] # Idle => req[r].text \in SigTexts
  BY DEF TypeOK
<1>3. ASSUME HeadersKept, NEW r \in Requests,
             \A q \in Requests \ {r} : req'[q] = req[q] /\ gate'[q] = gate[q],
             req[r] # Idle \/ gate[r] # Gate!Idle,
             \/ req'[r] = Idle
             \/ /\ gate'[r] = gate[r] /\ req[r] # Idle
                /\ req'[r].text = req[r].text /\ req'[r].pc # "idle"
      PROVE  HeadersMatch'
  <2>1. header' = [q \in Requests |->
                      IF req'[q] = Idle /\ gate'[q] = Gate!Idle THEN NoHeader ELSE header[q]]
    BY <1>3 DEF HeadersKept
  <2>2. header' \in [Requests -> Header]
    BY <1>0, <2>1
  <2>3. \A q \in Requests : header'[q] = header[q] \/ (req'[q] = Idle /\ gate'[q] = Gate!Idle)
    BY <2>1
  <2>4. header[r].text \in SigTexts
    BY <1>2, <1>3
  <2> QED BY <1>3, <2>2, <2>3, <2>4
<1>4. ASSUME NEW r \in Requests, Authenticate(r) PROVE HeadersMatch'
  BY <1>3, <1>4, AuthOneSlot DEF Authenticate, gateVars
<1>5. ASSUME NEW r \in Requests, NEW billed \in BOOLEAN, Admit(r, billed) PROVE HeadersMatch'
  BY <1>3, <1>5, AuthOneSlot, BillingOneSlot DEF Admit, gateVars
<1>6. ASSUME NEW r \in Requests, Bill(r) \/ Authorize(r) PROVE HeadersMatch'
  BY <1>3, <1>6, BillOneSlot DEF Bill, Authorize, vars
<1>7. CASE Around \/ Settle \/ UNCHANGED nodeVars
  <2>1. UNCHANGED <<req, gate, header>>
    <3>1. CASE Around
      BY <3>1 DEF Around, Sign, PurgeNonces, Tick, gateVars
    <3>2. CASE Settle
      BY <3>2 DEF Settle, vars, Gate!PayInvoice, Gate!Transfer
    <3>3. CASE UNCHANGED nodeVars
      BY <3>3 DEF nodeVars, vars, gateVars
    <3> QED BY <1>7, <3>1, <3>2, <3>3
  <2> QED BY <2>1
<1> QED BY <1>1, <1>4, <1>5, <1>6, <1>7 DEF NodeNext

(* The node is a gate: whatever the middleware lets through is a client of it. *)
THEOREM NodeImplementsGate == NodeSpec => Gate!Spec
<1>1. NodeInit => Gate!Init /\ Gate!TypeOK /\ HeadersMatch
  BY DEF NodeInit, Init, Idle, HeadersMatch, Header, NoHeader, Gate!Init, Gate!TypeOK,
     Gate!Idle, Gate!Request, Gate!Proofs
<1>2. AuthInv /\ AuthInv' /\ Gate!TypeOK /\ HeadersMatch /\ [NodeNext]_nodeVars
          => Gate!TypeOK' /\ HeadersMatch'
  BY GateSteps, GateTypeStep, HeadersStep DEF AuthInv
<1>3. AuthInv /\ HeadersMatch /\ [NodeNext]_nodeVars => [Gate!Next]_(Gate!vars)
  BY GateSteps DEF AuthInv
<1> QED BY <1>1, <1>2, <1>3, NodeAuth, PTL DEF NodeSpec, Gate!Spec

-----------------------------------------------------------------------------
(***************************************************************************)
(* What the copies of a request can buy.                                   *)
(***************************************************************************)

\* The copies with header x that are at the gate.
AtGate(x) == {r \in Requests : gate[r] # Gate!Idle /\ header[r].text = x}

\* Whatever was bought under a header, or is about to be, was let through the
\* middleware first.
PurchasesAccepted == \A x \in SigTexts : bought[x] + Cardinality(AtGate(x)) <= accepted[x]

\* Who a payment_id was granted to bought with it.
BuyersBought ==
    \A i \in PaymentIds : IsFiniteSet(buyers[i]) /\ \A x \in buyers[i] : bought[x] >= 1

NodeInv ==
    /\ AuthInv
    /\ NodeTypeOK
    /\ HeadersMatch
    /\ PurchasesAccepted
    /\ BuyersBought
    /\ GrantsPerHeader

(* Copies at the gate are as many as a natural number. *)
LEMMA AtGateFinite ==
    ASSUME NEW x
    PROVE  IsFiniteSet(AtGate(x)) /\ Cardinality(AtGate(x)) \in Nat
BY FS_Subset, FS_CardinalityType, RequestsAssumption DEF AtGate

(* What a step does to the copies with one header at the gate: it lets some  *)
(* go, one comes that the middleware accepted, or one buys.                  *)
LEMMA AtGateMoves ==
    ASSUME NodeInv, NodeNext, NEW x \in SigTexts
    PROVE  \/ /\ bought'[x] = bought[x] /\ accepted'[x] >= accepted[x]
              /\ AtGate(x)' \subseteq AtGate(x)
           \/ \E r \in Requests : /\ bought'[x] = bought[x] /\ accepted'[x] = accepted[x] + 1
                                  /\ AtGate(x)' \subseteq AtGate(x) \cup {r}
           \/ \E r \in AtGate(x) : /\ bought'[x] = bought[x] + 1 /\ accepted'[x] = accepted[x]
                                   /\ AtGate(x)' = AtGate(x) \ {r}
<1> USE DEF NodeInv, NodeTypeOK, HeadersMatch, AtGate
<1>1. ASSUME NEW r \in Requests, NEW t \in SigTexts, NEW p \in Gate!Proofs \cup {NoProof},
             Receive(r, t, p)
      PROVE  /\ bought'[x] = bought[x] /\ accepted'[x] >= accepted[x]
             /\ AtGate(x)' \subseteq AtGate(x)
  BY <1>1 DEF Receive, Arrive, Free, purchases, gateVars, TypeOK
<1>2. ASSUME HeadersKept
      PROVE  \A q \in Requests : gate'[q] # Gate!Idle => header'[q] = header[q]
  BY <1>2 DEF HeadersKept
<1>3. ASSUME NEW r \in Requests, Authenticate(r)
      PROVE  /\ bought'[x] = bought[x] /\ accepted'[x] >= accepted[x]
             /\ AtGate(x)' \subseteq AtGate(x)
  BY <1>2, <1>3 DEF Authenticate, SelectNonce, InsertNonce, Lost, purchases, gateVars, TypeOK
<1>4. ASSUME NEW r \in Requests, NEW billed \in BOOLEAN, Admit(r, billed)
      PROVE  \/ /\ bought'[x] = bought[x] /\ accepted'[x] >= accepted[x]
                /\ AtGate(x)' \subseteq AtGate(x)
             \/ /\ bought'[x] = bought[x] /\ accepted'[x] = accepted[x] + 1
                /\ AtGate(x)' \subseteq AtGate(x) \cup {r}
  <2>1. /\ bought' = bought /\ header[r].text = req[r].text
        /\ accepted' = IF SigOf[req[r].text] \in genuine
                       THEN [accepted EXCEPT ![req[r].text] = @ + 1] ELSE accepted
    BY <1>4, AuthOneSlot DEF Admit, Verify, purchases, TypeOK
  <2>2. \A q \in Requests : gate'[q] # Gate!Idle => header'[q] = header[q]
    BY <1>2, <1>4 DEF Admit
  <2>3. accepted \in [SigTexts -> Nat]
    BY DEF TypeOK
  <2>4. CASE req[r].text = x /\ SigOf[req[r].text] \in genuine /\ RequireBilling(r)
    BY <2>1, <2>2, <2>3, <2>4, BillingOneSlot
  <2>5. CASE req[r].text # x /\ RequireBilling(r)
    BY <2>1, <2>2, <2>3, <2>5, BillingOneSlot
  <2>6. CASE UNCHANGED gateVars
    BY <2>1, <2>2, <2>3, <2>6 DEF gateVars
  <2> QED BY <1>4, <2>4, <2>5, <2>6 DEF Admit
<1>5. ASSUME NEW r \in Requests, Bill(r)
      PROVE  /\ bought'[x] = bought[x] /\ accepted'[x] >= accepted[x]
             /\ AtGate(x)' \subseteq AtGate(x)
  <2>1. \A q \in Requests : gate'[q] # Gate!Idle => header'[q] = header[q]
    BY <1>2, <1>5 DEF Bill
  <2>2. bought' = bought /\ accepted' = accepted
    BY <1>5 DEF Bill, vars, purchases
  <2> QED BY <1>5, <2>1, <2>2, BillOneSlot DEF TypeOK
<1>6. ASSUME NEW r \in Requests, Authorize(r)
      PROVE  \/ /\ bought'[x] = bought[x] /\ accepted'[x] >= accepted[x]
                /\ AtGate(x)' \subseteq AtGate(x)
             \/ /\ r \in AtGate(x) /\ bought'[x] = bought[x] + 1 /\ accepted'[x] = accepted[x]
                /\ AtGate(x)' = AtGate(x) \ {r}
  <2>1. \A q \in Requests : gate'[q] # Gate!Idle => header'[q] = header[q]
    BY <1>2, <1>6 DEF Authorize
  <2>2. /\ gate[r] # Gate!Idle /\ \A q \in Requests \ {r} : gate'[q] = gate[q]
        /\ gate'[r] = Gate!Idle
    BY <1>6, BillOneSlot DEF Authorize, Gate!Grant, Gate!TypeOK
  <2>3. /\ accepted' = accepted /\ accepted[x] \in Nat
        /\ bought' = [bought EXCEPT ![header[r].text] = @ + 1]
    BY <1>6 DEF Authorize, vars, TypeOK
  <2> QED BY <2>1, <2>2, <2>3
<1>7. CASE Around
  BY <1>7 DEF Around, Sign, PurgeNonces, Tick, gateVars, purchases, TypeOK
<1>8. CASE Settle
  BY <1>8 DEF Settle, Gate!PayInvoice, Gate!Transfer, vars, purchases, TypeOK
<1> QED BY <1>1, <1>3, <1>4, <1>5, <1>6, <1>7, <1>8 DEF NodeNext

(* A purchase uses up an acceptance. *)
LEMMA PurchasesStep == NodeInv /\ NodeTypeOK' /\ [NodeNext]_nodeVars => PurchasesAccepted'
<1> SUFFICES ASSUME NodeInv, NodeTypeOK', [NodeNext]_nodeVars, NEW x \in SigTexts
             PROVE  bought'[x] + Cardinality(AtGate(x)') <= accepted'[x]
  BY DEF PurchasesAccepted, AtGate
<1>1. /\ bought[x] + Cardinality(AtGate(x)) <= accepted[x]
      /\ bought[x] \in Nat /\ bought'[x] \in Nat /\ accepted[x] \in Nat /\ accepted'[x] \in Nat
  BY DEF NodeInv, NodeTypeOK, TypeOK, PurchasesAccepted
<1>2. /\ IsFiniteSet(AtGate(x)) /\ Cardinality(AtGate(x)) \in Nat
      /\ Cardinality(AtGate(x)') \in Nat
  BY AtGateFinite, FS_Subset, FS_CardinalityType, RequestsAssumption DEF AtGate
<1>3. ASSUME bought'[x] = bought[x], accepted'[x] >= accepted[x], AtGate(x)' \subseteq AtGate(x)
      PROVE  bought'[x] + Cardinality(AtGate(x)') <= accepted'[x]
  <2>1. Cardinality(AtGate(x)') <= Cardinality(AtGate(x))
    BY <1>2, <1>3, FS_Subset
  <2> QED BY <1>1, <1>2, <1>3, <2>1
<1>4. ASSUME NEW r \in Requests, bought'[x] = bought[x], accepted'[x] = accepted[x] + 1,
             AtGate(x)' \subseteq AtGate(x) \cup {r}
      PROVE  bought'[x] + Cardinality(AtGate(x)') <= accepted'[x]
  <2>1. /\ IsFiniteSet(AtGate(x) \cup {r})
        /\ Cardinality(AtGate(x) \cup {r}) = Cardinality(AtGate(x))
               \/ Cardinality(AtGate(x) \cup {r}) = Cardinality(AtGate(x)) + 1
    BY <1>2, FS_AddElement
  <2>2. Cardinality(AtGate(x)') <= Cardinality(AtGate(x) \cup {r})
    BY <1>4, <2>1, FS_Subset
  <2> QED BY <1>1, <1>2, <1>4, <2>1, <2>2
<1>5. ASSUME NEW r \in AtGate(x), bought'[x] = bought[x] + 1, accepted'[x] = accepted[x],
             AtGate(x)' = AtGate(x) \ {r}
      PROVE  bought'[x] + Cardinality(AtGate(x)') <= accepted'[x]
  <2>1. \A S : IsFiniteSet(S) /\ r \in S => Cardinality(S \ {r}) = Cardinality(S) - 1
    BY FS_RemoveElement
  <2>2. Cardinality(AtGate(x) \ {r}) = Cardinality(AtGate(x)) - 1
    BY <1>2, <2>1
  <2> QED BY <1>1, <1>2, <1>5, <2>2
<1>6. CASE UNCHANGED nodeVars
  BY <1>3, <1>1, <1>6 DEF nodeVars, vars, gateVars, purchases, AtGate
<1> QED BY <1>3, <1>4, <1>5, <1>6, AtGateMoves

(* Only an authorisation grants a payment_id or writes who bought with it. *)
LEMMA OnlyAuthorizeBuys ==
    ASSUME NodeNext, \A r \in Requests : ~Authorize(r)
    PROVE  UNCHANGED <<granted, bought, buyers>>
<1>1. ASSUME NEW r \in Requests, Bill(r) PROVE UNCHANGED <<granted, bought, buyers>>
  BY <1>1 DEF Bill, purchases, Gate!CheckUsed, Gate!VerifySettled, Gate!MarkUsed,
     Gate!ErrorCaught, Gate!Challenge, Gate!RequestLost, Gate!history
<1>2. ASSUME NEW r \in Requests, NEW billed \in BOOLEAN, Admit(r, billed)
      PROVE  UNCHANGED <<granted, bought, buyers>>
  BY <1>2 DEF Admit, RequireBilling, Gate!ArriveUnpaid, Gate!ArrivePaid, Gate!Arrive,
     Gate!history, gateVars, purchases
<1>3. CASE Settle
  BY <1>3 DEF Settle, Gate!PayInvoice, Gate!Transfer, Gate!history, purchases
<1>4. CASE \/ \E r \in Requests : \/ \E x \in SigTexts, p \in Gate!Proofs \cup {NoProof} :
                                         Receive(r, x, p)
                                  \/ Authenticate(r)
           \/ Around
  BY <1>4 DEF Receive, Authenticate, Around, gateVars, purchases
<1> QED BY <1>1, <1>2, <1>3, <1>4 DEF NodeNext

(* An authorisation is for a copy at the gate and the payment_id it presented. *)
LEMMA AuthorizeBuys ==
    ASSUME NodeInv, NEW r \in Requests, Authorize(r)
    PROVE  /\ gate[r].proof.id \in PaymentIds
           /\ header[r].text \in SigTexts /\ r \in AtGate(header[r].text)
           /\ granted' = [granted EXCEPT ![gate[r].proof.id] = @ + 1]
           /\ bought' = [bought EXCEPT ![header[r].text] = @ + 1]
           /\ buyers' = [buyers EXCEPT ![gate[r].proof.id] = @ \cup {header[r].text}]
           /\ UNCHANGED vars
<1> USE DEF NodeInv, NodeTypeOK
<1>1. gate[r].pc = "grant" /\ gate[r] # Gate!Idle
  BY BillOneSlot DEF Authorize, Gate!Grant
<1>2. gate[r].proof.id \in PaymentIds
  BY <1>1, ProofsAssumption DEF Gate!TypeOK, Gate!Idle, Gate!Proofs
<1>3. header[r].text \in SigTexts
  BY <1>1 DEF HeadersMatch
<1> QED BY <1>1, <1>2, <1>3 DEF Authorize, Gate!Grant, AtGate

(* Every variable of the node keeps its type. *)
LEMMA NodeTypeStep ==
    NodeInv /\ AuthInv' /\ [NodeNext]_nodeVars => NodeTypeOK' /\ HeadersMatch'
<1> SUFFICES ASSUME NodeInv, AuthInv', [NodeNext]_nodeVars PROVE NodeTypeOK' /\ HeadersMatch'
  OBVIOUS
<1> USE DEF NodeInv, NodeTypeOK
<1>1. TypeOK /\ TypeOK'
  BY DEF AuthInv
<1>2. HeadersMatch' /\ Gate!TypeOK'
  BY <1>1, HeadersStep, GateSteps, GateTypeStep
<1>3. bought' \in [SigTexts -> Nat] /\ buyers' \in [PaymentIds -> SUBSET SigTexts]
  <2>1. CASE \E r \in Requests : Authorize(r)
    BY <2>1, AuthorizeBuys
  <2>2. CASE UNCHANGED <<bought, buyers>>
    BY <2>2
  <2> QED BY <2>1, <2>2, OnlyAuthorizeBuys DEF nodeVars, purchases
<1> QED BY <1>1, <1>2, <1>3 DEF HeadersMatch

(* A payment_id is granted again within the windows only under another header: *)
(* a fresh one that has bought already was accepted once, and has no copy left *)
(* at the gate.                                                                *)
LEMMA SharedStep ==
    NodeInv /\ NodeTypeOK' /\ [NodeNext]_nodeVars => BuyersBought' /\ GrantsPerHeader'
<1> SUFFICES ASSUME NodeInv, NodeTypeOK', [NodeNext]_nodeVars
             PROVE  BuyersBought' /\ GrantsPerHeader'
  OBVIOUS
<1> USE DEF NodeInv, NodeTypeOK
<1>1. ASSUME NEW r \in Requests, Authorize(r) PROVE BuyersBought' /\ GrantsPerHeader'
  <2> DEFINE x == header[r].text
             i == gate[r].proof.id
  <2>1. /\ i \in PaymentIds /\ x \in SigTexts /\ r \in AtGate(x)
        /\ granted' = [granted EXCEPT ![i] = @ + 1]
        /\ bought' = [bought EXCEPT ![x] = @ + 1]
        /\ buyers' = [buyers EXCEPT ![i] = @ \cup {x}]
        /\ UNCHANGED vars
    BY <1>1, AuthorizeBuys
  <2> HIDE DEF x, i
  <2>2. /\ bought \in [SigTexts -> Nat] /\ buyers \in [PaymentIds -> SUBSET SigTexts]
        /\ granted \in [PaymentIds -> Nat] /\ accepted \in [SigTexts -> Nat]
    BY DEF TypeOK, Gate!TypeOK, Gate!Proofs
  <2>3. \A t \in SigTexts : InTime(t)' <=> InTime(t)
    BY <2>1 DEF vars, InTime, Stamp
  <2>4. BuyersBought'
    <3>1. ASSUME NEW q \in PaymentIds PROVE IsFiniteSet(buyers'[q])
      BY <2>1, <2>2, FS_AddElement DEF BuyersBought
    <3>2. ASSUME NEW q \in PaymentIds, NEW t \in buyers'[q] PROVE bought'[t] >= 1
      <4>1. CASE t = x
        BY <2>1, <2>2, <4>1
      <4>2. CASE t # x
        <5>1. t \in buyers[q] /\ t \in SigTexts
          BY <2>1, <2>2, <3>2, <4>2
        <5> QED BY <2>1, <2>2, <4>2, <5>1 DEF BuyersBought
      <4> QED BY <4>1, <4>2
    <3> QED BY <3>1, <3>2 DEF BuyersBought
  <2>5. InTime(x) => x \notin buyers[i]
    <3> SUFFICES ASSUME InTime(x) PROVE bought[x] = 0
      BY <2>1 DEF BuyersBought
    <3>1. accepted[x] <= 1 /\ bought[x] + Cardinality(AtGate(x)) <= accepted[x]
      BY <2>1 DEF AuthInv, AcceptedOnceInWindow, PurchasesAccepted
    <3>2. Cardinality(AtGate(x)) \in Nat /\ Cardinality(AtGate(x)) # 0
      BY <2>1, AtGateFinite, FS_EmptySet
    <3> QED BY <2>1, <2>2, <3>1, <3>2
  <2>6. ASSUME NEW q \in PaymentIds, \A t \in buyers'[q] : InTime(t)
        PROVE  granted'[q] <= Cardinality(buyers'[q])
    <3>1. \A t \in buyers[q] : InTime(t)
      BY <2>1, <2>2, <2>6
    <3>2. granted[q] <= Cardinality(buyers[q])
      BY <3>1 DEF GrantsPerHeader
    <3>3. CASE q # i
      BY <2>1, <2>2, <3>2, <3>3
    <3>4. CASE q = i
      <4>1. x \notin buyers[i]
        BY <2>1, <2>2, <2>5, <2>6, <3>4
      <4>2. IsFiniteSet(buyers[i]) /\ Cardinality(buyers[i]) \in Nat
        BY <2>1, FS_CardinalityType DEF BuyersBought
      <4>3. Cardinality(buyers[i] \cup {x}) = Cardinality(buyers[i]) + 1
        BY <4>1, <4>2, FS_AddElement
      <4> QED BY <2>1, <2>2, <3>2, <3>4, <4>2, <4>3
    <3> QED BY <3>3, <3>4
  <2>7. \A q \in PaymentIds : buyers'[q] \subseteq SigTexts
    BY <2>2, <2>1
  <2>8. GrantsPerHeader'
    BY <2>3, <2>6, <2>7 DEF GrantsPerHeader
  <2> QED BY <2>4, <2>8
<1>2. CASE UNCHANGED <<granted, bought, buyers>>
  <2>1. BuyersBought'
    BY <1>2 DEF BuyersBought
  <2>2. ASSUME NEW q \in PaymentIds, NEW t \in buyers[q], InTime(t)' PROVE InTime(t)
    <3>1. t \in SigTexts /\ bought[t] >= 1
      BY <2>2 DEF BuyersBought
    <3>2. Cardinality(AtGate(t)) \in Nat /\ bought[t] + Cardinality(AtGate(t)) <= accepted[t]
      BY <3>1, AtGateFinite DEF PurchasesAccepted
    <3>3. accepted[t] > 0
      BY <3>1, <3>2 DEF TypeOK
    <3>4. SigOf[t] \in signed
      BY <3>1, <3>3 DEF AuthInv, AcceptedSigned
    <3>5. [Next]_vars
      BY AuthSteps
    <3>6. clock' >= clock /\ Stamp(t)' = Stamp(t)
      <4>1. clock \in Nat /\ stamp \in [Sigs -> Nat]
        BY DEF TypeOK
      <4> QED BY <3>1, <3>4, <3>5, <4>1, TextsAssumption
             DEF Stamp, Next, Sign, Arrive, SelectNonce, InsertNonce, Verify,
                 Lost, PurgeNonces, Tick, client, vars
    <3> QED BY <2>2, <3>1, <3>6, WindowAssumption, TextsAssumption DEF InTime, Stamp, TypeOK
  <2>3. GrantsPerHeader'
    BY <1>2, <2>2 DEF GrantsPerHeader
  <2> QED BY <2>1, <2>3
<1> QED BY <1>1, <1>2, OnlyAuthorizeBuys DEF nodeVars, gateVars, purchases

-----------------------------------------------------------------------------
(* The node starts in it. *)
LEMMA NodeInitInv == NodeInit => NodeInv
<1> SUFFICES ASSUME NodeInit PROVE NodeInv
  OBVIOUS
<1>1. AuthInv
  BY AuthInit DEF NodeInit
<1>2. NodeTypeOK
  BY <1>1 DEF NodeInit, NodeTypeOK, AuthInv, Header, NoHeader, Gate!Init, Gate!TypeOK,
     Gate!Idle, Gate!Request, Gate!Proofs
<1>3. HeadersMatch
  BY DEF NodeInit, Init, Idle, HeadersMatch, Header, NoHeader, Gate!Init, Gate!Idle
<1>4. PurchasesAccepted
  <2>1. \A x \in SigTexts : AtGate(x) = {}
    BY DEF AtGate, NodeInit, Gate!Init, Gate!Idle
  <2>2. \A x \in SigTexts : bought[x] = 0 /\ accepted[x] = 0
    BY DEF NodeInit, Init
  <2>3. \A x \in SigTexts : Cardinality(AtGate(x)) = 0
    BY <2>1, FS_EmptySet
  <2> QED BY <2>2, <2>3 DEF PurchasesAccepted
<1>5. BuyersBought
  BY FS_EmptySet DEF NodeInit, BuyersBought
<1>6. GrantsPerHeader
  <2>1. \A i \in PaymentIds : buyers[i] = {} /\ granted[i] = 0
    BY DEF NodeInit, Gate!Init, Gate!Proofs
  <2> QED BY <2>1, FS_EmptySet DEF GrantsPerHeader
<1> QED BY <1>1, <1>2, <1>3, <1>4, <1>5, <1>6 DEF NodeInv

(* The invariant of the composition, in every reachable state of the node. *)
THEOREM NodeInvariant == NodeSpec => []NodeInv
<1>1. NodeInv /\ [NodeNext]_nodeVars => AuthInv'
  BY AuthSteps, AuthStep DEF NodeInv
<1>2. NodeInv /\ [NodeNext]_nodeVars => NodeInv'
  BY <1>1, NodeTypeStep, PurchasesStep, SharedStep DEF NodeInv
<1> QED BY <1>2, NodeInitInv, PTL DEF NodeSpec

(* Every variable of the node has its type. *)
THEOREM NodeTypes == NodeSpec => []NodeTypeOK
BY NodeInvariant, PTL DEF NodeInv

(* While its signature is fresh, a header text is let through once, whatever *)
(* happens at the gate.                                                      *)
THEOREM NodeOnceInWindow == NodeSpec => []AcceptedOnceInWindow
BY NodeAuth, PTL DEF AuthInv

(* The same holds of the nonce that makes it so. *)
THEOREM NodeNonceOutlivesWindow == NodeSpec => []SpentStaysKnown
BY NodeAuth, PTL DEF AuthInv

(* The acceptances of a header text over its whole life are bounded by its *)
(* copies in flight.                                                       *)
THEOREM NodeCopiesBounded == NodeSpec => []CopiesBounded
BY NodeImplementsAuth, LateCopiesBounded, PTL

(* The copies of a request with the same header buy at most one operation *)
(* while it is fresh.                                                     *)
THEOREM PurchasesOnceInWindow == NodeSpec => []BoughtOnceInWindow
<1>1. NodeInv => BoughtOnceInWindow
  <2> SUFFICES ASSUME NodeInv, NEW x \in SigTexts, InTime(x) PROVE bought[x] <= 1
    BY DEF BoughtOnceInWindow
  <2>1. accepted[x] <= 1 /\ bought[x] + Cardinality(AtGate(x)) <= accepted[x]
    BY DEF NodeInv, AuthInv, AcceptedOnceInWindow, PurchasesAccepted
  <2>2. bought[x] \in Nat /\ accepted[x] \in Nat /\ Cardinality(AtGate(x)) \in Nat
    BY AtGateFinite DEF NodeInv, NodeTypeOK, TypeOK
  <2> QED BY <2>1, <2>2
<1> QED BY <1>1, NodeInvariant, PTL

(* Two operations for one payment_id, while the requests are fresh, take two *)
(* header texts.                                                             *)
THEOREM SharingNeedsHeaders == NodeSpec => []GrantsPerHeader
BY NodeInvariant, PTL DEF NodeInv

=============================================================================
