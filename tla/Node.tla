--------------------------------- MODULE Node ---------------------------------
(***************************************************************************)
(* A billed request on its way through a didbox402 node: the middleware of *)
(* DidAuth, then the handler's call of requireBilling, PaymentGate.  The   *)
(* signature binds timestamp, method, path and body, and so the operation  *)
(* and its price; the payment headers are not signed, so copies of a       *)
(* request pass the middleware with whatever proof they carry.             *)
(*                                                                         *)
(* What neither component can say alone is what the copies of a request    *)
(* can buy: the middleware does not know payments, and the gate, whose     *)
(* check and mark are two awaits, does not know signatures.                *)
(***************************************************************************)
EXTENDS DidAuth

CONSTANTS
    L402, X402, PaymentIds, Names, Hashes, Mocks, Prices, Nothing, NoProof,   \* PaymentGate
    Cost   \* Sigs -> the price of the signed operation

ASSUME CostAssumption == Cost \in [Sigs -> Prices]
ASSUME ProofsAssumption == Hashes \subseteq PaymentIds /\ Mocks \subseteq PaymentIds

VARIABLES
    quoted, settled, used, gate, gateFaults, granted, served, cut,   \* PaymentGate
    header,    \* X-DID-Signature and the proof of the request in each slot
    \* History, read by properties only:
    bought,    \* SigTexts -> number of operations authorised under it
    buyers     \* PaymentIds -> the SigTexts under which it was granted

Gate == INSTANCE PaymentGate WITH req <- gate, faults <- gateFaults

Header == [text : SigTexts \cup {NoText}, proof : Gate!Proofs \cup {NoProof}]
NoHeader == [text |-> NoText, proof |-> NoProof]

purchases == <<bought, buyers>>
gateVars == <<quoted, settled, used, gate, gateFaults, granted, served, cut>>
nodeVars == <<vars, gateVars, header, purchases>>

NodeInit ==
    /\ Init
    /\ Gate!Init
    /\ header = [r \in Requests |-> NoHeader]
    /\ bought = [x \in SigTexts |-> 0]
    /\ buyers = [i \in PaymentIds |-> {}]

-----------------------------------------------------------------------------
Free(r) == req[r] = Idle /\ gate[r] = Gate!Idle

HeadersKept ==
    header' = [r \in Requests |->
                   IF req'[r] = Idle /\ gate'[r] = Gate!Idle THEN NoHeader ELSE header[r]]

\* A copy of a signed request, with any proof the client has, or none.
Receive(r, x, p) ==
    /\ Free(r)
    /\ Arrive(r, x)
    /\ p # NoProof => Gate!Presentable(p)
    /\ header' = [header EXCEPT ![r] = [text |-> x, proof |-> p]]
    /\ UNCHANGED <<gateVars, purchases>>

Authenticate(r) ==
    /\ SelectNonce(r) \/ InsertNonce(r) \/ Lost(r)
    /\ UNCHANGED <<gateVars, purchases>>
    /\ HeadersKept

\* verifyAnyPayment reads the payment headers.
RequireBilling(r) ==
    LET price == Cost[SigOf[header[r].text]] IN
    IF header[r].proof = NoProof
    THEN Gate!ArriveUnpaid(r, price)
    ELSE Gate!ArrivePaid(r, header[r].proof, price)

\* await next(): the handler bills, or it is free of charge or answers an error.
Admit(r, billed) ==
    /\ Verify(r)
    /\ IF billed /\ SigOf[req[r].text] \in genuine THEN RequireBilling(r) ELSE UNCHANGED gateVars
    /\ UNCHANGED purchases
    /\ HeadersKept

Bill(r) ==
    /\ \/ Gate!CheckUsed(r) \/ Gate!VerifySettled(r) \/ Gate!MarkUsed(r)
       \/ Gate!ErrorCaught(r) \/ Gate!Challenge(r) \/ Gate!RequestLost(r)
    /\ UNCHANGED <<vars, purchases>>
    /\ HeadersKept

Authorize(r) ==
    /\ Gate!Grant(r)
    /\ bought' = [bought EXCEPT ![header[r].text] = @ + 1]
    /\ buyers' = [buyers EXCEPT ![gate[r].proof.id] = @ \cup {header[r].text}]
    /\ UNCHANGED vars
    /\ HeadersKept

\* Clients sign, time passes, the operator purges.
Around ==
    /\ \/ \E s \in Sigs, t \in 0..MaxTime, ok \in BOOLEAN : Sign(s, t, ok)
       \/ PurgeNonces
       \/ Tick
    /\ UNCHANGED <<gateVars, header, purchases>>

Settle ==
    /\ \/ \E p \in L402 : Gate!PayInvoice(p)
       \/ \E p \in X402, amount \in Prices : Gate!Transfer(p, amount)
    /\ UNCHANGED <<vars, header, purchases>>

NodeNext ==
    \/ \E r \in Requests :
           \/ \E x \in SigTexts, p \in Gate!Proofs \cup {NoProof} : Receive(r, x, p)
           \/ Authenticate(r)
           \/ \E billed \in BOOLEAN : Admit(r, billed)
           \/ Bill(r)
           \/ Authorize(r)
    \/ Around
    \/ Settle

NodeSpec == NodeInit /\ [][NodeNext]_nodeVars

-----------------------------------------------------------------------------
(* Properties *)

NodeTypeOK ==
    /\ TypeOK
    /\ Gate!TypeOK
    /\ header \in [Requests -> Header]
    /\ bought \in [SigTexts -> Nat]
    /\ buyers \in [PaymentIds -> SUBSET SigTexts]

(* While a request is fresh, its copies with the same X-DID-Signature header   *)
(* buy at most one operation, whatever proofs they carry and however they      *)
(* interleave at the gate.  Copies with another text of the signature count    *)
(* for themselves: see SignatureOnceInWindow.                                  *)
BoughtOnceInWindow == \A x \in SigTexts : InTime(x) => bought[x] <= 1

(* The race at the gate is between requests with different headers: while all *)
(* of them are fresh, a payment_id buys no more operations than there are     *)
(* X-DID-Signature texts that presented it.                                   *)
GrantsPerHeader ==
    \A i \in PaymentIds :
        (\A x \in buyers[i] : InTime(x)) => granted[i] <= Cardinality(buyers[i])

(* PROTOCOL.md 4.4 and 3.2 together: a payment_id that bought an operation for *)
(* a signed request buys it no second one while the request is fresh.  Copies  *)
(* whose headers have two texts of the signature pass the middleware, and pass *)
(* isPaymentUsed before either marks.                                          *)
PaidOncePerSignature ==
    \A i \in PaymentIds : \A x, y \in buyers[i] : SigOf[x] = SigOf[y] /\ InTime(x) => x = y

=============================================================================
