------------------------------ MODULE PaymentGate ------------------------------
(***************************************************************************)
(* The payment gate of a billed request in micropayment mode: requireBilling*)
(* (lib/billing.ts), verifyAnyPayment and issueDualChallenge               *)
(* (lib/payments/index.ts), with the used_payments table and the two       *)
(* outside parties that settle payments: the Lightning provider and the    *)
(* chain.  Clients settle a challenge, present a proof, and may present    *)
(* it again, for this or for another operation, before or after the first  *)
(* answer; requests interleave at every await.                             *)
(*                                                                         *)
(* A proof is a text the client sends.  What is remembered as used is the  *)
(* payment_id in it, as it came: Names says which invoice or transaction   *)
(* the provider or the chain finds under that text, and two texts may be   *)
(* looked up as the same one.  A token is JSON without a signature: its    *)
(* amount is what the client says, as a rule what the challenge said.      *)
(*                                                                         *)
(* The deployment is one with both providers configured and neither        *)
(* DEV_MODE nor a test runtime.  Amounts are the operation's price as each *)
(* rail expects it; how x402 converts satoshis is module X402Amount.       *)
(***************************************************************************)
EXTENDS Naturals, FiniteSets

CONSTANTS
    L402,       \* Lightning invoices, by payment hash
    X402,       \* transactions
    PaymentIds, \* texts clients send as payment_id
    Names,      \* PaymentIds -> what the text is looked up as, or Nothing
    Hashes,     \* texts that are the digest of some preimage, spelled as bytesToHex does
    Mocks,      \* texts that contain "mock"
    Prices,     \* prices of billed operations
    Requests,   \* slots for requests at the gate
    MaxFaults,  \* bound: interrupted requests
    Nothing,    \* no invoice and no transaction
    NoProof     \* a request without proof

Payments == L402 \cup X402

\* What Authorization or PAYMENT-SIGNATURE carries: a v1 token with the amount it
\* states, a token of the older format with a preimage, a proof that says it is a
\* mock, a transaction hash.  A text of the other rail is looked up in vain and
\* refused: it is left out.
Proofs ==
    [kind : {"token"}, id : {i \in PaymentIds \ Mocks : Names[i] \notin X402}, stated : Prices]
    \cup [kind : {"legacy"}, id : Hashes, stated : {0}]
    \cup [kind : {"mock"}, id : Mocks, stated : {0}]
    \cup [kind : {"x402"}, id : {i \in PaymentIds : Names[i] \in X402}, stated : {0}]

ASSUME PricesAssumption == Prices \subseteq Nat \ {0}
ASSUME RailsAssumption == L402 \cap X402 = {} /\ Nothing \notin Payments /\ NoProof \notin Proofs
ASSUME NamesAssumption ==
    /\ Names \in [PaymentIds -> Payments \cup {Nothing}]
    /\ Hashes \subseteq PaymentIds /\ \A i \in Hashes : Names[i] \notin X402
    /\ Mocks \subseteq PaymentIds /\ \A i \in Mocks : Names[i] = Nothing
ASSUME FaultsAssumption == MaxFaults \in Nat
ASSUME RequestsAssumption == IsFiniteSet(Requests)

VARIABLES
    quoted,     \* L402 -> amount of the invoice, 0 before it is issued
    settled,    \* Payments -> amount settled with the provider or on chain, 0 before
    used,       \* payment_ids in used_payments
    req,        \* the request in each slot
    faults,     \* interruptions so far
    \* History, read by properties only:
    granted,    \* PaymentIds -> number of operations authorised for it
    served,     \* the proofs operations were authorised for, with their prices
    cut         \* payment_ids marked by a request that stopped before its operation

vars == <<quoted, settled, used, req, faults, granted, served, cut>>
history == <<granted, served, cut>>

\* late: the payment_id had already been granted when the request arrived.
Request == [pc : {"idle", "challenge", "check", "verify", "mark", "grant"},
            proof : Proofs \cup {NoProof}, price : Prices \cup {0}, late : BOOLEAN]

Idle == [pc |-> "idle", proof |-> NoProof, price |-> 0, late |-> FALSE]

Init ==
    /\ quoted = [p \in L402 |-> 0]
    /\ settled = [p \in Payments |-> 0]
    /\ used = {}
    /\ req = [r \in Requests |-> Idle]
    /\ faults = 0
    /\ granted = [i \in PaymentIds |-> 0]
    /\ served = {}
    /\ cut = {}

-----------------------------------------------------------------------------
(* Clients and the outside world. *)

\* The client pays the invoice with its wallet.
PayInvoice(p) ==
    /\ quoted[p] # 0
    /\ settled[p] = 0
    /\ settled' = [settled EXCEPT ![p] = quoted[p]]
    /\ UNCHANGED <<quoted, used, req, faults, history>>

\* The client's transfer for some challenge is confirmed on chain.
Transfer(p, amount) ==
    /\ settled[p] = 0
    /\ settled' = [settled EXCEPT ![p] = amount]
    /\ UNCHANGED <<quoted, used, req, faults, history>>

\* A payment hash is known once its invoice is issued, the preimage of an invoice
\* to whoever paid it, and of a hash of one's own making at once.  A transaction
\* hash may be sent before its transfer is confirmed.
Presentable(p) ==
    /\ Names[p.id] \in L402 => quoted[Names[p.id]] # 0
    /\ p.kind = "legacy" /\ Names[p.id] \in L402 => settled[Names[p.id]] # 0

Arrive(r, pc, p, price, late) ==
    /\ req[r] = Idle
    /\ req' = [req EXCEPT ![r] = [pc |-> pc, proof |-> p, price |-> price, late |-> late]]
    /\ UNCHANGED <<quoted, settled, used, faults, history>>

\* A request without a proof goes to its challenge, and so does one whose token
\* does not parse or whose preimage has another digest.
ArriveUnpaid(r, price) == Arrive(r, "challenge", NoProof, price, FALSE)

ArrivePaid(r, p, price) ==
    /\ Presentable(p)
    /\ Arrive(r, "check", p, price, granted[p.id] > 0)

-----------------------------------------------------------------------------
(* verifyAnyPayment *)

Goto(r, pc) == req' = [req EXCEPT ![r].pc = pc]
Refuse(r) == Goto(r, "challenge")

\* Mutant: the check reads a replica that never has the row.
UsedOnReplica(i) == FALSE

\* isPaymentUsed: the table is searched for the text.
Used(i) == i \in used

\* Mutant: a token of a larger amount will do.
AmountCovers(p, price) == p.kind = "token" => p.stated >= price

\* decodedToken.amount === expectedAmount, for v1 tokens only.
AmountBound(p, price) == p.kind = "token" => p.stated = price

\* Mutant: the proof is marked at the check, before it is verified.
CheckAndMark(r) ==
    LET p == req[r].proof IN
    /\ req[r].pc = "check"
    /\ IF ~Used(p.id) /\ AmountBound(p, req[r].price)
       THEN Goto(r, "verify") /\ used' = used \cup {p.id}
       ELSE Refuse(r) /\ used' = used
    /\ UNCHANGED <<quoted, settled, faults, history>>

\* isPaymentUsed, then what follows it without an await.  No provider is asked
\* about a preimage or a mock.
CheckUsed(r) ==
    LET p == req[r].proof IN
    /\ req[r].pc = "check"
    /\ IF Used(p.id) \/ ~AmountBound(p, req[r].price) THEN Refuse(r)
       ELSE Goto(r, IF p.kind \in {"token", "x402"} THEN "verify" ELSE "mark")
    /\ UNCHANGED <<quoted, settled, used, faults, history>>

\* verifyPayment asks whether there is such an invoice and it is settled, for
\* whatever amount; verifyUSDCPayment whether the transfer has exactly the
\* expected value.
Confirmed(p, price) ==
    IF p.kind = "token" THEN Names[p.id] \in L402 /\ settled[Names[p.id]] # 0
    ELSE settled[Names[p.id]] = price

VerifySettled(r) ==
    /\ req[r].pc = "verify"
    /\ IF Confirmed(req[r].proof, req[r].price) THEN Goto(r, "mark") ELSE Refuse(r)
    /\ UNCHANGED <<quoted, settled, used, faults, history>>

\* Both token formats are handled in one try: an error of the provider or of D1
\* refuses the proof, also when the mark is written and only its answer is lost.
\* For mocks and in the x402 branch an error is an exception of the request:
\* RequestLost.
ErrorCaught(r) ==
    LET p == req[r].proof IN
    /\ req[r].pc \in {"check", "verify", "mark"}
    /\ p.kind \in {"token", "legacy"}
    /\ \/ UNCHANGED <<used, cut>>
       \/ req[r].pc = "mark" /\ used' = used \cup {p.id} /\ cut' = cut \cup {p.id}
    /\ Refuse(r)
    /\ UNCHANGED <<quoted, settled, faults, granted, served>>

\* Mutant: the mark is not awaited, and the insert may fail after the answer.
MarkUsedUnawaited(r) ==
    /\ req[r].pc = "mark"
    /\ used' \in {used, used \cup {req[r].proof.id}}
    /\ Goto(r, "grant")
    /\ UNCHANGED <<quoted, settled, faults, history>>

\* INSERT OR IGNORE INTO used_payments.
MarkUsed(r) ==
    /\ req[r].pc = "mark"
    /\ used' = used \cup {req[r].proof.id}
    /\ Goto(r, "grant")
    /\ UNCHANGED <<quoted, settled, faults, history>>

\* requireBilling returns authorized: the handler goes on.
Grant(r) ==
    LET p == req[r].proof IN
    /\ req[r].pc = "grant"
    /\ granted' = [granted EXCEPT ![p.id] = @ + 1]
    /\ served' = served \cup {[proof |-> p, price |-> req[r].price]}
    /\ req' = [req EXCEPT ![r] = Idle]
    /\ UNCHANGED <<quoted, settled, used, faults, cut>>

-----------------------------------------------------------------------------
(* issueDualChallenge: createInvoice, a token for the new payment hash, 402.  *)
(* The model has finitely many invoices: without one the answer names none.   *)

\* Mutant: the invoice adds a fee to the price.
InvoicePlusFee(r) == req[r].price + 1

InvoiceAmount(r) == req[r].price

\* createInvoice: a payment hash no invoice had before; an error of the provider
\* is an exception of the request: RequestLost.
CreateInvoice(p, amount) == quoted[p] = 0 /\ quoted' = [quoted EXCEPT ![p] = amount]

Challenge(r) ==
    /\ req[r].pc = "challenge"
    /\ \/ \E p \in L402 : CreateInvoice(p, InvoiceAmount(r))
       \/ /\ \A p \in L402 : quoted[p] # 0
          /\ UNCHANGED quoted
    /\ req' = [req EXCEPT ![r] = Idle]
    /\ UNCHANGED <<settled, used, faults, history>>

\* The worker stops, or D1, the provider or the RPC fails, at an await.
RequestLost(r) ==
    /\ req[r] # Idle
    /\ faults < MaxFaults
    /\ faults' = faults + 1
    /\ req' = [req EXCEPT ![r] = Idle]
    /\ cut' = IF req[r].pc = "grant" THEN cut \cup {req[r].proof.id} ELSE cut
    /\ UNCHANGED <<quoted, settled, used, granted, served>>

Next ==
    \/ \E p \in L402 : PayInvoice(p)
    \/ \E p \in X402, amount \in Prices : Transfer(p, amount)
    \/ \E r \in Requests :
           \/ \E price \in Prices : ArriveUnpaid(r, price)
           \/ \E p \in Proofs, price \in Prices : ArrivePaid(r, p, price)
           \/ CheckUsed(r) \/ VerifySettled(r) \/ MarkUsed(r) \/ ErrorCaught(r) \/ Grant(r)
           \/ Challenge(r)
           \/ RequestLost(r)

Spec == Init /\ [][Next]_vars

-----------------------------------------------------------------------------
(* Properties *)

TypeOK ==
    /\ quoted \in [L402 -> Prices \cup {0}]
    /\ settled \in [Payments -> Prices \cup {0}]
    /\ used \subseteq PaymentIds
    /\ req \in [Requests -> Request]
    /\ \A r \in Requests : /\ req[r].pc # "idle" => req[r].price \in Prices
                           /\ req[r].pc \notin {"idle", "challenge"} => req[r].proof \in Proofs
    /\ faults \in Nat
    /\ granted \in [PaymentIds -> Nat]
    /\ served \subseteq [proof : Proofs, price : Prices]
    /\ cut \subseteq PaymentIds

(* What a grant says about money, though amount and settlement are checked at  *)
(* different moments.  A transaction hash buys only operations of exactly the  *)
(* price its transfer settled.  A v1 token buys only operations of the amount  *)
(* it states, of an invoice that was settled; if it states the amount of the   *)
(* invoice, as every challenge does, that is what was settled.  A token that   *)
(* states another amount, an older token or a mock buys without a comparison   *)
(* with any settlement: see TokenAmountSettled and OnlySettledServed.          *)
GrantsMatchSettlement ==
    \A g \in served :
        LET named == Names[g.proof.id] IN
        /\ g.proof.kind = "x402" => settled[named] = g.price
        /\ g.proof.kind = "token" =>
               /\ settled[named] # 0
               /\ g.proof.stated = quoted[named] => settled[named] = g.price

(* A request that arrives after its payment_id was granted is never let past  *)
(* the check: sequential reuse of a text is refused (PROTOCOL.md 4.4).  That  *)
(* the payment, which may have another text, is refused is PaymentUsedOnce.   *)
LateProofRefused == \A r \in Requests : req[r].pc \in {"verify", "mark", "grant"} => ~req[r].late

(* A payment_id is consumed only for an operation: one in used_payments has    *)
(* been granted, is about to be, or was marked by a request that was cut off.  *)
ConsumedForService ==
    \A i \in used : \/ granted[i] > 0
                    \/ i \in cut
                    \/ \E r \in Requests : req[r].pc = "grant" /\ req[r].proof.id = i

(* What concurrent reuse of a payment_id can cost: one that was granted is     *)
(* granted again only to requests that were past the check by then, so that    *)
(* all the text ever buys is one operation for each request that ran at the    *)
(* same time.  A payment that is looked up under two texts has this bound for  *)
(* each of them.                                                               *)
Past(i) == {r \in Requests : req[r].pc \in {"verify", "mark", "grant"} /\ req[r].proof.id = i}

GrantsBounded ==
    \A i \in PaymentIds : granted[i] + Cardinality(Past(i)) <= Cardinality(Requests)

(* The gate implements the ledger: a payment_id that names a payment is        *)
(* consumed after that has settled and before anything is served for it, and   *)
(* each kind of proof serves only what the gate has checked of it.             *)
Ledger == INSTANCE PaymentLedger WITH consumed <- used
ImplementsLedger == Ledger!Spec

-----------------------------------------------------------------------------
(* Promises of the documentation that the code does not keep. *)

(* lib/payments/index.ts: replay protection is always enforced via the        *)
(* used_payments table; PROTOCOL.md 4.4 rejects any previously seen proof.    *)
(* Two requests with the same proof both pass the check before either marks.  *)
OneGrantPerProof == \A i \in PaymentIds : granted[i] <= 1

(* PROTOCOL.md 4.5: the values of GET /price must be used to compute the      *)
(* challenge amount for that specific request; a token then buys what its     *)
(* invoice was settled for.  The amount compared is the one the token states, *)
(* and the provider is asked only whether the invoice is settled.             *)
TokenAmountSettled ==
    \A g \in served : g.proof.kind = "token" => settled[Names[g.proof.id]] = g.price

(* PROTOCOL.md 4.3: the txHash must not have been used for any previous        *)
(* request.  A request that arrives after its transaction bought something is *)
(* let past the check when it names it by another text.                       *)
PaymentUsedOnce ==
    \A r \in Requests : req[r].pc = "grant" /\ req[r].proof.kind = "x402" =>
        \A g \in served : Names[g.proof.id] = Names[req[r].proof.id] => g.proof.id = req[r].proof.id

(* lib/payments/index.ts: mock shortcuts are only used in DEV_MODE or test,   *)
(* and older tokens are for mocks or older clients.  Both are granted in the  *)
(* deployment modelled here, for nothing that has settled.                    *)
OnlySettledServed ==
    \A g \in served : Names[g.proof.id] \in Payments /\ settled[Names[g.proof.id]] # 0

=============================================================================
