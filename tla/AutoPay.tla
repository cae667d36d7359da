-------------------------------- MODULE AutoPay --------------------------------
(***************************************************************************)
(* DidBoxClient.request with autoPay (sdk-core), negotiatePayment          *)
(* (sdk-payments) and the node it talks to: the cached discovery document, *)
(* the signed request, the 402 challenge, the wallet, and the retry.       *)
(* Several calls of one client run concurrently, an operator redeploys the *)
(* node with another price or billing mode, and requests or answers are    *)
(* lost.                                                                   *)
(*                                                                         *)
(* A request is handled by the node in one step: the interleavings inside  *)
(* the node are modules DidAuth, PaymentGate and LeaseStore.  Every        *)
(* operation is billed.  The wallet is a Lightning wallet; autoPay off is  *)
(* a wallet that never pays.  The x402 stub of negotiatePayment and the    *)
(* mock preimage of headless development, which pay nothing, are left out. *)
(***************************************************************************)
EXTENDS Naturals

CONSTANTS
    Calls,        \* slots for concurrent calls of request
    Ops,          \* operations: method, path and body
    Invoices,     \* bound: invoices the node can issue
    Configs,      \* configurations of the node: [mode, price, dev]
    HasKey,       \* the client has an entitlement key, and it is valid
    MaxRedeploys, \* bound: redeployments
    MaxTime,      \* bound: last instant of the client's clock
    MaxFaults,    \* bound: lost requests and answers
    NoInvoice, NoDiscovery, NoOp

Modes == {"micropayment", "entitlement"}

ASSUME ConfigAssumption ==
    Configs \subseteq [mode : Modes, price : Nat \ {0}, dev : BOOLEAN]
ASSUME KeyAssumption == HasKey \in BOOLEAN
ASSUME BoundsAssumption == MaxRedeploys \in Nat /\ MaxTime \in Nat /\ MaxFaults \in Nat
ASSUME SentinelAssumption == NoInvoice \notin Invoices /\ NoOp \notin Ops

VARIABLES
    clock,    \* Date.now() of the client
    version,  \* how often the node was redeployed
    config,   \* the node's configuration
    nonces,   \* signatures the node has seen
    amount,   \* Invoices -> amount of the invoice and its token, 0 before it is issued
    used,     \* invoices in used_payments
    cache,    \* discoveryCache
    call,     \* the call in each slot
    faults,   \* losses so far
    \* History, read by properties only:
    sent,     \* signatures the client has sent
    cleared   \* version of the node when the cache was last cleared

vars == <<clock, version, config, nonces, amount, used, cache, call, faults, sent, cleared>>
node == <<version, config, nonces, amount, used>>
history == <<sent, cleared>>

Discovery == [version : 0..MaxRedeploys, mode : Modes]

(***************************************************************************)
(* discover, discovered: the fetch of the configuration; sign: before the  *)
(* fetch of the request; first, retry: a request in flight; answered,      *)
(* answered2: its answer in flight; negotiate: in the wallet.              *)
(***************************************************************************)
Pcs == {"idle", "discover", "discovered", "sign", "first", "answered", "negotiate",
        "retry", "answered2"}
Results == {"none", "served", "refused", "unpaid", "lost"}
Statuses == {0, 200, 401, 402, 403}  \* 0: no answer yet

Call == [pc : Pcs, op : Ops \cup {NoOp}, at : 0..MaxTime,
         discovery : Discovery \cup {NoDiscovery}, status : Statuses,
         invoice : Invoices \cup {NoInvoice}, payments : Nat, result : Results,
         fresh : 0..MaxRedeploys, since : 0..MaxRedeploys]

\* fresh, since: the node's version at the last clearDiscoveryCache before the
\* call, and when the call began; read by properties only.
Started(op) ==
    [pc |-> "discover", op |-> op, at |-> clock, discovery |-> NoDiscovery, status |-> 0,
     invoice |-> NoInvoice, payments |-> 0, result |-> "none",
     fresh |-> cleared, since |-> version]

NoCall ==
    [pc |-> "idle", op |-> NoOp, at |-> 0, discovery |-> NoDiscovery, status |-> 0,
     invoice |-> NoInvoice, payments |-> 0, result |-> "none", fresh |-> 0, since |-> 0]

Init ==
    /\ clock = 0
    /\ version = 0
    /\ config \in Configs
    /\ nonces = {}
    /\ amount = [i \in Invoices |-> 0]
    /\ used = {}
    /\ cache = NoDiscovery
    /\ call = [k \in Calls |-> NoCall]
    /\ faults = 0
    /\ sent = {}
    /\ cleared = 0

-----------------------------------------------------------------------------
\* Ed25519 is deterministic: the same request at the same instant has the same
\* signature.
Signature(k) == <<call[k].op, call[k].at>>

\* The call returns or throws, and what it did stays on record until the next.
Returns(k, result) == call' = [call EXCEPT ![k].pc = "idle", ![k].result = result]

\* request: the timestamp is taken, then getDiscovery answers from the cache or
\* fetches.
Begin(k, op) ==
    /\ call[k].pc = "idle"
    /\ call' = [call EXCEPT ![k] =
                   IF cache = NoDiscovery
                   THEN Started(op)
                   ELSE [Started(op) EXCEPT !.pc = "sign", !.discovery = cache]]
    /\ UNCHANGED <<clock, node, cache, faults, history>>

\* GET /.well-known/didbox-configuration at the node.
AnswerDiscovery(k) ==
    /\ call[k].pc = "discover"
    /\ call' = [call EXCEPT ![k].pc = "discovered",
                            ![k].discovery = [version |-> version, mode |-> config.mode]]
    /\ UNCHANGED <<clock, node, cache, faults, history>>

\* this.discoveryCache = await res.json()
Discovered(k) ==
    /\ call[k].pc = "discovered"
    /\ cache' = call[k].discovery
    /\ call' = [call EXCEPT ![k].pc = "sign"]
    /\ UNCHANGED <<clock, node, faults, history>>

\* The application calls clearDiscoveryCache, at any moment.
ClearDiscoveryCache ==
    /\ cache' = NoDiscovery
    /\ cleared' = version
    /\ UNCHANGED <<clock, node, call, faults, sent>>

\* Sign and fetch; without a key the client throws before it contacts an
\* entitlement node.
Send(k) ==
    /\ call[k].pc = "sign"
    /\ IF call[k].discovery.mode = "entitlement" /\ ~HasKey
       THEN Returns(k, "refused") /\ sent' = sent
       ELSE /\ call' = [call EXCEPT ![k].pc = "first"]
            /\ sent' = sent \cup {Signature(k)}
    /\ UNCHANGED <<clock, node, cache, faults, cleared>>

-----------------------------------------------------------------------------
(* The node: verifyDidSignature, then requireBilling, then the handler. *)

Respond(k, status, invoice) ==
    call' = [call EXCEPT ![k].pc = IF @ = "first" THEN "answered" ELSE "answered2",
                         ![k].status = status,
                         ![k].invoice = invoice]

\* The proof of the request, when it has one, is unused and of today's price.
Covered(k) ==
    /\ call[k].pc = "retry"
    /\ call[k].invoice \notin used
    /\ amount[call[k].invoice] = config.price

\* With DEV_MODE the middleware returns before the nonces.
Reaches(k) ==
    /\ call[k].pc \in {"first", "retry"}
    /\ \/ config.dev /\ nonces' = nonces
       \/ /\ ~config.dev
          /\ Signature(k) \notin nonces
          /\ nonces' = nonces \cup {Signature(k)}

AnswerReplay(k) ==
    /\ call[k].pc \in {"first", "retry"}
    /\ ~config.dev
    /\ Signature(k) \in nonces
    /\ Respond(k, 401, NoInvoice)
    /\ UNCHANGED <<clock, node, cache, faults, history>>

\* verifyEntitlement: the key travels only if the discovery asked for it.
AnswerEntitled(k) ==
    /\ Reaches(k)
    /\ config.mode = "entitlement"
    /\ Respond(k, IF call[k].discovery.mode = "entitlement" THEN 200 ELSE 403, NoInvoice)
    /\ UNCHANGED <<clock, version, config, amount, used, cache, faults, history>>

AnswerPaid(k) ==
    /\ Reaches(k)
    /\ config.mode = "micropayment"
    /\ Covered(k)
    /\ used' = used \cup {call[k].invoice}
    /\ Respond(k, 200, NoInvoice)
    /\ UNCHANGED <<clock, version, config, amount, cache, faults, history>>

Quote(c) == c.price

\* Mutant: the node hands out an invoice again until it is used.
AnswerChallengeAgain(k) ==
    /\ Reaches(k)
    /\ config.mode = "micropayment"
    /\ ~Covered(k)
    /\ \E i \in Invoices \ used :
           /\ amount[i] \in {0, Quote(config)}
           /\ amount' = [amount EXCEPT ![i] = Quote(config)]
           /\ Respond(k, 402, i)
    /\ UNCHANGED <<clock, version, config, used, cache, faults, history>>

\* issueDualChallenge, for the price of the moment.
AnswerChallenge(k) ==
    /\ Reaches(k)
    /\ config.mode = "micropayment"
    /\ ~Covered(k)
    /\ \E i \in Invoices :
           /\ amount[i] = 0
           /\ amount' = [amount EXCEPT ![i] = Quote(config)]
           /\ Respond(k, 402, i)
    /\ UNCHANGED <<clock, version, config, used, cache, faults, history>>

-----------------------------------------------------------------------------
(* The client again. *)

\* Mutants: any 402 is settled; any refusal is taken for a challenge; the
\* answer of the retry is settled again.
SettlesAny402(k) == call[k].status = 402 /\ call[k].pc = "answered"
SettlesAnyError(k) ==
    /\ call[k].status # 200
    /\ call[k].discovery.mode # "entitlement"
    /\ call[k].pc = "answered"
SettlesAgain(k) == call[k].status = 402 /\ call[k].discovery.mode # "entitlement"

\* res.status === 402 && discovery.billing_mode !== 'entitlement', asked once.
Settles(k) ==
    /\ call[k].status = 402
    /\ call[k].discovery.mode # "entitlement"
    /\ call[k].pc = "answered"

Receive(k) ==
    /\ call[k].pc \in {"answered", "answered2"}
    /\ IF Settles(k)
       THEN call' = [call EXCEPT ![k].pc = "negotiate"]
       ELSE Returns(k, IF call[k].status = 200 THEN "served" ELSE "refused")
    /\ UNCHANGED <<clock, node, cache, faults, history>>

\* webln.sendPayment returns a preimage; the retry copies the headers of the
\* first request and adds the token.
Pay(k) ==
    /\ call[k].pc = "negotiate"
    /\ call' = [call EXCEPT ![k].pc = "retry", ![k].payments = @ + 1]
    /\ sent' = sent \cup {Signature(k)}
    /\ UNCHANGED <<clock, node, cache, faults, cleared>>

\* The wallet throws, before or after the money has left: no compatible wallet.
WalletFails(k) ==
    /\ call[k].pc = "negotiate"
    /\ \E left \in {0, 1} :
           call' = [call EXCEPT ![k].pc = "idle", ![k].result = "unpaid",
                                ![k].payments = @ + left]
    /\ UNCHANGED <<clock, node, cache, faults, history>>

\* fetch rejects: the request, or its answer, is lost; or discovery fails.
Lost(k) ==
    /\ call[k].pc \in {"discover", "discovered", "first", "answered", "retry", "answered2"}
    /\ faults < MaxFaults
    /\ faults' = faults + 1
    /\ Returns(k, "lost")
    /\ UNCHANGED <<clock, node, cache, history>>

-----------------------------------------------------------------------------
\* The operator redeploys the node with another configuration.
Redeploy(c) ==
    /\ version < MaxRedeploys
    /\ c # config
    /\ version' = version + 1
    /\ config' = c
    /\ UNCHANGED <<clock, nonces, amount, used, cache, call, faults, history>>

Tick ==
    /\ clock < MaxTime
    /\ clock' = clock + 1
    /\ UNCHANGED <<node, cache, call, faults, history>>

Next ==
    \/ \E k \in Calls :
           \/ \E op \in Ops : Begin(k, op)
           \/ AnswerDiscovery(k) \/ Discovered(k) \/ Send(k)
           \/ AnswerReplay(k) \/ AnswerEntitled(k) \/ AnswerPaid(k) \/ AnswerChallenge(k)
           \/ Receive(k) \/ Pay(k) \/ WalletFails(k) \/ Lost(k)
    \/ \E c \in Configs : Redeploy(c)
    \/ ClearDiscoveryCache
    \/ Tick

Spec == Init /\ [][Next]_vars

-----------------------------------------------------------------------------
(* Properties *)

TypeOK ==
    /\ clock \in 0..MaxTime
    /\ version \in 0..MaxRedeploys
    /\ config \in Configs
    /\ nonces \subseteq Ops \X (0..MaxTime)
    /\ amount \in [Invoices -> Nat]
    /\ used \subseteq Invoices
    /\ cache \in Discovery \cup {NoDiscovery}
    /\ call \in [Calls -> Call]
    /\ \A k \in Calls : call[k].pc \in {"negotiate", "retry"} => call[k].invoice \in Invoices
    /\ faults \in Nat
    /\ sent \subseteq Ops \X (0..MaxTime)
    /\ cleared \in 0..MaxRedeploys

(* A client never settles a challenge of a node whose discovery told it that  *)
(* the node uses entitlements (PROTOCOL.md 9.1), though the node may have     *)
(* been redeployed since the document was cached.                             *)
NoSettlementOnEntitlement ==
    \A k \in Calls :
        call[k].payments > 0 => call[k].discovery.mode = "micropayment"

(* One call costs at most one payment, whatever the retry is answered and     *)
(* however prices move between the challenge and the retry.                   *)
OnePaymentPerCall == \A k \in Calls : call[k].payments <= 1

(* What the wallet settled buys the operation, unless the node checks nonces  *)
(* and takes the retry for a replay, or was redeployed during the call: the   *)
(* token still has the price that is asked, and no concurrent call, of the    *)
(* same operation and price, has used it up.                                  *)
PaidServedUndisturbed ==
    \A k \in Calls :
        call[k].result = "refused" /\ call[k].payments > 0
            => ~config.dev \/ version # call[k].since

(* A call that starts after clearDiscoveryCache uses a document the node sent *)
(* no earlier than that (client.test.ts: clearDiscoveryCache forces a fresh   *)
(* discovery fetch).  The answer to a fetch that was in flight when the cache *)
(* was cleared fills it again.                                                *)
ClearForcesFreshFetch ==
    \A k \in Calls :
        call[k].pc \notin {"idle", "discover"} => call[k].discovery.version >= call[k].fresh

(* A call that is refused has not paid: what the wallet settled buys the      *)
(* operation (client.test.ts: automatically handles the 402 flow).            *)
RefusedUnpaid ==
    \A k \in Calls : call[k].result = "refused" => call[k].payments = 0

(* PROTOCOL.md 9.1: clients never reuse a signature.                          *)
FreshSignatures ==
    [][\A k \in Calls :
        call'[k].pc \in {"first", "retry"} /\ call[k].pc # call'[k].pc
            => Signature(k) \notin sent]_vars

=============================================================================
