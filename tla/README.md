# didbox402: models, checks and proofs

TLA+ modules of the didbox402 node (`packages/server`) and of its client SDK
(`packages/sdk-core`, `packages/sdk-payments`), the TLC configurations that check
them, and theorems about them that TLAPS proves. Paths without a prefix are below
`packages/server/src/`.

| module | models | runs | proofs |
|---|---|---|---|
| `LeaseContract` | what the node promises about a lease (abstract) | as `ImplementsContract` | `LeaseContract_proofs` |
| `LeaseStore` | leases: rows, ciphertexts, the four lease handlers, the janitor | `LeaseSafety`, `LeasePurge`, 4 counterexamples | `LeaseStore_proofs`, `LeaseContract_proofs` |
| `Inboxes` | recipients and aliases, the listings, expiry as text, POST /inboxes | `MigrateSafety`, 2 counterexamples | `Migrate_proofs` |
| `Migrate` | `Inboxes` on several nodes and the client's `migrate` between them | `MigrateSafety` | `Migrate_proofs` |
| `DidAuth` | drift window and nonces of the signature check | in `NodeCopies`, 2 counterexamples | `DidAuth_proofs` |
| `PaymentLedger` | what the payment gate promises (abstract) | as `ImplementsLedger` | as `GateImplementsLedger` |
| `PaymentGate` | challenge, settle, check, verify, mark, grant | `GateSafety`, 4 counterexamples | `PaymentGate_proofs` |
| `Node` | `DidAuth` in front of `PaymentGate`: copies of a request and what they buy | `NodeCopies`, 1 counterexample | `Node_proofs` |
| `X402Amount` | prices and USDC amounts in doubles | `UsdcAmounts`, 3 counterexamples | `X402Amount_proofs` |
| `AutoPay` | the client's request, discovery cache, wallet, retry | `AutoPaySafety`, 3 counterexamples | `AutoPay_proofs` |

`MCLeaseStore`, `MCMigrate`, `MCDidAuth`, `MCPaymentGate`, `MCNode` and `MCAutoPay` hold definitions
the configurations of those modules need (symmetry sets, sets of records, functions from texts to
what they stand for, a state constraint).

## 1. The system

A node rents storage. A client sends ciphertext with a lease duration, signed with
the key of its DID; the node answers 402 with a Lightning invoice and a USDC
amount; the client pays and repeats the request with a proof; the node stores the
ciphertext in an R2 bucket and a row in a D1 database. The owner may read, delete
and extend the lease, a named recipient may read it, and a janitor that the
operator calls removes what has expired.

The node is one Cloudflare worker: every request runs as an async function, many at
once, interleaved at each `await`. There are no transactions and no locks. What
synchronises requests is only the atomicity of one SQL statement or one bucket
operation, and the primary keys.

| component | source | state | operations | hard behaviour | what makes it correct |
|---|---|---|---|---|---|
| Lease store | `index.ts`, `lib/storage.ts`, `schema.sql` | table `storage_records`, bucket | store, retrieve, delete, extend | two stores written without a transaction; rows read before billing and used after; handlers that stop half way | rows and blobs stay paired; nothing lives beyond what is paid; a removal is final; access decisions stay true |
| Janitor | `index.ts` 395–413 | none | purge | works from a stale listing, overlaps with itself and with requests, may stop anywhere | nothing goes early, everything expired goes at last |
| DID signature check | `middleware/did.ts` | table `nonces` | verify, purge nonces | copies of a request race between SELECT and INSERT; client clocks differ; purge races the lookup; a signature has several texts | a header text passes once while it is fresh, and its nonce goes after that; late copies are few |
| Payment gate | `lib/billing.ts`, `lib/payments/` | table `used_payments` | challenge, verify, mark | a provider round trip between check and mark; a failure after the mark; tokens are unsigned, and a payment has several texts | a grant matches what the node compares; reuse of a payment_id only among requests that overlap, and no more than those; nothing consumed in vain |
| Providers | `lib/payments/lightning.ts`, `web3.ts` | outside: invoices, the chain | createInvoice, verifyPayment, verifyUSDCPayment | errors; several transfers in a transaction; amounts in doubles | the challenged amount is the accepted one |
| Pricing, receipts | `lib/pricing.ts`, `lib/payment-receipt.ts` | none | price, convert | rounding at three places | challenge, verification and receipt agree |
| Billing modes | `lib/billing.ts`, `lib/entitlement.ts` | deployment | 402 or 403 | a node is redeployed while clients cache its mode | no settlement on entitlement nodes |
| Client SDK | `sdk-core`, `sdk-payments` | discovery cache | request, retry, wallet | concurrent calls share a cache; payment between two requests; losses | at most one payment per call; what is paid is served |
| Inboxes | `index.ts` 174–220, 339–355, `lib/storage.ts` | table `inboxes`; `recipient_hash` of the rows | create, list inbox, list leases, read under an alias | billing before an insert that may conflict; three handlers default the alias by themselves; listings grow old; dates are compared as instants here and as text there | who is listed may read, nobody else is listed; the three readings of an expiry agree; a fee buys a row |
| Migration | `sdk-core` 213–229 | none | retrieve here, store there | checked on one node, copied to another later; a lost answer | the copy is the source's, for its caller; no copy is made twice; content stays with those it was addressed to |
| Encodings | `sdk-crypto`, `lib/bytes.ts` | none | hash, encode, sign | pure functions | not modelled |
| Conformance suite, demo, legacy client | `packages/conformance`, `scripts/demo.ts`, `client-lib.ts` | none | | | not modelled: a test runner and thin wrappers |

The components meet in one request: `verifyDidSignature` runs first, the handler
looks up its row, `requireBilling` runs the gate or the entitlement check, and the
handler writes. The modules keep these parts apart by what they share: `LeaseStore`
sees billing as an await that authorises or refuses, `PaymentGate` sees the handler
as what follows a grant, `DidAuth` sees both as what follows `accepted`, `Node` puts
`DidAuth` in front of `PaymentGate`, and `AutoPay` sees the node as one step per request.

## 2. How modules correspond to code

One action is what a handler does between two awaits on the database, the bucket, a
provider or the network. What a handler read before an await and uses after it is in
its request record (`req[r]`); the name of its `pc` says what its next step does.
Awaits that touch no shared state (hashing) split no action. Replies that change
nothing are stuttering steps.

- **LeaseStore.** `record` is `storage_records`, `blob` the keys in the bucket,
  `clock` the hours of `Date.now()`. `StoreBegin`, `StoreBilled`, `StorePut`,
  `StoreInsert` are POST /store, and so on for the other handlers; `BillingRefused`
  is the 402 or 403 of any of them. `JanitorList`, `JanitorBlob`, `JanitorRecord` are
  the purge, whose listing `todo` is as old as the run. `RequestLost` and
  `JanitorLost` stop a handler at any await: an exception that `onError` answers with
  500, or an evicted worker. `term`, `paid`, `cut`, `gone` and `raced` are history: only
  properties read them (`Fresh` reads `term`, for an id that `randomUUID` never
  returns twice). `raced` holds the leases of which one extension began during another, or
  stopped between its payment and its update; `late`, also history, those that a janitor run
  listed, or still had listed, while an extension of them was at work. The listing compares text
  (`TextBefore`): instants from `TextLimit` on, the year 10000, sort before every earlier one.
- **LeaseContract** has no requests, tables or buckets. In `LeaseStore` a lease is live
  (`Live`) while it has its row and its ciphertext, and over (`Over`) once either was taken:
  `StoreInsert` is `Start`, `DeleteBlob` and `JanitorBlob` are `End`, the second write of each
  stutters; `Wanted` are the owners' removals at work. From `FarFuture`, the `TextLimit` of the store,
  a lease may end at any time: the contract promises nothing for it.
- **Inboxes.** `lease` is a row with its ciphertext; the lease handlers are one action each, at
  the write others can see. `InboxOf` is `hashDid(did + alias)`, `AliasOf` the
  `|| 'default'` of each handler. `TextBefore` is SQLite's `<` on `toISOString()` text,
  `Expired` the handlers' comparison of dates. A client may hold a listed item in `view` while
  the nodes go on. `CreateBilled` and `CreateInsert` are the two steps of POST /inboxes: the fee
  and the insert, whose conflict answers 500 and changes nothing. History: `sent`, `content`,
  `fees`, `cut`.
- **Migrate.** A call of `migrate` retrieves (`Retrieve`), stores (`StoreCopy`) and returns
  (`Returns`), each at a time of its own; `Fails` loses a request or an answer. `moved` records
  what calls returned, `strayed` the copies whose answer was lost. Between two calls everything
  may happen to the leases, moves by others included. A caller may migrate what it owns or what
  it was sent, and repeat a call: each stores a copy of its own, as the code does.
- **DidAuth.** A signature is a model value with the timestamp it binds. The header carries one
  of its texts; the nonce is the text, as `middleware/did.ts`:87 and 93 bind it, and `SigOf` is what
  `hexToBytes` reads from it at line 108: upper and lower case are the same, an odd last character
  is dropped. All that is said of single use is therefore said of texts. Clients sign
  with clocks ahead of or behind the node's. The same request may arrive any number
  of times, in any text. `SelectNonce`, `InsertNonce` and `Verify` are the awaits of the
  middleware; `PurgeNonces` is the last statement of the janitor.
- **PaymentGate.** A proof is a text: `Proofs` are v1 tokens (a payment hash and an amount, which
  the client states, for tokens are JSON without a signature), tokens of the older format (a payment
  hash whose preimage comes along), mock texts, and transaction hashes. The second and third are
  tested outside the DEV_MODE block of `lib/payments/index.ts` (lines 119–124, 149–162, 173–178), so
  they are part of a deployment with real providers. `used` holds the payment_ids as they came;
  `Names` is the invoice or transaction found under each, and two texts may name one. `Hashes` are
  the texts that equal the hex digest of some preimage: that of an invoice, whose preimage its
  payer learns, or of any value of the client's own. `Confirmed` is what is asked: of a token's
  invoice only whether it is settled, of a transaction whether its value is the price.
  `ErrorCaught` is the `catch` around both token formats, which refuses the proof whatever failed;
  for mocks and transactions the exception reaches `onError` (`RequestLost`). `CreateInvoice` is the
  provider's invoice for a new payment hash; each kind of its errors is an exception of the request.
  History: `granted`, `served`, `cut`.
- **PaymentLedger.** No requests, tables or texts of requests: payments settle, payment_ids are
  consumed, and proofs are served that are `Backed`, which is for each kind of proof what the node
  compares. Nothing backs a token of the older format or a mock.
- **Node.** `header` is what the slot's request carries, a text of its signature and its payment
  proof. The signature binds timestamp, method, path and body, hence the operation and its price
  (`Cost`); the payment headers are not signed, so `Receive` gives a copy any proof.
  `Admit` is `await next()`: a genuine signature runs the handler, which calls
  `requireBilling` (or costs nothing, or answers an error). The steps at the gate are those of
  `PaymentGate` (`Bill`, `Authorize`). What the handler does between the two, its look at its
  row, touches no state of either. History: `bought`, `buyers`.
- **X402Amount.** `price / SATS_PER_USD`, its product with 1e6 and its six decimals
  are computed as IEEE doubles compute them, exactly and in integers: TLC has no
  fractions and 32-bit integers, so prices are counted in units of the base rate, and
  the error of the quotient is followed through the product instead of the 53 bits
  themselves.
- **AutoPay.** One slot is one call of `request`; the slots share `cache`. The node
  answers a request in one step, by its configuration of the moment (billing mode,
  price, DEV_MODE), which `Redeploy` changes. In DEV_MODE (`config.dev`) the middleware
  returns before the nonces. History: `payments`, and the deployments a call saw (`fresh`, `since`).

Code outside `src/`, modelled from its use: the clock, the client's signing function,
wallets, the chain, the operator's deployments and the loss of a fetch. They are
marked external in `PROJECT.json`.

## 3. What the runs show

Passing runs:

| run | states | properties |
|---|---|---|
| `LeaseSafety` | 579,744 | types; `ImplementsContract`: in spite of awaits, losses and overlapping removals, a lease behaves like the single events of `LeaseContract`; `RecordHasBlob`, `BlobHasRecord`: with put before insert and blob before row, the two stores disagree only during a step or after one that stopped; `LeaseNeverExceedsPaid`, `PaidTimeStands`: a lease ends no later than its payments say, and its row, while it is there, says no earlier unless two extensions of it overlapped or one stopped after it was paid; `NotPurgedWithinTerm`, `PaidTimeNotPurged`: the janitor takes no row within its first term, and none within the hours paid for unless extensions overlapped each other or the purge, both up to the year 10000; `DeleteIsFinal`; `AccessStillHolds` |
| `LeasePurge` | 335,368 | `ExpiredEventuallyPurged`: batches, overlapping runs and half-finished removals only delay a purge |
| `MigrateSafety` | 163,683 | types; `ListedNeverDenied`: three handlers agree on who may see what, however old the listing; `InboxesIsolated`; `ExpiryLinesAgree`: reading, listing and purging draw the line at the same instant, below the year 10000; `FeePaidHasInbox`; `MigratedFaithful`; `ContentStaysAddressed`; `CopiesAccountedFor` |
| `NodeCopies` | 1,229,420 | types; `AcceptedOnceInWindow`, `SpentStaysKnown`: while a signature is fresh each text of it passes once, for the nonce of the text outlives the window; `CopiesBounded`: beyond, only copies already in the middleware can pass, one time each; `BoughtOnceInWindow`: the copies of a fresh request with one header text buy one operation, whatever proofs they carry; `GrantsPerHeader`: the race of `GateReplay` is between requests with different X-DID-Signature headers |
| `GateSafety` | 1,702,012 | types; `GrantsMatchSettlement`: a transaction buys exactly what it settled, a v1 token what it states, for an invoice that was settled; `LateProofRefused`; `GrantsBounded`: a shared payment_id buys one operation for each request past the check at the time, never one more; `ConsumedForService`; `ImplementsLedger` |
| `UsdcAmounts` | 18,175 | types; `AcceptedWithinOneUnit`; `RefusedByOneUnitOnly`; `ReceiptAtDefaultRate`: at the default `SATS_PER_USD` the receipt states what was paid |
| `AutoPaySafety` | 2,823,712 | types; `NoSettlementOnEntitlement`; `OnePaymentPerCall`; `PaidServedUndisturbed`: a call that paid is refused only by a node that checks nonces or was redeployed during the call |

Counterexamples, each a disagreement of the code with a sentence of the repository. The
first five are runs of `PROJECT.json` and quote that sentence under `findings`; each of the
others has a configuration of its name to reproduce it.

| run | property | what happens |
|---|---|---|
| `LeaseExtendRace` | `ExtendNeverShortens` | two extensions read the same row; the later write takes back the earlier one's hours |
| `LeaseOrphan` | `OrphanEventuallyPurged` | a store that stops before its insert leaves a blob nobody ever removes |
| `GateReplay` | `OneGrantPerProof` | two concurrent requests share one payment |
| `UsdcExact` | `ExactPaymentAccepted` | 1 MB for 1001 hours is challenged with 1.001000 USDC and verified against 1.000999 |
| `AutoPayPaid` | `RefusedUnpaid` | the paid retry repeats the first request's signature and gets 401: with nonces checked, automatic payment never buys anything |
| `LeaseExtendPurge` | `JanitorRemovesOnlyExpired` | a lease extended after the janitor's listing is purged though it is not expired (docs/architecture.html:47); `PaidTimeNotPurged` says that nothing else takes paid hours |
| `LeaseExtendGone` | `ConfirmedExtensionTakesEffect` | an extension of a lease deleted meanwhile is charged and confirmed (PROTOCOL.md:280) |
| `InboxFeeTwice` | `OneTimeFee` | a second POST /inboxes for an alias takes the fee again and answers 500 (PROTOCOL.md 5.4: a one-time creation fee) |
| `LeaseYear10000` | `PurgeFollowsExpiry` | a lease extended beyond the year 9999 sorts, as text, before every date and is purged at once (docs/architecture.html:47) |
| `GateAmount` | `TokenAmountSettled` | a token that states another amount than its invoice was settled for is served at the amount it states (PROTOCOL.md 4.5, line 161) |
| `GateRespelled` | `PaymentUsedOnce` | a transaction whose hash comes in another text after its use is not found in used_payments and buys again (PROTOCOL.md 4.3, line 117) |
| `GateUnsettled` | `OnlySettledServed` | a mock text, or a token of the older format with a hash of the client's own, is granted though nothing settled (`lib/payments/index.ts`:21 says mocks are for DEV_MODE or test only) |
| `AuthRespelled` | `SignatureOnceInWindow` | a copy of a request whose header has another text of the signature passes within the window (PROTOCOL.md 3.2, line 61) |
| `NodeRespelled` | `PaidOncePerSignature` | two such copies carry one payment_id, pass its check together and both buy (PROTOCOL.md:120 with :61) |
| `AuthSingleUse` | `SignatureSingleUse` | a copy checked in the window's last instant and looked up after the purge passes again (docs/threat-model.html:71) |
| `UsdcBatch` | `MatchingTransferAccepted` | a transaction whose first transfer to the node is another payment is refused (docs/x402-implementation-guide.md:126) |
| `UsdcReceipt` | `ReceiptStatesAmountPaid` | the receipt ignores `SATS_PER_USD` (`lib/payments/index.ts`:20) |
| `AutoPaySign` | `FreshSignatures` | the retry reuses the signature (PROTOCOL.md:500) |
| `AutoPayStale` | `ClearForcesFreshFetch` | a fetch in flight refills the discovery cache after it was cleared (client.test.ts:117) |

`AutoPayPaid` needs a node that checks nonces. The unit tests of the SDK run against a mock
and those of the server in the development mode, so no test meets it.

### Bounds

- *Lease runs.* One lease with two requests and one janitor is enough for the pairwise
  races of the safety properties, because no property and no step but the listing
  relates two leases; `LeasePurge` has two leases, two janitors and a batch of one, so
  that a listing leaves a lease behind. Three clock steps let a lease of one or two
  hours be bought, extended, expire and be purged. `MaxPaid` caps extensions and
  `MaxFaults` interruptions: one leaves each kind of half-finished work behind. In `LeaseSafety`
  `TextLimit` is 5, the largest `MaxPaid` allows, so that extensions end on both sides of the year
  10000. `MaxPaid` stays below the last date JavaScript represents, beyond which `toISOString`
  throws; `Inboxes` has that bound as `MaxDate`.
  `Hours` contains 0 and a value above `MaxLeaseHours`, which the guards refuse.
- *MigrateSafety.* Two nodes, two callers, two aliases besides none, two ids and one call: one
  lease, the copy of it and an unrelated lease are in turn source, copy and neighbour, with the
  caller as its owner or its recipient. Two creations race for one alias. The clock has three
  instants, `TextLimit` is one more, and two one-hour leases with extensions reach both sides of
  it; `MaxDate` is that limit. One loss leaves a stray copy or a creation cut off. `OnePart`
  keeps apart what shares no state: creations from leases, and a held listing from moves.
  Chains of moves need a third id; the proofs cover them.
- *NodeCopies.* Window 1 and four instants: timestamps before, in and after the window,
  and ahead of the node; a nonce can lapse and be purged while a copy is in flight. Two slots
  race, with copies of one signature in the same text or in two. Nothing but `SigOf` and the price
  tells two texts of one signature from texts of two, and prices are equal. One invoice, one
  transaction, one mock and one price, so
  that any proof would do for any operation and only nonces and marks tell requests apart;
  amounts are `GateSafety`'s. One interruption in the middleware and one at the gate.
  The two texts are symmetric, and so are slots.
- *GateSafety.* An invoice with tokens of both formats, a transaction with two texts, two prices: a
  token of one amount for an operation of another, tokens that state what the challenge did not,
  both rails, one proof or one payment in two requests. Mock texts, which differ from the older
  tokens only in that nothing catches their errors, are in `NodeCopies` and, with two prices, in
  `GateMocks.cfg` (3,419,241 states, the same properties), which is not a run of `PROJECT.json` only
  because of its time. Slots are symmetric.
- *UsdcAmounts.* The hours include 668, 1001 and 1003, at which the doubles round
  differently; sizes lie below the minimum charge, on a megabyte boundary and above it.
- *AutoPay.* Two calls of one operation, at the same instant or not; any first
  configuration and one redeployment, which is enough for a document to become stale or a
  price to move between challenge and retry; one loss; two invoices, after which the node
  of the model does not answer a challenge. Slots and invoices are symmetric.

Runs do not check deadlock: clients stop sending, the clocks stop at their bounds and
slots may all be idle.

### Fairness

`LeaseStore!FairSpec` makes a handler resume when its await has settled, as the
worker's event loop does, unless it is lost, and lets the operator call the janitor
again and again, which the implementer's guide demands of operators. `DidAuth!FairSpec`
assumes only the latter. No client is fair and no clock has to move. The liveness property of
`LeasePurge` and the counterexample `LeaseOrphan` are under the first; all else in
`PROJECT.json` is safety. `AuthPurge.cfg` checks the middleware by itself under the second
(450,480 states): `NonceEventuallyPurged`, a nonce whose window is over goes. It has two texts of one signature and
one of another. It is no run of `PROJECT.json`: `NodeCopies` checks everything else about the
middleware, and its symmetry does not allow liveness.

## 4. What is proved

All theorems hold for every value of the constants, the bounds included, from the named
assumptions of each module (natural-number bounds, sentinels outside their sets, the two
rails disjoint, positive prices, texts that name what the constants say they name, and finitely many
requests at a time where requests are counted). `Names` and `SigOf` are arbitrary: nothing is
assumed of how many texts a payment or a signature has.

- **LeaseStore.** `TypeCorrect`, then `LeaseInvariant` for
  `LeaseInv`, from which six properties follow. None of them is inductive alone. What the
  strengthening adds: an id in use was sold (`IdsSold`); an id between its sale and its
  insert belongs to one request and has no row (`StoreAlone`); the expiry a handler holds
  was paid for (`WritesPaid`), which makes a stale extension harmless to the node; a
  half-finished removal has already taken the blob (`RemovalsHalfDone`); and a row never
  expires before its first term (`TermKept`). `TermIsKept`, an action property, follows
  from the last and from the janitor's listing, for leases paid below `TextLimit`. One lemma per
  action. `PaidIsKept` proves
  `PaidTimeStands` from a second invariant (`PaidInv`) on top of the first: for a lease whose
  extensions never overlapped (not in `raced`), the row ends at the hour paid for, or the one
  update under way will write it (`PaidExact`); and while an extension is at work it is the only
  one, so the expiry it read is still the row's. `PaidTimeIsNotPurged` adds what a janitor run knows
  of the leases it listed (`ListedUsedUp`): unless an extension overlapped the run (`late`), every
  hour paid for was over at the listing, and none is paid before the run is done with them. So what
  takes hours from a client is a second extension, one that stops after its payment, one that
  overlaps a purge, and a date beyond the year 9999; nothing else, whatever is interleaved or cut off.
- **LeaseContract.** `StoreKeepsContract`: every step of `LeaseStore` is a step of the
  contract or stutters. It needs `LeaseInv` and that handlers and janitors only ever hold ids
  the table has or had (`WorkSeen`, proved in `ContractInvariant`): otherwise the removal of an
  unknown id could end a lease that has not begun. That an `End` within the term is always
  asked for by the owner comes from `TermKept` and the janitor's listing, below `FarFuture`.
- **Inboxes and Migrate.** Every step keeps each id (its address, content, node, owner and
  inbox), changes or ends its lease, or gives a new id to a lease (`Kept`, `Born`; lemma
  `StepShapes`); the rest of the argument never looks at an action again. The invariant
  `MigrateInv` says what is known of an id for good once it was sent: rows say what the sender
  asked for (`RowsAddressed`), so does the item a client holds (`ViewAddressed`), copies are
  addressed to their own sender (`ContentsOwn`), and a call knows that it was allowed to read its
  source, even when the source is gone (`CallInv`). From it follow access, isolation and the
  content of moved leases, for any number of nodes and moves. `LinesTheSame` needs no invariant
  but types; `FeesAnsweredFor` is inductive with its own.
- **X402Amount.** For every price, rate and transaction, `AcceptedIsExact` and
  `RefusalIsByOneUnit`. Both roundings stay within one unit of the exact quotient (`FloorNear`,
  `FixedNear`), whichever way the error of the double goes, and the six decimals are exact where
  the quotient is whole; so the challenge is never below what the verifier expects, and at most
  one above it. The recursive functions that follow the error through the product (`Pow2`,
  `Shifted`) are not unfolded: the theorems hold for any error they return. `ReceiptIsExact`: at
  the default rate the receipt's own rounding and the verifier's flooring come no further
  apart than a millionth.
- **DidAuth.** `OnceInWindow` and `NonceOutlivesWindow`: at any time a header text whose signature
  is within its window has been accepted or is about to be at most once, because the row that stops
  the second insert cannot be purged before the window is over. They are theorems about texts: of a
  signature with several texts they hold for each, and `AuthRespelled` shows that no more is true.
  `LateCopiesBounded`: past the window the nonce may be purged with copies of the request still
  waiting for their SELECT. Nobody new passes the drift check, so acceptances and copies in flight
  together no longer grow (lemma `CopiesMove`); the bound is one more than the requests at work at
  a time.
- **PaymentGate.** `GateInvariant`, `GateTypeCorrect`, three more properties, and
  `GateImplementsLedger`: marks are `Consume`, grants are `Serve`, all else stutters. The
  invariant says what each request past a check knows of its proof (`RequestsKnow`): that the
  payment its payment_id names, if it names one, has settled (`NamedSettled`), and that the proof is
  as good as its kind is checked to be (`Backed`); and that nothing undoes it, for
  amounts never change once set. `ServedBacked` keeps this for what was granted, and
  `GrantsMatchSettlement` follows with `InvoicesExact`, that an invoice settles at its amount. No
  tie of a token's amount to its invoice is assumed: the property asks for one where it needs it.
  `ReuseIsBounded` counts: once a payment_id is marked nobody passes its check any more, and a grant
  takes its request from those past it, so the grants and the requests past the check together
  never exceed the requests at work at a time. This is what `GateReplay` can cost at worst for one
  text; `GateRespelled` is the same payment under the next.
- **Node.** `NodeImplementsAuth` and `NodeImplementsGate`: the composition is each of its parts to
  itself, the gate by the refinement mapping of `Gate`. The second needs `HeadersMatch`, that a
  slot's header carries the text of the request in it: hence its price is one of `Prices`.
  Everything the middleware guarantees therefore holds of the node (`NodeOnceInWindow`).
  `NodeInvariant` adds what neither part can say: purchases under a header text and its copies at
  the gate together were accepted by the middleware (`PurchasesAccepted`), and who presented a
  payment_id that was granted has bought (`BuyersBought`). Since a fresh text is accepted once, its
  copies buy once (`PurchasesOnceInWindow`), and a second grant of a payment_id needs a header that
  has not bought with it yet (`SharingNeedsHeaders`, in lemma `SharedStep`).
- **AutoPay.** `AutoPayTypes`, `ModesRespected` and `PaysOnce`: a call pays only between its
  first answer and its retry, and on a document that says micropayment. A step changes one
  call at most, so the invariant is a predicate of each call by itself (`Sound`).
  `TokenInvariant` and `PaymentBuys` add what calls share, the invoices: one that a call holds is
  issued, unused and no other call's, and has today's price while the deployment the call began
  with lasts; so the paid retry finds nothing to refuse but its nonce.

Only model-checked: the two liveness properties (`ExpiredEventuallyPurged`, and
`NonceEventuallyPurged` in `AuthPurge.cfg`), which the prover cannot do, the counterexamples, and
the values `X402Amount` computes for the error of a quotient, which are recursive functions; they
were compared with real doubles for 14,000 pairs of price and rate.

## 5. What is left out

- The development mode's bypass of the signature check and its block of `verifyAnyPayment`
  (`lib/payments/index.ts` 82–112), the mock providers, and the x402 stub of `negotiatePayment`: no
  provider verifies them. The tokens of the older format and the mock texts are tested after that
  block, run in every deployment, and are modelled. `AutoPay` keeps of the development mode only
  that it skips nonces.
- In `DidAuth`, requests whose timestamp, path or body is not what their signature binds: they spend
  the nonce of their text and are refused, so that the genuine request is, too. In `PaymentGate`, a
  text of one rail sent on the other, which the provider looks up in vain.
- Encodings, hashing, signatures and entitlement keys: abstract values, but for the two conversions
  a property depends on: dates as text (`TextBefore`) and texts as bytes or payments (`SigOf`, `Names`). Two pairs of caller and
  alias hash to different values: the text `did + alias` has one reading, since the DID of an
  Ed25519 key has a fixed length, and the hash is taken to be free of collisions.
- GET /price and the node's identity: constants of a deployment. `MISCONFIGURED_ENTITLEMENT`
  refuses every request of such a deployment and changes nothing.
- Egress prices and the sizes of ciphertexts: constants of a request.
- `used_payments.expires_at` and the `expiresAt` of a token: written, never read. The
  `options.payment` of the client's `store` and `extend` is sent as `X-Payment`, a header the node
  does not read, and so has no effect to model.
- The conformance suite, the demo and `client-lib.ts`: a test runner and thin wrappers.
- `Inboxes` does not split the lease handlers at their awaits; that is `LeaseStore`.

## 6. Plan

Done, in this order: the lease store, since everything else serves it; what guards it
(signatures, payments); amounts; the client; the abstract lease and its refinement; inboxes and
moves; the proofs of amounts; the middleware and the gate composed, with the bounds on what reuse
can cost. What could follow:

1. `LeaseStore` behind `Node`: what a client may conclude from a lost answer when the same
   signature cannot be sent again.
2. Entitlement mode inside the gate, with a redeployment during a request.
3. The drift window in `AutoPay`: how long a discovery fetch or a wallet may take before the
   retry is refused as stale.
4. Proofs: that `Node` at large implements a node that checks, bills and serves a request in one
   step, but for the overlaps `GrantsBounded` counts.
