-------------------------------- MODULE DidAuth --------------------------------
(***************************************************************************)
(* The signature check every request passes (middleware/did.ts): the drift *)
(* window, the nonces table, the Ed25519 verification, and the line of the *)
(* janitor that purges nonces.  The same signature may arrive any number   *)
(* of times and at any time (a proxy or a client sends a request again, or *)
(* a copy is delayed), and two copies interleave at the awaits of the      *)
(* middleware.                                                             *)
(*                                                                         *)
(* The nonce is the text of the X-DID-Signature header; what is verified   *)
(* are the bytes hexToBytes reads from it.  SigOf is that conversion: it   *)
(* does not tell upper from lower case and drops an odd last character, so *)
(* that a signature has several texts, each with a nonce of its own.       *)
(*                                                                         *)
(* Left out: the dev and test bypass and the public endpoints, which check *)
(* nothing, and requests with another timestamp or another operation than  *)
(* their signature binds, which spend the nonce of their text and are then *)
(* refused.                                                                *)
(***************************************************************************)
EXTENDS Integers, FiniteSets

CONSTANTS
    Sigs,       \* signatures clients make
    SigTexts,   \* texts of the X-DID-Signature header
    SigOf,      \* SigTexts -> the signature that hexToBytes reads from each
    Requests,   \* slots for requests in the middleware
    Window,     \* the 5 * 60 * 1000 of the drift check
    MaxTime,    \* bound: last instant of the model's clock
    MaxFaults,  \* bound: interrupted requests
    NoText,     \* an empty slot
    NoNonce     \* no row in nonces

ASSUME WindowAssumption == Window \in Nat
ASSUME BoundsAssumption == MaxTime \in Nat /\ MaxFaults \in Nat
ASSUME RequestsAssumption == IsFiniteSet(Requests)
ASSUME SentinelAssumption == NoText \notin SigTexts /\ NoNonce \notin Int
ASSUME TextsAssumption == SigOf \in [SigTexts -> Sigs]

VARIABLES
    clock,      \* Date.now()
    signed,     \* the signatures made so far
    stamp,      \* the X-DID-Timestamp each one binds
    genuine,    \* the signatures the key of the X-DID header verifies
    nonces,     \* the nonces table: SigTexts -> expires_at or NoNonce
    req,        \* the request in each slot
    faults,     \* interruptions so far
    accepted    \* history: SigTexts -> how often it was let through

vars == <<clock, signed, stamp, genuine, nonces, req, faults, accepted>>
client == <<signed, stamp, genuine>>

Request == [pc : {"idle", "select", "insert", "verify"}, text : SigTexts \cup {NoText}]

Idle == [pc |-> "idle", text |-> NoText]

Init ==
    /\ clock = 0
    /\ signed = {}
    /\ stamp = [s \in Sigs |-> 0]
    /\ genuine = {}
    /\ nonces = [x \in SigTexts |-> NoNonce]
    /\ req = [r \in Requests |-> Idle]
    /\ faults = 0
    /\ accepted = [x \in SigTexts |-> 0]

-----------------------------------------------------------------------------
Stamp(x) == stamp[SigOf[x]]

\* Math.abs(now - timestamp) > 5 * 60 * 1000 is refused.
InWindow(x) == clock - Stamp(x) <= Window /\ Stamp(x) - clock <= Window

Known(x) == nonces[x] # NoNonce

\* Mutants: the nonce lives until a window before the signature's own instant,
\* or until that instant.
NonceExpiryBehind(x) == Stamp(x) - Window
NonceExpiryAtStamp(x) == Stamp(x)

NonceExpiry(x) == Stamp(x) + Window

\* A client signs; its clock may be ahead of the node's or behind it.
Sign(s, t, ok) ==
    /\ s \notin signed
    /\ signed' = signed \cup {s}
    /\ stamp' = [stamp EXCEPT ![s] = t]
    /\ genuine' = IF ok THEN genuine \cup {s} ELSE genuine
    /\ UNCHANGED <<clock, nonces, req, faults, accepted>>

\* A request, or another copy of it, with its signature in any of its texts,
\* passes the drift check; others get 401.
Arrive(r, x) ==
    /\ req[r] = Idle
    /\ SigOf[x] \in signed
    /\ InWindow(x)
    /\ req' = [req EXCEPT ![r] = [pc |-> "select", text |-> x]]
    /\ UNCHANGED <<clock, client, nonces, faults, accepted>>

\* SELECT signature FROM nonces WHERE signature = ?: a known text gets 401.
SelectNonce(r) ==
    /\ req[r].pc = "select"
    /\ req' = [req EXCEPT ![r] = IF Known(req[r].text) THEN Idle ELSE [@ EXCEPT !.pc = "insert"]]
    /\ UNCHANGED <<clock, client, nonces, faults, accepted>>

\* Mutant: INSERT OR IGNORE, as for used_payments.
InsertNonceOrIgnore(r) ==
    LET x == req[r].text IN
    /\ req[r].pc = "insert"
    /\ req' = [req EXCEPT ![r].pc = "verify"]
    /\ nonces' = IF Known(x) THEN nonces ELSE [nonces EXCEPT ![x] = NonceExpiry(x)]
    /\ UNCHANGED <<clock, client, faults, accepted>>

\* INSERT INTO nonces: the primary key refuses a second row, and the exception
\* is answered 500.
InsertNonce(r) ==
    LET x == req[r].text IN
    /\ req[r].pc = "insert"
    /\ IF Known(x)
       THEN req' = [req EXCEPT ![r] = Idle] /\ nonces' = nonces
       ELSE /\ req' = [req EXCEPT ![r].pc = "verify"]
            /\ nonces' = [nonces EXCEPT ![x] = NonceExpiry(x)]
    /\ UNCHANGED <<clock, client, faults, accepted>>

\* ed.verify of hexToBytes(signature), after the nonce of the text is spent; the
\* handler runs, or 401.
Verify(r) ==
    LET x == req[r].text IN
    /\ req[r].pc = "verify"
    /\ req' = [req EXCEPT ![r] = Idle]
    /\ accepted' = IF SigOf[x] \in genuine THEN [accepted EXCEPT ![x] = @ + 1] ELSE accepted
    /\ UNCHANGED <<clock, client, nonces, faults>>

\* GET /janitor/purge: DELETE FROM nonces WHERE expires_at < now.
Lapsed(x) == Known(x) /\ nonces[x] < clock

PurgeNonces ==
    /\ \E x \in SigTexts : Lapsed(x)
    /\ nonces' = [x \in SigTexts |-> IF Lapsed(x) THEN NoNonce ELSE nonces[x]]
    /\ UNCHANGED <<clock, client, req, faults, accepted>>

Tick ==
    /\ clock < MaxTime
    /\ clock' = clock + 1
    /\ UNCHANGED <<client, nonces, req, faults, accepted>>

\* The worker stops, or D1 fails, at an await.
Lost(r) ==
    /\ req[r] # Idle
    /\ faults < MaxFaults
    /\ faults' = faults + 1
    /\ req' = [req EXCEPT ![r] = Idle]
    /\ UNCHANGED <<clock, client, nonces, accepted>>

Next ==
    \/ \E s \in Sigs, t \in 0..MaxTime, ok \in BOOLEAN : Sign(s, t, ok)
    \/ \E r \in Requests, x \in SigTexts : Arrive(r, x)
    \/ \E r \in Requests : SelectNonce(r) \/ InsertNonce(r) \/ Verify(r) \/ Lost(r)
    \/ PurgeNonces
    \/ Tick

Spec == Init /\ [][Next]_vars

\* The operator calls the janitor again and again.
FairSpec == Spec /\ WF_vars(PurgeNonces)

-----------------------------------------------------------------------------
(* Properties *)

TypeOK ==
    /\ clock \in Nat
    /\ signed \subseteq Sigs
    /\ stamp \in [Sigs -> Nat]
    /\ genuine \subseteq signed
    /\ nonces \in [SigTexts -> Nat \cup {NoNonce}]
    /\ req \in [Requests -> Request]
    /\ \A r \in Requests :
           req[r].pc # "idle" => req[r].text \in SigTexts /\ SigOf[req[r].text] \in signed
    /\ faults \in Nat
    /\ accepted \in [SigTexts -> Nat]

InTime(x) == clock <= Stamp(x) + Window

(* As long as a signature is fresh enough to pass the drift check, no text of *)
(* its header has been let through twice, whatever copies of the request are  *)
(* in flight and whenever the janitor runs (PROTOCOL.md 3.2, nonce tracking). *)
(* That the signature itself is not, in another text, is SignatureOnceInWindow.*)
AcceptedOnceInWindow == \A x \in SigTexts : InTime(x) => accepted[x] <= 1

(* The row that makes this so outlives the window: the janitor never removes *)
(* the nonce of a text that was spent and could still pass the check.        *)
SpentStaysKnown ==
    \A x \in SigTexts :
        /\ InTime(x)
        /\ accepted[x] > 0 \/ \E r \in Requests : req[r].pc = "verify" /\ req[r].text = x
        => Known(x)

(* What the end of the window can cost: of the copies with the same header     *)
(* only those that are in the middleware by then can be let through again, one *)
(* time each, however often the janitor purges the nonce; copies that arrive   *)
(* later are stale.  Every text of the signature has this bound.               *)
Copies(x) == {r \in Requests : req[r].pc # "idle" /\ req[r].text = x}

CopiesBounded ==
    \A x \in SigTexts : accepted[x] + Cardinality(Copies(x)) <= 1 + Cardinality(Requests)

(* The nonces table does not grow without bound: a row whose window is over *)
(* is purged (PROTOCOL.md 10.1).                                            *)
NonceEventuallyPurged ==
    \A x \in SigTexts : (Known(x) /\ ~InTime(x)) ~> (~Known(x) \/ InTime(x))

-----------------------------------------------------------------------------
(* Promises of the documentation that the code does not keep. *)

(* threat-model.html: signatures are single-use.  A copy that passes the     *)
(* drift check in the last instant of the window and comes to its SELECT     *)
(* after the janitor has purged the nonce is let through a second time.      *)
SignatureSingleUse == \A x \in SigTexts : accepted[x] <= 1

(* PROTOCOL.md 3.2: servers must cache every signature within the window and *)
(* reject any re-used signature.  A copy whose header has another text of    *)
(* the signature finds no nonce and is let through.                          *)
SignatureOnceInWindow ==
    \A x, y \in SigTexts :
        SigOf[x] = SigOf[y] /\ InTime(x) /\ accepted[x] > 0 /\ accepted[y] > 0 => x = y

=============================================================================
