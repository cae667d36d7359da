---------------------------- MODULE AutoPay_proofs ----------------------------
(***************************************************************************)
(* Proofs about AutoPay, for every number of concurrent calls, operations, *)
(* configurations and redeployments.                                       *)
(*                                                                         *)
(* Every action changes at most one call, so the invariant is the type     *)
(* invariant and a predicate Sound of each call by itself: a step keeps it *)
(* if the call it changes is typed and sound afterwards (OneCallMoves).    *)
(***************************************************************************)
EXTENDS AutoPay, TLAPS

\* A call pays between its first answer and its retry only, and got there on
\* the document of a micropayment node, with the invoice of a challenge.
Sound(c) ==
    /\ c.pc # "idle" => c.op \in Ops
    /\ c.pc \notin {"idle", "discover"} => c.discovery \in Discovery
    /\ c.pc \in {"discover", "discovered", "sign", "first", "answered", "negotiate"}
           => c.payments = 0
    /\ c.pc = "answered" /\ c.status = 402 => c.invoice \in Invoices
    /\ c.pc \in {"negotiate", "retry"} => c.invoice \in Invoices
    /\ c.pc \in {"negotiate", "retry", "answered2"} => c.discovery.mode = "micropayment"
    /\ c.payments > 0 => c.discovery.mode = "micropayment"
    /\ c.payments \in {0, 1}

AutoPayInv ==
    /\ TypeOK
    /\ \A k \in Calls : Sound(call[k])

\* What TypeOK says of everything but the calls.
WorldTyped ==
    /\ clock \in 0..MaxTime
    /\ version \in 0..MaxRedeploys
    /\ config \in Configs
    /\ nonces \subseteq Ops \X (0..MaxTime)
    /\ amount \in [Invoices -> Nat]
    /\ used \subseteq Invoices
    /\ cache \in Discovery \cup {NoDiscovery}
    /\ faults \in Nat
    /\ sent \subseteq Ops \X (0..MaxTime)
    /\ cleared \in 0..MaxRedeploys

(* The waits, results and statuses that actions name are those of the types. *)
LEMMA Names ==
    /\ {"idle", "discover", "discovered", "sign", "first", "answered", "negotiate", "retry",
        "answered2"} = Pcs
    /\ {"none", "served", "refused", "unpaid", "lost"} = Results
    /\ {0, 200, 401, 402, 403} = Statuses
BY DEF Pcs, Results, Statuses

(* A call moves on, or returns. *)
LEMMA CallMoves ==
    ASSUME NEW c \in Call, NEW pc \in Pcs, NEW result \in Results
    PROVE  /\ [c EXCEPT !.pc = pc] \in Call
           /\ [c EXCEPT !.pc = pc, !.result = result] \in Call
BY DEF Call

(* A call learns the discovery document. *)
LEMMA CallDiscovers ==
    ASSUME NEW c \in Call, NEW pc \in Pcs, NEW d \in Discovery
    PROVE  [c EXCEPT !.pc = pc, !.discovery = d] \in Call
BY DEF Call

(* A call is answered. *)
LEMMA CallAnswered ==
    ASSUME NEW c \in Call, NEW pc \in Pcs, NEW status \in Statuses,
           NEW invoice \in Invoices \cup {NoInvoice}
    PROVE  [c EXCEPT !.pc = pc, !.status = status, !.invoice = invoice] \in Call
BY DEF Call

(* A call has paid, and sends its retry or returns. *)
LEMMA CallPays ==
    ASSUME NEW c \in Call, NEW pc \in Pcs, NEW result \in Results, NEW n \in Nat
    PROVE  /\ [c EXCEPT !.pc = pc, !.payments = n] \in Call
           /\ [c EXCEPT !.pc = pc, !.result = result, !.payments = n] \in Call
BY DEF Call

(* A call begins. *)
LEMMA CallStarts ==
    ASSUME NEW op \in Ops, clock \in 0..MaxTime, cleared \in 0..MaxRedeploys,
           version \in 0..MaxRedeploys
    PROVE  Started(op) \in Call
<1>1. "discover" \in Pcs /\ "none" \in Results /\ 0 \in Statuses
  BY Names
<1> QED BY <1>1 DEF Started, Call

(* No slot has a call at first. *)
LEMMA NoCallTyped == NoCall \in Call
<1>1. "idle" \in Pcs /\ "none" \in Results /\ 0 \in Statuses
  BY Names
<1>2. 0 \in 0..MaxTime /\ 0 \in 0..MaxRedeploys
  BY BoundsAssumption
<1> QED BY <1>1, <1>2 DEF NoCall, Call

(* The signature of a call under way is one of an operation and an instant. *)
LEMMA SignatureTyped ==
    ASSUME AutoPayInv, NEW k \in Calls, call[k].pc # "idle"
    PROVE  Signature(k) \in Ops \X (0..MaxTime)
<1>1. call[k] \in Call
  BY DEF AutoPayInv, TypeOK
<1>2. call[k].at \in 0..MaxTime
  BY <1>1 DEF Call
<1> QED BY <1>2 DEF AutoPayInv, Sound, Signature

(* The initial state satisfies the invariant: no call has begun. *)
LEMMA AutoPayInit == Init => AutoPayInv
<1> SUFFICES ASSUME Init PROVE AutoPayInv
  OBVIOUS
<1>1. Sound(NoCall) /\ NoCall.pc = "idle"
  BY DEF Sound, NoCall
<1>2. TypeOK
  BY NoCallTyped, <1>1, ConfigAssumption, BoundsAssumption DEF Init, TypeOK
<1> QED BY <1>1, <1>2 DEF Init, AutoPayInv

(* A step that changes one call, and leaves a sound one, keeps the invariant. *)
LEMMA OneCallMoves ==
    ASSUME AutoPayInv, NEW k \in Calls, NEW c \in Call, Sound(c),
           call' = [call EXCEPT ![k] = c], WorldTyped'
    PROVE  AutoPayInv'
<1>1. call' \in [Calls -> Call]
  BY DEF AutoPayInv, TypeOK
<1>2. \A j \in Calls : Sound(call'[j])
  BY DEF AutoPayInv, TypeOK
<1>3. \A j \in Calls : call'[j].pc \in {"negotiate", "retry"} => call'[j].invoice \in Invoices
  BY <1>2 DEF Sound
<1>4. TypeOK'
  BY <1>1, <1>3 DEF TypeOK, WorldTyped
<1> QED BY <1>2, <1>4 DEF AutoPayInv

(* A step of the client on its own call. *)
LEMMA ClientKeeps ==
    ASSUME AutoPayInv, NEW k \in Calls,
           \/ \E op \in Ops : Begin(k, op)
           \/ Discovered(k) \/ Send(k) \/ Receive(k) \/ Pay(k) \/ WalletFails(k) \/ Lost(k)
    PROVE  AutoPayInv'
<1>a. call \in [Calls -> Call] /\ call[k] \in Call /\ Sound(call[k]) /\ WorldTyped
  BY DEF AutoPayInv, TypeOK, WorldTyped
<1>1. ASSUME NEW op \in Ops, Begin(k, op) PROVE AutoPayInv'
  <2>1. Started(op) \in Call
    BY <1>a, CallStarts DEF WorldTyped
  <2>2. WorldTyped'
    BY <1>1, <1>a DEF Begin, WorldTyped, node, history
  <2>3. CASE cache = NoDiscovery
    <3>1. Sound(Started(op))
      BY DEF Sound, Started
    <3>2. call' = [call EXCEPT ![k] = Started(op)]
      BY <1>1, <2>3 DEF Begin
    <3> QED BY <2>1, <2>2, <3>1, <3>2, OneCallMoves
  <2>4. CASE cache # NoDiscovery
    <3> DEFINE c == [Started(op) EXCEPT !.pc = "sign", !.discovery = cache]
    <3>1. cache \in Discovery
      BY <1>a, <2>4 DEF WorldTyped
    <3>2. c \in Call
      BY <2>1, <3>1, CallDiscovers, Names
    <3>3. Sound(c)
      BY <3>1 DEF Sound, Started
    <3>4. call' = [call EXCEPT ![k] = c]
      BY <1>1, <2>4 DEF Begin
    <3> QED BY <2>2, <3>2, <3>3, <3>4, OneCallMoves
  <2> QED BY <2>3, <2>4
<1>2. CASE Discovered(k)
  <2> DEFINE c == [call[k] EXCEPT !.pc = "sign"]
  <2>1. c \in Call
    BY <1>a, CallMoves, Names
  <2>2. Sound(c)
    BY <1>2, <1>a DEF Discovered, Sound, Call
  <2>3. call' = [call EXCEPT ![k] = c]
    BY <1>2, <1>a DEF Discovered
  <2>4. WorldTyped'
    BY <1>2, <1>a DEF Discovered, WorldTyped, Sound, node, history
  <2> QED BY <2>1, <2>2, <2>3, <2>4, OneCallMoves
<1>3. CASE Send(k)
  <2>1. WorldTyped'
    <3>1. Signature(k) \in Ops \X (0..MaxTime)
      BY <1>3, SignatureTyped DEF Send
    <3>2. sent' \subseteq sent \cup {Signature(k)}
      BY <1>3 DEF Send
    <3> QED BY <1>3, <1>a, <3>1, <3>2 DEF Send, WorldTyped, node
  <2>2. CASE call[k].discovery.mode = "entitlement" /\ ~HasKey
    <3> DEFINE c == [call[k] EXCEPT !.pc = "idle", !.result = "refused"]
    <3>1. c \in Call
      BY <1>a, CallMoves, Names
    <3>2. Sound(c)
      BY <1>3, <1>a DEF Send, Sound, Call
    <3>3. call' = [call EXCEPT ![k] = c]
      BY <1>3, <1>a, <2>2 DEF Send, Returns
    <3> QED BY <2>1, <3>1, <3>2, <3>3, OneCallMoves
  <2>3. CASE ~(call[k].discovery.mode = "entitlement" /\ ~HasKey)
    <3> DEFINE c == [call[k] EXCEPT !.pc = "first"]
    <3>1. c \in Call
      BY <1>a, CallMoves, Names
    <3>2. Sound(c)
      BY <1>3, <1>a DEF Send, Sound, Call
    <3>3. call' = [call EXCEPT ![k] = c]
      BY <1>3, <1>a, <2>3 DEF Send
    <3> QED BY <2>1, <3>1, <3>2, <3>3, OneCallMoves
  <2> QED BY <2>2, <2>3
<1>4. CASE Receive(k)
  <2>1. WorldTyped'
    BY <1>4, <1>a DEF Receive, WorldTyped, node, history
  <2>2. CASE Settles(k)
    <3> DEFINE c == [call[k] EXCEPT !.pc = "negotiate"]
    <3>1. c \in Call
      BY <1>a, CallMoves, Names
    <3>2. call[k].discovery.mode = "micropayment"
      BY <1>a, <2>2 DEF Settles, Sound, Discovery, Modes
    <3>3. Sound(c)
      BY <1>a, <2>2, <3>2 DEF Settles, Sound, Call
    <3>4. call' = [call EXCEPT ![k] = c]
      BY <1>4, <1>a, <2>2 DEF Receive
    <3> QED BY <2>1, <3>1, <3>3, <3>4, OneCallMoves
  <2>3. CASE ~Settles(k)
    <3>1. PICK result \in Results :
              call' = [call EXCEPT ![k].pc = "idle", ![k].result = result]
      <4>1. CASE call[k].status = 200
        BY <1>4, <2>3, <4>1, Names DEF Receive, Returns
      <4>2. CASE call[k].status # 200
        BY <1>4, <2>3, <4>2, Names DEF Receive, Returns
      <4> QED BY <4>1, <4>2
    <3> DEFINE c == [call[k] EXCEPT !.pc = "idle", !.result = result]
    <3>2. c \in Call
      BY <1>a, CallMoves, Names
    <3>3. Sound(c)
      BY <1>a DEF Sound, Call
    <3>4. call' = [call EXCEPT ![k] = c]
      BY <1>a, <3>1
    <3> QED BY <2>1, <3>2, <3>3, <3>4, OneCallMoves
  <2> QED BY <2>2, <2>3
<1>5. CASE Pay(k)
  <2> DEFINE c == [call[k] EXCEPT !.pc = "retry", !.payments = call[k].payments + 1]
  <2>1. call[k].payments = 0
    BY <1>5, <1>a DEF Pay, Sound
  <2>2. c \in Call
    <3>1. "retry" \in Pcs /\ call[k].payments + 1 \in Nat /\ "none" \in Results
      BY <2>1, Names
    <3> QED BY <1>a, <3>1, CallPays
  <2>3. Sound(c)
    BY <1>5, <1>a, <2>1 DEF Pay, Sound, Call
  <2>4. call' = [call EXCEPT ![k] = c]
    BY <1>5, <1>a DEF Pay
  <2>5. WorldTyped'
    <3>1. Signature(k) \in Ops \X (0..MaxTime)
      BY <1>5, SignatureTyped DEF Pay
    <3> QED BY <1>5, <1>a, <3>1 DEF Pay, WorldTyped, node
  <2> QED BY <2>2, <2>3, <2>4, <2>5, OneCallMoves
<1>6. CASE WalletFails(k)
  <2>1. PICK left \in {0, 1} :
            call' = [call EXCEPT ![k].pc = "idle", ![k].result = "unpaid",
                                 ![k].payments = @ + left]
    BY <1>6 DEF WalletFails
  <2> DEFINE c == [call[k] EXCEPT !.pc = "idle", !.result = "unpaid",
                                  !.payments = call[k].payments + left]
  <2>2. call[k].payments = 0
    BY <1>6, <1>a DEF WalletFails, Sound
  <2>3. c \in Call
    <3>1. "idle" \in Pcs /\ "unpaid" \in Results /\ call[k].payments + left \in Nat
      BY <2>2, Names
    <3> QED BY <1>a, <3>1, CallPays
  <2>4. Sound(c)
    BY <1>6, <1>a, <2>2 DEF WalletFails, Sound, Call
  <2>5. call' = [call EXCEPT ![k] = c]
    BY <1>a, <2>1
  <2>6. WorldTyped'
    BY <1>6, <1>a DEF WalletFails, WorldTyped, node, history
  <2> QED BY <2>3, <2>4, <2>5, <2>6, OneCallMoves
<1>7. CASE Lost(k)
  <2> DEFINE c == [call[k] EXCEPT !.pc = "idle", !.result = "lost"]
  <2>1. c \in Call
    BY <1>a, CallMoves, Names
  <2>2. Sound(c)
    BY <1>a DEF Sound, Call
  <2>3. call' = [call EXCEPT ![k] = c]
    BY <1>7, <1>a DEF Lost, Returns
  <2>4. WorldTyped'
    BY <1>7, <1>a DEF Lost, WorldTyped, node, history
  <2> QED BY <2>1, <2>2, <2>3, <2>4, OneCallMoves
<1> QED BY <1>1, <1>2, <1>3, <1>4, <1>5, <1>6, <1>7

(* The answer to a request leaves a sound call: a 402 brings an invoice. *)
LEMMA ResponseSound ==
    ASSUME AutoPayInv, NEW k \in Calls, call[k].pc \in {"first", "retry"},
           NEW status \in Statuses, NEW invoice \in Invoices \cup {NoInvoice},
           status = 402 => invoice \in Invoices,
           Respond(k, status, invoice), WorldTyped'
    PROVE  AutoPayInv'
<1>a. call \in [Calls -> Call] /\ call[k] \in Call /\ Sound(call[k])
  BY DEF AutoPayInv, TypeOK
<1>1. PICK pc \in {"answered", "answered2"} :
          /\ call' = [call EXCEPT ![k].pc = pc, ![k].status = status, ![k].invoice = invoice]
          /\ pc = "answered" => call[k].pc = "first"
          /\ pc = "answered2" => call[k].pc = "retry"
  <2>1. CASE call[k].pc = "first"
    BY <1>a, <2>1 DEF Respond
  <2>2. CASE call[k].pc = "retry"
    BY <1>a, <2>2 DEF Respond
  <2> QED BY <2>1, <2>2
<1> DEFINE c == [call[k] EXCEPT !.pc = pc, !.status = status, !.invoice = invoice]
<1>2. c \in Call
  <2>1. pc \in Pcs
    BY Names
  <2> QED BY <1>a, <2>1, CallAnswered
<1>3. Sound(c)
  BY <1>1, <1>a DEF Sound, Call
<1>4. call' = [call EXCEPT ![k] = c]
  BY <1>1, <1>a
<1> QED BY <1>2, <1>3, <1>4, OneCallMoves

(* A step of the node on the request of a call. *)
LEMMA NodeKeeps ==
    ASSUME AutoPayInv, NEW k \in Calls,
           \/ AnswerDiscovery(k) \/ AnswerReplay(k) \/ AnswerEntitled(k)
           \/ AnswerPaid(k) \/ AnswerChallenge(k)
    PROVE  AutoPayInv'
<1>a. call \in [Calls -> Call] /\ call[k] \in Call /\ Sound(call[k]) /\ WorldTyped
  BY DEF AutoPayInv, TypeOK, WorldTyped
<1>b. config.mode \in Modes /\ config.price \in Nat
  BY <1>a, ConfigAssumption DEF WorldTyped
<1>c. {200, 401, 402, 403} \subseteq Statuses
  BY Names
<1>d. ASSUME Reaches(k) PROVE nonces' \subseteq Ops \X (0..MaxTime)
  <2>1. Signature(k) \in Ops \X (0..MaxTime)
    BY <1>d, SignatureTyped DEF Reaches
  <2> QED BY <1>d, <1>a, <2>1 DEF Reaches, WorldTyped
<1>1. CASE AnswerDiscovery(k)
  <2> DEFINE d == [version |-> version, mode |-> config.mode]
  <2> DEFINE c == [call[k] EXCEPT !.pc = "discovered", !.discovery = d]
  <2>1. d \in Discovery
    BY <1>a, <1>b DEF Discovery, WorldTyped
  <2>2. c \in Call
    <3> HIDE DEF d
    <3> QED BY <1>a, <2>1, CallDiscovers, Names
  <2>3. Sound(c)
    BY <1>1, <1>a, <2>1 DEF AnswerDiscovery, Sound, Call
  <2>4. call' = [call EXCEPT ![k] = c]
    BY <1>1, <1>a DEF AnswerDiscovery
  <2>5. WorldTyped'
    BY <1>1, <1>a DEF AnswerDiscovery, WorldTyped, node, history
  <2> QED BY <2>2, <2>3, <2>4, <2>5, OneCallMoves
<1>2. CASE AnswerReplay(k)
  <2>1. WorldTyped'
    BY <1>2, <1>a DEF AnswerReplay, WorldTyped, node, history
  <2> QED BY <1>2, <1>c, <2>1, ResponseSound DEF AnswerReplay
<1>3. CASE AnswerEntitled(k)
  <2>1. WorldTyped'
    BY <1>3, <1>a, <1>d DEF AnswerEntitled, WorldTyped, history
  <2>2. PICK status \in {200, 403} : Respond(k, status, NoInvoice)
    BY <1>3 DEF AnswerEntitled
  <2>3. call[k].pc \in {"first", "retry"}
    BY <1>3 DEF AnswerEntitled, Reaches
  <2> QED BY <1>c, <2>1, <2>2, <2>3, ResponseSound
<1>4. CASE AnswerPaid(k)
  <2>1. call[k].pc = "retry" /\ Respond(k, 200, NoInvoice)
    BY <1>4 DEF AnswerPaid, Covered
  <2>2. call[k].invoice \in Invoices
    BY <1>a, <2>1 DEF Sound
  <2>3. WorldTyped'
    BY <1>4, <1>a, <1>d, <2>2 DEF AnswerPaid, WorldTyped, history
  <2> QED BY <1>c, <2>1, <2>3, ResponseSound
<1>5. CASE AnswerChallenge(k)
  <2>1. PICK i \in Invoices : /\ amount' = [amount EXCEPT ![i] = Quote(config)]
                              /\ Respond(k, 402, i)
    BY <1>5 DEF AnswerChallenge
  <2>2. WorldTyped'
    BY <1>5, <1>a, <1>b, <1>d, <2>1 DEF AnswerChallenge, Quote, WorldTyped, history
  <2>3. call[k].pc \in {"first", "retry"}
    BY <1>5 DEF AnswerChallenge, Reaches
  <2> QED BY <1>c, <2>1, <2>2, <2>3, ResponseSound
<1> QED BY <1>1, <1>2, <1>3, <1>4, <1>5

(* Redeployments, a cleared cache and the clock touch no call. *)
LEMMA WorldKeeps ==
    ASSUME AutoPayInv,
           \/ \E c \in Configs : Redeploy(c)
           \/ ClearDiscoveryCache \/ Tick \/ UNCHANGED vars
    PROVE  AutoPayInv'
<1> USE BoundsAssumption DEF AutoPayInv, TypeOK, node, history
<1>1. ASSUME NEW c \in Configs, Redeploy(c) PROVE AutoPayInv'
  BY <1>1 DEF Redeploy
<1>2. CASE ClearDiscoveryCache
  BY <1>2 DEF ClearDiscoveryCache
<1>3. CASE Tick
  BY <1>3 DEF Tick
<1>4. CASE UNCHANGED vars
  BY <1>4 DEF vars
<1> QED BY <1>1, <1>2, <1>3, <1>4

(* The invariant of every reachable state. *)
THEOREM AutoPayInvariant == Spec => []AutoPayInv
<1>1. AutoPayInv /\ [Next]_vars => AutoPayInv'
  BY ClientKeeps, NodeKeeps, WorldKeeps DEF Next
<1> QED BY <1>1, AutoPayInit, PTL DEF Spec

(* Every variable of the client and the node stays within its type. *)
THEOREM AutoPayTypes == Spec => []TypeOK
BY AutoPayInvariant, PTL DEF AutoPayInv

(* No challenge is settled on a document that says entitlement. *)
THEOREM ModesRespected == Spec => []NoSettlementOnEntitlement
<1>1. AutoPayInv => NoSettlementOnEntitlement
  BY DEF AutoPayInv, Sound, NoSettlementOnEntitlement
<1> QED BY <1>1, AutoPayInvariant, PTL

(* No call pays twice. *)
THEOREM PaysOnce == Spec => []OnePaymentPerCall
<1>1. AutoPayInv => OnePaymentPerCall
  <2> SUFFICES ASSUME AutoPayInv, NEW k \in Calls PROVE call[k].payments <= 1
    BY DEF OnePaymentPerCall
  <2>1. call[k].payments \in {0, 1}
    BY DEF AutoPayInv, Sound
  <2> QED BY <2>1
<1> QED BY <1>1, AutoPayInvariant, PTL

-----------------------------------------------------------------------------
(* What a paid call buys.  The invariant relates calls to the invoices they   *)
(* hold and to the configuration they began under.                            *)

\* Between its challenge and its retry a call holds an invoice.
Holds(c) == c.pc \in {"negotiate", "retry"} \/ (c.pc = "answered" /\ c.status = 402)

\* A held invoice was issued, is not used up, and is held by one call.
TokensOwn ==
    /\ \A i \in used : amount[i] # 0
    /\ \A k \in Calls : Holds(call[k]) =>
           amount[call[k].invoice] # 0 /\ call[k].invoice \notin used
    /\ \A j, k \in Calls : j # k /\ Holds(call[j]) /\ Holds(call[k]) =>
           call[j].invoice # call[k].invoice

Undisturbed(c) == config.dev /\ version = c.since

\* What an undisturbed call knows of the node: its invoice has today's price.
Fits(c) ==
    /\ c.pc # "idle" => c.result = "none"
    /\ Undisturbed(c) =>
           /\ Holds(c) => config.mode = "micropayment" /\ amount[c.invoice] = config.price
           /\ c.pc = "answered2" => c.status = 200
           /\ c.result = "refused" => c.payments = 0

TokenInv ==
    /\ AutoPayInv
    /\ TokensOwn
    /\ \A k \in Calls : Fits(call[k]) /\ call[k].since <= version

(* A step of one call that keeps what the node has issued and used, and gives *)
(* the call no invoice it did not hold.                                       *)
LEMMA TokenMoves ==
    ASSUME TokenInv, AutoPayInv', NEW k \in Calls, NEW c,
           call' = [call EXCEPT ![k] = c],
           UNCHANGED <<amount, used, config, version>>,
           Holds(c) => Holds(call[k]) /\ c.invoice = call[k].invoice,
           c.since \in {call[k].since, version},
           Fits(c)
    PROVE  TokenInv'
<1>a. call \in [Calls -> Call] /\ version \in Nat
  BY BoundsAssumption DEF TokenInv, AutoPayInv, TypeOK
<1>1. call'[k] = c /\ \A j \in Calls \ {k} : call'[j] = call[j]
  BY <1>a
<1>2. TokensOwn'
  <2> USE DEF TokenInv, TokensOwn
  <2>1. (\A i \in used : amount[i] # 0)'
    OBVIOUS
  <2>2. \A j \in Calls : Holds(call'[j]) =>
            Holds(call[j]) /\ call'[j].invoice = call[j].invoice
    BY <1>1
  <2>3. \A j \in Calls : Holds(call'[j]) =>
            amount'[call'[j].invoice] # 0 /\ call'[j].invoice \notin used'
    BY <2>2
  <2>4. \A i, j \in Calls : i # j /\ Holds(call'[i]) /\ Holds(call'[j]) =>
            call'[i].invoice # call'[j].invoice
    BY <2>2
  <2> QED BY <2>1, <2>3, <2>4 DEF Holds
<1>3. ASSUME NEW j \in Calls PROVE Fits(call[j])' /\ (call[j].since <= version)'
  <2>1. CASE j = k
    <3>1. c.since <= version
      BY <1>a DEF TokenInv
    <3> QED BY <1>1, <2>1, <3>1 DEF Fits, Undisturbed, Holds
  <2>2. CASE j # k
    <3>1. call'[j] = call[j] /\ Fits(call[j]) /\ call[j].since <= version
      BY <1>1, <2>2 DEF TokenInv
    <3> QED BY <3>1 DEF Fits, Undisturbed, Holds
  <2> QED BY <2>1, <2>2
<1> QED BY <1>2, <1>3 DEF TokenInv

(* A step of the client on its own call takes no invoice, and refuses a paid  *)
(* call only when the node has.                                               *)
LEMMA TokenClient ==
    ASSUME TokenInv, AutoPayInv', NEW k \in Calls,
           \/ \E op \in Ops : Begin(k, op)
           \/ Discovered(k) \/ Send(k) \/ Receive(k) \/ Pay(k) \/ WalletFails(k) \/ Lost(k)
    PROVE  TokenInv'
<1>a. call \in [Calls -> Call] /\ call[k] \in Call /\ Sound(call[k]) /\ Fits(call[k])
  BY DEF TokenInv, AutoPayInv, TypeOK
<1> USE DEF node
<1>1. ASSUME NEW op \in Ops, Begin(k, op) PROVE TokenInv'
  <2>1. PICK c \in {Started(op), [Started(op) EXCEPT !.pc = "sign", !.discovery = cache]} :
            call' = [call EXCEPT ![k] = c]
    BY <1>1 DEF Begin
  <2>2. c.pc \in {"discover", "sign"} /\ c.since = version /\ c.result = "none"
    <3>1. CASE c = Started(op)
      BY <3>1 DEF Started
    <3>2. CASE c = [Started(op) EXCEPT !.pc = "sign", !.discovery = cache]
      BY <3>2 DEF Started
    <3> QED BY <2>1, <3>1, <3>2
  <2>3. ~Holds(c) /\ Fits(c)
    BY <2>2 DEF Holds, Fits
  <2> QED BY <1>1, <2>1, <2>2, <2>3, TokenMoves DEF Begin
<1>2. CASE Discovered(k)
  <2> DEFINE c == [call[k] EXCEPT !.pc = "sign"]
  <2>1. c.pc = "sign" /\ c.since = call[k].since /\ c.result = "none"
    BY <1>2, <1>a DEF Call, Discovered, Fits
  <2>2. ~Holds(c) /\ Fits(c)
    BY <2>1 DEF Holds, Fits
  <2>3. call' = [call EXCEPT ![k] = c]
    BY <1>2, <1>a DEF Discovered
  <2> HIDE DEF c
  <2> QED BY <1>2, <2>1, <2>2, <2>3, TokenMoves DEF Discovered
<1>3. CASE Send(k)
  <2>1. PICK c : /\ call' = [call EXCEPT ![k] = c]
                 /\ c.since = call[k].since
                 /\ \/ c.pc = "idle" /\ c.payments = call[k].payments
                    \/ c.pc = "first" /\ c.result = "none"
    <3>1. CASE call[k].discovery.mode = "entitlement" /\ ~HasKey
      <4> DEFINE d == [call[k] EXCEPT !.pc = "idle", !.result = "refused"]
      <4>1. call' = [call EXCEPT ![k] = d]
        BY <1>3, <1>a, <3>1 DEF Send, Returns
      <4>2. d.since = call[k].since /\ d.pc = "idle" /\ d.payments = call[k].payments
        BY <1>a DEF Call
      <4> QED BY <4>1, <4>2
    <3>2. CASE ~(call[k].discovery.mode = "entitlement" /\ ~HasKey)
      <4> DEFINE d == [call[k] EXCEPT !.pc = "first"]
      <4>1. call' = [call EXCEPT ![k] = d]
        BY <1>3, <1>a, <3>2 DEF Send
      <4>2. d.since = call[k].since /\ d.pc = "first" /\ d.result = "none"
        BY <1>3, <1>a DEF Call, Send, Fits
      <4> QED BY <4>1, <4>2
    <3> QED BY <3>1, <3>2
  <2>2. call[k].payments = 0
    BY <1>3, <1>a DEF Send, Sound
  <2>3. ~Holds(c) /\ Fits(c)
    BY <2>1, <2>2 DEF Holds, Fits
  <2> QED BY <1>3, <2>1, <2>3, TokenMoves DEF Send
<1>4. CASE Receive(k)
  <2>1. CASE Settles(k)
    <3> DEFINE c == [call[k] EXCEPT !.pc = "negotiate"]
    <3>1. call' = [call EXCEPT ![k] = c]
      BY <1>4, <1>a, <2>1 DEF Receive
    <3>2. /\ c.pc = "negotiate" /\ c.since = call[k].since /\ c.invoice = call[k].invoice
          /\ c.result = "none"
      BY <1>4, <1>a DEF Call, Receive, Fits
    <3>3. Holds(call[k])
      BY <2>1 DEF Settles, Holds
    <3>4. Fits(c)
      BY <1>a, <3>2, <3>3 DEF Fits, Undisturbed
    <3> HIDE DEF c
    <3> QED BY <1>4, <3>1, <3>2, <3>3, <3>4, TokenMoves DEF Receive
  <2>2. CASE ~Settles(k)
    <3> DEFINE result == IF call[k].status = 200 THEN "served" ELSE "refused"
               c == [call[k] EXCEPT !.pc = "idle", !.result = result]
    <3>1. call' = [call EXCEPT ![k] = c]
      BY <1>4, <1>a, <2>2 DEF Receive, Returns
    <3>2. /\ c.pc = "idle" /\ c.since = call[k].since /\ c.payments = call[k].payments
          /\ c.result = result
      BY <1>a DEF Call
    <3>3. Undisturbed(call[k]) /\ call[k].status # 200 => call[k].payments = 0
      BY <1>4, <1>a DEF Receive, Fits, Sound
    <3>4. ~Holds(c) /\ Fits(c)
      BY <3>2, <3>3 DEF Holds, Fits, Undisturbed
    <3> HIDE DEF c
    <3> QED BY <1>4, <3>1, <3>2, <3>4, TokenMoves DEF Receive
  <2> QED BY <2>1, <2>2
<1>5. CASE Pay(k)
  <2> DEFINE c == [call[k] EXCEPT !.pc = "retry", !.payments = @ + 1]
  <2>1. call' = [call EXCEPT ![k] = c]
    BY <1>5, <1>a DEF Pay
  <2>2. /\ c.pc = "retry" /\ c.since = call[k].since /\ c.invoice = call[k].invoice
        /\ c.result = "none"
    BY <1>5, <1>a DEF Call, Pay, Fits
  <2>3. Holds(call[k])
    BY <1>5 DEF Pay, Holds
  <2>4. Fits(c)
    BY <1>a, <2>2, <2>3 DEF Fits, Undisturbed
  <2> HIDE DEF c
  <2> QED BY <1>5, <2>1, <2>2, <2>3, <2>4, TokenMoves DEF Pay
<1>6. CASE WalletFails(k)
  <2>1. PICK left \in {0, 1} :
            call' = [call EXCEPT ![k].pc = "idle", ![k].result = "unpaid",
                                 ![k].payments = @ + left]
    BY <1>6 DEF WalletFails
  <2> DEFINE c == [call[k] EXCEPT !.pc = "idle", !.result = "unpaid", !.payments = @ + left]
  <2>2. call' = [call EXCEPT ![k] = c]
    BY <1>a, <2>1
  <2>3. c.pc = "idle" /\ c.result = "unpaid" /\ c.since = call[k].since
    BY <1>a DEF Call
  <2>4. ~Holds(c) /\ Fits(c)
    BY <2>3 DEF Holds, Fits
  <2> HIDE DEF c
  <2> QED BY <1>6, <2>2, <2>3, <2>4, TokenMoves DEF WalletFails
<1>7. CASE Lost(k)
  <2> DEFINE c == [call[k] EXCEPT !.pc = "idle", !.result = "lost"]
  <2>1. call' = [call EXCEPT ![k] = c]
    BY <1>7, <1>a DEF Lost, Returns
  <2>2. c.pc = "idle" /\ c.result = "lost" /\ c.since = call[k].since
    BY <1>a DEF Call
  <2>3. ~Holds(c) /\ Fits(c)
    BY <2>2 DEF Holds, Fits
  <2> HIDE DEF c
  <2> QED BY <1>7, <2>1, <2>2, <2>3, TokenMoves DEF Lost
<1> QED BY <1>1, <1>2, <1>3, <1>4, <1>5, <1>6, <1>7

(* What an answer makes of a call. *)
LEMMA ResponseShape ==
    ASSUME AutoPayInv, NEW k \in Calls, call[k].pc \in {"first", "retry"},
           NEW status, NEW invoice, Respond(k, status, invoice)
    PROVE  \E c : /\ call' = [call EXCEPT ![k] = c]
                  /\ c.pc = IF call[k].pc = "first" THEN "answered" ELSE "answered2"
                  /\ c.status = status /\ c.invoice = invoice /\ c.since = call[k].since
                  /\ c.result = call[k].result
<1> DEFINE pc == IF call[k].pc = "first" THEN "answered" ELSE "answered2"
           c == [call[k] EXCEPT !.pc = pc, !.status = status, !.invoice = invoice]
<1>1. call \in [Calls -> Call] /\ call[k] \in Call
  BY DEF AutoPayInv, TypeOK
<1>2. call' = [call EXCEPT ![k] = c]
  BY <1>1 DEF Respond
<1>3. /\ c.pc = pc /\ c.status = status /\ c.invoice = invoice /\ c.since = call[k].since
      /\ c.result = call[k].result
  BY <1>1 DEF Call
<1> QED BY <1>2, <1>3

(* The other calls keep their invoices when one is used up or issued that    *)
(* none of them holds.                                                       *)
LEMMA TokenOthers ==
    ASSUME TokenInv, NEW k \in Calls, NEW j \in Calls, j # k,
           call'[j] = call[j], UNCHANGED <<config, version>>,
           NEW i \in Invoices, Holds(call[j]) => call[j].invoice # i,
           used' \subseteq used \cup {i},
           \A other \in Invoices \ {i} : amount'[other] = amount[other]
    PROVE  /\ Holds(call'[j]) => /\ amount'[call'[j].invoice] # 0
                                 /\ call'[j].invoice \notin used'
                                 /\ call'[j].invoice # i
           /\ Fits(call[j])' /\ (call[j].since <= version)'
<1>1. Sound(call[j]) /\ Fits(call[j]) /\ call[j].since <= version
  BY DEF TokenInv, AutoPayInv
<1>2. Holds(call[j]) => /\ call[j].invoice \in Invoices \ {i}
                        /\ amount'[call[j].invoice] = amount[call[j].invoice]
  BY <1>1 DEF Holds, Sound
<1>3. Holds(call'[j]) => /\ amount'[call'[j].invoice] # 0
                         /\ call'[j].invoice \notin used'
                         /\ call'[j].invoice # i
  BY <1>1, <1>2 DEF TokenInv, TokensOwn
<1>4. Fits(call[j])' /\ (call[j].since <= version)'
  BY <1>1, <1>2 DEF Fits, Undisturbed, Holds
<1> QED BY <1>3, <1>4

(* A step of the node: an invoice is issued to the call that asks, at today's *)
(* price, and is used up by the call that holds it.                           *)
LEMMA TokenNode ==
    ASSUME TokenInv, AutoPayInv', NEW k \in Calls,
           \/ AnswerDiscovery(k) \/ AnswerReplay(k) \/ AnswerEntitled(k)
           \/ AnswerPaid(k) \/ AnswerChallenge(k)
    PROVE  TokenInv'
<1>a. /\ AutoPayInv /\ call \in [Calls -> Call] /\ call[k] \in Call
      /\ Sound(call[k]) /\ Fits(call[k]) /\ call[k].since <= version
  BY DEF TokenInv, AutoPayInv, TypeOK
<1>b. config.price \in Nat \ {0} /\ used \subseteq Invoices /\ amount \in [Invoices -> Nat]
  BY <1>a, ConfigAssumption DEF AutoPayInv, TypeOK
<1>1. CASE AnswerDiscovery(k)
  <2> DEFINE c == [call[k] EXCEPT !.pc = "discovered",
                                  !.discovery = [version |-> version, mode |-> config.mode]]
  <2>1. call' = [call EXCEPT ![k] = c]
    BY <1>1, <1>a DEF AnswerDiscovery
  <2>2. c.pc = "discovered" /\ c.since = call[k].since /\ c.result = "none"
    BY <1>1, <1>a DEF Call, AnswerDiscovery, Fits
  <2>3. ~Holds(c) /\ Fits(c)
    BY <2>2 DEF Holds, Fits
  <2> HIDE DEF c
  <2> QED BY <1>1, <2>1, <2>2, <2>3, TokenMoves DEF AnswerDiscovery, node
<1>2. CASE AnswerReplay(k)
  <2>1. PICK c : /\ call' = [call EXCEPT ![k] = c]
                 /\ c.pc \in {"answered", "answered2"} /\ c.status = 401
                 /\ c.since = call[k].since /\ c.result = "none"
    BY <1>2, <1>a, ResponseShape DEF AnswerReplay, Fits
  <2>2. ~Holds(c) /\ Fits(c)
    BY <1>2, <2>1 DEF AnswerReplay, Holds, Fits, Undisturbed
  <2> QED BY <1>2, <2>1, <2>2, TokenMoves DEF AnswerReplay, node
<1>3. CASE AnswerEntitled(k)
  <2>1. PICK status \in {200, 403} : Respond(k, status, NoInvoice)
    BY <1>3 DEF AnswerEntitled
  <2>2. PICK c : /\ call' = [call EXCEPT ![k] = c]
                 /\ c.pc = IF call[k].pc = "first" THEN "answered" ELSE "answered2"
                 /\ c.status = status /\ c.since = call[k].since /\ c.result = "none"
    BY <1>3, <1>a, <2>1, ResponseShape DEF AnswerEntitled, Reaches, Fits
  <2>3. ~Holds(c)
    BY <2>2 DEF Holds
  <2>4. Undisturbed(c) => call[k].pc # "retry"
    BY <1>3, <1>a, <2>2 DEF AnswerEntitled, Fits, Undisturbed, Holds
  <2>5. Fits(c)
    BY <1>3, <2>2, <2>3, <2>4 DEF AnswerEntitled, Reaches, Fits
  <2> QED BY <1>3, <2>2, <2>3, <2>5, TokenMoves DEF AnswerEntitled
<1>4. CASE AnswerPaid(k)
  <2> DEFINE i == call[k].invoice
  <2>1. /\ call[k].pc = "retry" /\ Holds(call[k]) /\ i \in Invoices /\ amount[i] # 0
        /\ Respond(k, 200, NoInvoice)
    BY <1>4, <1>a DEF AnswerPaid, Covered, Holds, Sound, TokenInv, TokensOwn
  <2>2. PICK c : /\ call' = [call EXCEPT ![k] = c]
                 /\ c.pc = "answered2" /\ c.status = 200 /\ c.since = call[k].since
                 /\ c.result = "none"
    BY <1>a, <2>1, ResponseShape DEF Fits
  <2>3. ~Holds(c) /\ call'[k] = c
    BY <1>a, <2>2 DEF Holds
  <2>4. /\ used' = used \cup {i} /\ used' \subseteq used \cup {i} /\ amount' = amount
        /\ \A other \in Invoices \ {i} : amount'[other] = amount[other]
        /\ UNCHANGED <<config, version>>
    BY <1>4 DEF AnswerPaid
  <2>5. \A j \in Calls \ {k} : Holds(call[j]) => call[j].invoice # i
    BY <2>1 DEF TokenInv, TokensOwn
  <2> HIDE DEF i
  <2>6. ASSUME NEW j \in Calls, j # k
        PROVE  /\ call'[j] = call[j]
               /\ Holds(call'[j]) => /\ amount'[call'[j].invoice] # 0
                                     /\ call'[j].invoice \notin used'
               /\ Fits(call[j])' /\ (call[j].since <= version)'
    <3>1. call'[j] = call[j] /\ (Holds(call[j]) => call[j].invoice # i)
      BY <1>a, <2>2, <2>5, <2>6
    <3> QED BY <2>1, <2>4, <2>6, <3>1, TokenOthers
  <2>7. TokensOwn'
    <3>1. \A j \in used' : amount'[j] # 0
      BY <2>1, <2>4 DEF TokenInv, TokensOwn
    <3>2. \A j \in Calls : Holds(call'[j]) =>
              amount'[call'[j].invoice] # 0 /\ call'[j].invoice \notin used'
      BY <2>3, <2>6
    <3>3. \A j, m \in Calls : j # m /\ Holds(call'[j]) /\ Holds(call'[m]) =>
              call'[j].invoice # call'[m].invoice
      BY <2>3, <2>6 DEF TokenInv, TokensOwn
    <3> QED BY <3>1, <3>2, <3>3 DEF TokensOwn, Holds
  <2>8. Fits(call[k])' /\ (call[k].since <= version)'
    BY <1>a, <2>2, <2>3, <2>4 DEF Fits, Undisturbed, Holds
  <2> QED BY <2>6, <2>7, <2>8 DEF TokenInv
<1>5. CASE AnswerChallenge(k)
  <2>1. PICK i \in Invoices : /\ amount[i] = 0
                              /\ amount' = [amount EXCEPT ![i] = config.price]
                              /\ Respond(k, 402, i)
    BY <1>5 DEF AnswerChallenge, Quote
  <2>2. /\ call[k].pc \in {"first", "retry"} /\ config.mode = "micropayment" /\ ~Covered(k)
        /\ UNCHANGED <<config, version>> /\ used' = used
    BY <1>5 DEF AnswerChallenge, Reaches
  <2>3. PICK c : /\ call' = [call EXCEPT ![k] = c]
                 /\ c.pc = IF call[k].pc = "first" THEN "answered" ELSE "answered2"
                 /\ c.status = 402 /\ c.invoice = i /\ c.since = call[k].since
                 /\ c.result = "none"
    BY <1>a, <2>1, <2>2, ResponseShape DEF Fits
  <2>4. call'[k] = c /\ amount'[i] = config.price /\ amount'[i] # 0 /\ i \notin used'
    BY <1>a, <1>b, <2>1, <2>2, <2>3 DEF TokenInv, TokensOwn
  <2>5. \A j \in Calls \ {k} : Holds(call[j]) => call[j].invoice # i
    BY <2>1 DEF TokenInv, TokensOwn
  <2>6. \A other \in Invoices \ {i} : amount'[other] = amount[other]
    BY <1>b, <2>1
  <2>7. ASSUME NEW j \in Calls, j # k
        PROVE  /\ call'[j] = call[j]
               /\ Holds(call'[j]) => /\ amount'[call'[j].invoice] # 0
                                     /\ call'[j].invoice \notin used'
                                     /\ call'[j].invoice # i
               /\ Fits(call[j])' /\ (call[j].since <= version)'
    <3>1. call'[j] = call[j] /\ (Holds(call[j]) => call[j].invoice # i)
      BY <1>a, <2>3, <2>5, <2>7
    <3> QED BY <2>2, <2>6, <2>7, <3>1, TokenOthers
  <2>8. TokensOwn'
    <3>1. \A j \in used' : amount'[j] # 0
      BY <1>b, <2>2, <2>4, <2>6 DEF TokenInv, TokensOwn
    <3>2. \A j \in Calls : Holds(call'[j]) =>
              amount'[call'[j].invoice] # 0 /\ call'[j].invoice \notin used'
      BY <2>3, <2>4, <2>7
    <3>3. \A j, m \in Calls : j # m /\ Holds(call'[j]) /\ Holds(call'[m]) =>
              call'[j].invoice # call'[m].invoice
      BY <2>3, <2>4, <2>7 DEF TokenInv, TokensOwn
    <3> QED BY <3>1, <3>2, <3>3 DEF TokensOwn, Holds
  <2>9. Undisturbed(c) => call[k].pc = "first"
    BY <1>a, <2>2, <2>3 DEF Fits, Undisturbed, Holds, Covered, TokenInv, TokensOwn
  <2>10. Fits(call[k])' /\ (call[k].since <= version)'
    BY <1>a, <2>2, <2>3, <2>4, <2>9 DEF Fits, Undisturbed, Holds
  <2> QED BY <2>7, <2>8, <2>10 DEF TokenInv
<1> QED BY <1>1, <1>2, <1>3, <1>4, <1>5

(* A redeployment disturbs every call; the cache and the clock touch none. *)
LEMMA TokenWorld ==
    ASSUME TokenInv, AutoPayInv',
           \/ \E c \in Configs : Redeploy(c)
           \/ ClearDiscoveryCache \/ Tick \/ UNCHANGED vars
    PROVE  TokenInv'
<1>1. UNCHANGED <<call, amount, used>>
  BY DEF Redeploy, ClearDiscoveryCache, Tick, vars, node
<1>2. TokensOwn'
  BY <1>1 DEF TokenInv, TokensOwn, Holds
<1>3. ASSUME NEW k \in Calls PROVE Fits(call[k])' /\ (call[k].since <= version)'
  <2>1. version \in Nat /\ call[k].since \in Nat /\ call[k].since <= version /\ Fits(call[k])
    BY BoundsAssumption DEF TokenInv, AutoPayInv, TypeOK, Call
  <2>2. CASE \E c \in Configs : Redeploy(c)
    <3>1. version' = version + 1
      BY <2>2 DEF Redeploy
    <3>2. call'[k] = call[k] /\ call[k].since < version' /\ call[k].since # version'
      BY <1>1, <2>1, <3>1
    <3>3. call[k].since <= version'
      BY <2>1, <3>1
    <3> QED BY <2>1, <3>2, <3>3 DEF Fits, Undisturbed
  <2>3. CASE UNCHANGED <<config, version>>
    BY <1>1, <2>1, <2>3 DEF Fits, Undisturbed, Holds
  <2> QED BY <2>2, <2>3 DEF ClearDiscoveryCache, Tick, vars, node
<1> QED BY <1>2, <1>3 DEF TokenInv

(* Nothing is issued, used or held at first. *)
LEMMA TokenInit == Init => TokenInv
<1> SUFFICES ASSUME Init PROVE TokenInv
  OBVIOUS
<1>1. \A k \in Calls : call[k] = NoCall
  BY DEF Init
<1>2. ~Holds(NoCall) /\ Fits(NoCall) /\ NoCall.since = 0
  BY DEF NoCall, Holds, Fits
<1> QED BY <1>1, <1>2, AutoPayInit DEF Init, TokenInv, TokensOwn

(* The invariant of calls and invoices in every reachable state. *)
THEOREM TokenInvariant == Spec => []TokenInv
<1>1. TokenInv /\ AutoPayInv' /\ [Next]_vars => TokenInv'
  BY TokenClient, TokenNode, TokenWorld DEF Next
<1> QED BY <1>1, TokenInit, AutoPayInvariant, PTL DEF Spec

(* A call that has paid is refused only by a node that checks nonces, or that *)
(* was redeployed since the call began.                                       *)
THEOREM PaymentBuys == Spec => []PaidServedUndisturbed
<1>1. TokenInv => PaidServedUndisturbed
  <2> SUFFICES ASSUME TokenInv, NEW k \in Calls, call[k].result = "refused",
                      call[k].payments > 0, Undisturbed(call[k])
               PROVE  FALSE
    BY DEF PaidServedUndisturbed, Undisturbed
  <2> QED BY DEF TokenInv, Fits
<1> QED BY <1>1, TokenInvariant, PTL

=============================================================================
