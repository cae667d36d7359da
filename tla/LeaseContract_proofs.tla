------------------------- MODULE LeaseContract_proofs -------------------------
(***************************************************************************)
(* LeaseStore implements LeaseContract: every step of a handler or of the  *)
(* janitor is one event of the contract, or none.                          *)
(***************************************************************************)
EXTENDS LeaseStore_proofs

-----------------------------------------------------------------------------
(* One more invariant: what a handler or a janitor run works on was once in *)
(* the table, and what it charges for are hours a client sent.              *)

Seen(id) == Stored(id) \/ id \in gone

WorkSeen ==
    /\ \A r \in Requests : req[r].pc \in OnLease => Seen(req[r].id)
    /\ \A j \in Janitors : purge[j].pc # "idle" => \A id \in purge[j].todo : Seen(id)
    /\ \A r \in Requests : req[r].pc \in {"store_billing", "extend_billing"} =>
           req[r].hours \in Hours /\ req[r].hours >= 1

ContractInv == LeaseInv /\ WorkSeen

USE DEF HoldsId, OnLease, StoreSteps, RetrieveSteps, DeleteSteps, ExtendSteps, TypeOK,
    Request, Purge, Record, Idle, Rest, Stored, Seen

(* A row goes only by a reported removal. *)
LEMMA SeenStays ==
    ASSUME LeaseInv, [Next]_vars, NEW id \in Ids, Seen(id)
    PROVE  Seen(id)'
<1> USE SentinelAssumption DEF Seen, LeaseInv
<1>1. ASSUME NEW r \in Requests, RequestBegins(r) PROVE Seen(id)'
  BY <1>1 DEF RequestBegins, StoreBegin, RetrieveLookup, DeleteLookup, ExtendLookup, history
<1>2. ASSUME NEW r \in Requests, RequestResumes(r) PROVE Seen(id)'
  <2>1. CASE StoreInsert(r)
    <3>1. req[r].id \in Ids /\ gone' = gone /\ record' = [record EXCEPT ![req[r].id] =
              [owner |-> req[r].did, recipient |-> req[r].inbox, expires |-> req[r].expires]]
      BY <2>1 DEF StoreInsert, Reply, history
    <3>2. record'[req[r].id] # NoRecord
      BY <2>1 DEF StoreInsert, Reply
    <3> QED BY <3>1, <3>2
  <2>2. CASE ExtendUpdate(r)
    <3>1. gone' = gone
      BY <2>2 DEF ExtendUpdate, history
    <3>2. record[id] # NoRecord => record'[id] # NoRecord
      <4>1. req[r].id \in Ids /\ ExtendedExpiry(r) \in Nat
        BY <2>2 DEF ExtendUpdate, Reply, ExtendedExpiry
      <4>2. CASE Stored(req[r].id)
        <5>0. [record[req[r].id] EXCEPT !.expires = ExtendedExpiry(r)] \in Record
          BY <4>1, <4>2
        <5>1. PICK extended \in Record :
                  extended = [record[req[r].id] EXCEPT !.expires = ExtendedExpiry(r)]
          BY <5>0
        <5>2. record' = [record EXCEPT ![req[r].id] = extended]
          BY <2>2, <4>2, <5>1 DEF ExtendUpdate, UpdateExpiration
        <5>3. extended # NoRecord
          BY <5>1
        <5> QED BY <4>1, <5>2, <5>3
      <4>3. CASE ~Stored(req[r].id)
        BY <2>2, <4>3 DEF ExtendUpdate, UpdateExpiration
      <4> QED BY <4>2, <4>3
    <3> QED BY <3>1, <3>2
  <2>3. CASE DeleteRecord(r)
    BY <2>3 DEF DeleteRecord, Reply
  <2>4. CASE ~StoreInsert(r) /\ ~ExtendUpdate(r) /\ ~DeleteRecord(r)
    BY <1>2, <2>4 DEF RequestResumes, StoreBilled, StorePut, BillingRefused, RetrieveGet,
       RetrieveBilled, DeleteBlob, ExtendBilled, history
  <2> QED BY <2>1, <2>2, <2>3, <2>4
<1>3. ASSUME NEW r \in Requests, RequestLost(r) PROVE Seen(id)'
  BY <1>3 DEF RequestLost
<1>4. ASSUME NEW j \in Janitors, JanitorRun(j) PROVE Seen(id)'
  BY <1>4 DEF JanitorRun, JanitorList, JanitorBlob, JanitorRecord, history
<1>5. ASSUME NEW j \in Janitors, JanitorLost(j) PROVE Seen(id)'
  BY <1>5 DEF JanitorLost
<1>6. CASE Tick
  BY <1>6 DEF Tick, history
<1>7. CASE UNCHANGED vars
  BY <1>7 DEF vars
<1> QED BY <1>1, <1>2, <1>3, <1>4, <1>5, <1>6, <1>7 DEF Next

(* Work begins on a row that is there, and goes on with the same id. *)
LEMMA WorkSeenStep == ContractInv /\ [Next]_vars => WorkSeen'
<1> SUFFICES ASSUME ContractInv, [Next]_vars PROVE WorkSeen'
  OBVIOUS
<1>0. \A id \in Ids : (record[id] # NoRecord \/ id \in gone)
                           => (record'[id] # NoRecord \/ id \in gone')
  BY SeenStays DEF ContractInv
<1>1. ASSUME NEW r \in Requests, RequestBegins(r) PROVE WorkSeen'
  <2> USE <1>0 DEF ContractInv, WorkSeen, LeaseInv, Begin
  <2>1. ASSUME NEW did \in Dids, NEW inbox \in Inbox \cup {NoInbox}, NEW hours \in Hours,
               StoreBegin(r, did, inbox, hours)
        PROVE  WorkSeen'
    BY <2>1 DEF StoreBegin
  <2>2. ASSUME NEW did \in Dids, NEW alias \in Aliases, NEW id \in Ids,
               RetrieveLookup(r, did, alias, id)
        PROVE  WorkSeen'
    BY <2>2 DEF RetrieveLookup
  <2>3. ASSUME NEW did \in Dids, NEW id \in Ids, DeleteLookup(r, did, id) PROVE WorkSeen'
    BY <2>3 DEF DeleteLookup
  <2>4. ASSUME NEW did \in Dids, NEW id \in Ids, NEW hours \in Hours,
               ExtendLookup(r, did, id, hours)
        PROVE  WorkSeen'
    BY <2>4 DEF ExtendLookup
  <2> QED BY <1>1, <2>1, <2>2, <2>3, <2>4 DEF RequestBegins
<1>2. ASSUME NEW r \in Requests, RequestResumes(r) \/ RequestLost(r) PROVE WorkSeen'
  <2>1. /\ purge' = purge
        /\ \A q \in Requests \ {r} : req'[q] = req[q]
        /\ req'[r].pc \in OnLease => req[r].pc \in OnLease /\ req'[r].id = req[r].id
        /\ req'[r].pc \notin {"store_billing", "extend_billing"}
    <3> USE DEF ContractInv, LeaseInv
    <3>1. CASE \E id \in Ids : StoreBilled(r, id)
      BY <3>1 DEF StoreBilled
    <3>2. CASE StorePut(r) \/ DeleteBlob(r) \/ ExtendBilled(r)
      BY <3>2 DEF StorePut, DeleteBlob, ExtendBilled, Advance
    <3>3. CASE StoreInsert(r) \/ DeleteRecord(r) \/ ExtendUpdate(r)
      BY <3>3 DEF StoreInsert, DeleteRecord, ExtendUpdate, Reply
    <3>4. CASE BillingRefused(r) \/ RetrieveBilled(r)
      BY <3>4 DEF BillingRefused, RetrieveBilled, Reply
    <3>5. CASE RetrieveGet(r)
      BY <3>5 DEF RetrieveGet, Advance, Reply
    <3>6. CASE RequestLost(r)
      BY <3>6 DEF RequestLost
    <3> QED BY <1>2, <3>1, <3>2, <3>3, <3>4, <3>5, <3>6 DEF RequestResumes
  <2>2. \A q \in Requests : req'[q].pc \in OnLease =>
            req[q].pc \in OnLease /\ req'[q].id = req[q].id
    BY <2>1
  <2>3. \A q \in Requests : req'[q].pc \in OnLease =>
            record'[req'[q].id] # NoRecord \/ req'[q].id \in gone'
    BY <1>0, <2>2 DEF ContractInv, WorkSeen, LeaseInv
  <2>4. \A j \in Janitors : purge'[j].pc # "idle" =>
            \A id \in purge'[j].todo : record'[id] # NoRecord \/ id \in gone'
    BY <1>0, <2>1 DEF ContractInv, WorkSeen, LeaseInv
  <2>5. \A q \in Requests : req'[q].pc \in {"store_billing", "extend_billing"} =>
            req'[q].hours \in Hours /\ req'[q].hours >= 1
    BY <2>1 DEF ContractInv, WorkSeen
  <2> QED BY <2>3, <2>4, <2>5 DEF WorkSeen
<1>3. ASSUME NEW j \in Janitors, JanitorRun(j) \/ JanitorLost(j) PROVE WorkSeen'
  <2>1. /\ req' = req
        /\ \A i \in Janitors \ {j} : purge'[i] = purge[i]
        /\ purge'[j].pc # "idle" => \A id \in purge'[j].todo :
               id \in Purgeable \/ (purge[j].pc # "idle" /\ id \in purge[j].todo)
    <3> USE DEF ContractInv, LeaseInv
    <3>1. CASE JanitorList(j)
      BY <3>1 DEF JanitorList, Listing
    <3>2. CASE JanitorBlob(j)
      <4>1. PICK id \in purge[j].todo :
                purge' = [purge EXCEPT ![j] = [@ EXCEPT !.pc = "purge_record", !.id = id]]
        BY <3>2 DEF JanitorBlob
      <4> QED BY <3>2, <4>1 DEF JanitorBlob
    <3>3. CASE JanitorRecord(j)
      BY <3>3 DEF JanitorRecord
    <3>4. CASE JanitorLost(j)
      BY <3>4 DEF JanitorLost
    <3> QED BY <1>3, <3>1, <3>2, <3>3, <3>4 DEF JanitorRun
  <2>2. \A i \in Janitors : purge'[i].pc # "idle" =>
            \A id \in purge'[i].todo : id \in Ids /\ (record[id] # NoRecord \/ id \in gone)
    BY <2>1 DEF ContractInv, WorkSeen, LeaseInv, Purgeable
  <2> QED BY <1>0, <2>1, <2>2 DEF ContractInv, WorkSeen, LeaseInv
<1>4. CASE Tick \/ UNCHANGED vars
  BY <1>0, <1>4 DEF Tick, vars, history, ContractInv, WorkSeen, LeaseInv
<1> QED BY <1>1, <1>2, <1>3, <1>4 DEF Next

(* The invariant of every reachable state. *)
THEOREM ContractInvariant == Spec => []ContractInv
<1>1. Init => WorkSeen
  BY DEF Init, WorkSeen
<1>2. LeaseInv /\ WorkSeen /\ [Next]_vars => WorkSeen'
  BY WorkSeenStep DEF ContractInv
<1> QED BY <1>1, <1>2, LeaseInvariant, PTL DEF Spec, ContractInv

-----------------------------------------------------------------------------
(* The contract's variables after a step. *)

(* A step that touches no lease but one touches no other's phase. *)
LEMMA Elsewhere ==
    ASSUME NEW id \in Ids,
           \A other \in Ids \ {id} :
               /\ record'[other] = record[other]
               /\ other \in blob' <=> other \in blob
               /\ other \in gone' <=> other \in gone
    PROVE  /\ Phases' = [Phases EXCEPT ![id] = Phases'[id]]
           /\ Owners' = [Owners EXCEPT ![id] = Owners'[id]]
           /\ Untils' = [Untils EXCEPT ![id] = Untils'[id]]
BY DEF Phases, Owners, Untils, Live, Over

(* A step that changes the phase of no lease. *)
LEMMA LeasesSame ==
    ASSUME \A id \in Ids :
               /\ Live(id)' <=> Live(id)
               /\ Over(id)' <=> Over(id)
               /\ Live(id) => record'[id] = record[id]
    PROVE  UNCHANGED <<Phases, Owners, Untils>>
BY DEF Phases, Owners, Untils

(* A step of a request that is in no removal, before or after. *)
LEMMA WantedSame ==
    ASSUME NEW r \in Requests, \A q \in Requests \ {r} : req'[q] = req[q],
           \/ req'[r].pc \notin DeleteSteps /\ req[r].pc \notin DeleteSteps
           \/ /\ req'[r].pc \in DeleteSteps /\ req[r].pc \in DeleteSteps
              /\ req'[r].id = req[r].id /\ req'[r].did = req[r].did
    PROVE  Wanted' = Wanted
<1>1. \A w : (\E q \in Requests : req'[q].pc \in DeleteSteps /\ <<req'[q].id, req'[q].did>> = w)
          <=> (\E q \in Requests : req[q].pc \in DeleteSteps /\ <<req[q].id, req[q].did>> = w)
  OBVIOUS
<1> QED BY <1>1 DEF Wanted

(* A request that ends takes its wish with it, unless another has the same. *)
LEMMA WantedLess ==
    ASSUME NEW r \in Requests, \A q \in Requests \ {r} : req'[q] = req[q],
           req'[r].pc = "idle"
    PROVE  Wanted' = Wanted \/ Wanted' = Wanted \ {<<req[r].id, req[r].did>>}
<1> DEFINE Wish(w) == \E q \in Requests : req[q].pc \in DeleteSteps /\ <<req[q].id, req[q].did>> = w
           After(w) == \E q \in Requests : req'[q].pc \in DeleteSteps /\ <<req'[q].id, req'[q].did>> = w
           mine == <<req[r].id, req[r].did>>
<1>1. \A w : w # mine => (After(w) <=> Wish(w))
  OBVIOUS
<1>2. \A w : After(w) => Wish(w)
  OBVIOUS
<1>3. CASE After(mine)
  <2>1. \A w : After(w) <=> Wish(w)
    BY <1>1, <1>2, <1>3
  <2> QED BY <2>1 DEF Wanted
<1>4. CASE ~After(mine)
  BY <1>1, <1>4 DEF Wanted
<1> QED BY <1>3, <1>4

-----------------------------------------------------------------------------
(* Each action, as an event of the contract. *)

USE DEF Contract!vars

(* The arrival of a delete asks for a removal; the others are not noticed. *)
LEMMA BeginMaps ==
    ASSUME ContractInv, NEW r \in Requests, RequestBegins(r)
    PROVE  [Contract!Next]_(Contract!vars)
<1> USE DEF ContractInv, LeaseInv
<1>1. /\ \A q \in Requests \ {r} : req'[q] = req[q]
      /\ req[r] = Idle /\ UNCHANGED <<record, blob, clock, term, paid, gone>>
  BY DEF RequestBegins, StoreBegin, RetrieveLookup, DeleteLookup, ExtendLookup, Begin, history
<1>2. UNCHANGED <<Phases, Owners, Untils>>
  BY <1>1, LeasesSame DEF Live, Over
<1>3. CASE ~\E did \in Dids, id \in Ids : DeleteLookup(r, did, id)
  <2>1. req'[r].pc \notin DeleteSteps
    <3>1. ASSUME NEW did \in Dids, NEW inbox \in Inbox \cup {NoInbox}, NEW hours \in Hours,
                 StoreBegin(r, did, inbox, hours)
          PROVE  req'[r].pc \notin DeleteSteps
      BY <3>1 DEF StoreBegin, Begin
    <3>2. ASSUME NEW did \in Dids, NEW alias \in Aliases, NEW id \in Ids,
                 RetrieveLookup(r, did, alias, id)
          PROVE  req'[r].pc \notin DeleteSteps
      BY <3>2 DEF RetrieveLookup, Begin
    <3>3. ASSUME NEW did \in Dids, NEW id \in Ids, NEW hours \in Hours,
                 ExtendLookup(r, did, id, hours)
          PROVE  req'[r].pc \notin DeleteSteps
      BY <3>3 DEF ExtendLookup, Begin
    <3> QED BY <1>3, <3>1, <3>2, <3>3 DEF RequestBegins
  <2>2. req[r].pc \notin DeleteSteps
    BY <1>1
  <2>3. Wanted' = Wanted
    BY <1>1, <2>1, <2>2, WantedSame
  <2> QED BY <1>1, <1>2, <2>3
<1>4. ASSUME NEW did \in Dids, NEW id \in Ids, DeleteLookup(r, did, id)
      PROVE  Contract!Next
  <2>1. /\ Stored(id) /\ Owns(did, id) /\ req'[r].pc = "delete_blob"
        /\ req'[r].id = id /\ req'[r].did = did
    BY <1>4 DEF DeleteLookup, Begin
  <2>2. Wanted' = Wanted \cup {<<id, did>>}
    <3>1. <<id, did>> \in Wanted'
      BY <2>1 DEF Wanted
    <3>2. ASSUME NEW w \in Wanted PROVE w \in Wanted'
      BY <1>1, <3>2 DEF Wanted
    <3>3. ASSUME NEW w \in Wanted' PROVE w \in Wanted \cup {<<id, did>>}
      BY <1>1, <2>1, <3>3 DEF Wanted
    <3> QED BY <3>1, <3>2, <3>3
  <2>3. Phases[id] # "unsold" /\ (Phases[id] = "live" => Owners[id] = did)
    BY <2>1 DEF Phases, Owners, Live, Over, Owns
  <2>4. Contract!Ask(id, did)
    BY <1>1, <1>2, <2>2, <2>3 DEF Contract!Ask
  <2> QED BY <2>4 DEF Contract!Next
<1> QED BY <1>3, <1>4

(* Steps of a request that leave rows, ciphertexts and payments alone. *)
LEMMA QuietMaps ==
    ASSUME ContractInv, NEW r \in Requests,
           BillingRefused(r) \/ RetrieveGet(r) \/ RetrieveBilled(r)
    PROVE  UNCHANGED Contract!vars
<1> USE DEF ContractInv, LeaseInv, Reply, Advance
<1>1. /\ \A q \in Requests \ {r} : req'[q] = req[q]
      /\ req'[r].pc \notin DeleteSteps /\ req[r].pc \notin DeleteSteps
      /\ UNCHANGED <<record, blob, clock, term, paid, gone>>
  <2>1. CASE BillingRefused(r)
    BY <2>1 DEF BillingRefused, Billing, history
  <2>2. CASE RetrieveGet(r)
    BY <2>2 DEF RetrieveGet, history
  <2>3. CASE RetrieveBilled(r)
    BY <2>3 DEF RetrieveBilled, history
  <2> QED BY <2>1, <2>2, <2>3
<1>2. UNCHANGED <<Phases, Owners, Untils>>
  BY <1>1, LeasesSame DEF Live, Over
<1> QED BY <1>1, <1>2, WantedSame

(* The gate's authorisation of a store is the sale. *)
LEMMA StoreBilledMaps ==
    ASSUME ContractInv, NEW r \in Requests, NEW id \in Ids, StoreBilled(r, id)
    PROVE  Contract!Next
<1> USE DEF ContractInv, LeaseInv
<1>1. /\ \A q \in Requests \ {r} : req'[q] = req[q]
      /\ req'[r].pc \notin DeleteSteps /\ req[r].pc \notin DeleteSteps
  BY DEF StoreBilled
<1>2. /\ term[id] = 0 /\ req[r].hours \in Hours /\ req[r].hours >= 1
      /\ term' = [term EXCEPT ![id] = clock + req[r].hours]
      /\ paid' = [paid EXCEPT ![id] = clock + req[r].hours]
      /\ UNCHANGED <<record, blob, clock, gone>>
  BY DEF StoreBilled, WorkSeen, Fresh
<1>3. UNCHANGED <<Phases, Owners, Untils>>
  BY <1>2, LeasesSame DEF Live, Over
<1>4. Contract!Sell(id, req[r].hours)
  BY <1>1, <1>2, <1>3, WantedSame DEF Contract!Sell
<1> QED BY <1>2, <1>4 DEF Contract!Next

(* A put is not noticed: its id has no row yet and was never removed. *)
LEMMA StorePutMaps ==
    ASSUME ContractInv, NEW r \in Requests, StorePut(r)
    PROVE  UNCHANGED Contract!vars
<1> USE DEF ContractInv, LeaseInv, Advance
<1>1. /\ \A q \in Requests \ {r} : req'[q] = req[q]
      /\ req'[r].pc \notin DeleteSteps /\ req[r].pc = "store_put"
      /\ blob' = blob \cup {req[r].id} /\ UNCHANGED <<record, clock, term, paid, gone>>
  BY DEF StorePut, history
<1>2. ~Stored(req[r].id) /\ req[r].id \notin gone
  BY <1>1 DEF StoreAlone
<1>3. UNCHANGED <<Phases, Owners, Untils>>
  BY <1>1, <1>2, LeasesSame DEF Live, Over
<1> QED BY <1>1, <1>3, WantedSame

(* The insert starts the lease, for a time between its term and its payments. *)
LEMMA StoreInsertMaps ==
    ASSUME ContractInv, NEW r \in Requests, StoreInsert(r)
    PROVE  Contract!Next
<1> USE DEF ContractInv, LeaseInv, Reply
<1> DEFINE id == req[r].id
<1>1. /\ \A q \in Requests \ {r} : req'[q] = req[q]
      /\ req'[r].pc \notin DeleteSteps /\ req[r].pc = "store_insert"
      /\ id \in Ids /\ req[r].did \in Dids /\ req[r].expires \in Nat
      /\ record' = [record EXCEPT ![id] = [owner |-> req[r].did, recipient |-> req[r].inbox,
                                           expires |-> req[r].expires]]
      /\ UNCHANGED <<blob, clock, term, paid, gone>>
  BY DEF StoreInsert, history
<1>2. /\ ~Stored(id) /\ id \notin gone /\ id \in blob /\ term[id] # 0
      /\ req[r].expires \in term[id]..paid[id]
  <2>1. ~Stored(id) /\ id \notin gone /\ id \in blob
    BY <1>1 DEF StoreAlone
  <2>2. term[id] # 0
    BY <1>1 DEF IdsSold, Fresh
  <2>3. term[id] <= req[r].expires /\ req[r].expires <= paid[id]
    BY <1>1 DEF WritesPaid, TermKept
  <2>4. term[id] \in Nat /\ paid[id] \in Nat
    BY <1>1
  <2> QED BY <1>1, <2>1, <2>2, <2>3, <2>4
<1>3. /\ record'[id] # NoRecord /\ record'[id].owner = req[r].did
      /\ record'[id].expires = req[r].expires
  BY <1>1, SentinelAssumption, TypeStep DEF Next, RequestResumes, StoreInsert
<1>4. /\ Phases[id] = "unsold" /\ Phases'[id] = "live"
      /\ Owners'[id] = req[r].did /\ Untils'[id] = req[r].expires
  BY <1>1, <1>2, <1>3 DEF Phases, Owners, Untils, Live, Over
<1>5. /\ Phases' = [Phases EXCEPT ![id] = "live"]
      /\ Owners' = [Owners EXCEPT ![id] = req[r].did]
      /\ Untils' = [Untils EXCEPT ![id] = req[r].expires]
  BY <1>1, <1>4, Elsewhere
<1>6. Contract!Start(id, req[r].did, req[r].expires)
  BY <1>1, <1>2, <1>4, <1>5, WantedSame DEF Contract!Start
<1> QED BY <1>1, <1>2, <1>6 DEF Contract!Next

(* A removal of the ciphertext ends a live lease, if the contract lets it end. *)
LEMMA BlobGoneMaps ==
    ASSUME ContractInv, NEW id \in Ids, blob' = blob \ {id},
           UNCHANGED <<record, clock, term, paid, gone, Wanted>>,
           Live(id) => \/ clock > term[id] \/ paid[id] >= TextLimit
                       \/ <<id, record[id].owner>> \in Wanted
    PROVE  [Contract!Next]_(Contract!vars)
<1>1. CASE ~Live(id)
  <2>1. UNCHANGED <<Phases, Owners, Untils>>
    BY <1>1, LeasesSame DEF Live, Over
  <2> QED BY <2>1
<1>2. CASE Live(id)
  <2>1. /\ Phases[id] = "live" /\ Phases'[id] = "over" /\ Owners[id] = record[id].owner
        /\ Owners'[id] = NoDid /\ Untils'[id] = 0
    BY <1>2 DEF Phases, Owners, Untils, Live, Over
  <2>2. /\ Phases' = [Phases EXCEPT ![id] = "over"]
        /\ Owners' = [Owners EXCEPT ![id] = NoDid]
        /\ Untils' = [Untils EXCEPT ![id] = 0]
    BY <2>1, Elsewhere
  <2>3. Contract!End(id)
    BY <1>2, <2>1, <2>2 DEF Contract!End
  <2> QED BY <2>3 DEF Contract!Next
<1> QED BY <1>1, <1>2

(* A delete removes the ciphertext of a lease its owner wants removed. *)
LEMMA DeleteBlobMaps ==
    ASSUME ContractInv, NEW r \in Requests, DeleteBlob(r)
    PROVE  [Contract!Next]_(Contract!vars)
<1> USE DEF ContractInv, LeaseInv, Advance
<1> DEFINE id == req[r].id
<1>1. /\ \A q \in Requests \ {r} : req'[q] = req[q]
      /\ req'[r].pc \in DeleteSteps /\ req[r].pc \in DeleteSteps
      /\ req'[r].id = req[r].id /\ req'[r].did = req[r].did
      /\ id \in Ids /\ req[r].did \in Dids /\ blob' = blob \ {id}
      /\ UNCHANGED <<record, clock, term, paid, gone>>
  BY DEF DeleteBlob, history
<1>2. Stored(id) => record[id].owner = req[r].did
  BY <1>1 DEF AccessStillHolds, Owns
<1>3. <<id, req[r].did>> \in Wanted
  BY <1>1 DEF Wanted
<1> QED BY <1>1, <1>2, <1>3, WantedSame, BlobGoneMaps DEF Live

(* A janitor run removes the ciphertext of a lease whose term has run out, or *)
(* that was paid beyond the year 9999.                                        *)
LEMMA JanitorBlobMaps ==
    ASSUME ContractInv, NEW j \in Janitors, JanitorBlob(j)
    PROVE  [Contract!Next]_(Contract!vars)
<1> USE DEF ContractInv, LeaseInv
<1>1. PICK id \in purge[j].todo : blob' = blob \ {id}
  BY DEF JanitorBlob
<1>2. id \in Ids /\ (term[id] < clock \/ paid[id] >= TextLimit)
  BY DEF JanitorBlob, TermKept
<1>3. UNCHANGED <<record, clock, req, term, paid, gone>>
  BY DEF JanitorBlob, history
<1>4. Wanted' = Wanted
  BY <1>3 DEF Wanted
<1>5. clock > term[id] \/ paid[id] >= TextLimit
  BY <1>2
<1> QED BY <1>1, <1>2, <1>3, <1>4, <1>5, BlobGoneMaps

(* The removal of a row whose ciphertext is gone is not noticed. *)
LEMMA RowGone ==
    ASSUME ContractInv, NEW id \in Ids, id \notin blob, Seen(id),
           record' = [record EXCEPT ![id] = NoRecord], gone' = gone \cup {id}, blob' = blob
    PROVE  UNCHANGED <<Phases, Owners, Untils>>
<1> USE DEF ContractInv, LeaseInv
<1>1. ASSUME NEW other \in Ids
      PROVE  /\ Live(other)' <=> Live(other)
             /\ Over(other)' <=> Over(other)
             /\ Live(other) => record'[other] = record[other]
  BY DEF Live, Over
<1> QED BY <1>1, LeasesSame

(* The end of a delete withdraws the wish. *)
LEMMA DeleteRecordMaps ==
    ASSUME ContractInv, NEW r \in Requests, DeleteRecord(r)
    PROVE  [Contract!Next]_(Contract!vars)
<1> USE DEF ContractInv, LeaseInv, Reply
<1>1. /\ \A q \in Requests \ {r} : req'[q] = req[q]
      /\ req'[r].pc = "idle" /\ req[r].pc = "delete_record"
      /\ req[r].id \in Ids /\ req[r].did \in Dids
      /\ record' = [record EXCEPT ![req[r].id] = NoRecord] /\ gone' = gone \cup {req[r].id}
      /\ UNCHANGED <<blob, clock, term, paid>>
  BY DEF DeleteRecord
<1>2. req[r].id \notin blob /\ Seen(req[r].id)
  BY <1>1 DEF RemovalsHalfDone, WorkSeen
<1>3. UNCHANGED <<Phases, Owners, Untils>>
  BY <1>1, <1>2, RowGone
<1>4. Wanted' = Wanted \/ Wanted' = Wanted \ {<<req[r].id, req[r].did>>}
  BY <1>1, WantedLess
<1>5. Wanted' = Wanted \/ Contract!Withdraw(req[r].id, req[r].did)
  BY <1>1, <1>3, <1>4 DEF Contract!Withdraw
<1> QED BY <1>1, <1>3, <1>5 DEF Contract!Next

(* So does the loss of a delete; the loss of another request is not noticed. *)
LEMMA RequestLostMaps ==
    ASSUME ContractInv, NEW r \in Requests, RequestLost(r)
    PROVE  [Contract!Next]_(Contract!vars)
<1> USE DEF ContractInv, LeaseInv
<1>1. /\ \A q \in Requests \ {r} : req'[q] = req[q]
      /\ req'[r].pc = "idle" /\ UNCHANGED <<record, blob, gone, clock, term, paid>>
  BY DEF RequestLost
<1>2. UNCHANGED <<Phases, Owners, Untils>>
  BY <1>1, LeasesSame DEF Live, Over
<1>3. CASE req[r].pc \in DeleteSteps
  <2>1. req[r].id \in Ids /\ req[r].did \in Dids
    BY <1>3
  <2>2. Wanted' = Wanted \/ Contract!Withdraw(req[r].id, req[r].did)
    BY <1>1, <1>2, WantedLess DEF Contract!Withdraw
  <2> QED BY <1>1, <1>2, <2>1, <2>2 DEF Contract!Next
<1>4. CASE req[r].pc \notin DeleteSteps
  BY <1>1, <1>2, <1>4, WantedSame
<1> QED BY <1>3, <1>4

(* The rest of a janitor run is not noticed. *)
LEMMA JanitorMaps ==
    ASSUME ContractInv, NEW j \in Janitors, JanitorList(j) \/ JanitorRecord(j) \/ JanitorLost(j)
    PROVE  UNCHANGED Contract!vars
<1> USE DEF ContractInv, LeaseInv
<1>1. UNCHANGED <<blob, clock, req, term, paid>>
  BY DEF JanitorList, JanitorRecord, JanitorLost, history
<1>2. Wanted' = Wanted
  BY <1>1 DEF Wanted
<1>3. UNCHANGED <<Phases, Owners, Untils>>
  <2>1. CASE JanitorList(j) \/ JanitorLost(j)
    BY <1>1, <2>1, LeasesSame DEF JanitorList, JanitorLost, Live, Over, history
  <2>2. CASE JanitorRecord(j)
    <3>1. /\ purge[j].pc = "purge_record" /\ purge[j].id \in Ids
          /\ record' = [record EXCEPT ![purge[j].id] = NoRecord]
          /\ gone' = gone \cup {purge[j].id}
      BY <2>2 DEF JanitorRecord
    <3>2. purge[j].id \notin blob /\ Seen(purge[j].id)
      BY <3>1 DEF RemovalsHalfDone, IdsSold, WorkSeen
    <3> QED BY <1>1, <3>1, <3>2, RowGone
  <2> QED BY <2>1, <2>2
<1> QED BY <1>1, <1>2, <1>3

(* A billed extension sells more time, whether or not the lease still runs. *)
LEMMA ExtendBilledMaps ==
    ASSUME ContractInv, NEW r \in Requests, ExtendBilled(r)
    PROVE  Contract!Next
<1> USE DEF ContractInv, LeaseInv, Advance
<1> DEFINE id == req[r].id
<1>1. /\ \A q \in Requests \ {r} : req'[q] = req[q]
      /\ req'[r].pc \notin DeleteSteps /\ req[r].pc = "extend_billing" /\ id \in Ids
      /\ paid' = [paid EXCEPT ![id] = @ + req[r].hours]
      /\ UNCHANGED <<record, blob, clock, term, gone>>
  BY DEF ExtendBilled
<1>2. req[r].hours \in Hours /\ req[r].hours >= 1 /\ Seen(id)
  BY <1>1 DEF WorkSeen
<1>3. UNCHANGED <<Phases, Owners, Untils>>
  BY <1>1, LeasesSame DEF Live, Over
<1>4. Phases[id] # "unsold"
  BY <1>1, <1>2 DEF Phases, Live, Over
<1>5. Contract!SellMore(id, req[r].hours)
  BY <1>1, <1>2, <1>3, <1>4, WantedSame DEF Contract!SellMore
<1> QED BY <1>1, <1>2, <1>5 DEF Contract!Next

(* The update moves the end of a live lease between its term and its payments. *)
LEMMA ExtendUpdateMaps ==
    ASSUME ContractInv, NEW r \in Requests, ExtendUpdate(r)
    PROVE  [Contract!Next]_(Contract!vars)
<1> USE DEF ContractInv, LeaseInv, Reply
<1> DEFINE id == req[r].id
           t == req[r].expires + req[r].hours
<1>1. /\ \A q \in Requests \ {r} : req'[q] = req[q]
      /\ req'[r].pc \notin DeleteSteps /\ req[r].pc = "extend_update" /\ id \in Ids
      /\ record' = IF Stored(id) THEN [record EXCEPT ![id].expires = t] ELSE record
      /\ UNCHANGED <<blob, clock, term, paid, gone>>
  BY DEF ExtendUpdate, UpdateExpiration, ExtendedExpiry, history
<1>2. t \in term[id]..paid[id]
  <2>1. term[id] <= req[r].expires /\ t <= paid[id]
    BY <1>1 DEF WritesPaid, TermKept, ExtendedExpiry
  <2>2. term[id] \in Nat /\ paid[id] \in Nat /\ req[r].expires \in Nat /\ req[r].hours \in Nat
    BY <1>1
  <2> QED BY <2>1, <2>2
<1>3. Wanted' = Wanted
  BY <1>1, WantedSame
<1> HIDE DEF t
<1>4. CASE ~Stored(id)
  <2>1. UNCHANGED <<Phases, Owners, Untils>>
    BY <1>1, <1>4, LeasesSame DEF Live, Over
  <2> QED BY <1>1, <1>3, <2>1
<1>5. CASE Stored(id)
  <2>0. [record[id] EXCEPT !.expires = t] \in Record
    <3>1. record[id] \in Record /\ t \in Nat
      BY <1>1, <1>2, <1>5
    <3> QED BY <3>1
  <2>1. PICK extended \in Record : extended = [record[id] EXCEPT !.expires = t]
    BY <2>0
  <2>2. /\ extended.owner = record[id].owner /\ extended.expires = t /\ extended # NoRecord
    BY <1>1, <1>5, <2>1, SentinelAssumption
  <2>3. record' = [record EXCEPT ![id] = extended]
    BY <1>1, <1>5, <2>1
  <2>4. CASE id \notin blob
    <3>1. UNCHANGED <<Phases, Owners, Untils>>
      BY <1>1, <1>5, <2>2, <2>3, <2>4, LeasesSame DEF Live, Over
    <3> QED BY <1>1, <1>3, <3>1
  <2>5. CASE id \in blob
    <3>1. /\ Phases[id] = "live" /\ Phases'[id] = "live" /\ Owners'[id] = Owners[id]
          /\ Untils'[id] = t
      BY <1>1, <1>5, <2>2, <2>3, <2>5 DEF Phases, Owners, Untils, Live
    <3>2. /\ Phases' = Phases /\ Owners' = Owners /\ Untils' = [Untils EXCEPT ![id] = t]
      <4>1. /\ Phases' = [Phases EXCEPT ![id] = Phases'[id]]
            /\ Owners' = [Owners EXCEPT ![id] = Owners'[id]]
            /\ Untils' = [Untils EXCEPT ![id] = Untils'[id]]
        BY <1>1, <2>3, Elsewhere
      <4>2. Phases' = Phases
        BY <3>1, <4>1 DEF Phases
      <4>3. Owners' = Owners
        BY <3>1, <4>1 DEF Owners
      <4>4. Untils' = [Untils EXCEPT ![id] = t]
        BY <3>1, <4>1
      <4> QED BY <4>2, <4>3, <4>4
    <3>3. Contract!Extend(id, t)
      BY <1>1, <1>3, <3>1, <3>2 DEF Contract!Extend
    <3> QED BY <1>1, <1>2, <3>3 DEF Contract!Next
  <2> QED BY <2>4, <2>5
<1> QED BY <1>4, <1>5

(* Every step of the node is an event of the contract, or none. *)
LEMMA StepMaps == ContractInv /\ [Next]_vars => [Contract!Next]_(Contract!vars)
<1> SUFFICES ASSUME ContractInv, [Next]_vars PROVE [Contract!Next]_(Contract!vars)
  OBVIOUS
<1>1. ASSUME NEW r \in Requests, RequestResumes(r) PROVE [Contract!Next]_(Contract!vars)
  BY <1>1, StoreBilledMaps, StorePutMaps, StoreInsertMaps, QuietMaps, DeleteBlobMaps,
     DeleteRecordMaps, ExtendBilledMaps, ExtendUpdateMaps
     DEF RequestResumes
<1>2. ASSUME NEW j \in Janitors, JanitorRun(j) \/ JanitorLost(j)
      PROVE  [Contract!Next]_(Contract!vars)
  BY <1>2, JanitorBlobMaps, JanitorMaps DEF JanitorRun
<1>3. CASE Tick
  <2>1. /\ clock' = clock + 1 /\ UNCHANGED <<record, blob, gone, req, term, paid>>
    BY <1>3 DEF Tick, history
  <2>2. UNCHANGED <<Phases, Owners, Untils, Wanted>>
    BY <2>1 DEF Phases, Owners, Untils, Wanted, Live, Over
  <2> QED BY <2>1, <2>2 DEF Contract!Next, Contract!Tick
<1>4. CASE UNCHANGED vars
  BY <1>4 DEF vars, Phases, Owners, Untils, Wanted, Live, Over
<1> QED BY <1>1, <1>2, <1>3, <1>4, BeginMaps, RequestLostMaps DEF Next

(* The store, with its awaits and interruptions, keeps the contract. *)
THEOREM StoreKeepsContract == Spec => ImplementsContract
<1>1. Init => Contract!Init
  BY DEF Init, Contract!Init, Phases, Owners, Untils, Wanted, Live, Over
<1> QED BY <1>1, StepMaps, ContractInvariant, PTL DEF Spec, ImplementsContract, Contract!Spec

=============================================================================
