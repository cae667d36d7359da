-------------------------- MODULE LeaseStore_proofs --------------------------
(***************************************************************************)
(* Proofs about LeaseStore, for every set of ids, callers, requests and    *)
(* janitor runs, every clock and every number of interruptions.            *)
(***************************************************************************)
EXTENDS LeaseStore, TLAPS

(* The initial values are within their types.  Two conjuncts are more than     *)
(* types: a handler that works on a lease knows its id and its caller.       *)
LEMMA TypeInit == Init => TypeOK
BY BoundsAssumption DEF Init, TypeOK, Idle, Rest, Request, Purge, HoldsId, OnLease,
   StoreSteps, RetrieveSteps, DeleteSteps, ExtendSteps

(* A billed store gives its request a new id and an expiry. *)
LEMMA StoreBilledTyped ==
    ASSUME TypeOK, NEW r \in Requests, NEW id \in Ids, StoreBilled(r, id)
    PROVE  /\ req' \in [Requests -> Request]
           /\ req'[r].id \in Ids /\ req'[r].did \in Dids
           /\ \A q \in Requests \ {r} : req'[q] = req[q]
<1>1. ASSUME NEW q \in Request, NEW pc \in {"idle"} \cup StoreSteps \cup OnLease, NEW n \in Nat
      PROVE  [q EXCEPT !.pc = pc, !.id = id, !.expires = n] \in Request
  BY DEF Request
<1>2. /\ req[r] \in Request /\ req[r].did \in Dids
      /\ "store_put" \in {"idle"} \cup StoreSteps \cup OnLease
  BY DEF StoreBilled, TypeOK, HoldsId, StoreSteps
<1>3. clock + req[r].hours \in Nat
  BY <1>2 DEF TypeOK, Request
<1> DEFINE sold == [req[r] EXCEPT !.pc = "store_put", !.id = id,
                                  !.expires = clock + req[r].hours]
<1>4. sold \in Request
  BY <1>1, <1>2, <1>3
<1>5. sold.id \in Ids /\ sold.did \in Dids
  BY <1>2 DEF Request
<1>6. req' = [req EXCEPT ![r] = sold]
  BY DEF StoreBilled
<1> HIDE DEF sold
<1> QED BY <1>4, <1>5, <1>6 DEF TypeOK

(* A janitor takes a listed id into its next step. *)
LEMMA JanitorBlobTyped ==
    ASSUME TypeOK, NEW j \in Janitors, JanitorBlob(j)
    PROVE  /\ purge' \in [Janitors -> Purge]
           /\ purge'[j].id \in Ids
           /\ \A i \in Janitors \ {j} : purge'[i] = purge[i]
           /\ blob' \subseteq blob
<1>1. PICK id \in purge[j].todo :
          /\ blob' = blob \ {id}
          /\ purge' = [purge EXCEPT ![j] = [@ EXCEPT !.pc = "purge_record", !.id = id]]
  BY DEF JanitorBlob
<1>2. purge[j] \in Purge /\ id \in Ids
  BY DEF TypeOK, Purge
<1> DEFINE taken == [purge[j] EXCEPT !.pc = "purge_record", !.id = id]
<1>3. taken \in Purge /\ taken.id \in Ids
  BY <1>2 DEF Purge
<1>4. purge' = [purge EXCEPT ![j] = taken]
  BY <1>1
<1> HIDE DEF taken
<1> QED BY <1>1, <1>3, <1>4 DEF TypeOK

(* Every step keeps the types. *)
LEMMA TypeStep == TypeOK /\ [Next]_vars => TypeOK'
<1> SUFFICES ASSUME TypeOK, [Next]_vars PROVE TypeOK'
  OBVIOUS
<1> USE HoursAssumption DEF TypeOK, Request, Purge, HoldsId, OnLease, StoreSteps,
        RetrieveSteps, DeleteSteps, ExtendSteps, Idle, Rest, history
<1>1. ASSUME NEW r \in Requests, RequestBegins(r) PROVE TypeOK'
  <2>1. ASSUME NEW did \in Dids, NEW inbox \in Inbox \cup {NoInbox}, NEW hours \in Hours,
               StoreBegin(r, did, inbox, hours)
        PROVE TypeOK'
    BY <2>1 DEF StoreBegin, Begin
  <2>2. ASSUME NEW did \in Dids, NEW alias \in Aliases, NEW id \in Ids,
               RetrieveLookup(r, did, alias, id)
        PROVE TypeOK'
    BY <2>2 DEF RetrieveLookup, Begin, Inbox
  <2>3. ASSUME NEW did \in Dids, NEW id \in Ids, DeleteLookup(r, did, id)
        PROVE TypeOK'
    BY <2>3 DEF DeleteLookup, Begin
  <2>4. ASSUME NEW did \in Dids, NEW id \in Ids, NEW hours \in Hours,
               ExtendLookup(r, did, id, hours)
        PROVE TypeOK'
    <3>1. record[id].expires \in Nat
      BY <2>4 DEF ExtendLookup, Stored, Record
    <3> QED BY <2>4, <3>1 DEF ExtendLookup, Begin
  <2> QED BY <1>1, <2>1, <2>2, <2>3, <2>4 DEF RequestBegins
<1>2. ASSUME NEW r \in Requests, RequestResumes(r) PROVE TypeOK'
  <2>1. ASSUME NEW id \in Ids, StoreBilled(r, id) PROVE TypeOK'
    BY <2>1, StoreBilledTyped DEF StoreBilled
  <2>2. ASSUME StorePut(r) PROVE TypeOK'
    BY SMTT(30), <2>2 DEF StorePut, Advance
  <2>3. ASSUME StoreInsert(r) PROVE TypeOK'
    BY <2>3 DEF StoreInsert, Reply, Record
  <2>4. ASSUME BillingRefused(r) PROVE TypeOK'
    BY <2>4 DEF BillingRefused, Reply
  <2>5. ASSUME RetrieveGet(r) PROVE TypeOK'
    BY SMTT(30), <2>5 DEF RetrieveGet, Advance, Reply
  <2>6. ASSUME RetrieveBilled(r) PROVE TypeOK'
    BY <2>6 DEF RetrieveBilled, Reply
  <2>7. ASSUME DeleteBlob(r) PROVE TypeOK'
    BY SMTT(30), <2>7 DEF DeleteBlob, Advance
  <2>8. ASSUME DeleteRecord(r) PROVE TypeOK'
    BY <2>8 DEF DeleteRecord, Reply
  <2>9. ASSUME ExtendBilled(r) PROVE TypeOK'
    BY <2>9 DEF ExtendBilled, Advance
  <2>10. ASSUME ExtendUpdate(r) PROVE TypeOK'
    <3>1. ExtendedExpiry(r) \in Nat /\ req[r].id \in Ids
      BY <2>10 DEF ExtendUpdate, Reply, ExtendedExpiry
    <3>2. CASE Stored(req[r].id)
      <4>1. [record[req[r].id] EXCEPT !.expires = ExtendedExpiry(r)] \in Record
        BY <3>1, <3>2 DEF Stored, Record
      <4>2. record' = [record EXCEPT ![req[r].id] = [@ EXCEPT !.expires = ExtendedExpiry(r)]]
        BY <2>10, <3>2 DEF ExtendUpdate, UpdateExpiration
      <4> QED BY <2>10, <3>1, <4>1, <4>2 DEF ExtendUpdate, Reply
    <3>3. CASE ~Stored(req[r].id)
      BY <2>10, <3>3 DEF ExtendUpdate, Reply, UpdateExpiration
    <3> QED BY <3>2, <3>3
  <2> QED BY <1>2, <2>1, <2>2, <2>3, <2>4, <2>5, <2>6, <2>7, <2>8, <2>9, <2>10
          DEF RequestResumes
<1>3. ASSUME NEW r \in Requests, RequestLost(r) PROVE TypeOK'
  BY <1>3, BoundsAssumption DEF RequestLost
<1>4. ASSUME NEW j \in Janitors, JanitorRun(j) PROVE TypeOK'
  <2>1. CASE JanitorList(j)
    BY <2>1 DEF JanitorList
  <2>2. CASE JanitorBlob(j)
    BY <2>2, JanitorBlobTyped DEF JanitorBlob
  <2>3. CASE JanitorRecord(j)
    BY <2>3 DEF JanitorRecord
  <2> QED BY <1>4, <2>1, <2>2, <2>3 DEF JanitorRun
<1>5. ASSUME NEW j \in Janitors, JanitorLost(j) PROVE TypeOK'
  BY <1>5, BoundsAssumption DEF JanitorLost
<1>6. CASE Tick
  BY <1>6, BoundsAssumption DEF Tick
<1>7. CASE UNCHANGED vars
  BY <1>7 DEF vars
<1> QED BY <1>1, <1>2, <1>3, <1>4, <1>5, <1>6, <1>7 DEF Next

(* Every variable keeps its type in every behaviour. *)
THEOREM TypeCorrect == Spec => []TypeOK
BY TypeInit, TypeStep, PTL DEF Spec

-----------------------------------------------------------------------------
(***************************************************************************)
(* The inductive invariant.                                                *)
(***************************************************************************)

\* Only an id that was sold is in use anywhere: a fresh id is fresh everywhere.
IdsSold ==
    /\ \A id \in Ids : Stored(id) => ~Fresh(id)
    /\ \A id \in blob \cup gone : ~Fresh(id)
    /\ \A r \in Requests : req[r].pc \in HoldsId => ~Fresh(req[r].id)
    /\ \A r \in Requests : req[r].pc = "store_billing" => req[r].hours >= 1
    /\ \A j \in Janitors : purge[j].pc # "idle" => \A id \in purge[j].todo : ~Fresh(id)
    /\ \A j \in Janitors : purge[j].pc = "purge_record" => purge[j].id \in purge[j].todo
    /\ \A c \in cut : ~Fresh(c[2])

\* A store in progress is alone with its id until it inserts the row.
StoreAlone ==
    \A r \in Requests : req[r].pc \in {"store_put", "store_insert"} =>
        LET id == req[r].id IN
        /\ ~Stored(id)
        /\ id \notin gone
        /\ \A q \in Requests \ {r} : req[q].pc \in HoldsId => req[q].id # id
        /\ \A j \in Janitors : purge[j].pc # "idle" => id \notin purge[j].todo
        /\ \A c \in cut : c[2] # id
        /\ req[r].pc = "store_insert" => id \in blob

\* What a request in flight will write is paid for: each extension of the same
\* lease pays for its own hours, whatever row it computes them from.
WritesPaid ==
    \A r \in Requests :
        /\ req[r].pc \in {"store_put", "store_insert", "extend_billing"} =>
               req[r].expires <= paid[req[r].id]
        /\ req[r].pc = "extend_update" => ExtendedExpiry(r) <= paid[req[r].id]

\* Between the two writes of a removal, and after one that stopped there, the
\* ciphertext is gone and stays gone.
RemovalsHalfDone ==
    /\ \A r \in Requests : req[r].pc = "delete_record" => req[r].id \notin blob
    /\ \A j \in Janitors : purge[j].pc = "purge_record" => purge[j].id \notin blob

\* A row never expires before the term bought with the store, and the janitor
\* only works on leases whose term has run out, extended since or not, or of
\* which time beyond the year 9999 was paid.
TermKept ==
    /\ \A id \in Ids : Stored(id) => record[id].expires >= term[id]
    /\ \A r \in Requests :
           req[r].pc \in {"store_put", "store_insert"} \cup ExtendSteps =>
               req[r].expires >= term[req[r].id]
    /\ \A j \in Janitors :
           purge[j].pc # "idle" =>
               \A id \in purge[j].todo : term[id] < clock \/ paid[id] >= TextLimit

LeaseInv ==
    /\ TypeOK
    /\ IdsSold
    /\ StoreAlone
    /\ WritesPaid
    /\ RemovalsHalfDone
    /\ RecordHasBlob
    /\ BlobHasRecord
    /\ LeaseNeverExceedsPaid
    /\ DeleteIsFinal
    /\ AccessStillHolds
    /\ TermKept

USE DEF HoldsId, OnLease, StoreSteps, RetrieveSteps, DeleteSteps, ExtendSteps, TypeOK,
    Request, Purge, Record, Idle, Rest, Stored, Fresh, ExtendedExpiry, BeingRemoved,
    BeingStored, MayRead, Owns

(* Arrivals: only the request's own slot changes, and a row it read is in the table. *)
LEMMA StoreBeginKeeps ==
    ASSUME LeaseInv, TypeOK', NEW r \in Requests, NEW did \in Dids, NEW inbox \in Inbox \cup {NoInbox}, NEW hours \in Hours,
           StoreBegin(r, did, inbox, hours)
    PROVE  LeaseInv'
BY SMTT(30) DEF LeaseInv, IdsSold, StoreAlone, WritesPaid, RemovalsHalfDone, RecordHasBlob, BlobHasRecord,
   LeaseNeverExceedsPaid, DeleteIsFinal, AccessStillHolds, TermKept, StoreBegin, Begin, history

(* A retrieve reads, and remembers an id its caller may read. *)
LEMMA RetrieveLookupKeeps ==
    ASSUME LeaseInv, TypeOK', NEW r \in Requests, NEW did \in Dids, NEW alias \in Aliases, NEW id \in Ids,
           RetrieveLookup(r, did, alias, id)
    PROVE  LeaseInv'
<1> USE DEF LeaseInv, RetrieveLookup, Begin, history
<1>1. IdsSold'
  BY DEF IdsSold
<1>2. StoreAlone'
  BY DEF StoreAlone
<1>3. WritesPaid'
  BY DEF WritesPaid
<1>4. RemovalsHalfDone'
  BY DEF RemovalsHalfDone
<1>5. RecordHasBlob'
  BY DEF RecordHasBlob
<1>6. BlobHasRecord'
  BY DEF BlobHasRecord
<1>7. LeaseNeverExceedsPaid'
  BY DEF LeaseNeverExceedsPaid
<1>8. DeleteIsFinal'
  BY DEF DeleteIsFinal
<1>9. AccessStillHolds'
  BY DEF AccessStillHolds
<1>10. TermKept'
  BY DEF TermKept
<1> QED BY <1>1, <1>2, <1>3, <1>4, <1>5, <1>6, <1>7, <1>8, <1>9, <1>10

(* A delete reads, and remembers an id its caller owns. *)
LEMMA DeleteLookupKeeps ==
    ASSUME LeaseInv, TypeOK', NEW r \in Requests, NEW did \in Dids, NEW id \in Ids,
           DeleteLookup(r, did, id)
    PROVE  LeaseInv'
<1> USE DEF LeaseInv, DeleteLookup, Begin, history
<1>1. IdsSold'
  BY DEF IdsSold
<1>2. StoreAlone'
  BY DEF StoreAlone
<1>3. WritesPaid'
  BY DEF WritesPaid
<1>4. RemovalsHalfDone'
  BY DEF RemovalsHalfDone
<1>5. RecordHasBlob'
  BY DEF RecordHasBlob
<1>6. BlobHasRecord'
  BY DEF BlobHasRecord
<1>7. LeaseNeverExceedsPaid'
  BY DEF LeaseNeverExceedsPaid
<1>8. DeleteIsFinal'
  BY DEF DeleteIsFinal
<1>9. AccessStillHolds'
  BY DEF AccessStillHolds
<1>10. TermKept'
  BY DEF TermKept
<1> QED BY <1>1, <1>2, <1>3, <1>4, <1>5, <1>6, <1>7, <1>8, <1>9, <1>10

(* An extend reads, and the expiry it remembers was paid for. *)
LEMMA ExtendLookupKeeps ==
    ASSUME LeaseInv, TypeOK', NEW r \in Requests, NEW did \in Dids, NEW id \in Ids, NEW hours \in Hours,
           ExtendLookup(r, did, id, hours)
    PROVE  LeaseInv'
<1> USE DEF LeaseInv, ExtendLookup, Begin, history
<1>1. IdsSold'
  BY DEF IdsSold
<1>2. StoreAlone'
  BY DEF StoreAlone
<1>3. WritesPaid'
  BY DEF WritesPaid, LeaseNeverExceedsPaid
<1>4. RemovalsHalfDone'
  BY DEF RemovalsHalfDone
<1>5. RecordHasBlob'
  BY DEF RecordHasBlob
<1>6. BlobHasRecord'
  BY DEF BlobHasRecord
<1>7. LeaseNeverExceedsPaid'
  BY DEF LeaseNeverExceedsPaid
<1>8. DeleteIsFinal'
  BY DEF DeleteIsFinal
<1>9. AccessStillHolds'
  BY DEF AccessStillHolds
<1>10. TermKept'
  BY DEF TermKept
<1> QED BY <1>1, <1>2, <1>3, <1>4, <1>5, <1>6, <1>7, <1>8, <1>9, <1>10

(* A sale gives a lease an id that nothing else in the node knows. *)
LEMMA StoreBilledKeeps ==
    ASSUME LeaseInv, TypeOK', NEW r \in Requests, NEW id \in Ids, StoreBilled(r, id)
    PROVE  LeaseInv'
<1> USE DEF LeaseInv, StoreBilled, history
<1>1. IdsSold'
  BY DEF IdsSold
<1>2. StoreAlone'
  BY DEF StoreAlone, IdsSold
<1>3. WritesPaid'
  BY DEF WritesPaid, IdsSold
<1>4. RemovalsHalfDone'
  BY DEF RemovalsHalfDone
<1>5. RecordHasBlob'
  BY DEF RecordHasBlob
<1>6. BlobHasRecord'
  BY DEF BlobHasRecord
<1>7. LeaseNeverExceedsPaid'
  BY DEF LeaseNeverExceedsPaid, IdsSold
<1>8. DeleteIsFinal'
  BY DEF DeleteIsFinal
<1>9. AccessStillHolds'
  BY DEF AccessStillHolds
<1>10. TermKept'
  BY DEF TermKept, IdsSold
<1> QED BY <1>1, <1>2, <1>3, <1>4, <1>5, <1>6, <1>7, <1>8, <1>9, <1>10

(* The ciphertext of a lease that no removal has seen. *)
LEMMA StorePutKeeps ==
    ASSUME LeaseInv, TypeOK', NEW r \in Requests, StorePut(r)
    PROVE  LeaseInv'
<1> USE DEF LeaseInv, StorePut, Advance, history
<1>1. IdsSold'
  BY DEF IdsSold
<1>2. StoreAlone'
  BY DEF StoreAlone
<1>3. WritesPaid'
  BY DEF WritesPaid
<1>4. RemovalsHalfDone'
  BY DEF RemovalsHalfDone, StoreAlone, IdsSold
<1>5. RecordHasBlob'
  BY DEF RecordHasBlob
<1>6. BlobHasRecord'
  BY DEF BlobHasRecord
<1>7. LeaseNeverExceedsPaid'
  BY DEF LeaseNeverExceedsPaid
<1>8. DeleteIsFinal'
  BY DEF DeleteIsFinal, StoreAlone
<1>9. AccessStillHolds'
  BY DEF AccessStillHolds
<1>10. TermKept'
  BY DEF TermKept
<1> QED BY <1>1, <1>2, <1>3, <1>4, <1>5, <1>6, <1>7, <1>8, <1>9, <1>10

(* The row comes after its ciphertext, and no other handler holds its id. *)
LEMMA StoreInsertKeeps ==
    ASSUME LeaseInv, TypeOK', NEW r \in Requests, StoreInsert(r)
    PROVE  LeaseInv'
<1> USE DEF LeaseInv, StoreInsert, Reply, history
<1>1. IdsSold'
  BY DEF IdsSold
<1>2. StoreAlone'
  BY DEF StoreAlone
<1>3. WritesPaid'
  BY DEF WritesPaid
<1>4. RemovalsHalfDone'
  BY DEF RemovalsHalfDone
<1>5. RecordHasBlob'
  BY DEF RecordHasBlob, StoreAlone
<1>6. BlobHasRecord'
  BY SentinelAssumption DEF BlobHasRecord, StoreAlone
<1>7. LeaseNeverExceedsPaid'
  BY DEF LeaseNeverExceedsPaid, StoreAlone, WritesPaid
<1>8. DeleteIsFinal'
  BY DEF DeleteIsFinal, StoreAlone
<1>9. AccessStillHolds'
  BY DEF AccessStillHolds, StoreAlone
<1>10. TermKept'
  BY DEF TermKept, StoreAlone
<1> QED BY <1>1, <1>2, <1>3, <1>4, <1>5, <1>6, <1>7, <1>8, <1>9, <1>10

(* Replies and reads. *)
LEMMA BillingRefusedKeeps ==
    ASSUME LeaseInv, TypeOK', NEW r \in Requests, BillingRefused(r)
    PROVE  LeaseInv'
BY DEF LeaseInv, IdsSold, StoreAlone, WritesPaid, RemovalsHalfDone, RecordHasBlob, BlobHasRecord,
   LeaseNeverExceedsPaid, DeleteIsFinal, AccessStillHolds, TermKept, BillingRefused, Reply, Billing, history

(* Reading the blob changes no table. *)
LEMMA RetrieveGetKeeps ==
    ASSUME LeaseInv, TypeOK', NEW r \in Requests, RetrieveGet(r)
    PROVE  LeaseInv'
<1>1. PICK q \in Request :
          /\ req' = [req EXCEPT ![r] = q]
          /\ q.pc \in {"idle", "retrieve_billing"}
          /\ q.pc # "idle" => q.id = req[r].id /\ q.did = req[r].did /\ q.inbox = req[r].inbox
  <2>1. CASE req[r].id \in blob /\ EgressPriced
    BY <2>1 DEF LeaseInv, RetrieveGet, Advance
  <2>2. CASE ~(req[r].id \in blob /\ EgressPriced)
    BY <2>2 DEF LeaseInv, RetrieveGet, Reply
  <2> QED BY <2>1, <2>2
<1>2. req[r].pc = "retrieve_get" /\ UNCHANGED <<record, blob, clock, purge, faults, history>>
  BY DEF RetrieveGet, Advance, Reply
<1> USE DEF LeaseInv, history
<1>3. IdsSold'
  BY <1>1, <1>2 DEF IdsSold
<1>4. StoreAlone'
  BY <1>1, <1>2 DEF StoreAlone
<1>5. WritesPaid'
  BY <1>1, <1>2 DEF WritesPaid
<1>6. RemovalsHalfDone'
  BY <1>1, <1>2 DEF RemovalsHalfDone
<1>7. RecordHasBlob'
  BY <1>1, <1>2 DEF RecordHasBlob
<1>8. BlobHasRecord'
  BY <1>1, <1>2 DEF BlobHasRecord
<1>9. LeaseNeverExceedsPaid'
  BY <1>1, <1>2 DEF LeaseNeverExceedsPaid
<1>10. DeleteIsFinal'
  BY <1>1, <1>2 DEF DeleteIsFinal
<1>11. AccessStillHolds'
  BY <1>1, <1>2 DEF AccessStillHolds
<1>12. TermKept'
  BY <1>1, <1>2 DEF TermKept
<1> QED BY <1>3, <1>4, <1>5, <1>6, <1>7, <1>8, <1>9, <1>10, <1>11, <1>12

(* Serving a retrieve changes no table. *)
LEMMA RetrieveBilledKeeps ==
    ASSUME LeaseInv, TypeOK', NEW r \in Requests, RetrieveBilled(r)
    PROVE  LeaseInv'
BY SMTT(30) DEF LeaseInv, IdsSold, StoreAlone, WritesPaid, RemovalsHalfDone, RecordHasBlob, BlobHasRecord,
   LeaseNeverExceedsPaid, DeleteIsFinal, AccessStillHolds, TermKept, RetrieveBilled, Reply, history

(* An owner's delete: the ciphertext first, the row next. *)
LEMMA DeleteBlobKeeps ==
    ASSUME LeaseInv, TypeOK', NEW r \in Requests, DeleteBlob(r)
    PROVE  LeaseInv'
<1> USE DEF LeaseInv, DeleteBlob, Advance, history
<1>1. IdsSold'
  BY DEF IdsSold
<1>2. StoreAlone'
  BY DEF StoreAlone
<1>3. WritesPaid'
  BY DEF WritesPaid
<1>4. RemovalsHalfDone'
  BY DEF RemovalsHalfDone
<1>5. RecordHasBlob'
  BY DEF RecordHasBlob
<1>6. BlobHasRecord'
  BY DEF BlobHasRecord
<1>7. LeaseNeverExceedsPaid'
  BY DEF LeaseNeverExceedsPaid
<1>8. DeleteIsFinal'
  BY DEF DeleteIsFinal
<1>9. AccessStillHolds'
  BY DEF AccessStillHolds
<1>10. TermKept'
  BY DEF TermKept
<1> QED BY <1>1, <1>2, <1>3, <1>4, <1>5, <1>6, <1>7, <1>8, <1>9, <1>10

(* The row goes after its blob, by its owner. *)
LEMMA DeleteRecordKeeps ==
    ASSUME LeaseInv, TypeOK', NEW r \in Requests, DeleteRecord(r)
    PROVE  LeaseInv'
<1> USE DEF LeaseInv, DeleteRecord, Reply, history
<1>1. IdsSold'
  BY DEF IdsSold
<1>2. StoreAlone'
  BY DEF StoreAlone
<1>3. WritesPaid'
  BY DEF WritesPaid
<1>4. RemovalsHalfDone'
  BY DEF RemovalsHalfDone
<1>5. RecordHasBlob'
  BY DEF RecordHasBlob
<1>6. BlobHasRecord'
  BY DEF BlobHasRecord, RemovalsHalfDone
<1>7. LeaseNeverExceedsPaid'
  BY DEF LeaseNeverExceedsPaid
<1>8. DeleteIsFinal'
  BY DEF DeleteIsFinal, RemovalsHalfDone
<1>9. AccessStillHolds'
  BY DEF AccessStillHolds
<1>10. TermKept'
  BY DEF TermKept
<1> QED BY <1>1, <1>2, <1>3, <1>4, <1>5, <1>6, <1>7, <1>8, <1>9, <1>10

(* An extension pays for its hours before it writes them. *)
LEMMA ExtendBilledKeeps ==
    ASSUME LeaseInv, TypeOK', NEW r \in Requests, ExtendBilled(r)
    PROVE  LeaseInv'
<1> USE DEF LeaseInv, ExtendBilled, Advance, history
<1>0. \A id \in Ids : paid[id] \in Nat /\ paid'[id] \in Nat /\ paid'[id] >= paid[id]
  OBVIOUS
<1>1. IdsSold'
  BY DEF IdsSold
<1>2. StoreAlone'
  BY DEF StoreAlone
<1>3. WritesPaid'
  BY DEF WritesPaid
<1>4. RemovalsHalfDone'
  BY DEF RemovalsHalfDone
<1>5. RecordHasBlob'
  BY DEF RecordHasBlob
<1>6. BlobHasRecord'
  BY DEF BlobHasRecord
<1>7. LeaseNeverExceedsPaid'
  BY DEF LeaseNeverExceedsPaid
<1>8. DeleteIsFinal'
  BY DEF DeleteIsFinal
<1>9. AccessStillHolds'
  BY DEF AccessStillHolds
<1>10. TermKept'
  <2>1. /\ \A q \in Requests :
               /\ req'[q].id = req[q].id /\ req'[q].expires = req[q].expires
               /\ req'[q].pc \in ExtendSteps => req[q].pc \in ExtendSteps
               /\ req'[q].pc \in {"store_put", "store_insert"} => req'[q].pc = req[q].pc
        /\ UNCHANGED <<record, term, clock, purge>>
    OBVIOUS
  <2>2. ASSUME NEW j \in Janitors, purge'[j].pc # "idle", NEW id \in purge'[j].todo
        PROVE  term'[id] < clock' \/ paid'[id] >= TextLimit
    <3>1. id \in Ids /\ (term[id] < clock \/ paid[id] >= TextLimit)
      BY <2>1, <2>2 DEF TermKept
    <3> HIDE DEF ExtendBilled, Advance
    <3> QED BY <1>0, <2>1, <3>1, TextAssumption
  <2> QED BY <2>1, <2>2 DEF TermKept
<1> QED BY <1>1, <1>2, <1>3, <1>4, <1>5, <1>6, <1>7, <1>8, <1>9, <1>10

(* The expiry an extend writes is at most what was paid. *)
LEMMA ExtendUpdateKeeps ==
    ASSUME LeaseInv, TypeOK', NEW r \in Requests, ExtendUpdate(r)
    PROVE  LeaseInv'
<1> USE DEF LeaseInv, ExtendUpdate, Reply, UpdateExpiration, history
<1>0. \A id \in Ids : Stored(id)' <=> Stored(id)
  BY SMTT(30), SentinelAssumption
<1>1. IdsSold'
  BY DEF IdsSold
<1>2. StoreAlone'
  BY DEF StoreAlone
<1>3. WritesPaid'
  BY DEF WritesPaid
<1>4. RemovalsHalfDone'
  BY DEF RemovalsHalfDone
<1>5. RecordHasBlob'
  BY DEF RecordHasBlob
<1>6. BlobHasRecord'
  BY <1>0 DEF BlobHasRecord
<1>7. LeaseNeverExceedsPaid'
  BY DEF LeaseNeverExceedsPaid, WritesPaid
<1>8. DeleteIsFinal'
  BY DEF DeleteIsFinal
<1>9. AccessStillHolds'
  BY DEF AccessStillHolds
<1>10. TermKept'
  BY DEF TermKept
<1> QED BY <1>1, <1>2, <1>3, <1>4, <1>5, <1>6, <1>7, <1>8, <1>9, <1>10

(* An interrupted handler leaves a mark when it stops between two writes. *)
LEMMA RequestLostKeeps ==
    ASSUME LeaseInv, TypeOK', NEW r \in Requests, RequestLost(r)
    PROVE  LeaseInv'
BY SMTT(30) DEF LeaseInv, IdsSold, StoreAlone, WritesPaid, RemovalsHalfDone, RecordHasBlob, BlobHasRecord,
   LeaseNeverExceedsPaid, DeleteIsFinal, AccessStillHolds, TermKept, RequestLost, history

(* The janitor: a listing, then ciphertext and row of each lease in turn. *)
LEMMA JanitorListKeeps ==
    ASSUME LeaseInv, TypeOK', NEW j \in Janitors, JanitorList(j)
    PROVE  LeaseInv'
<1>1. PICK S \in SUBSET Ids :
          /\ S \subseteq Purgeable
          /\ purge[j].pc = "idle"
          /\ purge' = [purge EXCEPT ![j] = [pc |-> "purge_blob", todo |-> S, id |-> NoId]]
  BY DEF JanitorList, Listing
<1>2. UNCHANGED <<record, blob, clock, req, faults, term, paid, cut, gone>>
  BY DEF JanitorList
<1>a. \A id \in S : Stored(id)
  BY <1>1 DEF Purgeable
<1>b. \A id \in S : record[id].expires < clock \/ record[id].expires >= TextLimit
  BY <1>1 DEF Purgeable, TextBefore
<1> USE DEF LeaseInv
<1>3. IdsSold'
  BY <1>1, <1>2, <1>a DEF IdsSold
<1>4. StoreAlone'
  BY <1>1, <1>2, <1>a DEF StoreAlone
<1>5. WritesPaid'
  BY <1>2 DEF WritesPaid
<1>6. RemovalsHalfDone'
  BY <1>1, <1>2 DEF RemovalsHalfDone
<1>7. RecordHasBlob'
  BY <1>1, <1>2 DEF RecordHasBlob
<1>8. BlobHasRecord'
  BY <1>2 DEF BlobHasRecord
<1>9. LeaseNeverExceedsPaid'
  BY <1>2 DEF LeaseNeverExceedsPaid
<1>10. DeleteIsFinal'
  BY <1>2 DEF DeleteIsFinal
<1>11. AccessStillHolds'
  BY <1>2 DEF AccessStillHolds
<1>12. TermKept'
  <2>1. ASSUME NEW id \in S PROVE term[id] < clock \/ paid[id] >= TextLimit
    <3>1. /\ term[id] <= record[id].expires /\ record[id].expires <= paid[id]
          /\ record[id].expires \in Nat /\ term[id] \in Nat /\ paid[id] \in Nat
      BY <1>a DEF TermKept, LeaseNeverExceedsPaid
    <3> QED BY <1>b, <3>1, TextAssumption
  <2> QED BY <1>1, <1>2, <2>1 DEF TermKept
<1> QED BY <1>3, <1>4, <1>5, <1>6, <1>7, <1>8, <1>9, <1>10, <1>11, <1>12

(* The janitor takes the blob of a row it listed as expired. *)
LEMMA JanitorBlobKeeps ==
    ASSUME LeaseInv, TypeOK', NEW j \in Janitors, JanitorBlob(j)
    PROVE  LeaseInv'
<1> USE DEF LeaseInv, JanitorBlob, history
<1>1. IdsSold'
  BY DEF IdsSold
<1>2. StoreAlone'
  BY DEF StoreAlone
<1>3. WritesPaid'
  BY DEF WritesPaid
<1>4. RemovalsHalfDone'
  BY DEF RemovalsHalfDone
<1>5. RecordHasBlob'
  BY DEF RecordHasBlob
<1>6. BlobHasRecord'
  BY DEF BlobHasRecord
<1>7. LeaseNeverExceedsPaid'
  BY DEF LeaseNeverExceedsPaid
<1>8. DeleteIsFinal'
  BY DEF DeleteIsFinal
<1>9. AccessStillHolds'
  BY DEF AccessStillHolds
<1>10. TermKept'
  BY DEF TermKept
<1> QED BY <1>1, <1>2, <1>3, <1>4, <1>5, <1>6, <1>7, <1>8, <1>9, <1>10

(* The janitor takes the row after its blob. *)
LEMMA JanitorRecordKeeps ==
    ASSUME LeaseInv, TypeOK', NEW j \in Janitors, JanitorRecord(j)
    PROVE  LeaseInv'
<1> USE DEF LeaseInv, JanitorRecord, history
<1>1. IdsSold'
  BY DEF IdsSold
<1>2. StoreAlone'
  BY DEF StoreAlone, IdsSold
<1>3. WritesPaid'
  BY DEF WritesPaid
<1>4. RemovalsHalfDone'
  BY DEF RemovalsHalfDone
<1>5. RecordHasBlob'
  BY DEF RecordHasBlob
<1>6. BlobHasRecord'
  BY DEF BlobHasRecord, RemovalsHalfDone
<1>7. LeaseNeverExceedsPaid'
  BY DEF LeaseNeverExceedsPaid
<1>8. DeleteIsFinal'
  BY DEF DeleteIsFinal, RemovalsHalfDone
<1>9. AccessStillHolds'
  BY DEF AccessStillHolds
<1>10. TermKept'
  BY DEF TermKept
<1> QED BY <1>1, <1>2, <1>3, <1>4, <1>5, <1>6, <1>7, <1>8, <1>9, <1>10

(* A janitor run that stops between blob and row is on record in cut. *)
LEMMA JanitorLostKeeps ==
    ASSUME LeaseInv, TypeOK', NEW j \in Janitors, JanitorLost(j)
    PROVE  LeaseInv'
BY SMTT(30) DEF LeaseInv, IdsSold, StoreAlone, WritesPaid, RemovalsHalfDone, RecordHasBlob, BlobHasRecord,
   LeaseNeverExceedsPaid, DeleteIsFinal, AccessStillHolds, TermKept, JanitorLost, history

(* Time only lets leases lapse. *)
LEMMA TickKeeps ==
    ASSUME LeaseInv, TypeOK', Tick
    PROVE  LeaseInv'
BY SMTT(30) DEF LeaseInv, IdsSold, StoreAlone, WritesPaid, RemovalsHalfDone, RecordHasBlob, BlobHasRecord,
   LeaseNeverExceedsPaid, DeleteIsFinal, AccessStillHolds, TermKept, Tick, history

-----------------------------------------------------------------------------
(* The invariant of every reachable state. *)
THEOREM LeaseInvariant == Spec => []LeaseInv
<1>1. Init => LeaseInv
  BY TypeInit DEF Init, LeaseInv, IdsSold, StoreAlone, WritesPaid, RemovalsHalfDone, RecordHasBlob,
     BlobHasRecord, LeaseNeverExceedsPaid, DeleteIsFinal, AccessStillHolds, TermKept
<1>2. LeaseInv /\ [Next]_vars => LeaseInv'
  <2> SUFFICES ASSUME LeaseInv, [Next]_vars PROVE LeaseInv'
    OBVIOUS
  <2>0. TypeOK'
    BY TypeStep DEF LeaseInv
  <2>1. ASSUME NEW r \in Requests, RequestBegins(r) PROVE LeaseInv'
    BY <2>0, <2>1, StoreBeginKeeps, RetrieveLookupKeeps, DeleteLookupKeeps, ExtendLookupKeeps
       DEF RequestBegins
  <2>2. ASSUME NEW r \in Requests, RequestResumes(r) PROVE LeaseInv'
    BY <2>0, <2>2, StoreBilledKeeps, StorePutKeeps, StoreInsertKeeps, BillingRefusedKeeps,
       RetrieveGetKeeps, RetrieveBilledKeeps, DeleteBlobKeeps, DeleteRecordKeeps,
       ExtendBilledKeeps, ExtendUpdateKeeps
       DEF RequestResumes
  <2>3. ASSUME NEW r \in Requests, RequestLost(r) PROVE LeaseInv'
    BY <2>0, <2>3, RequestLostKeeps
  <2>4. ASSUME NEW j \in Janitors, JanitorRun(j) PROVE LeaseInv'
    BY <2>0, <2>4, JanitorListKeeps, JanitorBlobKeeps, JanitorRecordKeeps DEF JanitorRun
  <2>5. ASSUME NEW j \in Janitors, JanitorLost(j) PROVE LeaseInv'
    BY <2>0, <2>5, JanitorLostKeeps
  <2>6. CASE Tick
    BY <2>0, <2>6, TickKeeps
  <2>7. CASE UNCHANGED vars
    BY <2>7 DEF vars, LeaseInv, IdsSold, StoreAlone, WritesPaid, RemovalsHalfDone,
       RecordHasBlob, BlobHasRecord, LeaseNeverExceedsPaid, DeleteIsFinal,
       AccessStillHolds, TermKept
  <2> QED BY <2>1, <2>2, <2>3, <2>4, <2>5, <2>6, <2>7 DEF Next
<1> QED BY <1>1, <1>2, PTL DEF Spec

(* No lease in the table is without its ciphertext unless it is being removed. *)
THEOREM RecordsHaveBlobs == Spec => []RecordHasBlob
BY LeaseInvariant, PTL DEF LeaseInv

(* No ciphertext is without a row unless its store is under way or was cut. *)
THEOREM BlobsHaveRecords == Spec => []BlobHasRecord
BY LeaseInvariant, PTL DEF LeaseInv

(* No interleaving of extensions makes a lease longer than what was paid. *)
THEOREM NoFreeTime == Spec => []LeaseNeverExceedsPaid
BY LeaseInvariant, PTL DEF LeaseInv

(* A lease reported removed stays removed. *)
THEOREM RemovalIsFinal == Spec => []DeleteIsFinal
BY LeaseInvariant, PTL DEF LeaseInv

(* An access check stays true until the handler acts on the lease. *)
THEOREM AccessIsStable == Spec => []AccessStillHolds
BY LeaseInvariant, PTL DEF LeaseInv

(* A row goes by its owner's delete, or by a janitor run that has it listed. *)
LEMMA RowTakenBy ==
    ASSUME LeaseInv, Next, NEW id \in Ids, Stored(id), record'[id] = NoRecord
    PROVE  \/ OwnerDeletes(id)
           \/ \E j \in Janitors : purge[j].pc # "idle" /\ id \in purge[j].todo
<1>1. ASSUME NEW r \in Requests, RequestBegins(r) PROVE FALSE
  BY <1>1 DEF RequestBegins, StoreBegin, RetrieveLookup, DeleteLookup, ExtendLookup
<1>2. ASSUME NEW r \in Requests, DeleteRecord(r) PROVE OwnerDeletes(id)
  BY <1>2 DEF DeleteRecord, Reply, LeaseInv, AccessStillHolds, OwnerDeletes
<1>3. ASSUME NEW r \in Requests, StoreInsert(r) PROVE FALSE
  BY <1>3, SentinelAssumption DEF StoreInsert, Reply, LeaseInv
<1>4. ASSUME NEW r \in Requests, ExtendUpdate(r) PROVE FALSE
  BY SMTT(30), <1>4, SentinelAssumption DEF ExtendUpdate, Reply, UpdateExpiration, LeaseInv
<1>5. ASSUME NEW r \in Requests, RequestResumes(r), ~DeleteRecord(r) PROVE FALSE
  BY <1>3, <1>4, <1>5 DEF RequestResumes, StoreBilled, StorePut, BillingRefused, RetrieveGet,
     RetrieveBilled, DeleteBlob, ExtendBilled
<1>6. ASSUME NEW j \in Janitors, JanitorRun(j)
      PROVE  purge[j].pc # "idle" /\ id \in purge[j].todo
  <2>1. ~JanitorList(j) /\ ~JanitorBlob(j)
    BY DEF JanitorList, JanitorBlob
  <2>2. JanitorRecord(j)
    BY <1>6, <2>1 DEF JanitorRun
  <2>3. purge[j].pc = "purge_record" /\ purge[j].id = id
    BY <2>2 DEF JanitorRecord
  <2> QED BY <2>3 DEF LeaseInv, IdsSold
<1>7. ASSUME NEW r \in Requests, RequestLost(r) PROVE FALSE
  BY <1>7 DEF RequestLost
<1>8. ASSUME NEW j \in Janitors, JanitorLost(j) PROVE FALSE
  BY <1>8 DEF JanitorLost
<1>9. ~Tick
  BY DEF Tick
<1> QED BY <1>1, <1>2, <1>5, <1>6, <1>7, <1>8, <1>9 DEF Next

(* Only its owner's delete takes a row before the term it was bought for ends, *)
(* as long as no time beyond the year 9999 was paid for it.                    *)
THEOREM TermIsKept == Spec => NotPurgedWithinTerm
<1> DEFINE Kept == \A id \in Ids : Stored(id) /\ record'[id] = NoRecord =>
                       clock > term[id] \/ paid[id] >= TextLimit \/ OwnerDeletes(id)
<1>1. LeaseInv /\ [Next]_vars => [Kept]_vars
  <2> SUFFICES ASSUME LeaseInv, Next, NEW id \in Ids, Stored(id), record'[id] = NoRecord
               PROVE  clock > term[id] \/ paid[id] >= TextLimit \/ OwnerDeletes(id)
    BY DEF Kept
  <2>1. ASSUME NEW j \in Janitors, purge[j].pc # "idle", id \in purge[j].todo
        PROVE  clock > term[id] \/ paid[id] >= TextLimit
    BY <2>1 DEF LeaseInv, TermKept
  <2> QED BY <2>1, RowTakenBy
<1> QED BY <1>1, LeaseInvariant, PTL DEF Spec, NotPurgedWithinTerm, Kept

-----------------------------------------------------------------------------
(***************************************************************************)
(* What was paid for a lease is what its row says and, unless a janitor    *)
(* run had it listed while it was extended, what it gets, as long as no two *)
(* extensions of it overlap and none stops between its payment and its     *)
(* update.                                                                 *)
(***************************************************************************)

\* A store writes what was paid for, and an extension that has its lease to
\* itself read all that was paid before and will write all that is paid then.
PaidExact ==
    /\ \A r \in Requests :
           req[r].pc \in {"store_put", "store_insert"} => req[r].expires = paid[req[r].id]
    /\ \A r \in Requests :
           req[r].pc \in ExtendSteps /\ req[r].id \notin raced =>
               /\ \A q \in Requests \ {r} : req[q].pc \in ExtendSteps => req[q].id # req[r].id
               /\ req[r].pc = "extend_billing" => req[r].expires = paid[req[r].id]
               /\ req[r].pc = "extend_update" => ExtendedExpiry(r) = paid[req[r].id]

PaidInv == LeaseInv /\ PaidExact /\ PaidTimeStands

(* Steps of a request that leave rows and payments alone and are no extension. *)
LEMMA PaidUntouched ==
    ASSUME PaidInv, NEW r \in Requests,
           \A q \in Requests \ {r} : req'[q] = req[q],
           req[r].pc # "extend_update", req'[r].pc \notin ExtendSteps,
           req'[r].pc \in {"store_put", "store_insert"} =>
               /\ req[r].pc \in {"store_put", "store_insert"}
               /\ req'[r].id = req[r].id /\ req'[r].expires = req[r].expires,
           UNCHANGED <<record, paid>>, raced \subseteq raced'
    PROVE  PaidExact' /\ PaidTimeStands'
<1> USE DEF PaidInv, LeaseInv
<1>1. PaidExact'
  BY DEF PaidExact
<1>2. PaidTimeStands'
  <2> SUFFICES ASSUME NEW id \in Ids, id \notin raced', Stored(id)'
               PROVE  (\/ record[id].expires = paid[id]
                       \/ \E q \in Requests : /\ req[q].pc = "extend_update" /\ req[q].id = id
                                              /\ ExtendedExpiry(q) = paid[id])'
    BY DEF PaidTimeStands
  <2>1. CASE record[id].expires = paid[id]
    BY <2>1
  <2>2. ASSUME NEW q \in Requests, req[q].pc = "extend_update", req[q].id = id,
               ExtendedExpiry(q) = paid[id]
        PROVE  /\ req'[q].pc = "extend_update" /\ req'[q].id = id
               /\ ExtendedExpiry(q)' = paid'[id]
    BY <2>2
  <2> QED BY <2>1, <2>2 DEF PaidTimeStands
<1> QED BY <1>1, <1>2

(* Arrivals: an extension reads all that was paid, or the lease is contended. *)
LEMMA BeginPays ==
    ASSUME PaidInv, NEW r \in Requests, RequestBegins(r)
    PROVE  PaidExact' /\ PaidTimeStands'
<1> USE DEF PaidInv, LeaseInv, Begin, history
<1>1. ASSUME NEW did \in Dids, NEW inbox \in Inbox \cup {NoInbox}, NEW hours \in Hours,
             StoreBegin(r, did, inbox, hours)
      PROVE  PaidExact' /\ PaidTimeStands'
  BY <1>1, PaidUntouched DEF StoreBegin
<1>2. ASSUME NEW did \in Dids, NEW alias \in Aliases, NEW id \in Ids,
             RetrieveLookup(r, did, alias, id)
      PROVE  PaidExact' /\ PaidTimeStands'
  BY <1>2, PaidUntouched DEF RetrieveLookup
<1>3. ASSUME NEW did \in Dids, NEW id \in Ids, DeleteLookup(r, did, id)
      PROVE  PaidExact' /\ PaidTimeStands'
  BY <1>3, PaidUntouched DEF DeleteLookup
<1>4. ASSUME NEW did \in Dids, NEW id \in Ids, NEW hours \in Hours,
             ExtendLookup(r, did, id, hours)
      PROVE  PaidExact' /\ PaidTimeStands'
  <2> USE <1>4 DEF ExtendLookup
  <2>1. /\ req[r].pc = "idle" /\ \A q \in Requests \ {r} : req'[q] = req[q]
        /\ req'[r].pc = "extend_billing" /\ req'[r].id = id
        /\ req'[r].expires = record[id].expires /\ Stored(id)
        /\ raced \subseteq raced' /\ UNCHANGED <<record, paid>>
    OBVIOUS
  <2>2. id \notin raced' => /\ id \notin raced
                            /\ \A q \in Requests : req[q].pc \in ExtendSteps => req[q].id # id
    BY DEF BeingExtended
  <2>3. id \notin raced' => record[id].expires = paid[id]
    BY <2>1, <2>2 DEF PaidTimeStands
  <2> HIDE <1>4 DEF ExtendLookup
  <2>4. PaidExact'
    <3>1. ASSUME NEW q \in Requests, req'[q].pc \in {"store_put", "store_insert"}
          PROVE  req'[q].expires = paid'[req'[q].id]
      BY <2>1, <3>1 DEF PaidExact
    <3>2. ASSUME NEW q \in Requests, req'[q].pc \in ExtendSteps, req'[q].id \notin raced'
          PROVE  /\ \A p \in Requests \ {q} : req'[p].pc \in ExtendSteps => req'[p].id # req'[q].id
                 /\ req'[q].pc = "extend_billing" => req'[q].expires = paid'[req'[q].id]
                 /\ req'[q].pc = "extend_update" => ExtendedExpiry(q)' = paid'[req'[q].id]
      <4>1. CASE q = r
        BY <2>1, <2>2, <2>3, <3>2, <4>1
      <4>2. CASE q # r
        <5>1. req'[q] = req[q] /\ req[q].id \notin raced
          BY <2>1, <3>2, <4>2
        <5>2. /\ \A p \in Requests \ {q} : req[p].pc \in ExtendSteps => req[p].id # req[q].id
              /\ req[q].pc = "extend_billing" => req[q].expires = paid[req[q].id]
              /\ req[q].pc = "extend_update" => ExtendedExpiry(q) = paid[req[q].id]
          BY <3>2, <5>1 DEF PaidExact
        <5>3. req[q].id # id
          BY <2>1, <2>2, <3>2, <5>1
        <5> QED BY <2>1, <5>1, <5>2, <5>3
      <4> QED BY <4>1, <4>2
    <3> QED BY <3>1, <3>2 DEF PaidExact
  <2>5. PaidTimeStands'
    BY <2>1 DEF PaidTimeStands
  <2> QED BY <2>4, <2>5
<1> QED BY <1>1, <1>2, <1>3, <1>4 DEF RequestBegins

(* The sale of a lease: no extension knows its id yet. *)
LEMMA StoreBilledPays ==
    ASSUME PaidInv, NEW r \in Requests, NEW id \in Ids, StoreBilled(r, id)
    PROVE  PaidExact' /\ PaidTimeStands'
<1> USE DEF PaidInv, LeaseInv
<1>1. /\ \A q \in Requests \ {r} : req'[q] = req[q]
      /\ req[r].pc = "store_billing" /\ req'[r].pc = "store_put" /\ req'[r].id = id
      /\ paid' = [paid EXCEPT ![id] = req'[r].expires]
      /\ UNCHANGED <<record, raced>>
  BY DEF StoreBilled
<1>2. /\ \A q \in Requests : req[q].pc \in HoldsId => req[q].id # id
      /\ ~Stored(id)
  BY DEF IdsSold, StoreBilled
<1>3. PaidExact'
  BY <1>1, <1>2 DEF PaidExact
<1>4. PaidTimeStands'
  BY <1>1, <1>2 DEF PaidTimeStands
<1> QED BY <1>3, <1>4

(* The row of a new lease expires when what was paid for it is used up. *)
LEMMA StoreInsertPays ==
    ASSUME PaidInv, NEW r \in Requests, StoreInsert(r)
    PROVE  PaidExact' /\ PaidTimeStands'
<1> USE DEF PaidInv, LeaseInv
<1>1. /\ \A q \in Requests \ {r} : req'[q] = req[q]
      /\ req[r].pc = "store_insert" /\ req'[r].pc = "idle" /\ req[r].id \in Ids
      /\ record'[req[r].id].expires = req[r].expires
      /\ \A id \in Ids \ {req[r].id} : record'[id] = record[id]
      /\ UNCHANGED <<paid, raced>>
  BY DEF StoreInsert, Reply, history
<1>2. PaidExact'
  BY <1>1 DEF PaidExact
<1>3. PaidTimeStands'
  <2> SUFFICES ASSUME NEW id \in Ids, id \notin raced', Stored(id)'
               PROVE  (\/ record[id].expires = paid[id]
                       \/ \E q \in Requests : /\ req[q].pc = "extend_update" /\ req[q].id = id
                                              /\ ExtendedExpiry(q) = paid[id])'
    BY DEF PaidTimeStands
  <2>1. CASE id = req[r].id
    BY <1>1, <2>1 DEF PaidExact
  <2>2. CASE id # req[r].id
    <3>1. \/ record[id].expires = paid[id]
          \/ \E q \in Requests : /\ req[q].pc = "extend_update" /\ req[q].id = id
                                 /\ ExtendedExpiry(q) = paid[id]
      BY <1>1, <2>2 DEF PaidTimeStands
    <3>2. ASSUME NEW q \in Requests, req[q].pc = "extend_update"
          PROVE  req'[q] = req[q]
      BY <1>1, <3>2
    <3> QED BY <1>1, <2>2, <3>1, <3>2
  <2> QED BY <2>1, <2>2
<1> QED BY <1>2, <1>3

(* A row that goes needs no payment. *)
LEMMA RemovalPays ==
    ASSUME PaidInv, NEW id \in Ids,
           \A i \in Ids \ {id} : record'[i] = record[i], record'[id] = NoRecord,
           \A q \in Requests : req'[q] = req[q] \/
               (req[q].pc \notin ExtendSteps /\ req'[q].pc = "idle"),
           UNCHANGED <<paid, raced>>
    PROVE  PaidExact' /\ PaidTimeStands'
<1> USE DEF PaidInv, LeaseInv
<1>1. PaidExact'
  BY DEF PaidExact
<1>2. PaidTimeStands'
  <2> SUFFICES ASSUME NEW i \in Ids, i \notin raced', Stored(i)'
               PROVE  (\/ record[i].expires = paid[i]
                       \/ \E q \in Requests : /\ req[q].pc = "extend_update" /\ req[q].id = i
                                              /\ ExtendedExpiry(q) = paid[i])'
    BY DEF PaidTimeStands
  <2>1. i # id /\ record'[i] = record[i]
    OBVIOUS
  <2>2. \/ record[i].expires = paid[i]
        \/ \E q \in Requests : /\ req[q].pc = "extend_update" /\ req[q].id = i
                               /\ ExtendedExpiry(q) = paid[i]
    BY <2>1 DEF PaidTimeStands
  <2>3. ASSUME NEW q \in Requests, req[q].pc = "extend_update" PROVE req'[q] = req[q]
    BY <2>3
  <2> QED BY <2>1, <2>2, <2>3
<1> QED BY <1>1, <1>2

(* An extension pays for what it adds to all that was paid before. *)
LEMMA ExtendBilledPays ==
    ASSUME PaidInv, NEW r \in Requests, ExtendBilled(r)
    PROVE  PaidExact' /\ PaidTimeStands'
<1> USE DEF PaidInv, LeaseInv
<1> DEFINE lease == req[r].id
<1>1. /\ \A q \in Requests \ {r} : req'[q] = req[q]
      /\ req[r].pc = "extend_billing" /\ req'[r].pc = "extend_update" /\ lease \in Ids
      /\ req'[r].id = lease /\ req'[r].expires = req[r].expires /\ req'[r].hours = req[r].hours
      /\ paid' = [paid EXCEPT ![lease] = @ + req[r].hours]
      /\ UNCHANGED <<record, raced>>
  BY DEF ExtendBilled, Advance
<1>2. lease \notin raced =>
          /\ ExtendedExpiry(r)' = paid'[lease]
          /\ \A q \in Requests \ {r} : req[q].pc \in ExtendSteps => req[q].id # lease
  BY <1>1 DEF PaidExact
<1>3. \A q \in Requests \ {r} : req[q].pc \in {"store_put", "store_insert"} => req[q].id # lease
  BY <1>1 DEF StoreAlone
<1> HIDE DEF lease
<1>4. PaidExact'
  BY <1>1, <1>2, <1>3 DEF PaidExact, lease
<1>5. PaidTimeStands'
  <2> SUFFICES ASSUME NEW id \in Ids, id \notin raced', Stored(id)'
               PROVE  (\/ record[id].expires = paid[id]
                       \/ \E q \in Requests : /\ req[q].pc = "extend_update" /\ req[q].id = id
                                              /\ ExtendedExpiry(q) = paid[id])'
    BY DEF PaidTimeStands
  <2>1. CASE id = lease
    BY <1>1, <1>2, <2>1
  <2>2. CASE id # lease
    BY <1>1, <2>2 DEF PaidTimeStands
  <2> QED BY <2>1, <2>2
<1> QED BY <1>4, <1>5

(* The update writes all that was paid, or the lease is contended. *)
LEMMA ExtendUpdatePays ==
    ASSUME PaidInv, NEW r \in Requests, ExtendUpdate(r)
    PROVE  PaidExact' /\ PaidTimeStands'
<1> USE DEF PaidInv, LeaseInv
<1> DEFINE lease == req[r].id
<1>1. /\ \A q \in Requests \ {r} : req'[q] = req[q]
      /\ req[r].pc = "extend_update" /\ req'[r].pc = "idle" /\ lease \in Ids
      /\ UNCHANGED <<paid, raced>>
  BY DEF ExtendUpdate, Reply, history
<1>2. /\ \A id \in Ids \ {lease} : record'[id] = record[id]
      /\ Stored(lease) => record'[lease].expires = ExtendedExpiry(r)
      /\ ~Stored(lease) => record'[lease] = record[lease]
  BY <1>1 DEF ExtendUpdate, UpdateExpiration
<1>3. lease \notin raced => ExtendedExpiry(r) = paid[lease]
  BY <1>1 DEF PaidExact
<1> HIDE DEF lease
<1>4. PaidExact'
  BY SMTT(30), <1>1 DEF PaidExact
<1>5. PaidTimeStands'
  <2> SUFFICES ASSUME NEW id \in Ids, id \notin raced', Stored(id)'
               PROVE  (\/ record[id].expires = paid[id]
                       \/ \E q \in Requests : /\ req[q].pc = "extend_update" /\ req[q].id = id
                                              /\ ExtendedExpiry(q) = paid[id])'
    BY DEF PaidTimeStands
  <2>1. CASE id = lease
    BY <1>1, <1>2, <1>3, <2>1
  <2>2. CASE id # lease
    <3>1. \/ record[id].expires = paid[id]
          \/ \E q \in Requests : /\ req[q].pc = "extend_update" /\ req[q].id = id
                                 /\ ExtendedExpiry(q) = paid[id]
      BY <1>1, <1>2, <2>2 DEF PaidTimeStands
    <3>2. ASSUME NEW q \in Requests, req[q].id = id
          PROVE  req'[q] = req[q]
      BY <1>1, <2>2, <3>2 DEF lease
    <3> QED BY <1>1, <1>2, <2>2, <3>1, <3>2
  <2> QED BY <2>1, <2>2
<1> QED BY <1>4, <1>5

(* A handler that stops after its extension was paid leaves its mark. *)
LEMMA RequestLostPays ==
    ASSUME PaidInv, NEW r \in Requests, RequestLost(r)
    PROVE  PaidExact' /\ PaidTimeStands'
<1> USE DEF PaidInv, LeaseInv
<1>1. /\ \A q \in Requests \ {r} : req'[q] = req[q]
      /\ req'[r].pc = "idle" /\ UNCHANGED <<record, paid>> /\ raced \subseteq raced'
      /\ req[r].pc = "extend_update" => req[r].id \in raced'
  BY DEF RequestLost
<1>2. PaidExact'
  BY <1>1 DEF PaidExact
<1>3. PaidTimeStands'
  BY <1>1 DEF PaidTimeStands
<1> QED BY <1>2, <1>3

(* The invariant of every reachable state. *)
THEOREM PaidInvariant == Spec => []PaidInv
<1>1. Init => PaidExact /\ PaidTimeStands
  BY DEF Init, PaidExact, PaidTimeStands
<1>2. LeaseInv /\ PaidExact /\ PaidTimeStands /\ [Next]_vars => PaidExact' /\ PaidTimeStands'
  <2> SUFFICES ASSUME PaidInv, [Next]_vars PROVE PaidExact' /\ PaidTimeStands'
    BY DEF PaidInv
  <2> DEFINE Kept == PaidExact' /\ PaidTimeStands'
  <2>1. ASSUME NEW r \in Requests, RequestResumes(r) PROVE Kept
    <3>1. ASSUME StorePut(r) PROVE Kept
      BY <3>1, PaidUntouched DEF StorePut, Advance, history, PaidInv, LeaseInv
    <3>2. ASSUME BillingRefused(r) PROVE Kept
      BY <3>2, PaidUntouched DEF BillingRefused, Billing, Reply, history, PaidInv, LeaseInv
    <3>3. ASSUME RetrieveGet(r) PROVE Kept
      BY <3>3, PaidUntouched DEF RetrieveGet, Advance, Reply, history, PaidInv, LeaseInv
    <3>4. ASSUME RetrieveBilled(r) PROVE Kept
      BY <3>4, PaidUntouched DEF RetrieveBilled, Reply, history, PaidInv, LeaseInv
    <3>5. ASSUME DeleteBlob(r) PROVE Kept
      BY <3>5, PaidUntouched DEF DeleteBlob, Advance, history, PaidInv, LeaseInv
    <3>6. ASSUME DeleteRecord(r) PROVE Kept
      BY <3>6, RemovalPays DEF DeleteRecord, Reply, PaidInv, LeaseInv
    <3> QED BY <2>1, <3>1, <3>2, <3>3, <3>4, <3>5, <3>6, StoreBilledPays, StoreInsertPays,
               ExtendBilledPays, ExtendUpdatePays DEF RequestResumes
  <2>2. ASSUME NEW j \in Janitors, JanitorRecord(j) PROVE Kept
    BY <2>2, RemovalPays DEF JanitorRecord, PaidInv, LeaseInv
  <2>3. ASSUME UNCHANGED <<record, req, paid, raced>> PROVE Kept
    BY <2>3 DEF PaidInv, PaidExact, PaidTimeStands
  <2>4. ASSUME NEW j \in Janitors, JanitorList(j) \/ JanitorBlob(j) \/ JanitorLost(j) PROVE Kept
    BY <2>3, <2>4 DEF JanitorList, JanitorBlob, JanitorLost, history
  <2>5. CASE Tick \/ UNCHANGED vars
    BY <2>3, <2>5 DEF Tick, vars, history
  <2> QED BY <2>1, <2>2, <2>4, <2>5, BeginPays, RequestLostPays DEF Next, JanitorRun
<1> QED BY <1>1, <1>2, LeaseInvariant, PTL DEF Spec, PaidInv

(* As long as its row is there, a lease whose extensions do not overlap is set *)
(* to expire at the end of what was paid.                                      *)
THEOREM PaidIsKept == Spec => []PaidTimeStands
BY PaidInvariant, PTL DEF PaidInv

\* What a janitor run has listed is used up, or was paid beyond the year 9999,
\* and stays so: an extension that would change it is on record in late.
ListedUsedUp ==
    \A j \in Janitors : purge[j].pc # "idle" =>
        \A id \in purge[j].todo \ (raced \cup late) :
            /\ paid[id] < clock \/ paid[id] >= TextLimit
            /\ ~BeingExtended(id)

(* Steps that leave the listings, the payments and the extensions alone. *)
LEMMA ListedUntouched ==
    ASSUME PaidInv, ListedUsedUp,
           \A j \in Janitors : purge'[j].pc # "idle" =>
               purge[j].pc # "idle" /\ purge'[j].todo \subseteq purge[j].todo,
           \A r \in Requests : req'[r].pc \in ExtendSteps =>
               req[r].pc \in ExtendSteps /\ req'[r].id = req[r].id,
           paid' = paid, clock' >= clock, clock' \in Nat,
           raced \subseteq raced', late \subseteq late'
    PROVE  ListedUsedUp'
<1> USE TextAssumption DEF PaidInv, LeaseInv, ListedUsedUp, BeingExtended
<1> SUFFICES ASSUME NEW j \in Janitors, purge'[j].pc # "idle",
                    NEW id \in purge'[j].todo \ (raced' \cup late')
             PROVE  /\ paid[id] < clock' \/ paid[id] >= TextLimit
                    /\ ~BeingExtended(id)'
  OBVIOUS
<1>1. purge[j].pc # "idle" /\ id \in purge[j].todo \ (raced \cup late) /\ id \in Ids
  OBVIOUS
<1>2. paid[id] \in Nat /\ (paid[id] < clock \/ paid[id] >= TextLimit) /\ ~BeingExtended(id)
  BY <1>1
<1> QED BY <1>2

(* An extension that arrives after the listing is late; a row that is listed is *)
(* used up unless an extension of it is at work.                                *)
LEMMA ListedStep == PaidInv /\ ListedUsedUp /\ [Next]_vars => ListedUsedUp'
<1> SUFFICES ASSUME PaidInv, ListedUsedUp, [Next]_vars PROVE ListedUsedUp'
  OBVIOUS
<1> USE DEF PaidInv, LeaseInv, history
<1>1. ASSUME NEW r \in Requests, RequestBegins(r) PROVE ListedUsedUp'
  <2>1. ASSUME NEW did \in Dids, NEW inbox \in Inbox \cup {NoInbox}, NEW hours \in Hours,
               StoreBegin(r, did, inbox, hours)
        PROVE  ListedUsedUp'
    BY <2>1, ListedUntouched DEF StoreBegin, Begin
  <2>2. ASSUME NEW did \in Dids, NEW alias \in Aliases, NEW id \in Ids,
               RetrieveLookup(r, did, alias, id)
        PROVE  ListedUsedUp'
    BY <2>2, ListedUntouched DEF RetrieveLookup, Begin
  <2>3. ASSUME NEW did \in Dids, NEW id \in Ids, DeleteLookup(r, did, id)
        PROVE  ListedUsedUp'
    BY <2>3, ListedUntouched DEF DeleteLookup, Begin
  <2>4. ASSUME NEW did \in Dids, NEW id \in Ids, NEW hours \in Hours,
               ExtendLookup(r, did, id, hours)
        PROVE  ListedUsedUp'
    <3>1. /\ UNCHANGED <<purge, paid, clock>> /\ raced \subseteq raced' /\ late \subseteq late'
          /\ \A q \in Requests \ {r} : req'[q] = req[q]
          /\ req'[r].id = id
          /\ BeingPurged(id) => id \in late'
      BY <2>4 DEF ExtendLookup, Begin
    <3> HIDE DEF PaidInv, LeaseInv
    <3> SUFFICES ASSUME NEW j \in Janitors, purge[j].pc # "idle",
                        NEW i \in purge[j].todo, i \notin raced', i \notin late'
                 PROVE  /\ paid[i] < clock \/ paid[i] >= TextLimit
                        /\ ~BeingExtended(i)'
      BY <3>1 DEF ListedUsedUp
    <3>2. i # id
      BY <3>1 DEF BeingPurged
    <3>3. (paid[i] < clock \/ paid[i] >= TextLimit) /\ ~BeingExtended(i)
      BY <3>1 DEF ListedUsedUp
    <3>4. ASSUME NEW q \in Requests, req'[q].pc \in ExtendSteps PROVE req'[q].id # i
      <4>1. CASE q = r
        BY <3>1, <3>2, <4>1
      <4>2. CASE q # r
        BY <3>1, <3>3, <3>4, <4>2 DEF BeingExtended
      <4> QED BY <4>1, <4>2
    <3> QED BY <3>1, <3>3, <3>4 DEF BeingExtended
  <2> QED BY <1>1, <2>1, <2>2, <2>3, <2>4 DEF RequestBegins
<1>2. ASSUME NEW r \in Requests, RequestResumes(r) PROVE ListedUsedUp'
  <2>1. ASSUME NEW id \in Ids, StoreBilled(r, id) PROVE ListedUsedUp'
    <3>1. /\ UNCHANGED <<purge, clock, raced, late>> /\ Fresh(id)
          /\ \A q \in Requests \ {r} : req'[q] = req[q]
          /\ req'[r].pc = "store_put"
          /\ \A i \in Ids \ {id} : paid'[i] = paid[i]
      BY <2>1 DEF StoreBilled
    <3>2. \A j \in Janitors : purge[j].pc # "idle" => id \notin purge[j].todo
      BY <3>1 DEF IdsSold
    <3> QED BY <3>1, <3>2 DEF ListedUsedUp, BeingExtended
  <2>2. ASSUME ExtendBilled(r) PROVE ListedUsedUp'
    <3>1. /\ UNCHANGED <<purge, clock, raced, late>>
          /\ req[r].pc \in ExtendSteps /\ req[r].id \in Ids
          /\ \A q \in Requests : /\ req'[q].id = req[q].id
                                 /\ req'[q].pc \in ExtendSteps <=> req[q].pc \in ExtendSteps
          /\ \A i \in Ids \ {req[r].id} : paid'[i] = paid[i]
      BY <2>2 DEF ExtendBilled, Advance
    <3>2. BeingExtended(req[r].id) /\ \A i \in Ids : BeingExtended(i)' <=> BeingExtended(i)
      BY <3>1 DEF BeingExtended
    <3>3. \A j \in Janitors : purge[j].pc # "idle" =>
              \A i \in purge[j].todo \ (raced \cup late) : i \in Ids /\ i # req[r].id
      BY <3>2 DEF ListedUsedUp
    <3> QED BY <3>1, <3>2, <3>3 DEF ListedUsedUp
  <2>3. ASSUME StorePut(r) PROVE ListedUsedUp'
    BY <2>3, ListedUntouched DEF StorePut, Advance
  <2>4. ASSUME StoreInsert(r) \/ BillingRefused(r) \/ RetrieveBilled(r) \/ DeleteRecord(r)
        PROVE  ListedUsedUp'
    BY <2>4, ListedUntouched DEF StoreInsert, BillingRefused, RetrieveBilled, DeleteRecord, Reply
  <2>5. ASSUME RetrieveGet(r) PROVE ListedUsedUp'
    BY <2>5, ListedUntouched DEF RetrieveGet, Advance, Reply
  <2>6. ASSUME DeleteBlob(r) PROVE ListedUsedUp'
    BY <2>6, ListedUntouched DEF DeleteBlob, Advance
  <2>7. ASSUME ExtendUpdate(r) PROVE ListedUsedUp'
    BY <2>7, ListedUntouched DEF ExtendUpdate, Reply
  <2> QED BY <1>2, <2>1, <2>2, <2>3, <2>4, <2>5, <2>6, <2>7 DEF RequestResumes
<1>3. ASSUME NEW r \in Requests, RequestLost(r) PROVE ListedUsedUp'
  BY <1>3, ListedUntouched DEF RequestLost
<1>4. ASSUME NEW j \in Janitors, JanitorList(j) PROVE ListedUsedUp'
  <2>1. PICK S \in SUBSET Ids :
            /\ S \subseteq Purgeable
            /\ purge' = [purge EXCEPT ![j] = [pc |-> "purge_blob", todo |-> S, id |-> NoId]]
            /\ late' = late \cup {id \in S : BeingExtended(id)}
    BY <1>4 DEF JanitorList, Listing
  <2>2. UNCHANGED <<req, paid, clock, raced>>
    BY <1>4 DEF JanitorList
  <2>3. ASSUME NEW id \in S, id \notin raced', id \notin late'
        PROVE  (paid[id] < clock \/ paid[id] >= TextLimit) /\ ~BeingExtended(id)
    <3>1. ~BeingExtended(id) /\ id \in Ids /\ id \notin raced /\ id \in Purgeable
      BY <2>1, <2>2, <2>3
    <3>2. record[id].expires = paid[id]
      BY <3>1 DEF PaidTimeStands, BeingExtended, Purgeable
    <3> QED BY <3>1, <3>2 DEF Purgeable, TextBefore
  <2>4. \A id \in Ids : BeingExtended(id)' <=> BeingExtended(id)
    BY <2>2 DEF BeingExtended
  <2> QED BY <2>1, <2>2, <2>3, <2>4 DEF ListedUsedUp
<1>5. ASSUME NEW j \in Janitors, JanitorBlob(j) PROVE ListedUsedUp'
  BY <1>5, ListedUntouched DEF JanitorBlob
<1>6. ASSUME NEW j \in Janitors, JanitorRecord(j) PROVE ListedUsedUp'
  BY <1>6, ListedUntouched DEF JanitorRecord
<1>7. ASSUME NEW j \in Janitors, JanitorLost(j) PROVE ListedUsedUp'
  BY <1>7, ListedUntouched DEF JanitorLost
<1>8. CASE Tick
  BY <1>8, ListedUntouched DEF Tick
<1>9. CASE UNCHANGED vars
  BY <1>9, ListedUntouched DEF vars
<1> QED BY <1>1, <1>2, <1>3, <1>4, <1>5, <1>6, <1>7, <1>8, <1>9 DEF Next, JanitorRun

(* No row goes before the end of all that was paid unless its owner deletes it, *)
(* its extensions raced each other or a janitor run that had it listed, or time *)
(* beyond the year 9999 was paid for it.                                        *)
THEOREM PaidTimeIsNotPurged == Spec => PaidTimeNotPurged
<1> DEFINE Kept == \A id \in Ids \ (raced \cup late) : Stored(id) /\ record'[id] = NoRecord =>
                       clock > paid[id] \/ paid[id] >= TextLimit \/ OwnerDeletes(id)
<1>1. Init => ListedUsedUp
  BY DEF Init, ListedUsedUp
<1>2. PaidInv /\ ListedUsedUp /\ [Next]_vars => [Kept]_vars
  <2> SUFFICES ASSUME PaidInv, ListedUsedUp, Next, NEW id \in Ids, id \notin raced, id \notin late,
                      Stored(id), record'[id] = NoRecord
               PROVE  clock > paid[id] \/ paid[id] >= TextLimit \/ OwnerDeletes(id)
    BY DEF Kept
  <2>1. ASSUME NEW j \in Janitors, purge[j].pc # "idle", id \in purge[j].todo
        PROVE  clock > paid[id] \/ paid[id] >= TextLimit
    BY <2>1 DEF ListedUsedUp, PaidInv, LeaseInv
  <2> QED BY <2>1, RowTakenBy DEF PaidInv
<1> QED BY <1>1, <1>2, ListedStep, PaidInvariant, PTL DEF Spec, PaidTimeNotPurged, Kept

=============================================================================
