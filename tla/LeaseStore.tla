------------------------------ MODULE LeaseStore ------------------------------
(***************************************************************************)
(* The leases of a didbox402 node: the storage_records table in D1, the    *)
(* ciphertext objects in R2, the handlers of packages/server/src/index.ts  *)
(* that touch them (store, retrieve, delete, extend) and the janitor.      *)
(*                                                                         *)
(* Every handler is an async function, and requests interleave at its      *)
(* awaits: what runs between two awaits that touch the database, the       *)
(* bucket or the billing gate is one action here, and what a handler read  *)
(* before an await and uses after it is kept in its request record.  A     *)
(* handler may stop at any await (an exception answered 500 by onError, or *)
(* an evicted worker): RequestLost and JanitorLost.                        *)
(*                                                                         *)
(* Replies that change nothing (400, 403, 404, 410 at the first lookup)    *)
(* are stuttering steps and have no action.                                *)
(***************************************************************************)
EXTENDS Integers, FiniteSets

CONSTANTS
    Ids,            \* storage ids crypto.randomUUID may return
    Dids,           \* callers, after the signature check
    Aliases,        \* inbox aliases
    Requests,       \* slots for store, retrieve, delete and extend requests
    Janitors,       \* slots for GET /janitor/purge
    Hours,          \* values clients send as durationHours, additionalHours
    MaxLeaseHours,  \* the 8760 of POST /store
    Batch,          \* the 50 of getExpiredRecords
    EgressPriced,   \* EGRESS_RATE_PER_MB > 0
    TextLimit,      \* first instant of the year 10000
    MaxTime,        \* bound: last instant of the model's clock
    MaxPaid,        \* bound: latest expiry a client pays for
    MaxFaults,      \* bound: interrupted handlers
    NoRecord, NoInbox, NoDid, NoId

ASSUME HoursAssumption == Hours \subseteq Nat
ASSUME BatchAssumption == Batch \in Nat \ {0}
ASSUME BoundsAssumption == MaxTime \in Nat /\ MaxPaid \in Nat /\ MaxFaults \in Nat
ASSUME LeaseAssumption == MaxLeaseHours \in Nat
ASSUME TextAssumption == TextLimit \in Nat

Inbox == Dids \X Aliases        \* hashDid(did + alias)

Record == [owner : Dids, recipient : Inbox \cup {NoInbox}, expires : Nat]

ASSUME SentinelAssumption == NoId \notin Ids /\ NoRecord \notin Record

VARIABLES
    record,   \* storage_records: Ids -> Record or NoRecord
    blob,     \* keys of the R2 bucket
    clock,    \* Date.now(), in hours
    req,      \* the request in each slot
    purge,    \* the janitor run in each slot
    faults,   \* interruptions so far
    \* History, read by properties only:
    term,     \* Ids -> expiry fixed when the lease was bought, 0 before
    paid,     \* Ids -> latest expiry the billing gate has taken payment for
    cut,      \* <<step, id>> of handlers that stopped between two writes
    gone,     \* ids whose removal was reported (204, or in "purged")
    raced,    \* ids of which two extensions overlapped, or one stopped once paid
    late      \* ids listed for a purge while an extension of them was at work

vars == <<record, blob, clock, req, purge, faults, term, paid, cut, gone, raced, late>>
history == <<term, paid, cut, gone, raced, late>>

-----------------------------------------------------------------------------
\* Where a handler waits: the name says what its next step will do.
StoreSteps == {"store_billing", "store_put", "store_insert"}
RetrieveSteps == {"retrieve_get", "retrieve_billing"}
DeleteSteps == {"delete_blob", "delete_record"}
ExtendSteps == {"extend_billing", "extend_update"}
OnLease == RetrieveSteps \cup DeleteSteps \cup ExtendSteps
HoldsId == OnLease \cup {"store_put", "store_insert"}
Billing == {"store_billing", "retrieve_billing", "extend_billing"}

Request == [pc : {"idle"} \cup StoreSteps \cup OnLease,
            did : Dids \cup {NoDid},
            inbox : Inbox \cup {NoInbox},  \* the recipient's, or the reader's own
            id : Ids \cup {NoId},
            hours : Nat,
            expires : Nat]                 \* expiresAt, or record.expires as read

Idle == [pc |-> "idle", did |-> NoDid, inbox |-> NoInbox, id |-> NoId,
         hours |-> 0, expires |-> 0]

Purge == [pc : {"idle", "purge_blob", "purge_record"},
          todo : SUBSET Ids,               \* the rest of the listing
          id : Ids \cup {NoId}]

Rest == [pc |-> "idle", todo |-> {}, id |-> NoId]

Init ==
    /\ record = [id \in Ids |-> NoRecord]
    /\ blob = {}
    /\ clock = 0
    /\ req = [r \in Requests |-> Idle]
    /\ purge = [j \in Janitors |-> Rest]
    /\ faults = 0
    /\ term = [id \in Ids |-> 0]
    /\ paid = [id \in Ids |-> 0]
    /\ cut = {}
    /\ gone = {}
    /\ raced = {}
    /\ late = {}

-----------------------------------------------------------------------------
(* Conditions of the handlers. *)

Stored(id) == record[id] # NoRecord

\* Retrieve and delete answer 410 when new Date() > expires_at.
Expired(id) == clock > record[id].expires

Owns(did, id) == record[id].owner = did

MayRead(did, inbox, id) == Owns(did, id) \/ record[id].recipient = inbox

\* The queries compare the texts of toISOString: from the year 10000 on a date
\* has a sign and six digits, and '+' sorts before every digit.
TextBefore(s, t) == IF (s >= TextLimit) = (t >= TextLimit) THEN s < t ELSE s >= TextLimit

\* Mutant: the janitor's comparison takes a lease at its last instant.
PurgeableAtExpiry == {id \in Ids : Stored(id) /\ ~TextBefore(clock, record[id].expires)}

\* getExpiredRecords: WHERE expires_at < now.
Purgeable == {id \in Ids : Stored(id) /\ TextBefore(record[id].expires, clock)}

\* Mutant: ids that may come back once their record is gone.
FreshIfNotStored(id) == ~Stored(id)

\* randomUUID never returns an id twice.
Fresh(id) == term[id] = 0

\* Mutant: a lapsed lease is renewed from the present moment.
ExtendedFromNow(r) == (IF clock > req[r].expires THEN clock ELSE req[r].expires) + req[r].hours
\* Mutant: the sign of the extension is lost.
ShortenedExpiry(r) == req[r].expires - req[r].hours

\* Extend adds to the expires_at it read before billing.
ExtendedExpiry(r) == req[r].expires + req[r].hours

\* Mutant: the update inserts the row when there is none.
UpsertExpiration(id, t) ==
    record' = [record EXCEPT ![id] =
                   IF Stored(id) THEN [@ EXCEPT !.expires = t]
                   ELSE [owner |-> CHOOSE did \in Dids : TRUE,
                         recipient |-> NoInbox, expires |-> t]]

\* UPDATE storage_records SET expires_at = ? WHERE id = ?
UpdateExpiration(id, t) ==
    record' = IF Stored(id) THEN [record EXCEPT ![id].expires = t] ELSE record

Begin(r, pc, did, inbox, id, hours, expires) ==
    /\ req[r] = Idle
    /\ req' = [req EXCEPT ![r] = [pc |-> pc, did |-> did, inbox |-> inbox,
                                  id |-> id, hours |-> hours, expires |-> expires]]

Advance(r, from, to) ==
    /\ req[r].pc = from
    /\ req' = [req EXCEPT ![r].pc = to]

Reply(r, from) ==
    /\ req[r].pc = from
    /\ req' = [req EXCEPT ![r] = Idle]

-----------------------------------------------------------------------------
(* POST /store *)

StoreBegin(r, did, inbox, hours) ==
    /\ hours >= 1 /\ hours <= MaxLeaseHours
    /\ Begin(r, "store_billing", did, inbox, NoId, hours, 0)
    /\ UNCHANGED <<record, blob, clock, purge, faults, history>>

\* The gate authorises; the id and the expiry are fixed before the first write.
StoreBilled(r, id) ==
    LET expires == clock + req[r].hours IN
    /\ req[r].pc = "store_billing"
    /\ Fresh(id)
    /\ req' = [req EXCEPT ![r] = [@ EXCEPT !.pc = "store_put", !.id = id,
                                          !.expires = expires]]
    /\ term' = [term EXCEPT ![id] = expires]
    /\ paid' = [paid EXCEPT ![id] = expires]
    /\ UNCHANGED <<record, blob, clock, purge, faults, cut, gone, raced, late>>

\* Mutant: a failed upload is swallowed.
StorePutUnchecked(r) ==
    /\ Advance(r, "store_put", "store_insert")
    /\ blob' \in {blob, blob \cup {req[r].id}}
    /\ UNCHANGED <<record, clock, purge, faults, history>>

StorePut(r) ==
    /\ Advance(r, "store_put", "store_insert")
    /\ blob' = blob \cup {req[r].id}
    /\ UNCHANGED <<record, clock, purge, faults, history>>

StoreInsert(r) ==
    /\ Reply(r, "store_insert")
    /\ record' = [record EXCEPT ![req[r].id] =
                      [owner |-> req[r].did, recipient |-> req[r].inbox,
                       expires |-> req[r].expires]]
    /\ UNCHANGED <<blob, clock, purge, faults, history>>

\* requireBilling answers 402 (or 403) to any billed handler.
BillingRefused(r) ==
    /\ \E step \in Billing : Reply(r, step)
    /\ UNCHANGED <<record, blob, clock, purge, faults, history>>

-----------------------------------------------------------------------------
(* GET /retrieve/:id *)

RetrieveLookup(r, did, alias, id) ==
    /\ Stored(id) /\ ~Expired(id)
    /\ MayRead(did, <<did, alias>>, id)
    /\ Begin(r, "retrieve_get", did, <<did, alias>>, id, 0, 0)
    /\ UNCHANGED <<record, blob, clock, purge, faults, history>>

\* A blob that has gone since the lookup is a 404; free egress is served at once.
RetrieveGet(r) ==
    /\ IF req[r].id \in blob /\ EgressPriced
       THEN Advance(r, "retrieve_get", "retrieve_billing")
       ELSE Reply(r, "retrieve_get")
    /\ UNCHANGED <<record, blob, clock, purge, faults, history>>

RetrieveBilled(r) ==
    /\ Reply(r, "retrieve_billing")
    /\ UNCHANGED <<record, blob, clock, purge, faults, history>>

-----------------------------------------------------------------------------
(* DELETE /store/:id *)

\* Mutant: whoever may read a lease may delete it.
DeleteLookupReader(r, did, id) ==
    /\ Stored(id) /\ ~Expired(id)
    /\ \E alias \in Aliases : MayRead(did, <<did, alias>>, id)
    /\ Begin(r, "delete_blob", did, NoInbox, id, 0, 0)
    /\ UNCHANGED <<record, blob, clock, purge, faults, history>>

DeleteLookup(r, did, id) ==
    /\ Stored(id) /\ Owns(did, id) /\ ~Expired(id)
    /\ Begin(r, "delete_blob", did, NoInbox, id, 0, 0)
    /\ UNCHANGED <<record, blob, clock, purge, faults, history>>

DeleteBlob(r) ==
    /\ Advance(r, "delete_blob", "delete_record")
    /\ blob' = blob \ {req[r].id}
    /\ UNCHANGED <<record, clock, purge, faults, history>>

DeleteRecord(r) ==
    /\ Reply(r, "delete_record")
    /\ record' = [record EXCEPT ![req[r].id] = NoRecord]
    /\ gone' = gone \cup {req[r].id}
    /\ UNCHANGED <<blob, clock, purge, faults, term, paid, cut, raced, late>>

-----------------------------------------------------------------------------
(* POST /extend/:id: no expiry check, and no upper limit on the hours. *)

BeingExtended(id) == \E r \in Requests : req[r].pc \in ExtendSteps /\ req[r].id = id
BeingPurged(id) == \E j \in Janitors : purge[j].pc # "idle" /\ id \in purge[j].todo

ExtendLookup(r, did, id, hours) ==
    /\ hours >= 1
    /\ Stored(id) /\ Owns(did, id)
    /\ Begin(r, "extend_billing", did, NoInbox, id, hours, record[id].expires)
    /\ raced' = IF BeingExtended(id) THEN raced \cup {id} ELSE raced
    /\ late' = IF BeingPurged(id) THEN late \cup {id} ELSE late
    /\ UNCHANGED <<record, blob, clock, purge, faults, term, paid, cut, gone>>

ExtendBilled(r) ==
    /\ Advance(r, "extend_billing", "extend_update")
    /\ paid[req[r].id] + req[r].hours <= MaxPaid
    /\ paid' = [paid EXCEPT ![req[r].id] = @ + req[r].hours]
    /\ UNCHANGED <<record, blob, clock, purge, faults, term, cut, gone, raced, late>>

ExtendUpdate(r) ==
    /\ Reply(r, "extend_update")
    /\ UpdateExpiration(req[r].id, ExtendedExpiry(r))
    /\ UNCHANGED <<blob, clock, purge, faults, history>>

-----------------------------------------------------------------------------
(* GET /janitor/purge *)

\* At most Batch expired records, in no particular order.
Listing(S) ==
    /\ S \subseteq Purgeable
    /\ IF Cardinality(Purgeable) <= Batch THEN S = Purgeable ELSE Cardinality(S) = Batch

JanitorList(j) ==
    /\ purge[j].pc = "idle"
    /\ Purgeable # {}
    /\ \E S \in SUBSET Ids :
           /\ Listing(S)
           /\ purge' = [purge EXCEPT ![j] = [pc |-> "purge_blob", todo |-> S, id |-> NoId]]
           /\ late' = late \cup {id \in S : BeingExtended(id)}
    /\ UNCHANGED <<record, blob, clock, req, faults, term, paid, cut, gone, raced>>

\* Mutant: a failed bucket delete is swallowed.
JanitorBlobUnchecked(j) ==
    /\ purge[j].pc = "purge_blob"
    /\ \E id \in purge[j].todo :
           /\ blob' \in {blob, blob \ {id}}
           /\ purge' = [purge EXCEPT ![j] = [@ EXCEPT !.pc = "purge_record", !.id = id]]
    /\ UNCHANGED <<record, clock, req, faults, history>>

\* Mutant: deleting a key that is not in the bucket does not succeed.
JanitorBlobMustExist(j) ==
    /\ purge[j].pc = "purge_blob"
    /\ \E id \in purge[j].todo \cap blob :
           /\ blob' = blob \ {id}
           /\ purge' = [purge EXCEPT ![j] = [@ EXCEPT !.pc = "purge_record", !.id = id]]
    /\ UNCHANGED <<record, clock, req, faults, history>>

JanitorBlob(j) ==
    /\ purge[j].pc = "purge_blob"
    /\ \E id \in purge[j].todo :
           /\ blob' = blob \ {id}
           /\ purge' = [purge EXCEPT ![j] = [@ EXCEPT !.pc = "purge_record", !.id = id]]
    /\ UNCHANGED <<record, clock, req, faults, history>>

JanitorRecord(j) ==
    LET id == purge[j].id
        rest == purge[j].todo \ {id}
    IN  /\ purge[j].pc = "purge_record"
        /\ record' = [record EXCEPT ![id] = NoRecord]
        /\ gone' = gone \cup {id}
        /\ purge' = [purge EXCEPT ![j] =
                         IF rest = {} THEN Rest
                         ELSE [pc |-> "purge_blob", todo |-> rest, id |-> NoId]]
        /\ UNCHANGED <<blob, clock, req, faults, term, paid, cut, raced, late>>

-----------------------------------------------------------------------------
(* The environment. *)

Tick ==
    /\ clock < MaxTime
    /\ clock' = clock + 1
    /\ UNCHANGED <<record, blob, req, purge, faults, history>>

RequestLost(r) ==
    /\ req[r] # Idle
    /\ faults < MaxFaults
    /\ faults' = faults + 1
    /\ req' = [req EXCEPT ![r] = Idle]
    /\ cut' = IF req[r].pc \in {"store_insert", "delete_record"}
              THEN cut \cup {<<req[r].pc, req[r].id>>} ELSE cut
    /\ raced' = IF req[r].pc = "extend_update" THEN raced \cup {req[r].id} ELSE raced
    /\ UNCHANGED <<record, blob, clock, purge, term, paid, gone, late>>

JanitorLost(j) ==
    /\ purge[j] # Rest
    /\ faults < MaxFaults
    /\ faults' = faults + 1
    /\ purge' = [purge EXCEPT ![j] = Rest]
    /\ cut' = IF purge[j].pc = "purge_record"
              THEN cut \cup {<<"purge_record", purge[j].id>>} ELSE cut
    /\ UNCHANGED <<record, blob, clock, req, term, paid, gone, raced, late>>

\* A request arrives.
RequestBegins(r) ==
    \/ \E did \in Dids, inbox \in Inbox \cup {NoInbox}, hours \in Hours :
           StoreBegin(r, did, inbox, hours)
    \/ \E did \in Dids, alias \in Aliases, id \in Ids : RetrieveLookup(r, did, alias, id)
    \/ \E did \in Dids, id \in Ids : DeleteLookup(r, did, id)
    \/ \E did \in Dids, id \in Ids, hours \in Hours : ExtendLookup(r, did, id, hours)

\* A handler resumes from an await.
RequestResumes(r) ==
    \/ \E id \in Ids : StoreBilled(r, id)
    \/ StorePut(r)
    \/ StoreInsert(r)
    \/ BillingRefused(r)
    \/ RetrieveGet(r)
    \/ RetrieveBilled(r)
    \/ DeleteBlob(r)
    \/ DeleteRecord(r)
    \/ ExtendBilled(r)
    \/ ExtendUpdate(r)

JanitorRun(j) == JanitorList(j) \/ JanitorBlob(j) \/ JanitorRecord(j)

Next ==
    \/ \E r \in Requests : RequestBegins(r) \/ RequestResumes(r) \/ RequestLost(r)
    \/ \E j \in Janitors : JanitorRun(j) \/ JanitorLost(j)
    \/ Tick

Spec == Init /\ [][Next]_vars

(* The runtime resumes a handler whose await has settled unless it is lost,   *)
(* and the operator calls the janitor again and again, as the implementer's   *)
(* guide requires.  Nothing makes a client send a request, and time may stop. *)
FairSpec ==
    /\ Spec
    /\ \A r \in Requests : WF_vars(RequestResumes(r))
    /\ \A j \in Janitors : WF_vars(JanitorRun(j))

-----------------------------------------------------------------------------
(* Properties *)

TypeOK ==
    /\ record \in [Ids -> Record \cup {NoRecord}]
    /\ blob \subseteq Ids
    /\ clock \in Nat
    /\ req \in [Requests -> Request]
    /\ \A r \in Requests :
           /\ req[r].pc \in HoldsId => req[r].id \in Ids
           /\ req[r].pc \in StoreSteps \cup OnLease => req[r].did \in Dids
    /\ purge \in [Janitors -> Purge]
    /\ \A j \in Janitors : purge[j].pc = "purge_record" => purge[j].id \in Ids
    /\ faults \in Nat
    /\ term \in [Ids -> Nat]
    /\ paid \in [Ids -> Nat]
    /\ cut \subseteq {"store_insert", "delete_record", "purge_record"} \X Ids
    /\ gone \subseteq Ids
    /\ raced \subseteq Ids
    /\ late \subseteq Ids

BeingRemoved(id) ==
    \/ \E r \in Requests : req[r].pc = "delete_record" /\ req[r].id = id
    \/ \E j \in Janitors : purge[j].pc = "purge_record" /\ purge[j].id = id
    \/ <<"delete_record", id>> \in cut
    \/ <<"purge_record", id>> \in cut

BeingStored(id) ==
    \/ \E r \in Requests : req[r].pc = "store_insert" /\ req[r].id = id
    \/ <<"store_insert", id>> \in cut

(* A lease in the table has its ciphertext in the bucket, unless a delete or *)
(* a janitor run has removed the ciphertext and not yet, or never because it *)
(* stopped there, the row: put before insert, for every interleaving.        *)
RecordHasBlob == \A id \in Ids : Stored(id) /\ id \notin blob => BeingRemoved(id)

(* A ciphertext without a row is one whose store has not come to its insert *)
(* or stopped before it: both removals delete the blob before the row.      *)
BlobHasRecord == \A id \in Ids : id \in blob /\ ~Stored(id) => BeingStored(id)

(* However extensions and purges interleave, no lease runs longer than what *)
(* was paid for it, though extend writes an expiry computed from a row read *)
(* before billing.                                                          *)
LeaseNeverExceedsPaid == \A id \in Ids : Stored(id) => record[id].expires <= paid[id]

(* Nor less: unless two extensions of it overlapped, or one stopped after it  *)
(* was paid, the row of a lease, as long as it is there, expires at the end   *)
(* of what was paid, or an extension at work is about to write just that.     *)
(* What may take the row away before then is PaidTimeNotPurged.               *)
PaidTimeStands ==
    \A id \in Ids \ raced : Stored(id) =>
        \/ record[id].expires = paid[id]
        \/ \E r \in Requests : /\ req[r].pc = "extend_update" /\ req[r].id = id
                               /\ ExtendedExpiry(r) = paid[id]

(* Once an owner's delete or a janitor run has reported a lease removed,     *)
(* neither its row nor its ciphertext comes back, whatever was in flight:    *)
(* a late extend updates no row.                                             *)
DeleteIsFinal == \A id \in gone : ~Stored(id) /\ id \notin blob

(* What the access check decided from the row it read still holds when the  *)
(* handler acts on the lease, several awaits later: ids are never reused and *)
(* the owner and the recipient of a row never change.                        *)
AccessStillHolds ==
    \A r \in Requests :
        /\ req[r].pc \in RetrieveSteps /\ Stored(req[r].id) =>
               MayRead(req[r].did, req[r].inbox, req[r].id)
        /\ req[r].pc \in DeleteSteps \cup ExtendSteps /\ Stored(req[r].id) =>
               Owns(req[r].did, req[r].id)

OwnerDeletes(id) ==
    \E r \in Requests : req[r].pc = "delete_record" /\ req[r].id = id /\ Owns(req[r].did, id)

(* A row disappears only by its owner's delete, or after the term bought with *)
(* the store had run out, whatever extensions wrote to it: the janitor never  *)
(* takes a lease within that term unless time was paid for it beyond the year *)
(* 9999, where the text of an expiry sorts before the text of any earlier     *)
(* instant and nothing keeps the janitor away.                                *)
NotPurgedWithinTerm ==
    [][\A id \in Ids : Stored(id) /\ record'[id] = NoRecord =>
           clock > term[id] \/ paid[id] >= TextLimit \/ OwnerDeletes(id)]_vars

(* Nor does it take paid time: a row is there to the end of all that was paid, *)
(* unless its owner deletes it, its extensions raced each other, one of them   *)
(* was at work while a janitor run had the lease in its listing (the run does  *)
(* not look again), or time was paid for it beyond the year 9999.              *)
PaidTimeNotPurged ==
    [][\A id \in Ids \ (raced \cup late) : Stored(id) /\ record'[id] = NoRecord =>
           clock > paid[id] \/ paid[id] >= TextLimit \/ OwnerDeletes(id)]_vars

(* An expired lease is purged or extended: batches, an earlier removal that *)
(* stopped half way, or a janitor run that stopped, only delay it.          *)
ExpiredEventuallyPurged ==
    \A id \in Ids : (Stored(id) /\ Expired(id)) ~> (~Stored(id) \/ ~Expired(id))

(* The writes of two systems, one await apart, behave like the single events  *)
(* of LeaseContract: a lease is live while it has its row and its ciphertext, *)
(* and over once either was taken.                                            *)
Live(id) == Stored(id) /\ id \in blob
Over(id) == id \in gone \/ (Stored(id) /\ id \notin blob)

Phases == [id \in Ids |-> IF Live(id) THEN "live" ELSE IF Over(id) THEN "over" ELSE "unsold"]
Owners == [id \in Ids |-> IF Live(id) THEN record[id].owner ELSE NoDid]
Untils == [id \in Ids |-> IF Live(id) THEN record[id].expires ELSE 0]
Wanted == {w \in Ids \X Dids :
              \E r \in Requests : req[r].pc \in DeleteSteps /\ <<req[r].id, req[r].did>> = w}

Contract == INSTANCE LeaseContract WITH
    phase <- Phases, owner <- Owners, until <- Untils, bought <- paid, wanted <- Wanted,
    now <- clock, FarFuture <- TextLimit

ImplementsContract == Contract!Spec

-----------------------------------------------------------------------------
(* Promises of the documentation that the code does not keep. *)

(* architecture.html: an extension pushes expires_at back.  Two extensions   *)
(* that read the same row overwrite each other.                              *)
ExtendNeverShortens ==
    [][\A id \in Ids : Stored(id) /\ record'[id] # NoRecord =>
           record'[id].expires >= record[id].expires]_vars

(* architecture.html: the janitor's purge follows expiry.  A lease extended  *)
(* between the listing and its turn is purged all the same.                  *)
JanitorRemovesOnlyExpired ==
    [][\A j \in Janitors :
           LET id == purge[j].id IN
           purge[j].pc = "purge_record" /\ purge'[j].pc # "purge_record"
               /\ Stored(id) /\ record'[id] = NoRecord => Expired(id)]_vars

(* PROTOCOL.md 5.2: POST /extend extends an existing lease and returns its   *)
(* new expiry.  The reply is sent when no row was left to update.            *)
ConfirmedExtensionTakesEffect ==
    [][\A r \in Requests :
           req[r].pc = "extend_update" /\ req'[r] = Idle /\ faults' = faults =>
               /\ record'[req[r].id] # NoRecord
               /\ record'[req[r].id].expires = ExtendedExpiry(r)]_vars

(* PROTOCOL.md 10.1: background purge of expired leases and ciphertext       *)
(* blobs.  A blob whose store stopped before the insert has no row for the   *)
(* janitor to find.                                                          *)
OrphanEventuallyPurged ==
    \A id \in Ids : (id \in blob /\ ~Stored(id)) ~> (id \notin blob \/ Stored(id))

=============================================================================
