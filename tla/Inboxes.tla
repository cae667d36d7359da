-------------------------------- MODULE Inboxes --------------------------------
(***************************************************************************)
(* Who sees which lease on didbox402 nodes: the recipient an alias hashes  *)
(* to, GET /inbox and GET /leases, the access check of GET /retrieve, what *)
(* the janitor finds, and POST /inboxes with its table                     *)
(* (packages/server/src/index.ts, lib/storage.ts).                         *)
(*                                                                         *)
(* The lease handlers are one action each, at the write that others can    *)
(* see; their steps, and how those interleave, are module LeaseStore.  No  *)
(* property below depends on which expiry an extension writes, or on the   *)
(* half-done work of a store or a removal, which reads as missing.         *)
(*                                                                         *)
(* Expiries are toISOString() text.  The handlers parse it and compare     *)
(* instants; the three queries compare text, and the text of an instant    *)
(* from the year 10000 on ("+010000-...") sorts before every other.        *)
(***************************************************************************)
EXTENDS Naturals, Sequences

CONSTANTS
    Nodes,       \* nodes, each with its tables and bucket
    Ids,         \* storage ids crypto.randomUUID may return
    Dids,        \* callers and recipients
    Names,       \* alias strings
    Default,     \* the string 'default'
    NoAlias,     \* an alias left out, or empty
    Requests,    \* slots for POST /inboxes
    Hours,       \* durations clients buy
    TextLimit,   \* first instant of the year 10000
    MaxDate,     \* last instant toISOString accepts; beyond it extend is a 500
    MaxTime,     \* bound: last instant of the model's clock
    MaxFees,     \* bound: creation fees taken
    MaxFaults,   \* bound: requests and answers lost
    NoLease, NoInbox, NoDid, NoCreation, NoView

Aliases == Names \cup {NoAlias}
Inbox == Dids \X Names
Lease == [node : Nodes, owner : Dids, inbox : Inbox \cup {NoInbox},
          expires : Nat]
Address == [by : Dids, to : Dids, alias : Aliases]
               \cup [by : Dids, to : {NoDid}, alias : {NoAlias}]   \* no recipient: not read
View == [node : Nodes, did : Dids, alias : Aliases, id : Ids, inbox : BOOLEAN]
Creation == [node : Nodes, did : Dids, name : Names]   \* primary key of inboxes

ASSUME AliasAssumption == Default \in Names /\ NoAlias \notin Names
ASSUME NumbersAssumption == /\ Hours \subseteq Nat
                            /\ {TextLimit, MaxDate, MaxTime, MaxFees, MaxFaults} \subseteq Nat
ASSUME AbsentAssumption == /\ NoLease \notin Lease /\ NoInbox \notin Inbox /\ NoDid \notin Dids
                           /\ NoCreation \notin Creation /\ NoView \notin View

VARIABLES
    lease,    \* Ids -> the row, with its ciphertext in the bucket
    inboxes,  \* the inboxes tables
    clock,    \* Date.now(), in hours
    create,   \* the POST /inboxes in each slot, once billed
    view,     \* an item of a listing that some client holds
    faults,
    \* History, read by properties only:
    sent,     \* Ids -> set of who sent it and where to, empty before the store
    content,  \* Ids -> id of the store its ciphertext was first sent with
    fees,     \* inboxes a creation fee was taken for, in order
    cut       \* creations that stopped between the fee and the row

leaseVars == <<lease, sent, content>>
inboxVars == <<inboxes, create, fees, cut>>
nodeVars == <<leaseVars, inboxVars, clock, view, faults>>

Init ==
    /\ lease = [id \in Ids |-> NoLease]
    /\ inboxes = {}
    /\ clock = 0
    /\ create = [r \in Requests |-> NoCreation]
    /\ view = NoView
    /\ faults = 0
    /\ sent = [id \in Ids |-> {}]
    /\ content = [id \in Ids |-> id]
    /\ fees = <<>>
    /\ cut = {}

-----------------------------------------------------------------------------
(* Conditions and queries. *)

\* Mutant: the alias is hashed as it came.
AliasAsSent(alias) == alias

\* alias || 'default', in every handler that hashes an alias.
AliasOf(alias) == IF alias = NoAlias THEN Default ELSE alias

\* hashDid(did + alias): one recipient_hash per caller and alias.
InboxOf(did, alias) == <<did, AliasOf(alias)>>

\* recipient_hash: null without a recipientDid.
Recipient(address) ==
    IF address.to = NoDid THEN NoInbox ELSE InboxOf(address.to, address.alias)

Stored(id) == lease[id] # NoLease
On(n, id) == Stored(id) /\ lease[id].node = n

\* The handlers compare instants, the queries compare text.
Expired(id) == clock > lease[id].expires
TextBefore(s, t) == IF (s >= TextLimit) = (t >= TextLimit) THEN s < t ELSE s >= TextLimit

\* Mutants: the alias is compared as it came; an alias opens everyone's inbox.
MayReadRaw(did, alias, id) == lease[id].owner = did \/ lease[id].inbox = <<did, alias>>
MayReadAlias(did, alias, id) ==
    lease[id].owner = did \/ \E to \in Dids : lease[id].inbox = InboxOf(to, alias)

MayRead(did, alias, id) == lease[id].owner = did \/ lease[id].inbox = InboxOf(did, alias)

\* The status of GET /retrieve/:id with X-Inbox-Alias.
RetrieveAnswer(n, did, alias, id) ==
    IF ~On(n, id) THEN "missing"
    ELSE IF Expired(id) THEN "expired"
    ELSE IF MayRead(did, alias, id) THEN "served" ELSE "denied"

\* Mutant: every inbox of the caller is listed.
InboxItemsOfAll(n, did, alias) ==
    {id \in Ids : /\ On(n, id) /\ \E name \in Names : lease[id].inbox = <<did, name>>
                  /\ TextBefore(clock, lease[id].expires)}

InboxItems(n, did, alias) ==
    {id \in Ids : /\ On(n, id) /\ lease[id].inbox = InboxOf(did, alias)
                  /\ TextBefore(clock, lease[id].expires)}

OwnLeases(n, did) ==
    {id \in Ids : On(n, id) /\ lease[id].owner = did /\ TextBefore(clock, lease[id].expires)}

\* Mutant: the query keeps a lease's last instant for itself.
PurgeableAtExpiry == {id \in Ids : Stored(id) /\ ~TextBefore(clock, lease[id].expires)}

Purgeable == {id \in Ids : Stored(id) /\ TextBefore(lease[id].expires, clock)}

\* GET /inboxes
InboxRows(n, did) == {name \in Names : [node |-> n, did |-> did, name |-> name] \in inboxes}

-----------------------------------------------------------------------------
(* Leases *)

\* The insert of POST /store.  The expiry is fixed before the bucket put: a late
\* insert leaves what an earlier one and the clock's steps leave.
Insert(n, address, hours, id, from) ==
    /\ sent[id] = {}
    /\ hours >= 1
    /\ lease' = [lease EXCEPT ![id] =
                     [node |-> n, owner |-> address.by, inbox |-> Recipient(address),
                      expires |-> clock + hours]]
    /\ sent' = [sent EXCEPT ![id] = {address}]
    /\ content' = [content EXCEPT ![id] = content[from]]

StoreInsert(n, address, hours, id) ==
    /\ Insert(n, address, hours, id, id)
    /\ UNCHANGED <<inboxVars, clock, view, faults>>

\* POST /extend by the owner, with no limit on the hours but that of a Date.
ExtendUpdate(id, hours) ==
    /\ Stored(id)
    /\ hours >= 1
    /\ lease[id].expires + hours <= MaxDate
    /\ lease' = [lease EXCEPT ![id].expires = @ + hours]
    /\ UNCHANGED <<inboxVars, sent, content, clock, view, faults>>

\* DELETE /store by the owner before expiry, or the janitor's purge.
Remove(id) ==
    /\ Stored(id) /\ (~Expired(id) \/ id \in Purgeable)
    /\ lease' = [lease EXCEPT ![id] = NoLease]
    /\ UNCHANGED <<inboxVars, sent, content, clock, view, faults>>

-----------------------------------------------------------------------------
(* Listings: the client keeps the answer while the node goes on. *)

Hold(item) ==
    /\ view' = item
    /\ UNCHANGED <<leaseVars, inboxVars, clock, faults>>

\* GET /inbox/:alias?
ListInbox(n, did, alias) ==
    \E id \in InboxItems(n, did, alias) :
        Hold([node |-> n, did |-> did, alias |-> alias, id |-> id, inbox |-> TRUE])

\* GET /leases
ListLeases(n, did) ==
    \E id \in OwnLeases(n, did) :
        Hold([node |-> n, did |-> did, alias |-> NoAlias, id |-> id, inbox |-> FALSE])

-----------------------------------------------------------------------------
(* POST /inboxes *)

\* requireBilling takes the fee; nothing was read before it.
CreateBilled(r, n, did, alias) ==
    LET key == [node |-> n, did |-> did, name |-> AliasOf(alias)] IN
    /\ create[r] = NoCreation
    /\ Len(fees) < MaxFees
    /\ create' = [create EXCEPT ![r] = key]
    /\ fees' = Append(fees, key)
    /\ UNCHANGED <<leaseVars, inboxes, cut, clock, view, faults>>

\* Mutant: aliases are unique on a node, whoever owns them.
CreateInsertAlias(r) ==
    LET key == create[r] IN
    /\ key # NoCreation
    /\ inboxes' = IF \E row \in inboxes : row.node = key.node /\ row.name = key.name
                  THEN inboxes ELSE inboxes \cup {key}
    /\ create' = [create EXCEPT ![r] = NoCreation]
    /\ UNCHANGED <<leaseVars, fees, cut, clock, view, faults>>

\* The insert: a row with this hashed_id is already there, and the answer is
\* 500, or there is one now.
CreateInsert(r) ==
    /\ create[r] # NoCreation
    /\ inboxes' = inboxes \cup {create[r]}
    /\ create' = [create EXCEPT ![r] = NoCreation]
    /\ UNCHANGED <<leaseVars, fees, cut, clock, view, faults>>

CreateLost(r) ==
    /\ create[r] # NoCreation
    /\ faults < MaxFaults
    /\ faults' = faults + 1
    /\ cut' = cut \cup {create[r]}
    /\ create' = [create EXCEPT ![r] = NoCreation]
    /\ UNCHANGED <<leaseVars, inboxes, fees, clock, view>>

Tick ==
    /\ clock < MaxTime
    /\ clock' = clock + 1
    /\ UNCHANGED <<leaseVars, inboxVars, view, faults>>

LeaseNext ==
    \/ \E n \in Nodes, address \in Address, hours \in Hours, id \in Ids :
           StoreInsert(n, address, hours, id)
    \/ \E id \in Ids : \/ \E hours \in Hours : ExtendUpdate(id, hours)
                       \/ Remove(id)

ListNext ==
    \E n \in Nodes, did \in Dids :
        ListLeases(n, did) \/ \E alias \in Aliases : ListInbox(n, did, alias)

CreateNext ==
    \E r \in Requests :
        \/ \E n \in Nodes, did \in Dids, alias \in Aliases : CreateBilled(r, n, did, alias)
        \/ CreateInsert(r) \/ CreateLost(r)

NodeNext == LeaseNext \/ ListNext \/ CreateNext \/ Tick

NodeSpec == Init /\ [][NodeNext]_nodeVars

-----------------------------------------------------------------------------
(* Properties *)

TypeOK ==
    /\ lease \in [Ids -> Lease \cup {NoLease}]
    /\ inboxes \subseteq Creation
    /\ clock \in Nat
    /\ create \in [Requests -> Creation \cup {NoCreation}]
    /\ view \in View \cup {NoView}
    /\ faults \in Nat
    /\ sent \in [Ids -> SUBSET Address]
    /\ content \in [Ids -> Ids]
    /\ fees \in Seq(Creation)
    /\ cut \subseteq Creation

(* PROTOCOL.md 5.4: what was listed under an alias can be retrieved under it. *)
(* However old the listing a client holds, its items may have expired or      *)
(* gone, but the node never refuses access to them: three handlers agree on   *)
(* the default alias, ids never come back and recipients never change.        *)
ListedNeverDenied ==
    view # NoView => RetrieveAnswer(view.node, view.did, view.alias, view.id) # "denied"

(* PROTOCOL.md 6.1: a recipient sees under an alias only what its sender      *)
(* addressed to that alias, or, for the default inbox, to none.               *)
InboxesIsolated ==
    view # NoView /\ view.inbox =>
        \A address \in sent[view.id] :
            address.to = view.did /\ AliasOf(address.alias) = AliasOf(view.alias)

(* Reading, listing and purging, which compare expiries in three ways, draw   *)
(* the line at the same place: what a purge may take can no longer be read,   *)
(* and what can be read is listed, its last instant excepted.  Beyond the     *)
(* year 9999 they do not.                                                     *)
LinesAgree(id) ==
    LET l == lease[id] IN
    /\ id \in Purgeable => Expired(id)
    /\ id \in OwnLeases(l.node, l.owner) => ~Expired(id)
    /\ clock < l.expires =>
           /\ id \in OwnLeases(l.node, l.owner)
           /\ \A did \in Dids, alias \in Aliases :
                  l.inbox = InboxOf(did, alias) => id \in InboxItems(l.node, did, alias)

ExpiryLinesAgree ==
    clock < TextLimit =>
        \A id \in Ids : Stored(id) /\ lease[id].expires < TextLimit => LinesAgree(id)

(* A creation fee that was taken has its row in GET /inboxes, unless the      *)
(* insert is still to come or the request stopped before it.                  *)
FeePaidHasInbox ==
    \A i \in 1..Len(fees) :
        LET key == fees[i] IN
        \/ key.name \in InboxRows(key.node, key.did)
        \/ \E r \in Requests : create[r] = key
        \/ key \in cut

-----------------------------------------------------------------------------
(* Promises of the documentation that the code does not keep. *)

(* PROTOCOL.md 5.4: POST /inboxes requires a one-time creation fee.  Billing  *)
(* comes before the insert, whose conflict is a 500.                          *)
OneTimeFee == \A i, j \in 1..Len(fees) : fees[i] = fees[j] => i = j

(* architecture.html: the purge follows expiry.  A lease extended beyond the  *)
(* year 9999 is purged at once.                                               *)
PurgeFollowsExpiry == \A id \in Purgeable : Expired(id)

=============================================================================
