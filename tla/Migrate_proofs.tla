---------------------------- MODULE Migrate_proofs ----------------------------
(***************************************************************************)
(* Proofs about Inboxes and Migrate, for every set of nodes, callers,      *)
(* aliases and ids, every clock and every number of losses.                *)
(***************************************************************************)
EXTENDS Migrate, TLAPS

-----------------------------------------------------------------------------
(* What a step can do to an id: nothing but change or end its lease, or give *)
(* it to a new lease.                                                        *)
Kept(id) ==
    /\ sent'[id] = sent[id] /\ content'[id] = content[id]
    /\ lease'[id] # NoLease =>
           /\ lease[id] # NoLease
           /\ lease'[id].node = lease[id].node
           /\ lease'[id].owner = lease[id].owner
           /\ lease'[id].inbox = lease[id].inbox

Born(id, n, address, from) ==
    /\ sent[id] = {} /\ sent'[id] = {address} /\ content'[id] = content[from]
    /\ lease'[id] # NoLease
    /\ lease'[id].node = n /\ lease'[id].owner = address.by
    /\ lease'[id].inbox = Recipient(address)
    /\ \A other \in Ids \ {id} : Kept(other)

\* The steps that leave every id as it is.
Quiet == \A id \in Ids : Kept(id)

LeaseTypeOK ==
    /\ lease \in [Ids -> Lease \cup {NoLease}]
    /\ sent \in [Ids -> SUBSET Address]
    /\ content \in [Ids -> Ids]
    /\ clock \in Nat

(* An address hashes to an inbox of the recipient, or to none. *)
LEMMA RecipientTyped ==
    ASSUME NEW address \in Address
    PROVE  Recipient(address) \in Inbox \cup {NoInbox}
BY AliasAssumption DEF Address, Recipient, InboxOf, AliasOf, Inbox, Aliases

(* An insert gives one id, new until then, to a lease, and touches no other. *)
LEMMA InsertBears ==
    ASSUME LeaseTypeOK, NEW n \in Nodes, NEW address \in Address, NEW hours \in Hours,
           NEW id \in Ids, NEW from \in Ids, Insert(n, address, hours, id, from),
           UNCHANGED clock
    PROVE  Born(id, n, address, from) /\ LeaseTypeOK'
<1> DEFINE new == [node |-> n, owner |-> address.by, inbox |-> Recipient(address),
                   expires |-> clock + hours]
<1>1. address.by \in Dids
  BY DEF Address
<1>2. clock + hours \in Nat
  BY NumbersAssumption DEF LeaseTypeOK
<1>3. new \in Lease
  BY <1>1, <1>2, RecipientTyped DEF Lease
<1>4. new # NoLease
  BY <1>3, AbsentAssumption
<1>5. /\ new.node = n /\ new.owner = address.by /\ new.inbox = Recipient(address)
  OBVIOUS
<1>6. lease' = [lease EXCEPT ![id] = new]
  BY DEF Insert
<1>7. /\ sent[id] = {} /\ sent' = [sent EXCEPT ![id] = {address}]
      /\ content' = [content EXCEPT ![id] = content[from]]
  BY DEF Insert
<1> HIDE DEF new
<1>8. LeaseTypeOK'
  BY <1>3, <1>6, <1>7 DEF LeaseTypeOK
<1>9. Born(id, n, address, from)
  BY <1>4, <1>5, <1>6, <1>7 DEF Born, Kept, LeaseTypeOK
<1> QED BY <1>8, <1>9

(* An extension changes no owner, recipient or node. *)
LEMMA ExtendKeeps ==
    ASSUME LeaseTypeOK, NEW id \in Ids, NEW hours \in Hours, ExtendUpdate(id, hours)
    PROVE  Quiet /\ LeaseTypeOK'
<1> DEFINE new == [lease[id] EXCEPT !.expires = @ + hours]
<1>1. lease[id] \in Lease
  BY DEF ExtendUpdate, Stored, LeaseTypeOK
<1>2. lease[id].expires + hours \in Nat
  BY <1>1, NumbersAssumption DEF Lease
<1>3. /\ new \in Lease /\ new.node = lease[id].node /\ new.owner = lease[id].owner
      /\ new.inbox = lease[id].inbox
  BY <1>1, <1>2 DEF Lease
<1>4. lease' = [lease EXCEPT ![id] = new] /\ lease[id] # NoLease
  BY DEF ExtendUpdate, Stored
<1>5. sent' = sent /\ content' = content /\ clock' = clock
  BY DEF ExtendUpdate
<1> HIDE DEF new
<1>6. LeaseTypeOK'
  BY <1>3, <1>4, <1>5 DEF LeaseTypeOK
<1>7. ASSUME NEW other \in Ids PROVE Kept(other)
  BY <1>3, <1>4, <1>5 DEF Kept, LeaseTypeOK
<1> QED BY <1>6, <1>7 DEF Quiet

(* A removal ends one lease. *)
LEMMA RemoveKeeps ==
    ASSUME LeaseTypeOK, NEW id \in Ids, Remove(id)
    PROVE  Quiet /\ LeaseTypeOK'
BY DEF Remove, Quiet, Kept, LeaseTypeOK

(* A step that leaves the leases alone is quiet. *)
LEMMA SameIsQuiet == UNCHANGED leaseVars => Quiet
BY DEF leaseVars, Quiet, Kept

(* The initial values are within their types. *)
LEMMA TypeInit == MigrateInit => MigrateTypeOK
<1> SUFFICES ASSUME MigrateInit PROVE MigrateTypeOK
  OBVIOUS
<1>1. TypeOK
  BY NumbersAssumption DEF MigrateInit, Init, TypeOK
<1> QED BY <1>1 DEF MigrateInit, MigrateTypeOK

(* A copy is addressed by and to its caller. *)
LEMMA ToCallerTyped ==
    ASSUME NEW m \in Call
    PROVE  ToCaller(m) \in Address /\ m.to \in Nodes /\ m.source \in Ids
BY DEF Call, ToCaller, Address, Aliases

(* The steps of the nodes keep the types. *)
LEMMA TypeNode == TypeOK /\ NodeNext => TypeOK'
<1> SUFFICES ASSUME TypeOK, NodeNext PROVE TypeOK'
  OBVIOUS
<1> USE DEF TypeOK, LeaseTypeOK, inboxVars, leaseVars
<1>1. ASSUME NEW n \in Nodes, NEW address \in Address, NEW hours \in Hours, NEW id \in Ids,
             StoreInsert(n, address, hours, id)
      PROVE  TypeOK'
  <2>1. Insert(n, address, hours, id, id) /\ UNCHANGED clock
    BY <1>1 DEF StoreInsert
  <2>2. LeaseTypeOK'
    BY <2>1, InsertBears
  <2> QED BY <1>1, <2>2 DEF StoreInsert
<1>2. ASSUME NEW id \in Ids, NEW hours \in Hours, ExtendUpdate(id, hours) PROVE TypeOK'
  <2>1. LeaseTypeOK'
    BY <1>2, ExtendKeeps
  <2> QED BY <1>2, <2>1 DEF ExtendUpdate
<1>3. ASSUME NEW id \in Ids, Remove(id) PROVE TypeOK'
  <2>1. LeaseTypeOK'
    BY <1>3, RemoveKeeps
  <2> QED BY <1>3, <2>1 DEF Remove
<1>4. ASSUME NEW n \in Nodes, NEW did \in Dids, NEW alias \in Aliases, ListInbox(n, did, alias)
      PROVE  TypeOK'
  <2>1. view' \in View
    BY <1>4 DEF ListInbox, Hold, InboxItems, View
  <2> QED BY <1>4, <2>1 DEF ListInbox, Hold
<1>5. ASSUME NEW n \in Nodes, NEW did \in Dids, ListLeases(n, did) PROVE TypeOK'
  <2>1. view' \in View
    BY <1>5 DEF ListLeases, Hold, OwnLeases, View, Aliases
  <2> QED BY <1>5, <2>1 DEF ListLeases, Hold
<1>6. ASSUME NEW r \in Requests, NEW n \in Nodes, NEW did \in Dids, NEW alias \in Aliases,
             CreateBilled(r, n, did, alias)
      PROVE  TypeOK'
  <2> DEFINE key == [node |-> n, did |-> did, name |-> AliasOf(alias)]
  <2>1. key \in Creation
    BY AliasAssumption DEF Creation, AliasOf, Aliases
  <2>2. create' = [create EXCEPT ![r] = key] /\ fees' = Append(fees, key)
    BY <1>6 DEF CreateBilled
  <2> HIDE DEF key
  <2> QED BY <1>6, <2>1, <2>2 DEF CreateBilled
<1>7. ASSUME NEW r \in Requests, CreateInsert(r) \/ CreateLost(r) PROVE TypeOK'
  BY <1>7 DEF CreateInsert, CreateLost
<1>8. CASE Tick
  BY <1>8 DEF Tick
<1> QED BY <1>1, <1>2, <1>3, <1>4, <1>5, <1>6, <1>7, <1>8
        DEF NodeNext, LeaseNext, ListNext, CreateNext

(* Every step keeps the types. *)
LEMMA TypeNext == MigrateTypeOK /\ [Next]_vars => MigrateTypeOK'
<1> SUFFICES ASSUME MigrateTypeOK, [Next]_vars PROVE MigrateTypeOK'
  OBVIOUS
<1> USE DEF MigrateTypeOK
<1>1. CASE UNCHANGED vars
  BY <1>1 DEF vars, nodeVars, callVars, leaseVars, inboxVars, TypeOK
<1>2. CASE NodeNext /\ UNCHANGED callVars
  BY <1>2, TypeNode DEF callVars
<1>3. ASSUME NEW c \in Calls, NEW did \in Dids, NEW alias \in Names, NEW at \in Nodes,
             NEW to \in Nodes, NEW source \in Ids, Retrieve(c, did, alias, at, to, source)
      PROVE  MigrateTypeOK'
  <2>1. [pc |-> "store", did |-> did, alias |-> alias, to |-> to, source |-> source,
         copy |-> source] \in Call
    BY DEF Call
  <2>2. call' \in [Calls -> Call \cup {NoCall}]
    BY <1>3, <2>1 DEF Retrieve
  <2> QED BY <1>3, <2>2 DEF Retrieve, nodeVars, leaseVars, inboxVars, TypeOK
<1>4. ASSUME NEW c \in Calls, NEW hours \in Hours, NEW id \in Ids, StoreCopy(c, hours, id)
      PROVE  MigrateTypeOK'
  <2>1. call[c] \in Call
    BY <1>4 DEF StoreCopy
  <2>2. LeaseTypeOK'
    BY <1>4, <2>1, ToCallerTyped, InsertBears DEF StoreCopy, TypeOK, LeaseTypeOK
  <2>3. [call[c] EXCEPT !.pc = "answer", !.copy = id] \in Call
    BY <2>1 DEF Call
  <2>4. call' \in [Calls -> Call \cup {NoCall}]
    BY <1>4, <2>3 DEF StoreCopy
  <2> QED BY <1>4, <2>2, <2>4 DEF StoreCopy, inboxVars, TypeOK, LeaseTypeOK
<1>5. ASSUME NEW c \in Calls, Returns(c) PROVE MigrateTypeOK'
  <2>1. call[c] \in Call
    BY <1>5 DEF Returns
  <2>2. moved' \subseteq Move
    BY <1>5, <2>1 DEF Returns, Call, Move
  <2> QED BY <1>5, <2>2 DEF Returns, nodeVars, leaseVars, inboxVars, TypeOK
<1>6. ASSUME NEW c \in Calls, Fails(c) PROVE MigrateTypeOK'
  <2>1. call[c] \in Call
    BY <1>6 DEF Fails
  <2>2. strayed' \subseteq Ids
    BY <1>6, <2>1 DEF Fails, Call
  <2> QED BY <1>6, <2>2 DEF Fails, leaseVars, inboxVars, TypeOK
<1> QED BY <1>1, <1>2, <1>3, <1>4, <1>5, <1>6 DEF Next, MigrateNext

(* Every step is quiet, stores a fresh lease, or stores a copy. *)
LEMMA StepShapes ==
    ASSUME MigrateTypeOK, [Next]_vars
    PROVE  \/ Quiet /\ UNCHANGED callVars
           \/ /\ Quiet /\ UNCHANGED view /\ MigrateNext
              /\ ~\E c \in Calls, id \in Ids, hours \in Hours : StoreCopy(c, hours, id)
           \/ \E n \in Nodes, address \in Address, id \in Ids :
                  Born(id, n, address, id) /\ UNCHANGED <<view, callVars>>
           \/ \E c \in Calls, id \in Ids, hours \in Hours :
                  /\ StoreCopy(c, hours, id)
                  /\ Born(id, call[c].to, ToCaller(call[c]), call[c].source)
<1> LeaseTypeOK
  BY DEF MigrateTypeOK, TypeOK, LeaseTypeOK
<1>1. CASE UNCHANGED vars
  BY <1>1, SameIsQuiet DEF vars, nodeVars
<1>2. CASE NodeNext /\ UNCHANGED callVars
  <2>1. CASE LeaseNext
    <3>1. CASE \E n \in Nodes, address \in Address, hours \in Hours, id \in Ids :
                   StoreInsert(n, address, hours, id)
      <4>1. PICK n \in Nodes, address \in Address, hours \in Hours, id \in Ids :
                     StoreInsert(n, address, hours, id)
        BY <3>1
      <4>2. /\ Insert(n, address, hours, id, id)
            /\ UNCHANGED <<clock, view>>
        BY <4>1 DEF StoreInsert
      <4>3. Born(id, n, address, id)
        BY <4>2, InsertBears
      <4> QED BY <1>2, <4>2, <4>3
    <3>2. CASE \E id \in Ids : Remove(id) \/ \E hours \in Hours : ExtendUpdate(id, hours)
      BY <1>2, <3>2, ExtendKeeps, RemoveKeeps
    <3> QED BY <2>1, <3>1, <3>2 DEF LeaseNext
  <2>2. CASE ListNext
    BY <1>2, <2>2, SameIsQuiet DEF ListNext, ListInbox, ListLeases, Hold
  <2>3. CASE CreateNext \/ Tick
    BY <1>2, <2>3, SameIsQuiet DEF CreateNext, CreateBilled, CreateInsert, CreateLost, Tick
  <2> QED BY <1>2, <2>1, <2>2, <2>3 DEF NodeNext
<1>3. CASE MigrateNext
  <2>1. CASE \E c \in Calls, hours \in Hours, id \in Ids : StoreCopy(c, hours, id)
    <3>1. PICK c \in Calls, hours \in Hours, id \in Ids : StoreCopy(c, hours, id)
      BY <2>1
    <3>2. /\ Insert(call[c].to, ToCaller(call[c]), hours, id, call[c].source)
          /\ UNCHANGED clock /\ call[c] \in Call
      BY <3>1 DEF StoreCopy, MigrateTypeOK
    <3> QED BY <3>1, <3>2, ToCallerTyped, InsertBears
  <2>2. CASE ~\E c \in Calls, hours \in Hours, id \in Ids : StoreCopy(c, hours, id)
    BY <1>3, <2>2, SameIsQuiet DEF MigrateNext, Retrieve, Returns, Fails, nodeVars
  <2> QED BY <2>1, <2>2
<1> QED BY <1>1, <1>2, <1>3 DEF Next

(* Every variable keeps its type. *)
THEOREM MigrateTypes == Spec => []MigrateTypeOK
BY TypeInit, TypeNext, PTL DEF Spec

-----------------------------------------------------------------------------
(* The inductive invariant: what is known of an id from the address it was   *)
(* sent with, once it was sent.                                              *)

\* A row says what its sender asked for.
RowsAddressed ==
    \A id \in Ids : Stored(id) =>
        /\ sent[id] # {}
        /\ \A a \in sent[id] : lease[id].owner = a.by /\ lease[id].inbox = Recipient(a)

\* A listed item was sent to the inbox, or by the owner, that listed it.
ViewAddressed ==
    view # NoView =>
        /\ sent[view.id] # {}
        /\ \A a \in sent[view.id] :
               IF view.inbox THEN InboxOf(a.to, a.alias) = InboxOf(view.did, view.alias) /\ a.to = view.did
               ELSE a.by = view.did

\* An id that was not sent has no content but its own; a copy is for its sender.
ContentsOwn ==
    \A id \in Ids : /\ sent[id] = {} => content[id] = id
                    /\ content[id] # id => \A a \in sent[id] : a.to = a.by

\* The caller of m sent the source's ciphertext, or it was addressed to it.
Reads(m) ==
    /\ sent[m.source] # {}
    /\ \E original \in sent[content[m.source]] : m.did \in {original.by, original.to}

\* What a call that stored, or returned, knows of its copy.
CopyOf(m) ==
    /\ sent[m.source] # {}
    /\ sent[m.copy] = {ToCaller(m)}
    /\ content[m.copy] = content[m.source]
    /\ Stored(m.copy) => lease[m.copy].node = m.to

\* Calls read what they could, and returned copies are what was read.
CallInv ==
    /\ \A m \in Call : (\E c \in Calls : call[c] = m) =>
           Reads(m) /\ (m.pc = "answer" => CopyOf(m))
    /\ \A m \in Move : m \in moved => CopyOf(m)

MigrateInv ==
    /\ MigrateTypeOK
    /\ RowsAddressed
    /\ ViewAddressed
    /\ ContentsOwn
    /\ ContentStaysAddressed
    /\ CallInv
    /\ CopiesAccountedFor

\* What was sent stays as it is: true of every step.
Fixed == \A id \in Ids : sent[id] # {} => Kept(id)

(* A quiet step changes nothing that was sent. *)
LEMMA QuietFixed == Quiet => Fixed
BY DEF Quiet, Fixed

(* The birth of an id changes nothing that was sent. *)
LEMMA BornFixed ==
    ASSUME NEW id \in Ids, NEW n, NEW address, NEW from, Born(id, n, address, from)
    PROVE  Fixed
BY DEF Born, Fixed

(* What a call knows of its source and its copy stays true. *)
LEMMA KnowledgeStays ==
    ASSUME MigrateTypeOK, Fixed, NEW m, m.source \in Ids, m.copy \in Ids
    PROVE  /\ Reads(m) => Reads(m)'
           /\ CopyOf(m) => CopyOf(m)'
<1>1. content[m.source] \in Ids
  BY DEF MigrateTypeOK, TypeOK
<1>2. ASSUME Reads(m) PROVE Reads(m)'
  BY <1>1, <1>2 DEF Reads, Fixed, Kept
<1>3. ASSUME CopyOf(m) PROVE CopyOf(m)'
  <2>1. Kept(m.source) /\ Kept(m.copy)
    BY <1>3 DEF CopyOf, Fixed
  <2> QED BY <1>3, <2>1 DEF CopyOf, Kept, Stored
<1> QED BY <1>2, <1>3

(* The fields of a copy's address. *)
LEMMA ToCallerFields ==
    \A m : LET a == ToCaller(m) IN a.by = m.did /\ a.to = m.did /\ a.alias = m.alias
BY DEF ToCaller

(* What was sent was an address. *)
LEMMA AddressTyped ==
    ASSUME MigrateTypeOK, NEW id \in Ids, NEW a \in sent[id]
    PROVE  a \in Address
BY DEF MigrateTypeOK, TypeOK

(* A recipient hash fits an inbox only if it was that caller's. *)
LEMMA RecipientInbox ==
    ASSUME NEW a \in Address, NEW did \in Dids, NEW alias \in Aliases,
           Recipient(a) = InboxOf(did, alias)
    PROVE  a.to = did /\ InboxOf(a.to, a.alias) = InboxOf(did, alias)
<1>1. InboxOf(did, alias) \in Inbox
  BY AliasAssumption DEF InboxOf, AliasOf, Inbox, Aliases
<1>2. Recipient(a) = InboxOf(a.to, a.alias)
  BY <1>1, AbsentAssumption DEF Recipient
<1> QED BY <1>2 DEF InboxOf

(* What could be read had been sent by, or to, the reader. *)
LEMMA ServedIsAddressed ==
    ASSUME MigrateInv, NEW did \in Dids, NEW alias \in Aliases, NEW n \in Nodes, NEW id \in Ids,
           RetrieveAnswer(n, did, alias, id) = "served"
    PROVE  sent[id] # {} /\ \E original \in sent[content[id]] : did \in {original.by, original.to}
<1>1. Stored(id) /\ MayRead(did, alias, id)
  BY DEF RetrieveAnswer, On
<1>2. PICK a \in sent[id] : lease[id].owner = a.by /\ lease[id].inbox = Recipient(a)
  BY <1>1 DEF MigrateInv, RowsAddressed
<1>3. did \in {a.by, a.to}
  BY <1>1, <1>2, RecipientInbox, AddressTyped DEF MayRead, MigrateInv
<1>4. CASE content[id] = id
  BY <1>2, <1>3, <1>4
<1>5. CASE content[id] # id
  <2>1. a.to = a.by
    BY <1>2, <1>5 DEF MigrateInv, ContentsOwn
  <2> QED BY <1>2, <1>3, <2>1 DEF MigrateInv, ContentStaysAddressed
<1> QED BY <1>4, <1>5

(* Nothing was sent at the start. *)
LEMMA InvInit == MigrateInit => MigrateInv
BY TypeInit, CallAssumption DEF MigrateInit, Init, MigrateInv, CallInv, RowsAddressed,
   ViewAddressed, ContentsOwn, ContentStaysAddressed, CopiesAccountedFor, Stored

(* Rows, addresses and contents, for every kind of step. *)
RowInv == RowsAddressed /\ ContentsOwn /\ ContentStaysAddressed

(* A quiet step keeps rows and contents. *)
LEMMA QuietRows == MigrateInv /\ MigrateTypeOK' /\ Quiet => RowInv'
<1> SUFFICES ASSUME MigrateInv, Quiet PROVE RowInv'
  OBVIOUS
<1>1. RowsAddressed'
  BY DEF MigrateInv, RowsAddressed, Quiet, Kept, Stored
<1>2. ContentsOwn'
  BY DEF MigrateInv, ContentsOwn, Quiet, Kept
<1>3. ContentStaysAddressed'
  BY DEF MigrateInv, MigrateTypeOK, TypeOK, ContentStaysAddressed, Quiet, Kept
<1> QED BY <1>1, <1>2, <1>3 DEF RowInv

(* So does a store, and a copy by someone who could read its source. *)
LEMMA BornRows ==
    ASSUME MigrateInv, NEW id \in Ids, NEW n \in Nodes, NEW address \in Address, NEW from \in Ids,
           Born(id, n, address, from),
           content[from] # id => address.by = address.to /\ from # id /\
               \E original \in sent[content[from]] : address.by \in {original.by, original.to}
    PROVE  RowInv'
<1>1. RowsAddressed'
  BY DEF MigrateInv, RowsAddressed, Born, Kept, Stored
<1>2. ContentsOwn'
  BY DEF MigrateInv, ContentsOwn, Born, Kept
<1>3. ContentStaysAddressed'
  <2> SUFFICES ASSUME NEW other \in Ids, NEW copy \in sent'[other]
               PROVE  \E original \in sent'[content'[other]] : copy.by \in {original.by, original.to}
    BY DEF ContentStaysAddressed
  <2>1. content[from] \in Ids /\ content[other] \in Ids
    BY DEF MigrateInv, MigrateTypeOK, TypeOK
  <2>2. CASE other = id /\ content[from] = id
    BY <2>2 DEF Born
  <2>3. CASE other = id /\ content[from] # id
    BY <2>1, <2>3 DEF Born, Kept
  <2>4. CASE other # id
    BY <2>1, <2>4 DEF Born, Kept, MigrateInv, ContentStaysAddressed
  <2> QED BY <2>2, <2>3, <2>4
<1> QED BY <1>1, <1>2, <1>3 DEF RowInv

(* A held item stays what it was listed as. *)
LEMMA ViewStays ==
    ASSUME MigrateInv, Fixed, UNCHANGED view
    PROVE  ViewAddressed'
<1>1. view # NoView => view.id \in Ids
  BY DEF MigrateInv, MigrateTypeOK, TypeOK, View
<1> QED BY <1>1 DEF MigrateInv, ViewAddressed, Fixed, Kept

(* A listing holds items that were sent to its inbox, or by its caller. *)
LEMMA ListedIsAddressed ==
    ASSUME MigrateInv, ListNext
    PROVE  ViewAddressed'
<1>1. sent' = sent
  BY DEF ListNext, ListInbox, ListLeases, Hold, leaseVars
<1>2. ASSUME NEW n \in Nodes, NEW did \in Dids, NEW alias \in Aliases, ListInbox(n, did, alias)
      PROVE  ViewAddressed'
  <2>1. PICK id \in InboxItems(n, did, alias) :
            view' = [node |-> n, did |-> did, alias |-> alias, id |-> id, inbox |-> TRUE]
    BY <1>2 DEF ListInbox, Hold
  <2>2. /\ id \in Ids /\ sent[id] # {} /\ lease[id].inbox = InboxOf(did, alias)
        /\ \A a \in sent[id] : Recipient(a) = InboxOf(did, alias)
    BY <2>1 DEF InboxItems, On, MigrateInv, RowsAddressed
  <2>3. \A a \in sent[id] : a.to = did /\ InboxOf(a.to, a.alias) = InboxOf(did, alias)
    BY <2>2, RecipientInbox, AddressTyped DEF MigrateInv
  <2> QED BY <1>1, <2>1, <2>2, <2>3 DEF ViewAddressed
<1>3. ASSUME NEW n \in Nodes, NEW did \in Dids, ListLeases(n, did) PROVE ViewAddressed'
  <2>1. PICK id \in OwnLeases(n, did) :
            view' = [node |-> n, did |-> did, alias |-> NoAlias, id |-> id, inbox |-> FALSE]
    BY <1>3 DEF ListLeases, Hold
  <2>2. id \in Ids /\ sent[id] # {} /\ \A a \in sent[id] : a.by = did
    BY <2>1 DEF OwnLeases, On, MigrateInv, RowsAddressed
  <2> QED BY <1>1, <2>1, <2>2 DEF ViewAddressed
<1> QED BY <1>2, <1>3 DEF ListNext

(* A call in a slot is a call, and is about ids. *)
LEMMA CallTyped ==
    ASSUME MigrateTypeOK
    PROVE  /\ \A c \in Calls : call[c] # NoCall =>
                  call[c] \in Call /\ call[c].source \in Ids /\ call[c].copy \in Ids
           /\ \A m \in Call \cup Move : m.source \in Ids /\ m.copy \in Ids
BY DEF MigrateTypeOK, Call, Move

(* Steps that change what is sent, but no call, leave what the calls know. *)
LEMMA CallsStay ==
    ASSUME MigrateInv, Fixed, UNCHANGED callVars
    PROVE  CallInv'
<1>1. ASSUME NEW m \in Call, \E c \in Calls : call'[c] = m
      PROVE  Reads(m)' /\ (m.pc = "answer" => CopyOf(m)')
  BY <1>1, CallTyped, KnowledgeStays DEF MigrateInv, CallInv, callVars
<1>2. ASSUME NEW m \in Move, m \in moved' PROVE CopyOf(m)'
  BY <1>2, CallTyped, KnowledgeStays DEF MigrateInv, CallInv, callVars
<1> QED BY <1>1, <1>2 DEF CallInv

(* A call that begins has read its source; one that returns hands its copy on. *)
LEMMA CallsStep ==
    ASSUME MigrateInv, Fixed, NEW c \in Calls,
           \/ \E did \in Dids, alias \in Names, at, to \in Nodes, source \in Ids :
                  Retrieve(c, did, alias, at, to, source)
           \/ Returns(c) \/ Fails(c)
    PROVE  CallInv'
<1> MigrateTypeOK
  BY DEF MigrateInv
<1>1. ASSUME NEW m \in Call, \E d \in Calls : call'[d] = m
      PROVE  Reads(m)' /\ (m.pc = "answer" => CopyOf(m)')
  <2>1. PICK d \in Calls : call'[d] = m
    BY <1>1
  <2>2. CASE call[d] = m
    BY <2>2, CallTyped, KnowledgeStays DEF MigrateInv, CallInv
  <2>3. CASE call[d] # m
    <3>1. ~(Returns(c) \/ Fails(c))
      BY <2>1, <2>3, CallAssumption DEF Returns, Fails, MigrateTypeOK
    <3>2. PICK did \in Dids, alias \in Names, at \in Nodes, to \in Nodes, source \in Ids :
                   Retrieve(c, did, alias, at, to, source)
      BY <3>1
    <3>3. m = [pc |-> "store", did |-> did, alias |-> alias, to |-> to, source |-> source,
               copy |-> source]
      BY <2>1, <2>3, <3>2 DEF Retrieve, MigrateTypeOK
    <3>4. m.did = did /\ m.source = source /\ m.pc # "answer"
      BY <3>3
    <3>5. Reads(m)
      BY <3>2, <3>4, ServedIsAddressed DEF Retrieve, Reads, Aliases
    <3> QED BY <3>4, <3>5, CallTyped, KnowledgeStays
  <2> QED BY <2>2, <2>3
<1>2. ASSUME NEW m \in Move, m \in moved' PROVE CopyOf(m)'
  <2>1. CASE m \in moved
    BY <2>1, CallTyped, KnowledgeStays DEF MigrateInv, CallInv
  <2>2. CASE m \notin moved
    <3>1. Returns(c)
      BY <1>2, <2>2 DEF Retrieve, Fails
    <3>2. /\ call[c] \in Call /\ call[c].pc = "answer"
          /\ m = [did |-> call[c].did, alias |-> call[c].alias, to |-> call[c].to,
                  source |-> call[c].source, copy |-> call[c].copy]
      BY <1>2, <2>2, <3>1, CallTyped DEF Returns
    <3>3. CopyOf(call[c])
      BY <3>2 DEF MigrateInv, CallInv
    <3>4. CopyOf(m)
      BY <3>2, <3>3 DEF CopyOf, ToCaller
    <3> QED BY <3>4, CallTyped, KnowledgeStays
  <2> QED BY <2>1, <2>2
<1> QED BY <1>1, <1>2 DEF CallInv

(* A stored copy is the caller's, holds the source's content, and is new. *)
LEMMA CopyStep ==
    ASSUME MigrateInv, NEW c \in Calls, NEW hours \in Hours, NEW id \in Ids,
           StoreCopy(c, hours, id), Born(id, call[c].to, ToCaller(call[c]), call[c].source)
    PROVE  CallInv' /\ RowInv' /\ CopiesAccountedFor'
<1> MigrateTypeOK
  BY DEF MigrateInv
<1>1. PICK m \in Call : m = call[c]
  BY CallTyped DEF StoreCopy
<1>2. /\ m # NoCall /\ m.source \in Ids /\ m.to \in Nodes /\ Reads(m)
      /\ content[m.source] \in Ids /\ m.pc = "store"
  BY <1>1, CallTyped, ToCallerTyped DEF StoreCopy, MigrateInv, CallInv, MigrateTypeOK, TypeOK
<1>3. PICK n \in Call : n = [m EXCEPT !.pc = "answer", !.copy = id]
  BY DEF Call
<1>4. /\ n.did = m.did /\ n.alias = m.alias /\ n.to = m.to /\ n.source = m.source
      /\ n.copy = id /\ n.pc = "answer"
  BY <1>3 DEF Call
<1>5. /\ call' = [call EXCEPT ![c] = n] /\ moved' = moved /\ strayed' = strayed
  BY <1>1, <1>3 DEF StoreCopy
<1>6. Fixed /\ Born(id, m.to, ToCaller(m), m.source)
  BY <1>1, BornFixed
<1>7. sent[m.source] # {} /\ m.source # id /\ content[m.source] # id
      /\ \E original \in sent[content[m.source]] : m.did \in {original.by, original.to}
  BY <1>2, <1>6 DEF Reads, Born
<1>8. RowInv'
  <2>1. ToCaller(m) \in Address /\ ToCaller(m).by = m.did /\ ToCaller(m).to = m.did
    BY ToCallerTyped, ToCallerFields
  <2> QED BY <1>2, <1>6, <1>7, <2>1, BornRows
<1>9. Reads(n)' /\ CopyOf(n)'
  <2>1. /\ Kept(m.source) /\ Kept(content[m.source])
        /\ content'[id] = content[m.source] /\ sent'[id] = {ToCaller(m)}
        /\ lease'[id].node = m.to
    BY <1>2, <1>6, <1>7 DEF Fixed, Born
  <2>2. ToCaller(n) = ToCaller(m)
    BY <1>4 DEF ToCaller
  <2>3. Reads(n)'
    BY <1>4, <1>7, <2>1 DEF Reads, Kept
  <2>4. CopyOf(n)'
    BY <1>4, <1>7, <2>1, <2>2 DEF CopyOf, Kept, Stored
  <2> QED BY <2>3, <2>4
<1>10. CallInv'
  <2>1. ASSUME NEW k \in Call, \E d \in Calls : call'[d] = k
        PROVE  Reads(k)' /\ (k.pc = "answer" => CopyOf(k)')
    <3>1. CASE k = n
      BY <1>9, <3>1
    <3>2. CASE k # n
      <4>1. \E d \in Calls : call[d] = k
        BY <1>5, <2>1, <3>2 DEF MigrateTypeOK
      <4> QED BY <1>6, <4>1, CallTyped, KnowledgeStays DEF MigrateInv, CallInv
    <3> QED BY <3>1, <3>2
  <2>2. ASSUME NEW k \in Move, k \in moved' PROVE CopyOf(k)'
    BY <1>5, <1>6, <2>2, CallTyped, KnowledgeStays DEF MigrateInv, CallInv
  <2> QED BY <2>1, <2>2 DEF CallInv
<1>11. CopiesAccountedFor'
  <2> SUFFICES ASSUME NEW k \in Ids, content'[k] # k
               PROVE  \/ \E x \in moved' : x.copy = k
                      \/ \E d \in Calls : call'[d] # NoCall /\ call'[d].pc = "answer" /\ call'[d].copy = k
                      \/ k \in strayed'
    BY DEF CopiesAccountedFor
  <2>1. CASE k = id
    <3>1. call'[c] = n /\ n # NoCall
      BY <1>5, CallAssumption DEF MigrateTypeOK
    <3> QED BY <1>4, <2>1, <3>1
  <2>2. CASE k # id
    <3>1. content[k] # k
      BY <1>6, <2>2 DEF Born, Kept
    <3>2. CASE \E d \in Calls : call[d] # NoCall /\ call[d].pc = "answer" /\ call[d].copy = k
      <4>1. PICK d \in Calls : call[d] # NoCall /\ call[d].pc = "answer" /\ call[d].copy = k
        BY <3>2
      <4>2. d # c /\ call'[d] = call[d]
        BY <1>1, <1>2, <1>5, <4>1 DEF MigrateTypeOK
      <4> QED BY <4>1, <4>2
    <3> QED BY <1>5, <3>1, <3>2 DEF MigrateInv, CopiesAccountedFor
  <2> QED BY <2>1, <2>2
<1> QED BY <1>8, <1>10, <1>11

(* Calls that end or begin lose sight of no copy. *)
LEMMA AccountsStay ==
    ASSUME MigrateInv, UNCHANGED content, NEW c \in Calls,
           \/ \E did \in Dids, alias \in Names, at, to \in Nodes, source \in Ids :
                  Retrieve(c, did, alias, at, to, source)
           \/ Returns(c) \/ Fails(c)
    PROVE  CopiesAccountedFor'
<1> SUFFICES ASSUME NEW k \in Ids, content[k] # k
             PROVE  \/ \E x \in moved' : x.copy = k
                    \/ \E d \in Calls : call'[d] # NoCall /\ call'[d].pc = "answer" /\ call'[d].copy = k
                    \/ k \in strayed'
  BY DEF CopiesAccountedFor
<1>1. moved \subseteq moved' /\ strayed \subseteq strayed'
  BY DEF Retrieve, Returns, Fails
<1>2. CASE \E d \in Calls : call[d] # NoCall /\ call[d].pc = "answer" /\ call[d].copy = k
  <2>1. PICK d \in Calls : call[d] # NoCall /\ call[d].pc = "answer" /\ call[d].copy = k
    BY <1>2
  <2>2. CASE d # c
    <3>1. call'[d] = call[d]
      BY <2>2 DEF Retrieve, Returns, Fails, MigrateInv, MigrateTypeOK
    <3> QED BY <2>1, <3>1
  <2>3. CASE d = c
    <3>1. CASE Returns(c)
      <4>1. [did |-> call[c].did, alias |-> call[c].alias, to |-> call[c].to,
             source |-> call[c].source, copy |-> call[c].copy] \in moved'
        BY <3>1 DEF Returns
      <4> QED BY <2>1, <2>3, <4>1
    <3>2. CASE Fails(c)
      BY <2>1, <2>3, <3>2 DEF Fails
    <3> QED BY <2>1, <2>3, <3>1, <3>2 DEF Retrieve
  <2> QED BY <2>2, <2>3
<1> QED BY <1>1, <1>2 DEF MigrateInv, CopiesAccountedFor

(* Every step keeps the invariant. *)
LEMMA InvNext == MigrateInv /\ [Next]_vars => MigrateInv'
<1> SUFFICES ASSUME MigrateInv, [Next]_vars PROVE MigrateInv'
  OBVIOUS
<1>1. MigrateTypeOK'
  BY TypeNext DEF MigrateInv
<1>2. SUFFICES ViewAddressed' /\ RowInv' /\ CallInv' /\ CopiesAccountedFor'
  BY <1>1 DEF MigrateInv, RowInv
<1>3. CASE Quiet /\ UNCHANGED callVars
  <2>1. ViewAddressed'
    <3>1. CASE UNCHANGED view
      BY <1>3, <3>1, QuietFixed, ViewStays
    <3>2. CASE ListNext
      BY <3>2, ListedIsAddressed
    <3>3. UNCHANGED view \/ ListNext
      BY DEF Next, NodeNext, LeaseNext, StoreInsert, ExtendUpdate, Remove, CreateNext,
         CreateBilled, CreateInsert, CreateLost, Tick, MigrateNext, Retrieve, StoreCopy, Returns,
         Fails, vars, nodeVars
    <3> QED BY <3>1, <3>2, <3>3
  <2>2. CopiesAccountedFor'
    BY <1>3 DEF MigrateInv, CopiesAccountedFor, Quiet, Kept, callVars
  <2> QED BY <1>1, <1>3, <2>1, <2>2, QuietRows, QuietFixed, CallsStay
<1>4. CASE \E n \in Nodes, address \in Address, id \in Ids :
               Born(id, n, address, id) /\ UNCHANGED <<view, callVars>>
  <2>1. PICK n \in Nodes, address \in Address, id \in Ids :
                 Born(id, n, address, id) /\ UNCHANGED <<view, callVars>>
    BY <1>4
  <2>2. content[id] = id
    BY <2>1 DEF Born, MigrateInv, ContentsOwn
  <2>3. RowInv' /\ Fixed
    BY <2>1, <2>2, BornRows, BornFixed
  <2>4. CopiesAccountedFor'
    BY <2>1, <2>2 DEF MigrateInv, CopiesAccountedFor, Born, Kept, callVars
  <2> QED BY <2>1, <2>3, <2>4, ViewStays, CallsStay
<1>5. CASE \E c \in Calls, id \in Ids, hours \in Hours :
               /\ StoreCopy(c, hours, id)
               /\ Born(id, call[c].to, ToCaller(call[c]), call[c].source)
  <2>1. PICK c \in Calls, id \in Ids, hours \in Hours :
                 /\ StoreCopy(c, hours, id)
                 /\ Born(id, call[c].to, ToCaller(call[c]), call[c].source)
    BY <1>5
  <2>2. Fixed /\ UNCHANGED view
    BY <2>1, BornFixed DEF StoreCopy
  <2> QED BY <2>1, <2>2, ViewStays, CopyStep
<1>6. CASE /\ Quiet /\ UNCHANGED view /\ MigrateNext
           /\ ~\E c \in Calls, id \in Ids, hours \in Hours : StoreCopy(c, hours, id)
  <2>1. PICK c \in Calls :
            \/ \E did \in Dids, alias \in Names, at, to \in Nodes, source \in Ids :
                   Retrieve(c, did, alias, at, to, source)
            \/ Returns(c) \/ Fails(c)
    BY <1>6 DEF MigrateNext
  <2>2. UNCHANGED content /\ Fixed
    BY <1>6, <2>1, QuietFixed DEF Retrieve, Returns, Fails, nodeVars, leaseVars
  <2> QED BY <1>1, <1>6, <2>1, <2>2, QuietRows, ViewStays, CallsStep, AccountsStay
<1> QED BY <1>3, <1>4, <1>5, <1>6, StepShapes DEF MigrateInv

-----------------------------------------------------------------------------
(* Theorems *)

(* The inductive invariant holds in every reachable state. *)
THEOREM MigrateInvariant == Spec => []MigrateInv
BY InvInit, InvNext, PTL DEF Spec

(* What a client saw listed is never refused to it. *)
THEOREM ListedReadable == Spec => []ListedNeverDenied
<1>1. MigrateInv => ListedNeverDenied
  <2> SUFFICES ASSUME MigrateInv, view # NoView,
                      RetrieveAnswer(view.node, view.did, view.alias, view.id) = "denied"
               PROVE  FALSE
    BY DEF ListedNeverDenied
  <2>1. view.id \in Ids /\ view.did \in Dids /\ view.alias \in Aliases
    BY DEF MigrateInv, MigrateTypeOK, TypeOK, View
  <2>2. Stored(view.id) /\ ~MayRead(view.did, view.alias, view.id)
    BY DEF RetrieveAnswer, On
  <2>3. PICK a \in sent[view.id] :
            lease[view.id].owner = a.by /\ lease[view.id].inbox = Recipient(a)
    BY <2>1, <2>2 DEF MigrateInv, RowsAddressed
  <2>4. CASE view.inbox
    <3>1. a.to = view.did /\ InboxOf(a.to, a.alias) = InboxOf(view.did, view.alias)
      BY <2>3, <2>4 DEF MigrateInv, ViewAddressed
    <3>2. Recipient(a) = InboxOf(a.to, a.alias)
      BY <2>1, <3>1, AbsentAssumption DEF Recipient
    <3> QED BY <2>2, <2>3, <3>1, <3>2 DEF MayRead
  <2>5. CASE ~view.inbox
    BY <2>2, <2>3, <2>5 DEF MigrateInv, ViewAddressed, MayRead
  <2> QED BY <2>4, <2>5
<1> QED BY <1>1, MigrateInvariant, PTL

(* An inbox lists what was addressed to its caller and alias, and no more. *)
THEOREM InboxesSeparate == Spec => []InboxesIsolated
<1>1. MigrateInv => InboxesIsolated
  BY DEF MigrateInv, ViewAddressed, InboxesIsolated, InboxOf
<1> QED BY <1>1, MigrateInvariant, PTL

(* A returned copy is the caller's, on the destination, with the source's ciphertext. *)
THEOREM MovesFaithful == Spec => []MigratedFaithful
<1>1. MigrateInv => MigratedFaithful
  <2> SUFFICES ASSUME MigrateInv, NEW m \in moved
               PROVE  /\ content[m.copy] = content[m.source]
                      /\ Stored(m.copy) =>
                             /\ lease[m.copy].node = m.to /\ lease[m.copy].owner = m.did
                             /\ TextBefore(clock, lease[m.copy].expires) =>
                                    m.copy \in InboxItems(m.to, m.did, m.alias)
    BY DEF MigratedFaithful
  <2>1. /\ CopyOf(m) /\ m.copy \in Ids /\ m.did \in Dids
    BY DEF MigrateInv, CallInv, MigrateTypeOK, Move
  <2>2. /\ sent[m.copy] = {ToCaller(m)} /\ content[m.copy] = content[m.source]
        /\ Stored(m.copy) => lease[m.copy].node = m.to
    BY <2>1 DEF CopyOf
  <2>3. Recipient(ToCaller(m)) = InboxOf(m.did, m.alias)
    BY <2>1, AbsentAssumption, ToCallerFields DEF Recipient
  <2>4. Stored(m.copy) => /\ lease[m.copy].owner = m.did
                          /\ lease[m.copy].inbox = InboxOf(m.did, m.alias)
    BY <2>1, <2>2, <2>3, ToCallerFields DEF MigrateInv, RowsAddressed
  <2> QED BY <2>1, <2>2, <2>4 DEF InboxItems, On
<1> QED BY <1>1, MigrateInvariant, PTL

(* A ciphertext reaches only callers its sender named, however often it is moved. *)
THEOREM ContentsAddressed == Spec => []ContentStaysAddressed
BY MigrateInvariant, PTL DEF MigrateInv

(* No call of migrate leaves a copy nobody knows of, but one whose answer was lost. *)
THEOREM CopiesKnown == Spec => []CopiesAccountedFor
BY MigrateInvariant, PTL DEF MigrateInv

(* Below the year 10000 text and instants order alike, in every state. *)
THEOREM LinesTheSame == Spec => []ExpiryLinesAgree
<1>1. MigrateTypeOK => ExpiryLinesAgree
  <2> SUFFICES ASSUME MigrateTypeOK, clock < TextLimit, NEW id \in Ids, Stored(id),
                      lease[id].expires < TextLimit
               PROVE  LinesAgree(id)
    BY DEF ExpiryLinesAgree
  <2>1. /\ clock \in Nat /\ lease[id].expires \in Nat /\ TextLimit \in Nat
    BY NumbersAssumption DEF MigrateTypeOK, TypeOK, Lease, Stored
  <2>2. /\ TextBefore(clock, lease[id].expires) <=> clock < lease[id].expires
        /\ TextBefore(lease[id].expires, clock) <=> lease[id].expires < clock
    BY <2>1 DEF TextBefore
  <2> QED BY <2>1, <2>2 DEF LinesAgree, Purgeable, Expired, OwnLeases, InboxItems, On
<1> QED BY <1>1, MigrateTypes, PTL

(* A fee that was taken is answered for in every state: the row is never      *)
(* removed, and the slot keeps the key until the row is there.                *)
THEOREM FeesAnsweredFor == Spec => []FeePaidHasInbox
<1> DEFINE Answered(key) ==
        key \in inboxes \/ (\E r \in Requests : create[r] = key) \/ key \in cut
           FeesIn == \A i \in 1..Len(fees) : Answered(fees[i])
<1>1. MigrateInit => FeesIn
  BY DEF MigrateInit, Init
<1>2. MigrateTypeOK /\ FeesIn /\ [Next]_vars => FeesIn'
  <2> SUFFICES ASSUME MigrateTypeOK, FeesIn, [Next]_vars PROVE FeesIn'
    OBVIOUS
  <2> USE DEF MigrateTypeOK, TypeOK
  <2>1. CASE UNCHANGED inboxVars
    BY <2>1 DEF inboxVars
  <2>2. ASSUME NEW r \in Requests, NEW n \in Nodes, NEW did \in Dids, NEW alias \in Aliases,
               CreateBilled(r, n, did, alias)
        PROVE  FeesIn'
    <3> DEFINE key == [node |-> n, did |-> did, name |-> AliasOf(alias)]
    <3>1. key \in Creation
      BY AliasAssumption DEF Creation, AliasOf, Aliases
    <3>2. /\ create[r] = NoCreation /\ create' = [create EXCEPT ![r] = key]
          /\ fees' = Append(fees, key) /\ inboxes' = inboxes /\ cut' = cut
      BY <2>2 DEF CreateBilled
    <3> HIDE DEF key
    <3>3. ASSUME NEW i \in 1..Len(fees')
          PROVE  fees'[i] \in inboxes' \cup cut' \/ \E d \in Requests : create'[d] = fees'[i]
      <4>1. CASE i = Len(fees) + 1
        BY <3>2, <4>1
      <4>2. CASE i # Len(fees) + 1
        <5>1. i \in 1..Len(fees) /\ fees'[i] = fees[i] /\ fees[i] \in Creation
          BY <3>1, <3>2, <4>2
        <5>2. Answered(fees[i])
          BY <5>1
        <5>3. CASE \E d \in Requests : create[d] = fees[i]
          <6>1. PICK d \in Requests : create[d] = fees[i]
            BY <5>3
          <6>2. d # r
            BY <3>2, <5>1, <6>1, AbsentAssumption
          <6> QED BY <3>2, <5>1, <6>1, <6>2
        <5> QED BY <3>2, <5>1, <5>2, <5>3
      <4> QED BY <4>1, <4>2
    <3> QED BY <3>3
  <2>3. ASSUME NEW r \in Requests, CreateInsert(r) \/ CreateLost(r) PROVE FeesIn'
    <3>1. /\ fees' = fees /\ create' = [create EXCEPT ![r] = NoCreation]
          /\ inboxes \subseteq inboxes' /\ cut \subseteq cut'
          /\ create[r] \in inboxes' \cup cut'
      BY <2>3 DEF CreateInsert, CreateLost
    <3>2. ASSUME NEW i \in 1..Len(fees)
          PROVE  \/ fees[i] \in inboxes' \cup cut'
                 \/ \E d \in Requests : create'[d] = fees[i]
      <4>1. Answered(fees[i])
        OBVIOUS
      <4> QED BY <3>1, <4>1
    <3> QED BY <3>1, <3>2
  <2>4. \/ UNCHANGED inboxVars \/ CreateNext
    BY DEF Next, NodeNext, LeaseNext, StoreInsert, ExtendUpdate, Remove, ListNext, ListInbox,
       ListLeases, Hold, Tick, MigrateNext, Retrieve, StoreCopy, Returns, Fails, vars, nodeVars
  <2> QED BY <2>1, <2>2, <2>3, <2>4 DEF CreateNext
<1>3. MigrateTypeOK /\ FeesIn => FeePaidHasInbox
  <2> SUFFICES ASSUME MigrateTypeOK, FeesIn, NEW i \in 1..Len(fees)
               PROVE  \/ fees[i].name \in InboxRows(fees[i].node, fees[i].did)
                      \/ \E r \in Requests : create[r] = fees[i]
                      \/ fees[i] \in cut
    BY DEF FeePaidHasInbox
  <2>1. fees[i] \in Creation /\ Answered(fees[i])
    BY DEF MigrateTypeOK, TypeOK
  <2>2. /\ fees[i].name \in Names
        /\ fees[i] = [node |-> fees[i].node, did |-> fees[i].did, name |-> fees[i].name]
    BY <2>1 DEF Creation
  <2> QED BY <2>1, <2>2 DEF InboxRows
<1> QED BY <1>1, <1>2, <1>3, MigrateTypes, PTL DEF Spec

=============================================================================
