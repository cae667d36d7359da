-------------------------------- MODULE Migrate --------------------------------
(***************************************************************************)
(* Cross-node moves: migrate of packages/sdk-core/src/index.ts retrieves   *)
(* from the client's node and stores on the destination, for the caller's  *)
(* own inbox.  The nodes are those of Inboxes and go on meanwhile: leases  *)
(* expire and are removed, answers are lost, and the caller may try again. *)
(***************************************************************************)
EXTENDS Inboxes

CONSTANTS
    Calls,    \* slots for calls of migrate
    NoCall

Call == [pc : {"store", "answer"}, did : Dids, alias : Names,   \* Default when left out
         to : Nodes,                 \* destinationUrl
         source : Ids, copy : Ids]   \* sourceStorageId; newStorageId, once stored

Move == [did : Dids, alias : Names, to : Nodes, source : Ids, copy : Ids]

ASSUME CallAssumption == NoCall \notin Call

VARIABLES
    call,     \* the call in each slot
    \* History, read by properties only:
    moved,    \* calls that returned
    strayed   \* copies whose answer was lost

callVars == <<call, moved, strayed>>
vars == <<nodeVars, callVars>>

MigrateInit ==
    /\ Init
    /\ call = [c \in Calls |-> NoCall]
    /\ moved = {}
    /\ strayed = {}

-----------------------------------------------------------------------------
\* this.retrieve, from the client's own node: anything but 200 throws.
Retrieve(c, did, alias, at, to, source) ==
    /\ call[c] = NoCall
    /\ RetrieveAnswer(at, did, alias, source) = "served"
    /\ call' = [call EXCEPT ![c] = [pc |-> "store", did |-> did, alias |-> alias,
                                    to |-> to, source |-> source, copy |-> source]]
    /\ UNCHANGED <<nodeVars, moved, strayed>>

\* Mutant: the alias is left out, the copy goes to the default inbox.
ToCallerOnly(m) == [by |-> m.did, to |-> m.did, alias |-> NoAlias]

\* The caller and the options of destinationClient.store.
ToCaller(m) == [by |-> m.did, to |-> m.did, alias |-> m.alias]

\* destinationClient.store: the destination inserts the copy.
StoreCopy(c, hours, id) ==
    LET m == call[c] IN
    /\ m # NoCall
    /\ m.pc = "store"
    /\ Insert(m.to, ToCaller(m), hours, id, m.source)
    /\ call' = [call EXCEPT ![c].pc = "answer", ![c].copy = id]
    /\ UNCHANGED <<inboxVars, clock, view, faults, moved, strayed>>

\* migrate returns newStorageId.
Returns(c) ==
    LET m == call[c] IN
    /\ m # NoCall
    /\ m.pc = "answer"
    /\ moved' = moved \cup {[did |-> m.did, alias |-> m.alias, to |-> m.to,
                             source |-> m.source, copy |-> m.copy]}
    /\ call' = [call EXCEPT ![c] = NoCall]
    /\ UNCHANGED <<nodeVars, strayed>>

\* Mutant: the store is sent again when its answer is lost.
FailsOrResends(c) ==
    LET m == call[c] IN
    /\ m # NoCall
    /\ faults < MaxFaults
    /\ faults' = faults + 1
    /\ call' = [call EXCEPT ![c] = IF m.pc = "answer" THEN [m EXCEPT !.pc = "store"] ELSE NoCall]
    /\ UNCHANGED <<leaseVars, inboxVars, clock, view, moved, strayed>>

\* A request or an answer is lost, or the destination refuses: the call throws.
Fails(c) ==
    LET m == call[c] IN
    /\ m # NoCall
    /\ faults < MaxFaults
    /\ faults' = faults + 1
    /\ strayed' = IF m.pc = "answer" THEN strayed \cup {m.copy} ELSE strayed
    /\ call' = [call EXCEPT ![c] = NoCall]
    /\ UNCHANGED <<leaseVars, inboxVars, clock, view, moved>>

MigrateNext ==
    \E c \in Calls :
        \/ \E did \in Dids, alias \in Names, at, to \in Nodes, source \in Ids :
               Retrieve(c, did, alias, at, to, source)
        \/ \E hours \in Hours, id \in Ids : StoreCopy(c, hours, id)
        \/ Returns(c)
        \/ Fails(c)

Next == (NodeNext /\ UNCHANGED callVars) \/ MigrateNext

Spec == MigrateInit /\ [][Next]_vars

-----------------------------------------------------------------------------
(* Properties *)

MigrateTypeOK ==
    /\ TypeOK
    /\ call \in [Calls -> Call \cup {NoCall}]
    /\ moved \subseteq Move
    /\ strayed \subseteq Ids

(* When migrate has returned, the source may go: as long as its lease lasts   *)
(* the new id holds the source's ciphertext on the destination, is the        *)
(* caller's, and is listed in the inbox the caller named.                     *)
MigratedFaithful ==
    \A m \in moved :
        /\ content[m.copy] = content[m.source]
        /\ Stored(m.copy) =>
               /\ lease[m.copy].node = m.to /\ lease[m.copy].owner = m.did
               /\ TextBefore(clock, lease[m.copy].expires) =>
                      m.copy \in InboxItems(m.to, m.did, m.alias)

(* However often it is moved, a ciphertext reaches only callers that its      *)
(* sender was or had addressed it to: access is checked on the source, at     *)
(* another node and another time than the copy is made.                       *)
ContentStaysAddressed ==
    \A id \in Ids : \A copy \in sent[id] :
        \E original \in sent[content[id]] : copy.by \in {original.by, original.to}

(* A copy is known to its caller, about to be, or its answer was lost: a call *)
(* of migrate never makes a second one.                                       *)
CopiesAccountedFor ==
    \A id \in Ids : content[id] # id =>
        \/ \E m \in moved : m.copy = id
        \/ \E c \in Calls : call[c] # NoCall /\ call[c].pc = "answer" /\ call[c].copy = id
        \/ id \in strayed

=============================================================================
