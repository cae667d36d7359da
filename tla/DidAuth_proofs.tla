---------------------------- MODULE DidAuth_proofs ----------------------------
(***************************************************************************)
(* Proofs about DidAuth, for every set of signatures, texts of them and    *)
(* requests, every window and every clock.                                 *)
(***************************************************************************)
EXTENDS DidAuth, FiniteSetTheorems, TLAPS

\* Request r has spent the nonce of x and is about to verify it.
Spending(r, x) == req[r].pc = "verify" /\ req[r].text = x

\* A row of the nonces table is of a text of a signature made, and lasts as long as
\* its window.
NoncesExact == \A x \in SigTexts : Known(x) => SigOf[x] \in signed /\ nonces[x] = NonceExpiry(x)

\* Only texts of signatures made so far have been let through.
AcceptedSigned == \A x \in SigTexts : accepted[x] > 0 => SigOf[x] \in signed

\* Within its window, one request at most has spent the nonce of a text.
SpentOnce ==
    \A x \in SigTexts : InTime(x) =>
        \A r \in Requests : Spending(r, x) =>
            /\ accepted[x] = 0
            /\ \A q \in Requests \ {r} : ~Spending(q, x)

AuthInv ==
    /\ TypeOK
    /\ NoncesExact
    /\ AcceptedSigned
    /\ SpentOnce
    /\ SpentStaysKnown
    /\ AcceptedOnceInWindow

(* The initial state satisfies the invariant. *)
LEMMA AuthInit == Init => AuthInv
BY BoundsAssumption, SentinelAssumption
   DEF Init, AuthInv, TypeOK, NoncesExact, AcceptedSigned, SpentOnce, SpentStaysKnown,
       AcceptedOnceInWindow, Request, Idle, Known, Spending

(* Every step keeps the invariant: a nonce is inserted only where there is     *)
(* none, and purged only once its window is over.                              *)
LEMMA AuthStep == AuthInv /\ [Next]_vars => AuthInv'
<1> SUFFICES ASSUME AuthInv, [Next]_vars PROVE AuthInv'
  OBVIOUS
<1> USE WindowAssumption, BoundsAssumption, SentinelAssumption, TextsAssumption
    DEF AuthInv, TypeOK, NoncesExact, AcceptedSigned, Request, Idle, client, Known,
        NonceExpiry, InTime, Stamp, Spending
<1>1. ASSUME NEW s \in Sigs, NEW t \in 0..MaxTime, NEW ok \in BOOLEAN, Sign(s, t, ok)
      PROVE  AuthInv'
  <2>1. \A x \in SigTexts : SigOf[x] = s =>
           ~Known(x) /\ accepted[x] = 0 /\ \A r \in Requests : ~Spending(r, x)
    BY <1>1 DEF Sign
  <2>2. TypeOK' /\ NoncesExact' /\ AcceptedSigned'
    BY <1>1, <2>1 DEF Sign
  <2>3. SpentOnce' /\ SpentStaysKnown' /\ AcceptedOnceInWindow'
    BY <1>1, <2>1 DEF Sign, SpentOnce, SpentStaysKnown, AcceptedOnceInWindow
  <2> QED BY <2>2, <2>3
<1>2. ASSUME NEW r \in Requests, NEW x \in SigTexts, Arrive(r, x) PROVE AuthInv'
  BY <1>2 DEF Arrive, SpentOnce, SpentStaysKnown, AcceptedOnceInWindow
<1>3. ASSUME NEW r \in Requests, SelectNonce(r) PROVE AuthInv'
  BY <1>3 DEF SelectNonce, SpentOnce, SpentStaysKnown, AcceptedOnceInWindow
<1>4. ASSUME NEW r \in Requests, InsertNonce(r) PROVE AuthInv'
  <2>1. CASE Known(req[r].text)
    BY SMTT(30), <1>4, <2>1 DEF InsertNonce, SpentOnce, SpentStaysKnown, AcceptedOnceInWindow
  <2>2. CASE ~Known(req[r].text)
    <3> DEFINE x == req[r].text
    <3>1. SigOf[x] \in signed /\ x \in SigTexts
      BY <1>4 DEF InsertNonce
    <3>2. InTime(x) => accepted[x] = 0 /\ \A q \in Requests : ~Spending(q, x)
      BY <2>2, <3>1 DEF SpentStaysKnown
    <3>3. TypeOK' /\ NoncesExact' /\ AcceptedSigned'
      BY SMTT(30), <1>4, <2>2, <3>1 DEF InsertNonce
    <3>4. SpentOnce'
      BY SMTT(30), <1>4, <2>2, <3>1, <3>2 DEF InsertNonce, SpentOnce
    <3>5. SpentStaysKnown' /\ AcceptedOnceInWindow'
      BY <1>4, <2>2, <3>1 DEF InsertNonce, SpentStaysKnown, AcceptedOnceInWindow
    <3> QED BY <3>3, <3>4, <3>5
  <2> QED BY <2>1, <2>2
<1>5. ASSUME NEW r \in Requests, Verify(r) PROVE AuthInv'
  <2>1. TypeOK' /\ NoncesExact' /\ AcceptedSigned'
    BY <1>5 DEF Verify
  <2>2. SpentOnce' /\ SpentStaysKnown'
    BY <1>5 DEF Verify, SpentOnce, SpentStaysKnown
  <2>3. AcceptedOnceInWindow'
    BY <1>5 DEF Verify, SpentOnce, AcceptedOnceInWindow
  <2> QED BY <2>1, <2>2, <2>3
<1>6. ASSUME NEW r \in Requests, Lost(r) PROVE AuthInv'
  BY <1>6 DEF Lost, SpentOnce, SpentStaysKnown, AcceptedOnceInWindow
<1>7. CASE PurgeNonces
  <2>1. \A x \in SigTexts : InTime(x) => nonces'[x] = nonces[x]
    BY <1>7 DEF PurgeNonces, Lapsed
  <2>2. TypeOK' /\ NoncesExact' /\ AcceptedSigned'
    BY <1>7 DEF PurgeNonces
  <2>3. SpentOnce' /\ SpentStaysKnown' /\ AcceptedOnceInWindow'
    BY <1>7, <2>1 DEF PurgeNonces, SpentOnce, SpentStaysKnown, AcceptedOnceInWindow
  <2> QED BY <2>2, <2>3
<1>8. CASE Tick
  BY <1>8 DEF Tick, SpentOnce, SpentStaysKnown, AcceptedOnceInWindow
<1>9. CASE UNCHANGED vars
  BY <1>9 DEF vars, SpentOnce, SpentStaysKnown, AcceptedOnceInWindow
<1> QED BY <1>1, <1>2, <1>3, <1>4, <1>5, <1>6, <1>7, <1>8, <1>9 DEF Next

(* Every variable keeps its type. *)
THEOREM AuthTypeCorrect == Spec => []TypeOK
BY AuthInit, AuthStep, PTL DEF Spec, AuthInv

(* A header text is let through at most once while its signature passes the *)
(* drift check.                                                             *)
THEOREM OnceInWindow == Spec => []AcceptedOnceInWindow
BY AuthInit, AuthStep, PTL DEF Spec, AuthInv

(* The nonce of a spent text outlives its window. *)
THEOREM NonceOutlivesWindow == Spec => []SpentStaysKnown
BY AuthInit, AuthStep, PTL DEF Spec, AuthInv

(* Copies in the middleware are as many as a natural number, at most as many   *)
(* as there are requests.                                                     *)
LEMMA CopiesFinite ==
    ASSUME NEW x
    PROVE  /\ IsFiniteSet(Copies(x)) /\ Cardinality(Copies(x)) \in Nat
           /\ Cardinality(Requests) \in Nat
           /\ Cardinality(Copies(x)) <= Cardinality(Requests)
BY FS_Subset, FS_CardinalityType, RequestsAssumption DEF Copies

(* What a step does to the copies with one header: it lets some go, it lets one *)
(* through, or the header was let through at most once so far.                  *)
LEMMA CopiesMove ==
    ASSUME AuthInv, Next, NEW x \in SigTexts
    PROVE  \/ accepted'[x] = accepted[x] /\ Copies(x)' \subseteq Copies(x)
           \/ \E r \in Copies(x) : accepted'[x] = accepted[x] + 1 /\ Copies(x)' = Copies(x) \ {r}
           \/ accepted'[x] <= 1
<1> USE DEF AuthInv, TypeOK, Request, Idle, client, Copies
<1>1. ASSUME NEW r \in Requests, NEW t \in SigTexts, Arrive(r, t)
      PROVE  \/ accepted'[x] = accepted[x] /\ Copies(x)' \subseteq Copies(x)
             \/ accepted'[x] <= 1
  <2>1. CASE t = x
    <3>1. InTime(x)
      BY <1>1, <2>1, WindowAssumption, TextsAssumption DEF Arrive, InWindow, InTime, Stamp
    <3> QED BY <1>1, <3>1 DEF Arrive, AcceptedOnceInWindow
  <2>2. CASE t # x
    BY <1>1, <2>2 DEF Arrive
  <2> QED BY <2>1, <2>2
<1>2. ASSUME NEW r \in Requests, Verify(r)
      PROVE  \/ accepted'[x] = accepted[x] /\ Copies(x)' \subseteq Copies(x)
             \/ \E q \in Copies(x) : accepted'[x] = accepted[x] + 1 /\ Copies(x)' = Copies(x) \ {q}
  <2>1. CASE req[r].text = x /\ SigOf[x] \in genuine
    <3>1. r \in Copies(x) /\ accepted'[x] = accepted[x] + 1
      BY <1>2, <2>1 DEF Verify
    <3>2. Copies(x)' = Copies(x) \ {r}
      BY <1>2, <2>1 DEF Verify
    <3> QED BY <3>1, <3>2
  <2>2. CASE req[r].text # x \/ SigOf[x] \notin genuine
    BY <1>2, <2>2 DEF Verify
  <2> QED BY <2>1, <2>2
<1>3. ASSUME NEW r \in Requests, SelectNonce(r) \/ InsertNonce(r) \/ Lost(r)
      PROVE  accepted'[x] = accepted[x] /\ Copies(x)' \subseteq Copies(x)
  BY <1>3 DEF SelectNonce, InsertNonce, Lost
<1>4. ASSUME \/ \E t \in Sigs, at \in 0..MaxTime, ok \in BOOLEAN : Sign(t, at, ok)
             \/ PurgeNonces \/ Tick
      PROVE  accepted'[x] = accepted[x] /\ Copies(x)' \subseteq Copies(x)
  BY <1>4 DEF Sign, PurgeNonces, Tick
<1> QED BY <1>1, <1>2, <1>3, <1>4 DEF Next

(* Over its whole life a header text is let through at most once, and once     *)
(* more for each copy that was in the middleware when the window closed.       *)
THEOREM LateCopiesBounded == Spec => []CopiesBounded
<1>1. Init => CopiesBounded
  <2> SUFFICES ASSUME Init, NEW x \in SigTexts
               PROVE  accepted[x] + Cardinality(Copies(x)) <= 1 + Cardinality(Requests)
    BY DEF CopiesBounded
  <2>1. accepted[x] = 0
    BY DEF Init
  <2> QED BY <2>1, CopiesFinite
<1>2. AuthInv /\ AuthInv' /\ CopiesBounded /\ [Next]_vars => CopiesBounded'
  <2> SUFFICES ASSUME AuthInv, AuthInv', CopiesBounded, [Next]_vars, NEW x \in SigTexts
               PROVE  accepted'[x] + Cardinality(Copies(x)') <= 1 + Cardinality(Requests)
    BY DEF CopiesBounded, Copies
  <2>1. /\ accepted[x] + Cardinality(Copies(x)) <= 1 + Cardinality(Requests)
        /\ accepted[x] \in Nat /\ accepted'[x] \in Nat
    BY DEF CopiesBounded, AuthInv, TypeOK
  <2>2. /\ IsFiniteSet(Copies(x)) /\ Cardinality(Copies(x)) \in Nat
        /\ Cardinality(Requests) \in Nat
        /\ Cardinality(Copies(x)') \in Nat /\ Cardinality(Copies(x)') <= Cardinality(Requests)
    BY CopiesFinite, FS_Subset, FS_CardinalityType, RequestsAssumption DEF Copies
  <2>3. CASE accepted'[x] = accepted[x] /\ Copies(x)' \subseteq Copies(x)
    <3>1. Cardinality(Copies(x)') <= Cardinality(Copies(x))
      BY <2>2, <2>3, FS_Subset
    <3> QED BY <2>1, <2>2, <2>3, <3>1
  <2>4. ASSUME NEW r \in Copies(x), accepted'[x] = accepted[x] + 1, Copies(x)' = Copies(x) \ {r}
        PROVE  accepted'[x] + Cardinality(Copies(x)') <= 1 + Cardinality(Requests)
    <3>1. Cardinality(Copies(x)') = Cardinality(Copies(x)) - 1
      BY <2>2, <2>4, FS_RemoveElement
    <3> QED BY <2>1, <2>2, <2>4, <3>1
  <2>5. CASE accepted'[x] <= 1
    BY <2>1, <2>2, <2>5
  <2>6. CASE UNCHANGED vars
    BY <2>3, <2>6 DEF vars, Copies
  <2> QED BY <2>3, <2>4, <2>5, <2>6, CopiesMove
<1> QED BY <1>1, <1>2, AuthInit, AuthStep, PTL DEF Spec

=============================================================================
