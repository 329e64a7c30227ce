---------------------------- MODULE SessionsProofs ----------------------------
(***************************************************************************)
(* Proofs about Sessions for every set of users and requests, every token  *)
(* lifetime and every skew of the clocks.                                  *)
(***************************************************************************)
EXTENDS Sessions, TLAPS

(* A row is locked by the rotation that is past its UPDATE, and the token  *)
(* that rotation was given still works.                                    *)
LocksOwned ==
    /\ \A t \in Requests : rowLock[t] # NoRequest =>
          pc[rowLock[t]] \in {"load", "insert"} /\ token[rowLock[t]] = t
    /\ \A r \in Requests : pc[r] \in {"load", "insert"} =>
          /\ rowLock[token[r]] = r
          /\ token[r] \notin revoked
          /\ txNow[r] < expires[token[r]]

(* A request stores its token once, and works on a token that is stored. *)
RowsKnown ==
    /\ \A r \in sessions : pc[r] \in {"respond", "done"} /\ origin[r] \in sessions
    /\ \A r \in Requests \ sessions : parent[r] = NoRequest /\ origin[r] = r
    /\ \A r \in Requests : pc[r] \in {"begin", "lock", "load", "insert", "revoke"} =>
          token[r] \in sessions

(* A token that was replaced is dead. *)
ParentsDead == \A r \in Requests : parent[r] # NoRequest => parent[r] \in revoked

(* The holder of a row is in its transaction, past the only statement that *)
(* waits for a row.                                                        *)
LocksHeld ==
    \A t \in Requests : rowLock[t] # NoRequest =>
        rowLock[t] \in Requests /\ pc[rowLock[t]] \in {"load", "insert"}

IInv == TypeOK /\ LocksOwned /\ RowsKnown /\ ParentsDead

-----------------------------------------------------------------------------
LEMMA InitIInv == Init => IInv
BY NobodyAssumption, BoundAssumption
   DEF Init, IInv, TypeOK, LocksOwned, RowsKnown, ParentsDead, Replies, InFlight

(* The steps that change neither rows nor locks. *)
QuietStep(r) ==
    \/ Arrive(r) \/ BeginRotation(r) \/ RefuseToken(r) \/ LoadUser(r) \/ Respond(r)
    \/ LogoutFails(r)

LEMMA NextCases ==
    ASSUME [Next]_vars
    PROVE  \/ \E r \in Requests :
                 \/ QuietStep(r) \/ CreateSession(r) \/ LockToken(r) \/ Rotate(r)
                 \/ RevokeSession(r) \/ RefuseInactive(r) \/ Fail(r)
           \/ \E u \in Users : Deactivate(u)
           \/ Tick
           \/ UNCHANGED vars
BY DEF Next, Serve, QuietStep, Finished

LEMMA TypeStep ==
    ASSUME IInv, [Next]_vars
    PROVE  TypeOK'
<1>. TypeOK /\ RowsKnown
  BY DEF IInv
<1> USE DEF TypeOK, Goto, Answer, InFlight, Replies, rows
<1>1. ASSUME NEW r \in Requests, Arrive(r)
      PROVE  TypeOK'
  <2>1. ReplacementExpiresAt \in Int
    BY LifetimeAssumption DEF ReplacementExpiresAt
  <2>. QED
    BY <1>1, <2>1 DEF Arrive, Login, VerifyPhone, Refresh, Logout, Refuse, Known
<1>2. ASSUME NEW r \in Requests, QuietStep(r), ~Arrive(r)
      PROVE  TypeOK'
  BY <1>2 DEF QuietStep, BeginRotation, RefuseToken, LoadUser, Respond, LogoutFails,
              RowsKnown
<1>3. ASSUME NEW r \in Requests, CreateSession(r)
      PROVE  TypeOK'
  <2>1. ReplacementExpiresAt \in Int
    BY LifetimeAssumption DEF ReplacementExpiresAt
  <2>. QED
    BY <1>3, <2>1 DEF CreateSession
<1>4. ASSUME NEW r \in Requests, LockToken(r)
      PROVE  TypeOK'
  BY <1>4 DEF LockToken
<1>5. ASSUME NEW r \in Requests, Rotate(r)
      PROVE  TypeOK'
  BY <1>5 DEF Rotate, ReleaseLocks, RowsKnown
<1>6. ASSUME NEW r \in Requests, RevokeSession(r)
      PROVE  TypeOK'
  BY <1>6 DEF RevokeSession, RowsKnown
<1>7. ASSUME NEW r \in Requests, RefuseInactive(r) \/ Fail(r)
      PROVE  TypeOK'
  BY <1>7 DEF RefuseInactive, Fail, ReleaseLocks
<1>8. CASE Tick \/ \E u \in Users : Deactivate(u)
  BY <1>8, BoundAssumption DEF Tick, Deactivate
<1>9. CASE UNCHANGED vars
  BY <1>9 DEF vars
<1>. QED
  BY <1>1, <1>2, <1>3, <1>4, <1>5, <1>6, <1>7, <1>8, <1>9, NextCases

LEMMA RestStep ==
    ASSUME IInv, [Next]_vars
    PROVE  LocksOwned' /\ RowsKnown' /\ ParentsDead'
<1>. TypeOK /\ LocksOwned /\ RowsKnown /\ ParentsDead
  BY DEF IInv
<1>. /\ sessions \subseteq Requests /\ revoked \subseteq sessions
     /\ expires \in [Requests -> Int] /\ txNow \in [Requests -> Nat]
     /\ rowLock \in [Requests -> Requests \cup {NoRequest}]
     /\ pc \in [Requests -> {"idle", "done"} \cup InFlight]
     /\ token \in [Requests -> Requests \cup {NoRequest}]
     /\ parent \in [Requests -> Requests \cup {NoRequest}]
     /\ origin \in [Requests -> Requests]
  BY DEF TypeOK
<1> USE DEF LocksOwned, RowsKnown, ParentsDead, Goto, Answer, rows
<1>1. ASSUME NEW r \in Requests, QuietStep(r)
      PROVE  LocksOwned' /\ RowsKnown' /\ ParentsDead'
  <2>1. CASE Arrive(r)
    BY <1>1, <2>1 DEF Arrive, Login, VerifyPhone, Refresh, Logout, Refuse, Known
  <2>2. CASE ~Arrive(r)
    BY <1>1, <2>2 DEF QuietStep, BeginRotation, RefuseToken, LoadUser, Respond, LogoutFails
  <2>. QED
    BY <2>1, <2>2
<1>2. ASSUME NEW r \in Requests, CreateSession(r)
      PROVE  LocksOwned' /\ RowsKnown' /\ ParentsDead'
  BY <1>2 DEF CreateSession
<1>3. ASSUME NEW r \in Requests, LockToken(r)
      PROVE  LocksOwned' /\ RowsKnown' /\ ParentsDead'
  BY <1>3, NobodyAssumption DEF LockToken, Usable
<1>4. ASSUME NEW r \in Requests, Rotate(r)
      PROVE  LocksOwned' /\ RowsKnown' /\ ParentsDead'
  <2>1. r \notin sessions /\ token[r] \in sessions
    BY <1>4 DEF Rotate
  <2>2. LocksOwned'
    BY <1>4, <2>1 DEF Rotate, ReleaseLocks
  <2>3. RowsKnown'
    BY <1>4, <2>1 DEF Rotate
  <2>4. ParentsDead'
    BY <1>4, <2>1 DEF Rotate
  <2>. QED
    BY <2>2, <2>3, <2>4
<1>5. ASSUME NEW r \in Requests, RevokeSession(r)
      PROVE  LocksOwned' /\ RowsKnown' /\ ParentsDead'
  BY <1>5, NobodyAssumption DEF RevokeSession
<1>6. ASSUME NEW r \in Requests, RefuseInactive(r) \/ Fail(r)
      PROVE  LocksOwned' /\ RowsKnown' /\ ParentsDead'
  BY <1>6 DEF RefuseInactive, Fail, ReleaseLocks, InFlight
<1>7. CASE Tick \/ \E u \in Users : Deactivate(u)
  BY <1>7 DEF Tick, Deactivate
<1>8. CASE UNCHANGED vars
  BY <1>8 DEF vars
<1>. QED
  BY <1>1, <1>2, <1>3, <1>4, <1>5, <1>6, <1>7, <1>8, NextCases

(* Every reachable state satisfies the inductive invariant. *)
THEOREM Invariance == Spec => []IInv
<1>1. IInv /\ [Next]_vars => IInv'
  BY TypeStep, RestStep DEF IInv
<1>. QED
  BY InitIInv, <1>1, PTL DEF Spec

(* Every variable keeps its type. *)
THEOREM TypeCorrect == Spec => []TypeOK
<1>1. IInv => TypeOK
  BY DEF IInv
<1>. QED
  BY Invariance, <1>1, PTL

(* No row lock outlives the transaction that took it, and a request that   *)
(* waits for one waits for a rotation that waits for nobody.               *)
THEOREM LocksGivenBack == Spec => []LocksHeld
<1>1. IInv => LocksHeld
  BY DEF IInv, TypeOK, LocksOwned, LocksHeld
<1>. QED
  BY Invariance, <1>1, PTL

-----------------------------------------------------------------------------
(* Rows change in three steps only. *)
LEMMA RowSteps ==
    ASSUME IInv, [Next]_vars
    PROVE  \/ UNCHANGED rows
           \/ \E r \in Requests : CreateSession(r) \/ Rotate(r) \/ RevokeSession(r)
<1>1. ASSUME NEW r \in Requests, QuietStep(r)
      PROVE  UNCHANGED rows
  BY <1>1 DEF QuietStep, Arrive, Login, VerifyPhone, Refresh, Logout, Refuse,
              BeginRotation, RefuseToken, LoadUser, Respond, LogoutFails
<1>2. ASSUME NEW r \in Requests, LockToken(r) \/ RefuseInactive(r) \/ Fail(r)
      PROVE  UNCHANGED rows
  BY <1>2 DEF LockToken, RefuseInactive, Fail
<1>3. Tick \/ (\E u \in Users : Deactivate(u)) \/ UNCHANGED vars => UNCHANGED rows
  BY DEF Tick, Deactivate, vars
<1>. QED
  BY <1>1, <1>2, <1>3, NextCases

(* What the three steps do to the rows. *)
LEMMA RotateRows ==
    ASSUME IInv, NEW r \in Requests, Rotate(r)
    PROVE  /\ r \notin sessions /\ token[r] \in sessions \ revoked
           /\ txNow[r] < expires[token[r]]
           /\ parent[r] = NoRequest /\ origin[r] = r
           /\ sessions' = sessions \cup {r} /\ revoked' = revoked \cup {token[r]}
           /\ parent' = [parent EXCEPT ![r] = token[r]]
           /\ origin' = [origin EXCEPT ![r] = origin[token[r]]]
           /\ loggedOut' = loggedOut /\ txNow' = txNow /\ expires' = expires
BY DEF Rotate, IInv, LocksOwned, RowsKnown, Goto

LEMMA CreateRows ==
    ASSUME IInv, NEW r \in Requests, CreateSession(r)
    PROVE  /\ r \notin sessions /\ parent[r] = NoRequest /\ origin[r] = r
           /\ sessions' = sessions \cup {r} /\ revoked' = revoked
           /\ parent' = parent /\ origin' = origin /\ loggedOut' = loggedOut
BY DEF CreateSession, IInv, RowsKnown

LEMMA RevokeRows ==
    ASSUME IInv, NEW r \in Requests, RevokeSession(r)
    PROVE  /\ token[r] \in sessions
           /\ sessions' = sessions /\ revoked' = revoked \cup {token[r]}
           /\ parent' = parent /\ origin' = origin
           /\ loggedOut' = loggedOut \cup {token[r]}
BY DEF RevokeSession, IInv, RowsKnown

LEMMA RowTypes ==
    ASSUME IInv
    PROVE  /\ sessions \subseteq Requests /\ revoked \subseteq sessions
           /\ parent \in [Requests -> Requests \cup {NoRequest}]
           /\ origin \in [Requests -> Requests]
           /\ NoRequest \notin sessions
           /\ \A s \in sessions : origin[s] \in sessions
           /\ \A s \in Requests : parent[s] # NoRequest => parent[s] \in revoked
BY NobodyAssumption DEF IInv, TypeOK, RowsKnown, ParentsDead

(* A token is exchanged at most once. *)
THEOREM ExchangedOnce == Spec => []OneSuccessor
<1>1. Init => OneSuccessor
  BY DEF Init, OneSuccessor
<1>2. IInv /\ OneSuccessor /\ [Next]_vars => OneSuccessor'
  <2> SUFFICES ASSUME IInv, OneSuccessor, [Next]_vars
               PROVE  OneSuccessor'
    OBVIOUS
  <2>1. CASE UNCHANGED rows
    BY <2>1 DEF OneSuccessor, rows
  <2>2. ASSUME NEW r \in Requests, CreateSession(r)
        PROVE  OneSuccessor'
    BY <2>2, CreateRows, RowTypes DEF OneSuccessor
  <2>3. ASSUME NEW r \in Requests, Rotate(r)
        PROVE  OneSuccessor'
    BY <2>3, RotateRows, RowTypes DEF OneSuccessor
  <2>4. ASSUME NEW r \in Requests, RevokeSession(r)
        PROVE  OneSuccessor'
    BY <2>4, RevokeRows DEF OneSuccessor
  <2>. QED
    BY <2>1, <2>2, <2>3, <2>4, RowSteps
<1>. QED
  BY <1>1, <1>2, Invariance, PTL DEF Spec

(* Of the tokens of one login at most one works. *)
THEOREM OneLiveToken == Spec => []OneLivePerLogin
<1>1. Init => OneLivePerLogin
  BY DEF Init, OneLivePerLogin
<1>2. IInv /\ OneLivePerLogin /\ [Next]_vars => OneLivePerLogin'
  <2> SUFFICES ASSUME IInv, OneLivePerLogin, [Next]_vars
               PROVE  OneLivePerLogin'
    OBVIOUS
  <2>1. CASE UNCHANGED rows
    BY <2>1 DEF OneLivePerLogin, rows
  <2>2. ASSUME NEW r \in Requests, CreateSession(r)
        PROVE  OneLivePerLogin'
    BY <2>2, CreateRows, RowTypes DEF OneLivePerLogin
  <2>3. ASSUME NEW r \in Requests, Rotate(r)
        PROVE  OneLivePerLogin'
    BY <2>3, RotateRows, RowTypes DEF OneLivePerLogin
  <2>4. ASSUME NEW r \in Requests, RevokeSession(r)
        PROVE  OneLivePerLogin'
    BY <2>4, RevokeRows DEF OneLivePerLogin
  <2>. QED
    BY <2>1, <2>2, <2>3, <2>4, RowSteps
<1>. QED
  BY <1>1, <1>2, Invariance, PTL DEF Spec

(* A token dies only when it is replaced or logged out. *)
THEOREM TokensAccountedFor == Spec => []NoTokenLost
<1>1. Init => NoTokenLost
  BY DEF Init, NoTokenLost
<1>2. IInv /\ NoTokenLost /\ [Next]_vars => NoTokenLost'
  <2> SUFFICES ASSUME IInv, NoTokenLost, [Next]_vars
               PROVE  NoTokenLost'
    OBVIOUS
  <2>1. CASE UNCHANGED rows
    BY <2>1 DEF NoTokenLost, rows
  <2>2. ASSUME NEW r \in Requests, CreateSession(r)
        PROVE  NoTokenLost'
    BY <2>2, CreateRows, RowTypes DEF NoTokenLost
  <2>3. ASSUME NEW r \in Requests, Rotate(r)
        PROVE  NoTokenLost'
    <3>1. \A s \in sessions : parent'[s] = parent[s]
      BY <2>3, RotateRows, RowTypes
    <3>2. parent'[r] = token[r] /\ r \in sessions'
      BY <2>3, RotateRows, RowTypes
    <3>. QED
      BY <2>3, <3>1, <3>2, RotateRows DEF NoTokenLost
  <2>4. ASSUME NEW r \in Requests, RevokeSession(r)
        PROVE  NoTokenLost'
    BY <2>4, RevokeRows DEF NoTokenLost
  <2>. QED
    BY <2>1, <2>2, <2>3, <2>4, RowSteps
<1>. QED
  BY <1>1, <1>2, Invariance, PTL DEF Spec

(* A replacement appears in the step that kills the token it replaces. *)
THEOREM RotationAtomic == Spec => RotationConsumesLive
<1> DEFINE A == \A r \in sessions' \ sessions :
                   parent'[r] # NoRequest =>
                       /\ parent'[r] \in (sessions \ revoked) \cap revoked'
                       /\ txNow[r] < expires[parent'[r]]
<1>1. IInv /\ [Next]_vars => [A]_vars
  <2> SUFFICES ASSUME IInv, [Next]_vars
               PROVE  A
    OBVIOUS
  <2>1. CASE UNCHANGED rows
    BY <2>1 DEF rows
  <2>2. ASSUME NEW r \in Requests, CreateSession(r)
        PROVE  A
    BY <2>2, CreateRows
  <2>3. ASSUME NEW r \in Requests, Rotate(r)
        PROVE  A
    <3>1. parent'[r] = token[r]
      BY <2>3, RotateRows, RowTypes
    <3>. QED
      BY <2>3, <3>1, RotateRows
  <2>4. ASSUME NEW r \in Requests, RevokeSession(r)
        PROVE  A
    BY <2>4, RevokeRows
  <2>. QED
    BY <2>1, <2>2, <2>3, <2>4, RowSteps
<1>. HIDE DEF A
<1>2. Spec => [][A]_vars
  BY <1>1, Invariance, PTL DEF Spec
<1>. QED
  BY <1>2 DEF RotationConsumesLive, A

(* A login none of whose tokens works is over for good. *)
THEOREM EndedForGood == Spec => SessionsEndForGood
<1> DEFINE A == \A o \in sessions :
                   (\A t \in sessions \ revoked : origin[t] # o) =>
                       \A t \in sessions' \ revoked' : origin'[t] # o
<1>1. IInv /\ [Next]_vars => [A]_vars
  <2> SUFFICES ASSUME IInv, [Next]_vars,
                      NEW o \in sessions, \A t \in sessions \ revoked : origin[t] # o
               PROVE  \A t \in sessions' \ revoked' : origin'[t] # o
    OBVIOUS
  <2>1. CASE UNCHANGED rows
    BY <2>1 DEF rows
  <2>2. ASSUME NEW r \in Requests, CreateSession(r)
        PROVE  \A t \in sessions' \ revoked' : origin'[t] # o
    BY <2>2, CreateRows
  <2>3. ASSUME NEW r \in Requests, Rotate(r)
        PROVE  \A t \in sessions' \ revoked' : origin'[t] # o
    <3>1. origin'[r] # o
      BY <2>3, RotateRows, RowTypes
    <3>2. \A t \in sessions \ revoked : origin'[t] # o
      BY <2>3, RotateRows, RowTypes
    <3>. QED
      BY <2>3, <3>1, <3>2, RotateRows
  <2>4. ASSUME NEW r \in Requests, RevokeSession(r)
        PROVE  \A t \in sessions' \ revoked' : origin'[t] # o
    BY <2>4, RevokeRows
  <2>. QED
    BY <2>1, <2>2, <2>3, <2>4, RowSteps
<1>. HIDE DEF A
<1>2. Spec => [][A]_vars
  BY <1>1, Invariance, PTL DEF Spec
<1>. QED
  BY <1>2 DEF SessionsEndForGood, A

-----------------------------------------------------------------------------
(* Refinement *)

LEMMA LedgerStep == IInv /\ [Next]_vars => [Ledger!Next]_(Ledger!ledger)
<1> SUFFICES ASSUME IInv, [Next]_vars
             PROVE  Ledger!Next \/ UNCHANGED Ledger!ledger
  OBVIOUS
<1> USE DEF Ledger!Next, Ledger!ledger, Ledger!Fresh
<1>1. CASE UNCHANGED rows
  BY <1>1 DEF rows
<1>2. ASSUME NEW r \in Requests, CreateSession(r)
      PROVE  Ledger!Next
  <2>1. Ledger!Open(r)
    BY <1>2, CreateRows, RowTypes DEF Ledger!Open
  <2>. QED
    BY <2>1
<1>3. ASSUME NEW r \in Requests, Rotate(r)
      PROVE  Ledger!Next
  <2>1. Ledger!Rotate(token[r], r)
    BY <1>3, RotateRows, RowTypes DEF Ledger!Rotate
  <2>2. token[r] \in Requests
    BY <1>3, RotateRows, RowTypes
  <2>. QED
    BY <2>1, <2>2
<1>4. ASSUME NEW r \in Requests, RevokeSession(r)
      PROVE  Ledger!Next \/ UNCHANGED Ledger!ledger
  <2>1. CASE token[r] \in revoked
    BY <1>4, <2>1, RevokeRows
  <2>2. CASE token[r] \notin revoked
    <3>1. Ledger!Close(token[r])
      BY <1>4, <2>2, RevokeRows, RowTypes DEF Ledger!Close
    <3>2. token[r] \in Requests
      BY <1>4, RevokeRows, RowTypes
    <3>. QED
      BY <3>1, <3>2
  <2>. QED
    BY <2>1, <2>2
<1>. QED
  BY <1>1, <1>2, <1>3, <1>4, RowSteps

(* Rows, locks and transactions implement the ledger of tokens. *)
THEOREM LedgerImplemented == Spec => ImplementsLedger
<1>1. Init => Ledger!Init
  BY DEF Init, Ledger!Init
<1>. QED
  BY <1>1, LedgerStep, Invariance, PTL DEF Spec, ImplementsLedger, Ledger!Spec

(* The ledger itself has room for one live token per login. *)
THEOREM LedgerKeepsOneLive == Ledger!Spec => []Ledger!OneLive
<1> DEFINE Inv == /\ origin \in [Requests -> Requests]
                  /\ (sessions \ revoked) \cup revoked \subseteq Requests
                  /\ \A t \in sessions \ revoked : origin[t] \in (sessions \ revoked) \cup revoked
                  /\ Ledger!OneLive
<1>1. Ledger!Init => Inv
  BY DEF Ledger!Init, Ledger!OneLive
<1>2. Inv /\ [Ledger!Next]_(Ledger!ledger) => Inv'
  <2> SUFFICES ASSUME Inv, Ledger!Next
               PROVE  Inv'
    BY DEF Ledger!ledger, Ledger!OneLive
  <2>. USE DEF Ledger!OneLive, Ledger!Fresh
  <2>1. ASSUME NEW t \in Requests, Ledger!Open(t)
        PROVE  Inv'
    BY <2>1 DEF Ledger!Open
  <2>2. ASSUME NEW t \in Requests, Ledger!Close(t)
        PROVE  Inv'
    BY <2>2 DEF Ledger!Close
  <2>3. ASSUME NEW t \in Requests, NEW u \in Requests, Ledger!Rotate(t, u)
        PROVE  Inv'
    BY <2>3 DEF Ledger!Rotate
  <2>. QED
    BY <2>1, <2>2, <2>3 DEF Ledger!Next
<1>3. Inv => Ledger!OneLive
  OBVIOUS
<1>. HIDE DEF Inv
<1>. QED
  BY <1>1, <1>2, <1>3, PTL DEF Ledger!Spec
=============================================================================
