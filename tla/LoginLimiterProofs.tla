-------------------------- MODULE LoginLimiterProofs --------------------------
(***************************************************************************)
(* Proofs about LoginLimiter for every limit, every window and every       *)
(* number of logins in flight.                                             *)
(***************************************************************************)
EXTENDS LoginLimiter, FiniteSetTheorems, TLAPS

(* The logins that key k has let in and whose failure it has not counted.  *)
Pending(k) ==
    {w \in Workers :
        \/ account[w] = k /\ pc[w] \in {"allow_ip", "compare", "fail_account"}
        \/ address[w] = k /\ pc[w] \in {"compare", "fail_account", "fail_ip"}}

(* The failures that count when a login is let in. *)
Counted(k) == IF Lapsed(k) THEN 0 ELSE failures[k]

Capacity == MaxFailures - 1 + Cardinality(Workers)

(* A failure that is still on its way has its place reserved. *)
Balanced == \A k \in Keys : Counted(k) + Cardinality(Pending(k)) <= Capacity

IInv == TypeOK /\ Balanced /\ FailuresBounded

-----------------------------------------------------------------------------
LEMMA WorkersSize == Cardinality(Workers) \in Nat
BY WorkersAssumption, FS_CardinalityType

LEMMA PendingSize ==
    ASSUME NEW k
    PROVE  /\ IsFiniteSet(Pending(k))
           /\ Cardinality(Pending(k)) \in Nat
           /\ Cardinality(Pending(k)) <= Cardinality(Workers)
<1>1. Pending(k) \subseteq Workers
  BY DEF Pending
<1>. QED
  BY <1>1, WorkersAssumption, FS_Subset, FS_CardinalityType

LEMMA InitIInv == Init => IInv
<1> SUFFICES ASSUME Init
             PROVE  IInv
  OBVIOUS
<1>1. TypeOK
  BY LimitAssumption DEF Init, TypeOK
<1>2. ASSUME NEW k \in Keys
      PROVE  failures[k] = 0 /\ Counted(k) + Cardinality(Pending(k)) <= Capacity
  <2>1. failures[k] = 0 /\ Counted(k) = 0
    BY DEF Init, Counted, Lapsed
  <2>. QED
    BY <2>1, PendingSize, WorkersSize, LimitAssumption DEF Capacity
<1>3. FailuresBounded
  BY <1>2, WorkersSize, LimitAssumption DEF FailuresBounded
<1>. QED
  BY <1>1, <1>2, <1>3 DEF IInv, Balanced

LEMMA TypeStep == TypeOK /\ [Next]_vars => TypeOK'
<1> SUFFICES ASSUME TypeOK, [Next]_vars
             PROVE  TypeOK'
  OBVIOUS
<1> USE LimitAssumption DEF TypeOK, Goto, Stages, limiter
<1>1. ASSUME NEW w \in Workers, Login(w) \/ AllowAccount(w) \/ AllowAddress(w) \/ Compare(w)
      PROVE  TypeOK'
  BY <1>1 DEF Login, AllowAccount, AllowAddress, Compare
<1>2. ASSUME NEW w \in Workers, FailAccount(w) \/ FailAddress(w)
      PROVE  TypeOK'
  BY <1>2 DEF FailAccount, FailAddress, RecordFailure, Keys
<1>3. ASSUME NEW w \in Workers, ResetAccount(w) \/ ResetAddress(w) \/ Issue(w)
      PROVE  TypeOK'
  BY <1>3 DEF ResetAccount, ResetAddress, Issue, Reset, Keys
<1>4. CASE Tick
  BY <1>4 DEF Tick
<1>5. CASE UNCHANGED vars
  BY <1>5 DEF vars
<1>. QED
  BY <1>1, <1>2, <1>3, <1>4, <1>5 DEF Next, Step

(* Fewer pending logins and no more failures: the balance stays. *)
LEMMA LessPending ==
    ASSUME NEW k \in Keys, TypeOK, TypeOK',
           Counted(k) + Cardinality(Pending(k)) <= Capacity,
           Pending(k)' \subseteq Pending(k), Counted(k)' <= Counted(k)
    PROVE  Counted(k)' + Cardinality(Pending(k)') <= Capacity
<1>1. /\ Cardinality(Pending(k)) \in Nat /\ Cardinality(Pending(k)') \in Nat
      /\ Cardinality(Pending(k)') <= Cardinality(Pending(k))
  BY PendingSize, FS_Subset, FS_CardinalityType
<1>2. Counted(k) \in Nat /\ Counted(k)' \in Nat
  BY DEF TypeOK, Counted
<1>3. Capacity \in Int
  BY WorkersSize, LimitAssumption DEF Capacity
<1>. QED
  BY <1>1, <1>2, <1>3

(* A login that has just been let in finds fewer than MaxFailures counted. *)
LEMMA LetIn ==
    ASSUME NEW k \in Keys, TypeOK, Allow(k), Counted(k)' = Counted(k)
    PROVE  Counted(k)' + Cardinality(Pending(k)') <= Capacity
<1>1. Counted(k) \in Nat /\ Counted(k) <= MaxFailures - 1
  BY LimitAssumption DEF TypeOK, Counted, Allow
<1>2. /\ Cardinality(Pending(k)') \in Nat
      /\ Cardinality(Pending(k)') <= Cardinality(Workers)
  <2>1. Pending(k)' \subseteq Workers
    BY DEF Pending
  <2>. QED
    BY <2>1, WorkersAssumption, FS_Subset, FS_CardinalityType
<1>. QED
  BY <1>1, <1>2, WorkersSize, LimitAssumption DEF Capacity

(* A pending failure is counted. *)
LEMMA FailureCounted ==
    ASSUME NEW k \in Keys, TypeOK, RecordFailure(k), NEW w \in Pending(k),
           Pending(k)' = Pending(k) \ {w},
           Counted(k) + Cardinality(Pending(k)) <= Capacity
    PROVE  /\ Counted(k)' + Cardinality(Pending(k)') <= Capacity
           /\ failures'[k] <= Capacity
<1>1. Cardinality(Pending(k)') = Cardinality(Pending(k)) - 1
  BY PendingSize, FS_RemoveElement
<1>2. failures'[k] = Counted(k) + 1 /\ Counted(k)' = Counted(k) + 1
  BY LimitAssumption DEF RecordFailure, Counted, Lapsed, TypeOK
<1>3. /\ Counted(k) \in Nat /\ Capacity \in Int /\ Cardinality(Pending(k)) \in Nat
      /\ Cardinality(Pending(k)') \in Nat
  <2>1. IsFiniteSet(Pending(k)')
    BY PendingSize, FS_RemoveElement
  <2>. QED
    BY <2>1, PendingSize, FS_CardinalityType, WorkersSize, LimitAssumption
       DEF TypeOK, Counted, Capacity
<1>. QED
  BY <1>1, <1>2, <1>3

LEMMA BalancedStep ==
    ASSUME IInv, [Next]_vars, NEW k \in Keys
    PROVE  /\ Counted(k)' + Cardinality(Pending(k)') <= Capacity
           /\ failures'[k] <= Capacity
<1>. /\ TypeOK /\ TypeOK'
     /\ Counted(k) + Cardinality(Pending(k)) <= Capacity
     /\ failures[k] <= Capacity
  BY TypeStep DEF IInv, Balanced, FailuresBounded, Capacity
<1>. /\ pc \in [Workers -> {"idle"} \cup Stages]
     /\ failures \in [Keys -> Nat] /\ age \in [Keys -> 0 .. Window]
     /\ account \in [Workers -> Accounts] /\ address \in [Workers -> Addresses]
  BY DEF TypeOK
<1>0. Capacity \in Nat
  BY WorkersSize, LimitAssumption DEF Capacity
<1>1. ASSUME NEW w \in Workers, AllowAccount(w), account[w] = k, Allow(k)
      PROVE  Counted(k)' + Cardinality(Pending(k)') <= Capacity /\ failures'[k] <= Capacity
  BY <1>1, LetIn DEF AllowAccount, limiter, Counted, Lapsed
<1>2. ASSUME NEW w \in Workers, AllowAddress(w), address[w] = k, Allow(k)
      PROVE  Counted(k)' + Cardinality(Pending(k)') <= Capacity /\ failures'[k] <= Capacity
  BY <1>2, LetIn DEF AllowAddress, limiter, Counted, Lapsed
<1>3. ASSUME NEW w \in Workers,
             \/ Login(w) \/ Compare(w) \/ Issue(w)
             \/ AllowAccount(w) /\ ~(account[w] = k /\ Allow(k))
             \/ AllowAddress(w) /\ ~(address[w] = k /\ Allow(k))
      PROVE  Counted(k)' + Cardinality(Pending(k)') <= Capacity /\ failures'[k] <= Capacity
  <2>1. failures' = failures /\ age' = age
    BY <1>3 DEF Login, Compare, Issue, AllowAccount, AllowAddress, limiter
  <2>2. Counted(k)' = Counted(k) /\ Counted(k) \in Nat
    BY <2>1 DEF Counted, Lapsed
  <2>3. Pending(k)' \subseteq Pending(k)
    BY <1>3, KeysAssumption
       DEF Pending, Login, Compare, Issue, AllowAccount, AllowAddress, Goto
  <2>. QED
    BY <2>1, <2>2, <2>3, LessPending
<1>4. ASSUME NEW w \in Workers, FailAccount(w)
      PROVE  Counted(k)' + Cardinality(Pending(k)') <= Capacity /\ failures'[k] <= Capacity
  <2>1. CASE account[w] = k
    <3>1. w \in Pending(k) /\ Pending(k)' = Pending(k) \ {w}
      BY <1>4, <2>1, KeysAssumption DEF FailAccount, Pending, Goto
    <3>2. RecordFailure(k)
      BY <1>4, <2>1 DEF FailAccount
    <3>. QED
      BY <3>1, <3>2, FailureCounted
  <2>2. CASE account[w] # k
    <3>1. failures'[k] = failures[k] /\ age'[k] = age[k]
      BY <1>4, <2>2 DEF FailAccount, RecordFailure
    <3>2. Counted(k)' = Counted(k) /\ Counted(k) \in Nat
      BY <3>1 DEF Counted, Lapsed
    <3>3. Pending(k)' \subseteq Pending(k)
      BY <1>4, <2>2 DEF FailAccount, Pending, Goto
    <3>. QED
      BY <3>1, <3>2, <3>3, LessPending
  <2>. QED
    BY <2>1, <2>2
<1>5. ASSUME NEW w \in Workers, FailAddress(w)
      PROVE  Counted(k)' + Cardinality(Pending(k)') <= Capacity /\ failures'[k] <= Capacity
  <2>1. CASE address[w] = k
    <3>1. w \in Pending(k) /\ Pending(k)' = Pending(k) \ {w}
      BY <1>5, <2>1, KeysAssumption DEF FailAddress, Pending, Goto
    <3>2. RecordFailure(k)
      BY <1>5, <2>1 DEF FailAddress
    <3>. QED
      BY <3>1, <3>2, FailureCounted
  <2>2. CASE address[w] # k
    <3>1. failures'[k] = failures[k] /\ age'[k] = age[k]
      BY <1>5, <2>2 DEF FailAddress, RecordFailure
    <3>2. Counted(k)' = Counted(k) /\ Counted(k) \in Nat
      BY <3>1 DEF Counted, Lapsed
    <3>3. Pending(k)' \subseteq Pending(k)
      BY <1>5, <2>2 DEF FailAddress, Pending, Goto
    <3>. QED
      BY <3>1, <3>2, <3>3, LessPending
  <2>. QED
    BY <2>1, <2>2
<1>6. ASSUME NEW w \in Workers, ResetAccount(w) \/ ResetAddress(w)
      PROVE  Counted(k)' + Cardinality(Pending(k)') <= Capacity /\ failures'[k] <= Capacity
  <2>1. \/ failures'[k] = 0
        \/ failures'[k] = failures[k] /\ age'[k] = age[k]
    BY <1>6 DEF ResetAccount, ResetAddress, Reset
  <2>2. Counted(k)' <= Counted(k) /\ failures'[k] <= Capacity
    BY <1>0, <2>1 DEF Counted, Lapsed
  <2>3. Pending(k)' \subseteq Pending(k)
    BY <1>6 DEF ResetAccount, ResetAddress, Pending, Goto
  <2>. QED
    BY <2>2, <2>3, LessPending
<1>7. CASE Tick
  <2>1. failures' = failures /\ age'[k] \in 0 .. Window /\ age'[k] >= age[k]
    BY <1>7, LimitAssumption DEF Tick
  <2>2. Counted(k)' <= Counted(k)
    BY <2>1, LimitAssumption DEF Counted, Lapsed
  <2>3. Pending(k)' \subseteq Pending(k)
    BY <1>7 DEF Tick, Pending
  <2>. QED
    BY <2>1, <2>2, <2>3, LessPending
<1>8. CASE UNCHANGED vars
  <2>1. Counted(k)' = Counted(k) /\ Pending(k)' = Pending(k) /\ failures'[k] = failures[k]
    BY <1>8 DEF vars, limiter, Counted, Lapsed, Pending
  <2>. QED
    BY <2>1
<1>. QED
  BY <1>1, <1>2, <1>3, <1>4, <1>5, <1>6, <1>7, <1>8 DEF Next, Step

LEMMA StepIInv == IInv /\ [Next]_vars => IInv'
<1> SUFFICES ASSUME IInv, [Next]_vars
             PROVE  IInv'
  OBVIOUS
<1>1. TypeOK'
  BY TypeStep DEF IInv
<1>2. Balanced' /\ FailuresBounded'
  BY BalancedStep DEF Balanced, FailuresBounded, Capacity
<1>. QED
  BY <1>1, <1>2 DEF IInv

(* Every variable keeps its type, and a key without failures has no age. *)
THEOREM TypeCorrect == Spec => []TypeOK
<1>1. IInv => TypeOK
  BY DEF IInv
<1>. QED
  BY InitIInv, StepIInv, <1>1, PTL DEF Spec

(* A key collects at most MaxFailures failures in a window, and one more   *)
(* for every other login that can be in flight.                            *)
THEOREM FailuresLimited == Spec => []FailuresBounded
<1>1. IInv => FailuresBounded
  BY DEF IInv
<1>. QED
  BY InitIInv, StepIInv, <1>1, PTL DEF Spec

-----------------------------------------------------------------------------
(* A key that is shut *)

(* Reset opens a key; a failure leaves its window where it is. *)
LEMMA ShutKept ==
    ASSUME TypeOK, NEW k \in Keys, NEW j \in Keys, RecordFailure(j) \/ Reset(j),
           ~Allow(k), ~Allow(k)'
    PROVE  age'[k] = age[k]
<1>. failures \in [Keys -> Nat] /\ age \in [Keys -> 0 .. Window]
  BY DEF TypeOK
<1>1. CASE j # k
  BY <1>1 DEF RecordFailure, Reset
<1>2. CASE j = k /\ RecordFailure(k)
  BY <1>2 DEF RecordFailure, Allow
<1>3. CASE j = k /\ Reset(k)
  BY <1>3 DEF Reset, Allow, Lapsed
<1>. QED
  BY <1>1, <1>2, <1>3

(* Whatever logins do, a shut key is one whose window runs out with time:  *)
(* neither refused attempts nor failures still under way restart it        *)
(* (login_limiter.go, RecordFailure).                                      *)
THEOREM ShutWindowEnds == Spec => ShutWindowRunsOut
<1> DEFINE A == \A k \in Keys : ~Allow(k) /\ ~Allow(k)' =>
                   /\ age'[k] >= age[k]
                   /\ Tick => age'[k] = age[k] + 1
<1>1. IInv /\ [Next]_vars => [A]_vars
  <2> SUFFICES ASSUME IInv, Next, NEW k \in Keys, ~Allow(k), ~Allow(k)'
               PROVE  age'[k] >= age[k] /\ (Tick => age'[k] = age[k] + 1)
    OBVIOUS
  <2>. /\ TypeOK /\ failures \in [Keys -> Nat] /\ age \in [Keys -> 0 .. Window]
       /\ account \in [Workers -> Accounts] /\ address \in [Workers -> Addresses]
    BY DEF IInv, TypeOK
  <2>1. CASE Tick
    <3>1. failures[k] # 0 /\ age[k] < Window
      BY LimitAssumption DEF Allow, Lapsed
    <3>. QED
      BY <2>1, <3>1 DEF Tick
  <2>2. ASSUME NEW w \in Workers, Login(w) \/ Step(w)
        PROVE  age'[k] = age[k]
    <3>1. account[w] \in Keys /\ address[w] \in Keys
      BY DEF Keys
    <3>2. \/ UNCHANGED limiter
          \/ \E j \in Keys : RecordFailure(j) \/ Reset(j)
      BY <2>2, <3>1 DEF Login, Step, AllowAccount, AllowAddress, Compare, FailAccount,
         FailAddress, ResetAccount, ResetAddress, Issue
    <3>. QED
      BY <3>2, ShutKept DEF limiter
  <2>3. ASSUME NEW w \in Workers, Login(w) \/ Step(w)
        PROVE  ~Tick
    <3>1. pc'[w] # pc[w]
      BY <2>3 DEF IInv, TypeOK, Login, Step, AllowAccount, AllowAddress, Compare, FailAccount,
         FailAddress, ResetAccount, ResetAddress, Issue, Goto
    <3>. QED
      BY <3>1 DEF Tick
  <2>. QED
    BY <2>1, <2>2, <2>3 DEF Next
<1>. HIDE DEF A
<1>2. Spec => [][A]_vars
  BY InitIInv, StepIInv, <1>1, PTL DEF Spec
<1>. QED
  BY <1>2 DEF ShutWindowRunsOut, A
=============================================================================
