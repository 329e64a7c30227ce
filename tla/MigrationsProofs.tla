--------------------------- MODULE MigrationsProofs ---------------------------
(***************************************************************************)
(* Proofs about Migrations for every number of hosts, versions and states  *)
(* of the directory.                                                       *)
(***************************************************************************)
EXTENDS Migrations, TLAPS

(* What a run has left behind is in the database. *)
Passed ==
    \A r \in Runners : \A v \in 1..Versions :
        v < at[r] /\ files[r][v] # Absent => schema[v] = files[r][v]

(* A run is in a transaction for the sake of a file, and through with its  *)
(* checkout when it unlocks.                                               *)
Purposeful ==
    \A r \in Runners :
        /\ pc[r] \in Transaction => files[r][at[r]] # Absent
        /\ pc[r] \in {"unlock", "done"} => at[r] = Versions + 1
        /\ pc[r] \in {"lock", "table"} => at[r] = 1

(* The primary key: the rows inserted and not committed are new ones.      *)
Claimed ==
    \A r \in Runners : pc[r] = "commit" =>
        /\ schema[at[r]] = Absent
        /\ \A s \in Runners \ {r} : pc[s] = "commit" => at[s] # at[r]

(* The advisory lock. *)
Exclusive == ~lost => \A r \in Runners : pc[r] \in Inside => lock = r

IInv ==
    /\ TypeOK
    /\ RecordTrue
    /\ Passed
    /\ Purposeful
    /\ Claimed
    /\ Exclusive
    /\ CheckHolds

-----------------------------------------------------------------------------
LEMMA InitIInv == Init => IInv
<1> SUFFICES ASSUME Init
             PROVE  IInv
  OBVIOUS
<1>1. TypeOK
  <2>1. executed \in [1..Versions -> Seq(Texts)]
    BY DEF Init
  <2>2. 1 \in 1..Versions + 1
    BY VersionsAssumption
  <2>3. \A r \in Runners : pc[r] = "idle" /\ lock # r
    BY AbsentAssumption DEF Init
  <2>. QED
    BY <2>1, <2>2, <2>3 DEF Init, TypeOK, Transaction
<1>2. RecordTrue /\ Passed /\ Purposeful
  BY VersionsAssumption DEF Init, RecordTrue, Passed, Purposeful, Transaction
<1>3. Claimed /\ Exclusive /\ CheckHolds
  BY DEF Init, Claimed, Exclusive, CheckHolds, Inside, Transaction
<1>. QED
  BY <1>1, <1>2, <1>3 DEF IInv

(* The steps that leave the database alone. *)
Quiet(r) ==
    \/ Start(r) \/ AcquireLock(r) \/ EnsureTable(r)
    \/ NoFile(r) \/ SkipApplied(r) \/ BeginFile(r)
    \/ Execute(r) \/ Record(r)
    \/ FinishFiles(r) \/ Unlock(r) \/ Fail(r) \/ LoseLock(r)

Committing(r) == Commit(r) \/ CommitUnanswered(r)

(* Such a step moves its own run only. *)
LEMMA QuietFrame ==
    ASSUME TypeOK, NEW r \in Runners, Quiet(r)
    PROVE  /\ UNCHANGED database
           /\ pc' \in [Runners -> {"idle", "lock", "done"} \cup Inside]
           /\ files' \in [Runners -> Checkouts]
           /\ at' \in [Runners -> 1..Versions + 1]
           /\ \A s \in Runners \ {r} :
                 pc'[s] = pc[s] /\ files'[s] = files[s] /\ at'[s] = at[s]
<1>. /\ pc \in [Runners -> {"idle", "lock", "done"} \cup Inside]
     /\ files \in [Runners -> Checkouts]
     /\ at \in [Runners -> 1..Versions + 1]
  BY DEF TypeOK
<1> USE DEF database, Goto, Inside
<1>1. CASE Start(r)
  <2>1. 1 \in 1..Versions + 1
    BY VersionsAssumption
  <2>. QED
    BY <1>1, <2>1 DEF Start
<1>2. CASE AcquireLock(r) \/ EnsureTable(r)
  BY <1>2 DEF AcquireLock, EnsureTable
<1>3. CASE NoFile(r) \/ SkipApplied(r)
  <2>1. at[r] \in 1..Versions + 1 /\ at[r] <= Versions
    BY <1>3 DEF NoFile, SkipApplied
  <2>2. at[r] + 1 \in 1..Versions + 1
    BY <2>1, VersionsAssumption
  <2>. QED
    BY <1>3, <2>2 DEF NoFile, SkipApplied, NextFile
<1>4. CASE BeginFile(r) \/ Execute(r) \/ Record(r) \/ FinishFiles(r)
  BY <1>4 DEF BeginFile, Execute, Record, FinishFiles
<1>5. CASE Unlock(r) \/ Fail(r) \/ LoseLock(r)
  BY <1>5 DEF Unlock, Fail, LoseLock
<1>. QED
  BY <1>1, <1>2, <1>3, <1>4, <1>5 DEF Quiet

(* What it does to its own run and to the lock. *)
LEMMA QuietMove ==
    ASSUME TypeOK, NEW r \in Runners, Quiet(r)
    PROVE  \/ /\ pc'[r] = "lock" /\ at'[r] = 1
              /\ pc[r] \in {"idle", "done"}
              /\ UNCHANGED <<lock, lost>>
           \/ /\ pc'[r] = "table" /\ pc[r] = "lock"
              /\ lock = Nobody /\ lock' = r
              /\ UNCHANGED <<files, at, lost>>
           \/ /\ pc'[r] = "check" /\ pc[r] = "table"
              /\ UNCHANGED <<lock, files, at, lost>>
           \/ /\ pc'[r] = "check" /\ pc[r] = "check"
              /\ at[r] <= Versions /\ at'[r] = at[r] + 1
              /\ files[r][at[r]] # Absent => schema[at[r]] = files[r][at[r]]
              /\ UNCHANGED <<lock, files, lost>>
           \/ /\ pc'[r] = "execute" /\ pc[r] = "check"
              /\ at[r] <= Versions
              /\ files[r][at[r]] # Absent /\ schema[at[r]] = Absent
              /\ UNCHANGED <<lock, files, at, lost>>
           \/ /\ pc'[r] = "record" /\ pc[r] = "execute"
              /\ UNCHANGED <<lock, files, at, lost>>
           \/ /\ pc'[r] = "commit" /\ pc[r] = "record"
              /\ schema[at[r]] = Absent
              /\ \A s \in Runners \ {r} : ~(pc[s] = "commit" /\ at[s] = at[r])
              /\ UNCHANGED <<lock, files, at, lost>>
           \/ /\ pc'[r] = "unlock" /\ pc[r] = "check"
              /\ at[r] = Versions + 1
              /\ UNCHANGED <<lock, files, at, lost>>
           \/ /\ pc'[r] = "done" /\ pc[r] = "unlock"
              /\ ReleaseLock(r)
              /\ UNCHANGED <<files, at, lost>>
           \/ /\ pc'[r] = "idle"
              /\ ReleaseLock(r)
              /\ UNCHANGED <<files, at, lost>>
           \/ /\ lock = r /\ lock' = Nobody /\ lost' = TRUE
              /\ UNCHANGED <<pc, files, at>>
<1>. /\ pc \in [Runners -> {"idle", "lock", "done"} \cup Inside]
     /\ at \in [Runners -> 1..Versions + 1]
  BY DEF TypeOK
<1> USE DEF Goto
<1>1. CASE Start(r)
  BY <1>1 DEF Start
<1>2. CASE AcquireLock(r)
  BY <1>2 DEF AcquireLock
<1>3. CASE EnsureTable(r)
  BY <1>3 DEF EnsureTable
<1>4. CASE NoFile(r) \/ SkipApplied(r)
  BY <1>4 DEF NoFile, SkipApplied, NextFile
<1>5. CASE BeginFile(r)
  BY <1>5 DEF BeginFile
<1>6. CASE Execute(r)
  BY <1>6 DEF Execute
<1>7. CASE Record(r)
  BY <1>7 DEF Record
<1>8. CASE FinishFiles(r)
  BY <1>8 DEF FinishFiles
<1>9. CASE Unlock(r)
  BY <1>9 DEF Unlock
<1>10. CASE Fail(r)
  BY <1>10 DEF Fail
<1>11. CASE LoseLock(r)
  BY <1>11 DEF LoseLock
<1>. QED
  BY <1>1, <1>2, <1>3, <1>4, <1>5, <1>6, <1>7, <1>8, <1>9, <1>10, <1>11 DEF Quiet

LEMMA QuietType ==
    ASSUME TypeOK, NEW r \in Runners, Quiet(r)
    PROVE  TypeOK'
<1>1. lock' \in Runners \cup {Nobody} /\ lost' \in BOOLEAN
  BY QuietMove DEF TypeOK, ReleaseLock
<1>2. \A s \in Runners : (lock = s => pc[s] \in Inside)'
  BY QuietFrame, QuietMove, AbsentAssumption DEF TypeOK, ReleaseLock, Inside
<1>3. \A s \in Runners : (pc[s] \in Transaction => at[s] <= Versions)'
  BY QuietFrame, QuietMove DEF TypeOK, Transaction
<1>. QED
  BY QuietFrame, <1>1, <1>2, <1>3 DEF TypeOK, database

(* The texts a run may commit are texts. *)
LEMMA CommitText ==
    ASSUME TypeOK, Purposeful, NEW r \in Runners, pc[r] = "commit"
    PROVE  at[r] \in 1..Versions /\ files[r][at[r]] \in Texts
<1>1. at[r] \in 1..Versions /\ files[r] \in [1..Versions -> Texts \cup {Absent}]
  BY CheckoutsAssumption, VersionsAssumption DEF TypeOK, Transaction
<1>. QED
  BY <1>1 DEF Purposeful, Transaction

LEMMA CommittingType ==
    ASSUME TypeOK, Purposeful, NEW r \in Runners, Committing(r)
    PROVE  TypeOK'
<1>1. pc[r] = "commit" /\ CommitFile(r)
  BY DEF Committing, Commit, CommitUnanswered
<1>2. at[r] \in 1..Versions /\ files[r][at[r]] \in Texts
  BY <1>1, CommitText
<1>3. schema' \in [1..Versions -> Texts \cup {Absent}]
  BY <1>1, <1>2 DEF CommitFile, TypeOK
<1>4. executed' \in [1..Versions -> Seq(Texts)]
  <2>1. Append(executed[at[r]], files[r][at[r]]) \in Seq(Texts)
    BY <1>2 DEF TypeOK
  <2>. QED
    BY <1>1, <2>1 DEF CommitFile, TypeOK
<1>. at[r] + 1 \in 1..Versions + 1
  BY <1>2, VersionsAssumption
<1>5. /\ lock' \in Runners \cup {Nobody}
      /\ pc' \in [Runners -> {"idle", "lock", "done"} \cup Inside]
      /\ files' \in [Runners -> Checkouts]
      /\ at' \in [Runners -> 1..Versions + 1]
      /\ lost' \in BOOLEAN
  BY DEF Committing, Commit, CommitUnanswered, TypeOK, NextFile, Goto, ReleaseLock, Inside
<1>6. \A s \in Runners : (pc[s] \in Transaction => at[s] <= Versions)'
  BY <1>1 DEF Committing, Commit, CommitUnanswered, TypeOK, NextFile, Goto, Transaction
<1>7. \A s \in Runners : (lock = s => pc[s] \in Inside)'
  BY <1>1, AbsentAssumption
     DEF Committing, Commit, CommitUnanswered, TypeOK, NextFile, Goto, ReleaseLock, Inside
<1>. QED
  BY <1>3, <1>4, <1>5, <1>6, <1>7 DEF TypeOK

-----------------------------------------------------------------------------
LEMMA QuietPassed ==
    ASSUME IInv, NEW r \in Runners, Quiet(r)
    PROVE  RecordTrue' /\ Passed' /\ Purposeful'
<1> USE DEF IInv
<1>1. /\ UNCHANGED database
      /\ \A s \in Runners \ {r} :
            pc'[s] = pc[s] /\ files'[s] = files[s] /\ at'[s] = at[s]
  BY QuietFrame
<1>2. RecordTrue'
  BY <1>1 DEF RecordTrue, database
<1>3. \A s \in Runners : at[s] \in 1..Versions + 1 /\ at'[s] \in 1..Versions + 1
  BY QuietFrame DEF TypeOK
<1>4. Passed'
  <2> SUFFICES ASSUME NEW s \in Runners, NEW v \in 1..Versions,
                      v < at'[s], files'[s][v] # Absent
               PROVE  schema[v] = files'[s][v]
    BY <1>1 DEF Passed, database
  <2>1. CASE v < at[s] /\ files'[s] = files[s]
    BY <2>1 DEF Passed
  <2>2. CASE ~(v < at[s] /\ files'[s] = files[s])
    <3>1. s = r
      BY <2>2, <1>1
    <3>2. at'[r] # 1
      BY <3>1, <1>3, VersionsAssumption
    <3>3. \/ UNCHANGED <<files, at>>
          \/ /\ at'[r] = at[r] + 1 /\ files' = files
             /\ files[r][at[r]] # Absent => schema[at[r]] = files[r][at[r]]
      BY <3>2, QuietMove
    <3>4. at'[r] = at[r] + 1 /\ files' = files /\ v = at[r]
      BY <2>2, <3>1, <3>3, <1>3, VersionsAssumption
    <3>. QED
      BY <3>1, <3>3, <3>4, <1>3
  <2>. QED
    BY <2>1, <2>2
<1>5. Purposeful'
  <2>1. /\ pc'[r] \in Transaction => files'[r][at'[r]] # Absent
        /\ pc'[r] \in {"unlock", "done"} => at'[r] = Versions + 1
        /\ pc'[r] \in {"lock", "table"} => at'[r] = 1
    BY QuietMove DEF Purposeful, Transaction
  <2>. QED
    BY <1>1, <2>1 DEF Purposeful
<1>. QED
  BY <1>2, <1>4, <1>5

LEMMA QuietAlone ==
    ASSUME IInv, NEW r \in Runners, Quiet(r)
    PROVE  Claimed' /\ Exclusive' /\ CheckHolds'
<1> USE DEF IInv
<1>1. /\ schema' = schema
      /\ \A s \in Runners \ {r} : pc'[s] = pc[s] /\ at'[s] = at[s]
  BY QuietFrame DEF database
<1>2. Claimed'
  <2>1. pc'[r] = "commit" =>
            /\ schema[at'[r]] = Absent
            /\ \A s \in Runners \ {r} : ~(pc[s] = "commit" /\ at[s] = at'[r])
    BY QuietMove DEF Claimed
  <2>. QED
    BY <1>1, <2>1 DEF Claimed
<1>3. Exclusive'
  <2>1. ASSUME ~lost'
        PROVE  /\ ~lost
               /\ pc'[r] \in Inside => lock' = r
               /\ lock \in {r, Nobody} \/ lock' = lock
    BY <2>1, QuietMove DEF Exclusive, Inside, ReleaseLock
  <2>2. \A s \in Runners \ {r} : ~lost' /\ pc'[s] \in Inside => lock' = s
    BY <1>1, <2>1, AbsentAssumption DEF Exclusive
  <2>. QED
    BY <2>1, <2>2 DEF Exclusive
<1>4. CheckHolds'
  <2>1. ~lost' /\ pc'[r] \in Transaction => schema[at'[r]] = Absent
    BY QuietMove DEF CheckHolds, Transaction
  <2>2. ~lost' => ~lost
    BY QuietMove
  <2>. QED
    BY <1>1, <2>1, <2>2 DEF CheckHolds
<1>. QED
  BY <1>2, <1>3, <1>4

LEMMA CommittingRecord ==
    ASSUME IInv, NEW r \in Runners, Committing(r)
    PROVE  RecordTrue' /\ Passed' /\ Purposeful'
<1> USE DEF IInv
<1>1. pc[r] = "commit" /\ CommitFile(r)
  BY DEF Committing, Commit, CommitUnanswered
<1>2. at[r] \in 1..Versions /\ files[r][at[r]] \in Texts /\ schema[at[r]] = Absent
  BY <1>1, CommitText DEF Claimed
<1>3. /\ schema'[at[r]] = files[r][at[r]]
      /\ \A v \in 1..Versions \ {at[r]} :
            schema'[v] = schema[v] /\ executed'[v] = executed[v]
  BY <1>1, <1>2 DEF CommitFile, TypeOK
<1>4. executed'[at[r]] = <<files[r][at[r]]>>
  <2>1. executed[at[r]] = <<>>
    BY <1>2 DEF RecordTrue
  <2>2. executed'[at[r]] = Append(executed[at[r]], files[r][at[r]])
    BY <1>1, <1>2 DEF CommitFile, TypeOK
  <2>. QED
    BY <2>1, <2>2
<1>5. RecordTrue'
  BY <1>2, <1>3, <1>4, AbsentAssumption DEF RecordTrue
<1>6. /\ files' = files
      /\ \A s \in Runners \ {r} : at'[s] = at[s] /\ pc'[s] = pc[s]
      /\ at'[r] \in {at[r], at[r] + 1}
      /\ pc'[r] \in {"check", "idle"}
  BY DEF Committing, Commit, CommitUnanswered, NextFile, Goto, TypeOK
<1>7. Passed'
  <2> SUFFICES ASSUME NEW s \in Runners, NEW v \in 1..Versions,
                      v < at'[s], files[s][v] # Absent
               PROVE  schema'[v] = files[s][v]
    BY <1>6 DEF Passed
  <2>1. v = at[r] => s = r
    BY <1>2, <1>6 DEF Passed
  <2>2. CASE v = at[r]
    BY <1>3, <2>1, <2>2
  <2>3. CASE v # at[r]
    <3>1. v < at[s]
      BY <1>2, <1>6, <2>3
    <3>. QED
      BY <1>3, <2>3, <3>1 DEF Passed
  <2>. QED
    BY <2>2, <2>3
<1>8. Purposeful'
  BY <1>6 DEF Purposeful, Transaction
<1>. QED
  BY <1>5, <1>7, <1>8

LEMMA CommittingAlone ==
    ASSUME IInv, NEW r \in Runners, Committing(r)
    PROVE  Claimed' /\ Exclusive' /\ CheckHolds'
<1> USE DEF IInv
<1>1. pc[r] = "commit" /\ CommitFile(r)
  BY DEF Committing, Commit, CommitUnanswered
<1>2. at[r] \in 1..Versions
  BY <1>1, CommitText
<1>3. \A v \in 1..Versions \ {at[r]} : schema'[v] = schema[v]
  BY <1>1, <1>2 DEF CommitFile, TypeOK
<1>4. /\ lost' = lost
      /\ \A s \in Runners \ {r} : at'[s] = at[s] /\ pc'[s] = pc[s]
      /\ \/ pc'[r] = "check" /\ lock' = lock
         \/ pc'[r] = "idle" /\ (lock = r \/ lock' = lock)
  BY DEF Committing, Commit, CommitUnanswered, NextFile, Goto, ReleaseLock, TypeOK
<1>5. \A s \in Runners : pc[s] \in Transaction => at[s] \in 1..Versions
  BY VersionsAssumption DEF TypeOK
<1>6. Claimed'
  BY <1>1, <1>3, <1>4, <1>5 DEF Claimed, Transaction
<1>7. Exclusive'
  BY <1>1, <1>4 DEF Exclusive, Inside
<1>8. CheckHolds'
  BY <1>1, <1>4, <1>3, <1>5 DEF CheckHolds, Exclusive, Inside, Transaction
<1>. QED
  BY <1>6, <1>7, <1>8

-----------------------------------------------------------------------------
LEMMA StepIInv == IInv /\ [Next]_vars => IInv'
<1> SUFFICES ASSUME IInv, [Next]_vars
             PROVE  IInv'
  OBVIOUS
<1>1. ASSUME NEW r \in Runners, Quiet(r)
      PROVE  IInv'
  BY <1>1, QuietType, QuietPassed, QuietAlone DEF IInv
<1>2. ASSUME NEW r \in Runners, Committing(r)
      PROVE  IInv'
  BY <1>2, CommittingType, CommittingRecord, CommittingAlone DEF IInv
<1>3. CASE UNCHANGED vars
  BY <1>3 DEF vars, database, IInv, TypeOK, RecordTrue, Passed, Purposeful, Claimed,
              Exclusive, CheckHolds
<1>. QED
  BY <1>1, <1>2, <1>3 DEF Next, Step, Quiet, Committing

(* The inductive invariant: the advisory lock, the primary key and the     *)
(* order of the loop together.                                             *)
THEOREM Invariance == Spec => []IInv
BY InitIInv, StepIInv, PTL DEF Spec

(* Every run of every host keeps the types. *)
THEOREM TypeCorrect == Spec => []TypeOK
BY Invariance, PTL DEF IInv

(* schema_migrations tells the truth: a recorded version was executed once *)
(* with that text, any other never, with or without the advisory lock.     *)
THEOREM RecordedTruly == Spec => []RecordTrue
BY Invariance, PTL DEF IInv

(* A run that succeeded has its whole checkout in the database. *)
THEOREM SuccessMeansApplied == Spec => []UpToDate
<1>1. IInv => UpToDate
  BY VersionsAssumption DEF IInv, UpToDate, Passed, Purposeful, TypeOK
<1>. QED
  BY <1>1, Invariance, PTL

(* With the lock kept, what was read before the transaction stays true. *)
THEOREM CheckStands == Spec => []CheckHolds
BY Invariance, PTL DEF IInv

(* A migration is applied on top of the earlier ones of its checkout. *)
THEOREM OrderKept == Spec => AppliedInOrder
<1> DEFINE Ordered ==
        \A v \in 1..Versions : schema'[v] # schema[v] =>
            \E r \in Runners :
                /\ schema'[v] = files[r][v]
                /\ \A u \in 1..v - 1 : files[r][u] # Absent => schema[u] = files[r][u]
<1>1. IInv /\ [Next]_vars => [Ordered]_vars
  <2> SUFFICES ASSUME IInv, Next
               PROVE  Ordered
    OBVIOUS
  <2>1. ASSUME NEW r \in Runners, Quiet(r)
        PROVE  Ordered
    BY <2>1 DEF Quiet, Start, AcquireLock, EnsureTable, NoFile, SkipApplied, BeginFile,
                Execute, Record, FinishFiles, Unlock, Fail, LoseLock, database
  <2>2. ASSUME NEW r \in Runners, Committing(r)
        PROVE  Ordered
    <3>1. pc[r] = "commit" /\ CommitFile(r)
      BY <2>2 DEF Committing, Commit, CommitUnanswered
    <3>2. /\ at[r] \in 1..Versions
          /\ schema'[at[r]] = files[r][at[r]]
          /\ \A v \in 1..Versions \ {at[r]} : schema'[v] = schema[v]
      BY <3>1, CommitText DEF IInv, CommitFile, TypeOK
    <3>3. \A u \in 1..at[r] - 1 : files[r][u] # Absent => schema[u] = files[r][u]
      BY <3>2, VersionsAssumption DEF IInv, Passed
    <3>. QED
      BY <3>2, <3>3
  <2>. QED
    BY <2>1, <2>2 DEF Next, Step, Quiet, Committing
<1> HIDE DEF Ordered
<1>2. Spec => [][Ordered]_vars
  BY <1>1, Invariance, PTL DEF Spec
<1>. QED
  BY <1>2 DEF AppliedInOrder, Ordered

(* The lock keeps all but one run outside. *)
THEOREM LockExcludes == Spec => []OneRunInside
<1>1. IInv => OneRunInside
  BY DEF IInv, Exclusive, OneRunInside
<1>. QED
  BY Invariance, <1>1, PTL

(* A run that waits will not wait in vain. *)
THEOREM NobodyWaitsInVain == Spec => []WaitsEnd
<1>1. IInv => WaitsEnd
  <2> SUFFICES ASSUME IInv, NEW r \in Runners, NEW s \in Runners, WaitsFor(r, s)
               PROVE  /\ pc[s] \in Inside
                      /\ \A t \in Runners : WaitsFor(s, t) =>
                            pc[t] = "commit" /\ \A u \in Runners : ~WaitsFor(t, u)
    BY DEF WaitsEnd
  <2>1. pc[s] \in Inside
    BY DEF WaitsFor, IInv, TypeOK, Inside
  <2>2. ASSUME NEW t \in Runners, WaitsFor(s, t)
        PROVE  pc[t] = "commit" /\ \A u \in Runners : ~WaitsFor(t, u)
    BY <2>1, <2>2 DEF WaitsFor, Inside
  <2>. QED
    BY <2>1, <2>2
<1>. QED
  BY Invariance, <1>1, PTL
=============================================================================
