------------------------------ MODULE Migrations ------------------------------
(***************************************************************************)
(* The schema migration runner: Up of internal/platform/migrations, as     *)
(* cmd/migrate calls it.                                                   *)
(*                                                                         *)
(* Runner r stands for the processes started one after another on one      *)
(* host; several hosts may migrate the same database.  Each run has a      *)
(* checkout of its own, a file or none for every version; all that is told *)
(* of the text of a file is whether it equals another.  Versions are       *)
(* numbered in the order of their names.                                   *)
(*                                                                         *)
(* The advisory lock belongs to a session of the connection pool.  The     *)
(* pool replaces a connection that died while it was idle, and the run     *)
(* goes on without the lock.  Up to its commit a transaction changes       *)
(* nothing that others see, so pc alone tells what it has done.            *)
(***************************************************************************)
EXTENDS Integers, Sequences

CONSTANTS
    Runners,        \* the hosts that migrate
    Versions,       \* the number of versions
    Texts,          \* the texts a migration may have
    Absent,         \* no file, or no row
    Nobody,         \* the holder of a free lock
    Checkouts       \* the directories the runners may find

ASSUME VersionsAssumption == Versions \in Nat
ASSUME AbsentAssumption == Absent \notin Texts /\ Nobody \notin Runners
ASSUME CheckoutsAssumption == Checkouts \subseteq [1..Versions -> Texts \cup {Absent}]

VARIABLES
    schema,         \* the rows of schema_migrations: version to checksum
    executed,       \* history: the texts whose execution was committed
    lock,           \* the run whose session holds the advisory lock
    pc,             \* where a run is
    files,          \* its checkout
    at,             \* the version it has come to
    lost            \* history: some run has lost its lock without noticing

database == <<schema, executed>>
vars == <<database, lock, pc, files, at, lost>>

-----------------------------------------------------------------------------
Inside == {"table", "check", "execute", "record", "commit", "unlock"}
Transaction == {"execute", "record", "commit"}

TypeOK ==
    /\ schema \in [1..Versions -> Texts \cup {Absent}]
    /\ executed \in [1..Versions -> Seq(Texts)]
    /\ lock \in Runners \cup {Nobody}
    /\ pc \in [Runners -> {"idle", "lock", "done"} \cup Inside]
    /\ files \in [Runners -> Checkouts]
    /\ at \in [Runners -> 1..Versions + 1]
    /\ lost \in BOOLEAN
    /\ \A r \in Runners :
        /\ pc[r] \in Transaction => at[r] <= Versions
        /\ lock = r => pc[r] \in Inside

Init ==
    /\ schema = [v \in 1..Versions |-> Absent]
    /\ executed = [v \in 1..Versions |-> <<>>]
    /\ lock = Nobody
    /\ pc = [r \in Runners |-> "idle"]
    /\ files \in [Runners -> Checkouts]
    /\ at = [r \in Runners |-> 1]
    /\ lost = FALSE

Goto(r, l) == pc' = [pc EXCEPT ![r] = l]

NextFile(r) ==
    /\ Goto(r, "check")
    /\ at' = [at EXCEPT ![r] = at[r] + 1]

(* The end of the session, by pg_advisory_unlock or with its connection. *)
ReleaseLock(r) == lock' = IF lock = r THEN Nobody ELSE lock

-----------------------------------------------------------------------------
Start(r) ==
    /\ pc[r] \in {"idle", "done"}
    /\ \E c \in Checkouts : files' = [files EXCEPT ![r] = c]
    /\ at' = [at EXCEPT ![r] = 1]
    /\ Goto(r, "lock")
    /\ UNCHANGED <<database, lock, lost>>

(* pg_try_advisory_lock with its answer ignored. *)
AcquireLockOrNot(r) ==
    /\ pc[r] = "lock"
    /\ lock' = IF lock = Nobody THEN r ELSE lock
    /\ Goto(r, "table")
    /\ UNCHANGED <<database, files, at, lost>>

AcquireLock(r) ==
    /\ pc[r] = "lock"
    /\ lock = Nobody
    /\ lock' = r
    /\ Goto(r, "table")
    /\ UNCHANGED <<database, files, at, lost>>

(* An empty table and no table hold the same rows. *)
EnsureTable(r) ==
    /\ pc[r] = "table"
    /\ Goto(r, "check")
    /\ UNCHANGED <<database, lock, files, at, lost>>

-----------------------------------------------------------------------------
(* The loop over the files: the row of the version is read first, outside  *)
(* the transaction that applies the file.                                  *)

NoFile(r) ==
    /\ pc[r] = "check"
    /\ at[r] <= Versions
    /\ files[r][at[r]] = Absent
    /\ NextFile(r)
    /\ UNCHANGED <<database, lock, files, lost>>

(* Any row will do: the checksums are not compared. *)
SkipRecorded(r) ==
    /\ pc[r] = "check"
    /\ at[r] <= Versions
    /\ files[r][at[r]] # Absent
    /\ schema[at[r]] # Absent
    /\ NextFile(r)
    /\ UNCHANGED <<database, lock, files, lost>>

SkipApplied(r) ==
    /\ pc[r] = "check"
    /\ at[r] <= Versions
    /\ files[r][at[r]] # Absent
    /\ schema[at[r]] = files[r][at[r]]
    /\ NextFile(r)
    /\ UNCHANGED <<database, lock, files, lost>>

BeginFile(r) ==
    /\ pc[r] = "check"
    /\ at[r] <= Versions
    /\ files[r][at[r]] # Absent
    /\ schema[at[r]] = Absent
    /\ Goto(r, "execute")
    /\ UNCHANGED <<database, lock, files, at, lost>>

(* BEGIN, and the statements of the file. *)
Execute(r) ==
    /\ pc[r] = "execute"
    /\ Goto(r, "record")
    /\ UNCHANGED <<database, lock, files, at, lost>>

(* INSERT ... ON CONFLICT DO NOTHING, and its answer ignored. *)
RecordOrNot(r) ==
    /\ pc[r] = "record"
    /\ Goto(r, "commit")
    /\ UNCHANGED <<database, lock, files, at, lost>>

(* The version is the primary key: the INSERT waits for a transaction that *)
(* has inserted it, and fails (Fail below) when it has been committed.     *)
Record(r) ==
    /\ pc[r] = "record"
    /\ schema[at[r]] = Absent
    /\ \A s \in Runners \ {r} : ~(pc[s] = "commit" /\ at[s] = at[r])
    /\ Goto(r, "commit")
    /\ UNCHANGED <<database, lock, files, at, lost>>

CommitFile(r) ==
    /\ schema' = [schema EXCEPT ![at[r]] = files[r][at[r]]]
    /\ executed' = [executed EXCEPT ![at[r]] = Append(@, files[r][at[r]])]

Commit(r) ==
    /\ pc[r] = "commit"
    /\ CommitFile(r)
    /\ NextFile(r)
    /\ UNCHANGED <<lock, files, lost>>

-----------------------------------------------------------------------------
FinishFiles(r) ==
    /\ pc[r] = "check"
    /\ at[r] = Versions + 1
    /\ Goto(r, "unlock")
    /\ UNCHANGED <<database, lock, files, at, lost>>

Unlock(r) ==
    /\ pc[r] = "unlock"
    /\ ReleaseLock(r)
    /\ Goto(r, "done")
    /\ UNCHANGED <<database, files, at, lost>>

(* A file that fails is left for the next time. *)
FailAndGoOn(r) ==
    /\ pc[r] \in Transaction
    /\ NextFile(r)
    /\ UNCHANGED <<database, lock, files, lost>>

(* The same, and the deferred unlock is forgotten. *)
FailLocked(r) ==
    /\ pc[r] \in Inside
    /\ Goto(r, "idle")
    /\ UNCHANGED <<database, lock, files, at, lost>>

(* Any error of Up: the file cannot be read or executed, its checksum or   *)
(* its name is refused, the row is there already, the 30 seconds are over, *)
(* the database is gone.  The same state is left by a killed process: the  *)
(* transaction is rolled back and the session ends.                        *)
Fail(r) ==
    /\ pc[r] \in Inside \cup {"lock"}
    /\ ReleaseLock(r)
    /\ Goto(r, "idle")
    /\ UNCHANGED <<database, files, at, lost>>

(* The connection breaks after the commit and before its answer. *)
CommitUnanswered(r) ==
    /\ pc[r] = "commit"
    /\ CommitFile(r)
    /\ ReleaseLock(r)
    /\ Goto(r, "idle")
    /\ UNCHANGED <<files, at, lost>>

(* The connection that took the lock dies between two statements. *)
LoseLock(r) ==
    /\ lock = r
    /\ pc[r] \in {"table", "check", "execute"}
    /\ lock' = Nobody
    /\ lost' = TRUE
    /\ UNCHANGED <<database, pc, files, at>>

Step(r) ==
    \/ Start(r) \/ AcquireLock(r) \/ EnsureTable(r)
    \/ NoFile(r) \/ SkipApplied(r) \/ BeginFile(r)
    \/ Execute(r) \/ Record(r) \/ Commit(r)
    \/ FinishFiles(r) \/ Unlock(r) \/ Fail(r) \/ CommitUnanswered(r)
    \/ LoseLock(r)

Next == \E r \in Runners : Step(r)

Spec == Init /\ [][Next]_vars

-----------------------------------------------------------------------------
(* A version is recorded exactly when its file was executed, once, and     *)
(* with the text recorded: transaction and primary key hold this up when   *)
(* the lock is lost, when a run dies and when an answer does.              *)
RecordTrue ==
    \A v \in 1..Versions :
        executed[v] = IF schema[v] = Absent THEN <<>> ELSE <<schema[v]>>

(* A run that ended without an error leaves a database with every file of  *)
(* its checkout, as it is now: a file edited after it was applied is never *)
(* passed over.                                                            *)
UpToDate ==
    \A r \in Runners : pc[r] = "done" =>
        \A v \in 1..Versions : files[r][v] # Absent => schema[v] = files[r][v]

(* What migrationApplied read before the transaction is still so when the  *)
(* file is executed and recorded, as long as no run has lost its lock:     *)
(* runs that only wait for one another never fail for one another.         *)
CheckHolds ==
    ~lost => \A r \in Runners : pc[r] \in Transaction => schema[at[r]] = Absent

(* A file is applied on top of every earlier file of its checkout, in the  *)
(* order of their names, whoever applied those.                            *)
AppliedInOrder ==
    [][\A v \in 1..Versions : schema'[v] # schema[v] =>
        \E r \in Runners :
            /\ schema'[v] = files[r][v]
            /\ \A u \in 1..v - 1 : files[r][u] # Absent => schema[u] = files[r][u]]_vars

(* Only one host applies migrations, as long as no run has lost its lock.  *)
OneRunInside ==
    ~lost => \A r, s \in Runners : pc[r] \in Inside /\ pc[s] \in Inside => r = s

(* pg_advisory_lock waits for the session that holds the lock, an INSERT   *)
(* for a transaction that has inserted the same version.                   *)
WaitsFor(r, s) ==
    \/ pc[r] = "lock" /\ lock = s
    \/ /\ pc[r] = "record" /\ schema[at[r]] = Absent
       /\ s # r /\ pc[s] = "commit" /\ at[s] = at[r]

(* No run waits in vain, even when locks were lost: the one it waits for   *)
(* can go on, or waits for a commit.                                       *)
WaitsEnd ==
    \A r, s \in Runners : WaitsFor(r, s) =>
        /\ pc[s] \in Inside
        /\ \A t \in Runners : WaitsFor(s, t) =>
              pc[t] = "commit" /\ \A u \in Runners : ~WaitsFor(t, u)
=============================================================================
