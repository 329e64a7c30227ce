-------------------------------- MODULE Riders --------------------------------
(***************************************************************************)
(* Rider applications, availability and vehicles: the service of           *)
(* internal/riders and the SQL statements of its repository.               *)
(*                                                                         *)
(* Worker w stands for one request in flight; when it has been answered, w *)
(* serves the next.  Each repository call is a statement or a transaction  *)
(* of its own, so other requests run between the FindProfile of a request  *)
(* and its UpdateProfile.  The transaction of SetActiveVehicle is split at *)
(* its statements: its writes become visible at the commit, its row locks  *)
(* at once.                                                                *)
(*                                                                         *)
(* A vehicle is named by its registration number, which is unique.  The    *)
(* text of the rejection reason and the other columns are left out.        *)
(***************************************************************************)
EXTENDS Integers, FiniteSets

CONSTANTS
    Riders,         \* the users that apply
    Plates,         \* registration numbers
    Workers,        \* the requests that can be in flight at once
    Nobody,         \* the owner of a free row lock, and of a number nobody registered
    Operations      \* the operations of the service that are called; no route
                    \* reaches approve, reject and suspend yet

AllOperations == {"create", "submit", "availability", "add", "activate", "approve",
                  "reject", "suspend"}

ASSUME NobodyAssumption == Nobody \notin Workers \cup Riders
ASSUME OperationsAssumption == Operations \subseteq AllOperations

VARIABLES
    status,         \* rider_profiles.verification_status, "none" without a row
    availability,   \* rider_profiles.availability
    owner,          \* rider_vehicles.rider_id, Nobody without a row
    active,         \* the vehicles with rider_vehicles.active
    roles,          \* the riders with the role "rider"
    rowLock,        \* the transaction that holds the row of a vehicle
    pc,             \* where a request is
    rider,          \* whose request it is
    write,          \* what the request will write into the profile
    plate,          \* the vehicle the request is about
    old,            \* the vehicles its transaction will have deactivated
    everApproved    \* history: the riders whose profile has been approved

profiles == <<status, availability, everApproved>>
vehicles == <<owner, active, rowLock>>
local == <<rider, write, plate, old>>
vars == <<profiles, vehicles, roles, pc, local>>

-----------------------------------------------------------------------------
Statuses == {"draft", "submitted", "approved", "rejected", "suspended"}
Availabilities == {"offline", "available", "busy"}
Update == [status : Statuses, availability : Availabilities]

Stages == {"insert", "has_vehicle", "update", "approve", "grant", "add", "check",
           "deactivate", "lock_old", "activate", "index", "commit"}

TypeOK ==
    /\ status \in [Riders -> Statuses \cup {"none"}]
    /\ availability \in [Riders -> Availabilities]
    /\ owner \in [Plates -> Riders \cup {Nobody}]
    /\ active \subseteq {p \in Plates : owner[p] # Nobody}
    /\ roles \subseteq Riders
    /\ rowLock \in [Plates -> Workers \cup {Nobody}]
    /\ pc \in [Workers -> {"idle"} \cup Stages]
    /\ rider \in [Workers -> Riders]
    /\ write \in [Workers -> Update]
    /\ plate \in [Workers -> Plates]
    /\ old \in [Workers -> SUBSET Plates]
    /\ everApproved \subseteq Riders

NoUpdate == [status |-> "draft", availability |-> "offline"]

Init ==
    /\ status = [r \in Riders |-> "none"]
    /\ availability = [r \in Riders |-> "offline"]
    /\ owner = [p \in Plates |-> Nobody]
    /\ active = {}
    /\ roles = {}
    /\ rowLock = [p \in Plates |-> Nobody]
    /\ pc = [w \in Workers |-> "idle"]
    /\ rider \in [Workers -> Riders]
    /\ write = [w \in Workers |-> NoUpdate]
    /\ plate \in [Workers -> Plates]
    /\ old = [w \in Workers |-> {}]
    /\ everApproved = {}

Goto(w, l) == pc' = [pc EXCEPT ![w] = l]

(* The answer of a request, whatever it says. *)
Done(w) ==
    /\ Goto(w, "idle")
    /\ write' = [write EXCEPT ![w] = NoUpdate]
    /\ old' = [old EXCEPT ![w] = {}]
    /\ UNCHANGED <<rider, plate>>

(* COMMIT or ROLLBACK. *)
ReleaseLocks(w) ==
    rowLock' = [p \in Plates |-> IF rowLock[p] = w THEN Nobody ELSE rowLock[p]]

ActiveVehicles(r) == {p \in active : owner[p] = r}

-----------------------------------------------------------------------------
(* A request arrives and reads the profile of its rider.  One that may not *)
(* go on is answered at once and leaves nothing behind.                    *)

Begins(w, op, r, stage) ==
    /\ op \in Operations
    /\ pc[w] = "idle"
    /\ rider' = [rider EXCEPT ![w] = r]
    /\ Goto(w, stage)
    /\ UNCHANGED <<profiles, vehicles, roles, old>>

BeginsUpdate(w, op, r, stage, s, a) ==
    /\ Begins(w, op, r, stage)
    /\ write' = [write EXCEPT ![w] = [status |-> s, availability |-> a]]
    /\ UNCHANGED plate

CreateApplication(w) ==
    \E r \in Riders :
        /\ status[r] = "none"
        /\ Begins(w, "create", r, "insert")
        /\ UNCHANGED <<write, plate>>

SubmitApplication(w) ==
    \E r \in Riders :
        /\ status[r] \in {"draft", "rejected"}
        /\ BeginsUpdate(w, "submit", r, "has_vehicle", "submitted", "offline")

validAvailabilityTransition(from, to) ==
    \/ from = to
    \/ <<from, to>> \in {<<"offline", "available">>, <<"available", "offline">>,
                         <<"available", "busy">>, <<"busy", "offline">>,
                         <<"busy", "available">>}

(* The status that was read is written back with the new availability. *)
SetAvailability(w) ==
    \E r \in Riders, to \in Availabilities :
        /\ status[r] = "approved"
        /\ validAvailabilityTransition(availability[r], to)
        /\ BeginsUpdate(w, "availability", r,
                        IF to = "available" THEN "has_vehicle" ELSE "update", status[r], to)

AddVehicle(w) ==
    \E r \in Riders, p \in Plates :
        /\ status[r] \in {"draft", "rejected"}
        /\ Begins(w, "add", r, "add")
        /\ plate' = [plate EXCEPT ![w] = p]
        /\ UNCHANGED write

SetActiveVehicle(w) ==
    \E r \in Riders, p \in Plates :
        /\ status[r] \in {"draft", "rejected"}
        /\ Begins(w, "activate", r, "check")
        /\ plate' = [plate EXCEPT ![w] = p]
        /\ UNCHANGED write

(* An approved rider is given the role again, should it be missing. *)
Approve(w) ==
    \E r \in Riders :
        \/ /\ status[r] = "submitted"
           /\ BeginsUpdate(w, "approve", r, "approve", "approved", "offline")
        \/ /\ status[r] = "approved"
           /\ BeginsUpdate(w, "approve", r, "grant", "approved", "offline")

Reject(w) ==
    \E r \in Riders :
        /\ status[r] = "submitted"
        /\ BeginsUpdate(w, "reject", r, "update", "rejected", "offline")

Suspend(w) ==
    \E r \in Riders :
        /\ status[r] = "approved"
        /\ BeginsUpdate(w, "suspend", r, "update", "suspended", "offline")

-----------------------------------------------------------------------------
(* Profiles *)

(* The unique index on user_id refuses the second of two inserts. *)
CreateProfile(w) ==
    /\ pc[w] = "insert"
    /\ status' = [status EXCEPT ![rider[w]] = IF @ = "none" THEN "draft" ELSE @]
    /\ Done(w)
    /\ UNCHANGED <<availability, everApproved, vehicles, roles>>

HasActiveVehicle(w) ==
    /\ pc[w] = "has_vehicle"
    /\ IF ActiveVehicles(rider[w]) = {}
       THEN Done(w)
       ELSE Goto(w, "update") /\ UNCHANGED local
    /\ UNCHANGED <<profiles, vehicles, roles>>

(* One UPDATE; it does not look at what the row holds by now. *)
UpdateProfile(w) ==
    /\ status' = [status EXCEPT ![rider[w]] = write[w].status]
    /\ availability' = [availability EXCEPT ![rider[w]] = write[w].availability]
    /\ everApproved' = IF write[w].status = "approved"
                       THEN everApproved \cup {rider[w]} ELSE everApproved

WriteProfile(w) ==
    /\ pc[w] = "update"
    /\ UpdateProfile(w)
    /\ Done(w)
    /\ UNCHANGED <<vehicles, roles>>

WriteApproval(w) ==
    /\ pc[w] = "approve"
    /\ UpdateProfile(w)
    /\ Goto(w, "grant")
    /\ UNCHANGED <<vehicles, roles, local>>

(* AssignRole: INSERT ... ON CONFLICT DO NOTHING in a transaction. *)
AssignRole(w) ==
    /\ pc[w] = "grant"
    /\ roles' = roles \cup {rider[w]}
    /\ Done(w)
    /\ UNCHANGED <<profiles, vehicles>>

-----------------------------------------------------------------------------
(* Vehicles *)

(* The new vehicle is inactive; a number that is taken is refused. *)
CreateVehicle(w) ==
    /\ pc[w] = "add"
    /\ IF owner[plate[w]] = Nobody
       THEN /\ owner' = [owner EXCEPT ![plate[w]] = rider[w]]
            /\ Goto(w, "check")
            /\ UNCHANGED local
       ELSE Done(w) /\ UNCHANGED owner
    /\ UNCHANGED <<profiles, active, rowLock, roles>>

(* Faulty: no statement looks at the rider of the vehicle. *)
CheckVehicleOfAnyone(w) ==
    /\ pc[w] = "check"
    /\ Goto(w, "deactivate")
    /\ UNCHANGED <<profiles, vehicles, roles, local>>

(* BEGIN; SELECT EXISTS. *)
CheckVehicle(w) ==
    /\ pc[w] = "check"
    /\ IF owner[plate[w]] = rider[w]
       THEN Goto(w, "deactivate") /\ UNCHANGED local
       ELSE Done(w)
    /\ UNCHANGED <<profiles, vehicles, roles>>

(* UPDATE ... SET active = false: first the snapshot of the statement. *)
FindActive(w) ==
    /\ pc[w] = "deactivate"
    /\ old' = [old EXCEPT ![w] = ActiveVehicles(rider[w])]
    /\ Goto(w, IF ActiveVehicles(rider[w]) = {} THEN "activate" ELSE "lock_old")
    /\ UNCHANGED <<profiles, vehicles, roles, rider, write, plate>>

(* Faulty: deactivation and activation are two transactions. *)
LockOldAndCommit(w) ==
    /\ pc[w] = "lock_old"
    /\ \A p \in old[w] : rowLock[p] = Nobody
    /\ active' = active \ old[w]
    /\ Goto(w, "activate")
    /\ UNCHANGED <<profiles, owner, rowLock, roles, local>>

(* The rows are locked; those another transaction has deactivated by now   *)
(* no longer match.                                                        *)
LockOld(w) ==
    /\ pc[w] = "lock_old"
    /\ \A p \in old[w] : rowLock[p] = Nobody
    /\ old' = [old EXCEPT ![w] = @ \cap active]
    /\ rowLock' = [p \in Plates |-> IF p \in old[w] \cap active THEN w ELSE rowLock[p]]
    /\ Goto(w, "activate")
    /\ UNCHANGED <<profiles, owner, active, roles, rider, write, plate>>

(* UPDATE ... SET active = true for the chosen vehicle: first its row. *)
LockVehicle(w) ==
    /\ pc[w] = "activate"
    /\ rowLock[plate[w]] \in {Nobody, w}
    /\ rowLock' = [rowLock EXCEPT ![plate[w]] = w]
    /\ Goto(w, "index")
    /\ UNCHANGED <<profiles, owner, active, roles, local>>

(* Then the unique index rider_one_active_vehicle_idx, which makes the     *)
(* statement wait for a transaction that is about to change which vehicle  *)
(* of the rider is active, and fail if another one still is.               *)
Rivals(w) == ActiveVehicles(rider[w]) \ (old[w] \cup {plate[w]})

Changing(w, x) ==
    /\ x # w
    /\ \/ \E p \in Rivals(w) : rowLock[p] = x
       \/ pc[x] = "commit" /\ rider[x] = rider[w]

(* Faulty: without the unique index. *)
ActivateVehicleWithoutIndex(w) ==
    /\ pc[w] = "index"
    /\ Goto(w, "commit")
    /\ UNCHANGED <<profiles, vehicles, roles, local>>

ActivateVehicle(w) ==
    /\ pc[w] = "index"
    /\ ~\E x \in Workers : Changing(w, x)
    /\ Rivals(w) = {}
    /\ Goto(w, "commit")
    /\ UNCHANGED <<profiles, vehicles, roles, local>>

(* Faulty: the error is returned with the transaction still open. *)
RefuseSecondActiveWithoutRollback(w) ==
    /\ pc[w] = "index"
    /\ ~\E x \in Workers : Changing(w, x)
    /\ Rivals(w) # {}
    /\ Done(w)
    /\ UNCHANGED <<profiles, vehicles, roles>>

RefuseSecondActive(w) ==
    /\ pc[w] = "index"
    /\ ~\E x \in Workers : Changing(w, x)
    /\ Rivals(w) # {}
    /\ ReleaseLocks(w)
    /\ Done(w)
    /\ UNCHANGED <<profiles, owner, active, roles>>

CommitActive(w) ==
    /\ pc[w] = "commit"
    /\ active' = (active \ old[w]) \cup {plate[w]}
    /\ ReleaseLocks(w)
    /\ Done(w)
    /\ UNCHANGED <<profiles, owner, roles>>

-----------------------------------------------------------------------------
(* A statement fails or the client goes away: an open transaction is       *)
(* rolled back, what an earlier one committed stays.                       *)
Fail(w) ==
    /\ pc[w] # "idle"
    /\ ReleaseLocks(w)
    /\ Done(w)
    /\ UNCHANGED <<profiles, owner, active, roles>>

WaitsFor(w, x) ==
    \/ pc[w] = "lock_old" /\ \E p \in old[w] : rowLock[p] = x
    \/ pc[w] = "activate" /\ x # w /\ rowLock[plate[w]] = x
    \/ pc[w] = "index" /\ Changing(w, x)

(* PostgreSQL's deadlock detector aborts a transaction that waits in a     *)
(* cycle: every member of a set waits for a member.                        *)
AbortDeadlock(w) ==
    /\ \E C \in SUBSET Workers :
          w \in C /\ \A x \in C : \E y \in C : WaitsFor(x, y)
    /\ ReleaseLocks(w)
    /\ Done(w)
    /\ UNCHANGED <<profiles, owner, active, roles>>

Arrive(w) ==
    \/ CreateApplication(w) \/ SubmitApplication(w) \/ SetAvailability(w)
    \/ AddVehicle(w) \/ SetActiveVehicle(w)
    \/ Approve(w) \/ Reject(w) \/ Suspend(w)

Serve(w) ==
    \/ CreateProfile(w) \/ HasActiveVehicle(w) \/ WriteProfile(w) \/ WriteApproval(w)
    \/ AssignRole(w) \/ CreateVehicle(w) \/ CheckVehicle(w) \/ FindActive(w) \/ LockOld(w)
    \/ LockVehicle(w) \/ ActivateVehicle(w) \/ RefuseSecondActive(w) \/ CommitActive(w)

Next == \E w \in Workers : Arrive(w) \/ Serve(w) \/ Fail(w) \/ AbortDeadlock(w)

Spec == Init /\ [][Next]_vars

(* A goroutine that can go on goes on; PostgreSQL serves the transactions  *)
(* that wait for a row in turn, so later requests do not keep one waiting  *)
(* for ever (strong fairness); and the deadlock detector runs.  Nothing is *)
(* assumed of arrivals and failures.                                       *)
FairSpec ==
    Spec /\ \A w \in Workers : SF_vars(Serve(w)) /\ WF_vars(AbortDeadlock(w))

-----------------------------------------------------------------------------
(* Properties *)

(* A rider has at most one active vehicle, however SetActiveVehicle and    *)
(* AddVehicle run into each other.                                         *)
OneActiveVehicle ==
    \A p, q \in active : owner[p] = owner[q] => p = q

(* A rider whose application was submitted has an active vehicle from then *)
(* on, though the check and the submission are two statements and the      *)
(* active vehicle may be exchanged in between.                             *)
VehicleBehindApplication ==
    \A r \in Riders : status[r] \notin {"none", "draft"} => ActiveVehicles(r) # {}

(* Only an approved rider is available or busy, whatever was read and      *)
(* written back meanwhile.                                                 *)
OnDutyApproved ==
    \A r \in Riders : availability[r] # "offline" => status[r] = "approved"

(* The role "rider" goes to riders that were approved. *)
RoleEarned == roles \subseteq everApproved

(* Availability changes only as TestAvailabilityTransitions lists: never   *)
(* from offline to busy.                                                   *)
AvailabilityMoves ==
    [][\A r \in Riders :
          validAvailabilityTransition(availability[r], availability'[r])]_vars

(* The status moves along the guards of the service ("invalid rider state  *)
(* transition"): a suspended rider stays suspended, a decision is final.   *)
StatusMoves ==
    [][\A r \in Riders :
          status'[r] # status[r] =>
              <<status[r], status'[r]>> \in
                  {<<"none", "draft">>, <<"draft", "submitted">>,
                   <<"rejected", "submitted">>, <<"submitted", "approved">>,
                   <<"submitted", "rejected">>, <<"approved", "suspended">>}]_vars

(* In its handler, with no transaction to wait for. *)
Free(w) == pc[w] # "idle" /\ \A x \in Workers : ~WaitsFor(w, x)

Deadlocked(w) == \E x \in Workers \ {w} : WaitsFor(w, x) /\ WaitsFor(x, w)

(* No request waits in vain: the waiting ends, within two transactions, in *)
(* one that can go on or in a deadlock of two, which PostgreSQL breaks.    *)
WaitsEnd ==
    \A w, x \in Workers : WaitsFor(w, x) =>
        \/ Free(x) \/ Deadlocked(x)
        \/ \E y \in Workers : WaitsFor(x, y) /\ (Free(y) \/ Deadlocked(y))

(* Every request is answered: row locks are given back and a cycle of      *)
(* waiting transactions is broken.                                         *)
EveryRequestAnswered ==
    \A w \in Workers : (pc[w] # "idle") ~> (pc[w] = "idle")

(* Reads, stale writes, locks and failures implement the register: what    *)
(* the guards of the service promise though they test what is out of date, *)
(* and one active vehicle, exchanged in one step.                          *)
Register == INSTANCE RiderRegister WITH
    vehicle <- [r \in Riders |-> ActiveVehicles(r)], approved <- everApproved

ImplementsRegister == Register!Spec
=============================================================================
