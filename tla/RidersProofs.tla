----------------------------- MODULE RidersProofs -----------------------------
(***************************************************************************)
(* Proofs about Riders for every set of riders, registration numbers,      *)
(* requests in flight and operations.                                      *)
(***************************************************************************)
EXTENDS Riders, TLAPS

InTransaction == {"deactivate", "lock_old", "activate", "index", "commit"}

(* SetActiveVehicle works on vehicles of its rider, and once it has locked *)
(* the vehicles it deactivates they stay active until it commits.          *)
VehiclesOwned ==
    \A w \in Workers :
        /\ pc[w] \in InTransaction => owner[plate[w]] = rider[w]
        /\ \A p \in old[w] : owner[p] = rider[w]
        /\ pc[w] \notin {"lock_old", "activate", "index", "commit"} => old[w] = {}
        /\ pc[w] \in {"activate", "index", "commit"} =>
              \A p \in old[w] : p \in active /\ rowLock[p] = w
        /\ pc[w] \in {"index", "commit"} => rowLock[plate[w]] = w

(* A transaction that is past the unique index knows every vehicle of its  *)
(* rider that is active, and is the only one of the rider there.           *)
CommitsAlone ==
    \A w \in Workers : pc[w] = "commit" =>
        /\ ActiveVehicles(rider[w]) \subseteq old[w] \cup {plate[w]}
        /\ \A x \in Workers : pc[x] = "commit" /\ rider[x] = rider[w] => x = w

(* What a request will write is consistent in itself, and a request that   *)
(* is past HasActiveVehicle belongs to a rider with an active vehicle.     *)
WritesJustified ==
    /\ \A w \in Workers : write[w].availability # "offline" => write[w].status = "approved"
    /\ \A w \in Workers : pc[w] \in {"update", "approve"} => ActiveVehicles(rider[w]) # {}

ApprovalsRecorded ==
    /\ \A r \in Riders : status[r] = "approved" => r \in everApproved
    /\ \A w \in Workers : pc[w] = "approve" => write[w].status = "approved"
    /\ \A w \in Workers : pc[w] = "grant" => rider[w] \in everApproved

IInv ==
    /\ TypeOK
    /\ VehiclesOwned /\ CommitsAlone /\ OneActiveVehicle
    /\ WritesJustified /\ VehicleBehindApplication /\ OnDutyApproved
    /\ ApprovalsRecorded /\ RoleEarned

-----------------------------------------------------------------------------
LEMMA InitIInv == Init => IInv
BY NobodyAssumption
   DEF Init, IInv, TypeOK, VehiclesOwned, CommitsAlone, OneActiveVehicle, WritesJustified,
       VehicleBehindApplication, OnDutyApproved, ApprovalsRecorded, RoleEarned,
       NoUpdate, Update, Statuses, Availabilities, ActiveVehicles, InTransaction

(* The steps that leave the vehicles and their locks alone. *)
ProfileStep(w) ==
    \/ CreateProfile(w) \/ HasActiveVehicle(w) \/ WriteProfile(w) \/ WriteApproval(w)
    \/ AssignRole(w)

(* The steps of AddVehicle and SetActiveVehicle. *)
VehicleStep(w) ==
    \/ CreateVehicle(w) \/ CheckVehicle(w) \/ FindActive(w) \/ LockOld(w) \/ LockVehicle(w)
    \/ ActivateVehicle(w) \/ CommitActive(w)

(* The steps that give a request up. *)
Rollback(w) == RefuseSecondActive(w) \/ Fail(w) \/ AbortDeadlock(w)

LEMMA NextCases ==
    ASSUME [Next]_vars
    PROVE  \/ \E w \in Workers :
                 Arrive(w) \/ ProfileStep(w) \/ VehicleStep(w) \/ Rollback(w)
           \/ UNCHANGED vars
BY DEF Next, Serve, ProfileStep, VehicleStep, Rollback

(* How a request arrives: with nothing done yet. *)
LEMMA BeginsFacts ==
    ASSUME TypeOK, NEW w \in Workers, NEW op, NEW r \in Riders, NEW l, Begins(w, op, r, l)
    PROVE  /\ pc[w] = "idle"
           /\ rider' = [rider EXCEPT ![w] = r]
           /\ pc' = [pc EXCEPT ![w] = l]
           /\ UNCHANGED <<status, availability, everApproved, owner, active, rowLock,
                          roles, old>>
BY DEF Begins, Goto, profiles, vehicles

LEMMA BeginsUpdateFacts ==
    ASSUME TypeOK, NEW w \in Workers, NEW op, NEW r \in Riders, NEW l,
           NEW s \in Statuses, NEW a \in Availabilities, BeginsUpdate(w, op, r, l, s, a)
    PROVE  /\ Begins(w, op, r, l)
           /\ write' \in [Workers -> Update]
           /\ write'[w].status = s /\ write'[w].availability = a
           /\ \A x \in Workers \ {w} : write'[x] = write[x]
           /\ plate' = plate
<1>1. write \in [Workers -> Update]
  BY DEF TypeOK
<1>2. [status |-> s, availability |-> a] \in Update
  BY DEF Update
<1>. QED
  BY <1>1, <1>2 DEF BeginsUpdate

(* The stages a request begins at, and what is known there. *)
FirstStage(r, l, u) ==
    \/ l \in {"insert", "has_vehicle", "add", "check"}
    \/ l = "update" /\ status[r] \notin {"none", "draft"}
    \/ l = "approve" /\ status[r] \notin {"none", "draft"} /\ u.status = "approved"
    \/ l = "grant" /\ status[r] = "approved"

LEMMA Arrival ==
    ASSUME TypeOK, NEW w \in Workers, Arrive(w)
    PROVE  /\ \E r \in Riders, l \in Stages, op \in AllOperations :
                 Begins(w, op, r, l) /\ FirstStage(r, l, write'[w])
           /\ write' \in [Workers -> Update]
           /\ \A x \in Workers : \/ write'[x] = write[x]
                                 \/ x = w /\ write'[x].availability = "offline"
                                 \/ x = w /\ write'[x].status = "approved"
           /\ plate' \in [Workers -> Plates]
           /\ \A x \in Workers \ {w} : write'[x] = write[x] /\ plate'[x] = plate[x]
<1>. write \in [Workers -> Update] /\ plate \in [Workers -> Plates]
  BY DEF TypeOK
<1>. /\ {"submitted", "approved", "rejected", "suspended"} \subseteq Statuses
     /\ "offline" \in Availabilities
  BY DEF Statuses, Availabilities
<1> USE DEF FirstStage, Stages, AllOperations
<1>1. CASE CreateApplication(w)
  BY <1>1 DEF CreateApplication
<1>2. CASE SubmitApplication(w)
  <2>1. PICK r \in Riders :
           BeginsUpdate(w, "submit", r, "has_vehicle", "submitted", "offline")
    BY <1>2 DEF SubmitApplication
  <2>. QED
    BY <2>1, BeginsUpdateFacts
<1>3. CASE SetAvailability(w)
  <2>1. PICK r \in Riders, to \in Availabilities :
           /\ status[r] = "approved"
           /\ BeginsUpdate(w, "availability", r,
                           IF to = "available" THEN "has_vehicle" ELSE "update", status[r], to)
    BY <1>3 DEF SetAvailability
  <2>2. PICK l \in {"has_vehicle", "update"} :
           BeginsUpdate(w, "availability", r, l, "approved", to)
    BY <2>1
  <2>3. /\ Begins(w, "availability", r, l)
        /\ write' \in [Workers -> Update] /\ write'[w].status = "approved"
        /\ \A x \in Workers \ {w} : write'[x] = write[x]
        /\ plate' = plate
    <3>1. CASE l = "has_vehicle"
      BY <2>2, <3>1, BeginsUpdateFacts, Z3
    <3>2. CASE l = "update"
      BY <2>2, <3>2, BeginsUpdateFacts
    <3>. QED
      BY <3>1, <3>2
  <2>. QED
    BY <2>1, <2>3
<1>4. CASE AddVehicle(w)
  BY <1>4 DEF AddVehicle
<1>5. CASE SetActiveVehicle(w)
  BY <1>5 DEF SetActiveVehicle
<1>6. CASE Approve(w)
  <2>1. PICK r \in Riders, l \in {"approve", "grant"} :
           /\ status[r] = (IF l = "grant" THEN "approved" ELSE "submitted")
           /\ BeginsUpdate(w, "approve", r, l, "approved", "offline")
    BY <1>6 DEF Approve
  <2>2. /\ Begins(w, "approve", r, l)
        /\ write' \in [Workers -> Update] /\ write'[w].status = "approved"
        /\ \A x \in Workers \ {w} : write'[x] = write[x]
        /\ plate' = plate
    BY <2>1, BeginsUpdateFacts
  <2>. QED
    BY <2>1, <2>2
<1>7. CASE Reject(w)
  <2>1. PICK r \in Riders : /\ status[r] = "submitted"
                           /\ BeginsUpdate(w, "reject", r, "update", "rejected", "offline")
    BY <1>7 DEF Reject
  <2>. QED
    BY <2>1, BeginsUpdateFacts
<1>8. CASE Suspend(w)
  <2>1. PICK r \in Riders : /\ status[r] = "approved"
                           /\ BeginsUpdate(w, "suspend", r, "update", "suspended", "offline")
    BY <1>8 DEF Suspend
  <2>. QED
    BY <2>1, BeginsUpdateFacts
<1>. QED
  BY <1>1, <1>2, <1>3, <1>4, <1>5, <1>6, <1>7, <1>8 DEF Arrive

LEMMA TypeStep ==
    ASSUME IInv, [Next]_vars
    PROVE  TypeOK'
<1>. TypeOK /\ VehiclesOwned
  BY DEF IInv
<1>0. NoUpdate \in Update
  BY DEF NoUpdate, Update, Statuses, Availabilities
<1>1. ASSUME NEW w \in Workers, Arrive(w)
      PROVE  TypeOK'
  <2>1. PICK r \in Riders, l \in Stages, op \in AllOperations : Begins(w, op, r, l)
    BY <1>1, Arrival
  <2>2. /\ rider' = [rider EXCEPT ![w] = r] /\ pc' = [pc EXCEPT ![w] = l]
        /\ UNCHANGED <<status, availability, everApproved>>
        /\ UNCHANGED <<owner, active, rowLock, roles, old>>
    BY <2>1, BeginsFacts, Z3
  <2>3. write' \in [Workers -> Update] /\ plate' \in [Workers -> Plates]
    BY <1>1, Arrival
  <2>. QED
    BY <2>2, <2>3 DEF TypeOK
<1>2. ASSUME NEW w \in Workers, ProfileStep(w)
      PROVE  TypeOK'
  <2>1. /\ write[w].status \in Statuses /\ write[w].availability \in Availabilities
        /\ "draft" \in Statuses
    BY DEF TypeOK, Update, Statuses
  <2>2. CASE CreateProfile(w) \/ HasActiveVehicle(w) \/ AssignRole(w)
    BY <1>0, <2>1, <2>2 DEF CreateProfile, HasActiveVehicle, AssignRole, Done, Goto, local,
                            profiles, vehicles, TypeOK, Stages
  <2>3. CASE WriteProfile(w) \/ WriteApproval(w)
    BY <1>0, <2>1, <2>3 DEF WriteProfile, WriteApproval, UpdateProfile, Done, Goto, local,
                            vehicles, TypeOK, Stages
  <2>. QED
    BY <1>2, <2>2, <2>3 DEF ProfileStep
<1>3. ASSUME NEW w \in Workers, VehicleStep(w)
      PROVE  TypeOK'
  <2> USE DEF Done, Goto, local, profiles, vehicles, TypeOK, Stages, ActiveVehicles
  <2>1. CASE CreateVehicle(w) \/ CheckVehicle(w) \/ FindActive(w)
    BY <1>0, <2>1, NobodyAssumption DEF CreateVehicle, CheckVehicle, FindActive
  <2>2. CASE LockOld(w) \/ LockVehicle(w) \/ ActivateVehicle(w)
    BY <2>2 DEF LockOld, LockVehicle, ActivateVehicle
  <2>3. CASE CommitActive(w)
    BY <1>0, <2>3, NobodyAssumption DEF CommitActive, ReleaseLocks, VehiclesOwned, InTransaction
  <2>. QED
    BY <1>3, <2>1, <2>2, <2>3 DEF VehicleStep
<1>4. ASSUME NEW w \in Workers, Rollback(w)
      PROVE  TypeOK'
  BY <1>0, <1>4 DEF Rollback, RefuseSecondActive, Fail, AbortDeadlock, ReleaseLocks, Done,
                    Goto, profiles, TypeOK
<1>5. CASE UNCHANGED vars
  BY <1>5 DEF vars, profiles, vehicles, local, TypeOK
<1>. QED
  BY <1>1, <1>2, <1>3, <1>4, <1>5, NextCases

LEMMA VehiclesStep ==
    ASSUME IInv, [Next]_vars
    PROVE  VehiclesOwned' /\ CommitsAlone' /\ OneActiveVehicle'
<1>. TypeOK /\ VehiclesOwned /\ CommitsAlone /\ OneActiveVehicle
  BY DEF IInv
<1>. /\ owner \in [Plates -> Riders \cup {Nobody}]
     /\ active \subseteq {p \in Plates : owner[p] # Nobody}
     /\ rowLock \in [Plates -> Workers \cup {Nobody}]
     /\ pc \in [Workers -> {"idle"} \cup Stages]
     /\ rider \in [Workers -> Riders]
     /\ plate \in [Workers -> Plates]
     /\ old \in [Workers -> SUBSET Plates]
  BY DEF TypeOK
<1> USE NobodyAssumption DEF VehiclesOwned, CommitsAlone, OneActiveVehicle, InTransaction
<1>1. ASSUME NEW w \in Workers, Arrive(w)
      PROVE  VehiclesOwned' /\ CommitsAlone' /\ OneActiveVehicle'
  <2>1. PICK r \in Riders, l \in Stages, op \in AllOperations :
           Begins(w, op, r, l) /\ l \notin InTransaction
    BY <1>1, Arrival DEF FirstStage
  <2>2. /\ pc[w] = "idle"
        /\ rider' = [rider EXCEPT ![w] = r] /\ pc' = [pc EXCEPT ![w] = l]
        /\ UNCHANGED <<owner, active, rowLock, old>>
    BY <2>1, BeginsFacts
  <2>3. \A x \in Workers \ {w} : plate'[x] = plate[x]
    BY <1>1, Arrival
  <2>. QED
    BY <2>1, <2>2, <2>3 DEF ActiveVehicles
<1>2. ASSUME NEW w \in Workers, ProfileStep(w)
      PROVE  VehiclesOwned' /\ CommitsAlone' /\ OneActiveVehicle'
  <2>1. /\ pc[w] \notin InTransaction /\ pc'[w] \notin InTransaction
        /\ \A x \in Workers \ {w} : pc'[x] = pc[x]
        /\ \A x \in Workers : old'[x] = old[x]
        /\ UNCHANGED <<owner, active, rowLock, plate, rider>>
    <3>1. old[w] = {} /\ pc[w] \notin InTransaction
      BY <1>2 DEF ProfileStep, CreateProfile, HasActiveVehicle, WriteProfile, WriteApproval,
                  AssignRole
    <3>2. /\ \E l \in {"idle", "update", "grant"} : pc' = [pc EXCEPT ![w] = l]
          /\ old' = old \/ old' = [old EXCEPT ![w] = {}]
          /\ UNCHANGED <<owner, active, rowLock, plate, rider>>
      BY <1>2 DEF ProfileStep, CreateProfile, HasActiveVehicle, WriteProfile, WriteApproval,
                  AssignRole, Done, Goto, local, vehicles
    <3>3. \A x \in Workers : old'[x] = old[x]
      <4>1. CASE old' = old
        BY <4>1
      <4>2. CASE old' = [old EXCEPT ![w] = {}]
        BY <3>1, <4>2
      <4>. QED
        BY <3>2, <4>1, <4>2
    <3>. QED
      BY <3>1, <3>2, <3>3
  <2>. QED
    BY <2>1 DEF ActiveVehicles
<1>3. ASSUME NEW w \in Workers, CreateVehicle(w) \/ CheckVehicle(w)
      PROVE  VehiclesOwned' /\ CommitsAlone' /\ OneActiveVehicle'
  BY <1>3 DEF CreateVehicle, CheckVehicle, Done, Goto, local, vehicles, ActiveVehicles
<1>4. ASSUME NEW w \in Workers, FindActive(w) \/ LockOld(w)
      PROVE  VehiclesOwned' /\ CommitsAlone' /\ OneActiveVehicle'
  BY <1>4 DEF FindActive, LockOld, Goto, vehicles, ActiveVehicles
<1>5. ASSUME NEW w \in Workers, LockVehicle(w)
      PROVE  VehiclesOwned' /\ CommitsAlone' /\ OneActiveVehicle'
  BY <1>5 DEF LockVehicle, Goto, local, ActiveVehicles
<1>6. ASSUME NEW w \in Workers, ActivateVehicle(w)
      PROVE  VehiclesOwned' /\ CommitsAlone' /\ OneActiveVehicle'
  BY <1>6 DEF ActivateVehicle, Changing, Rivals, Goto, local, vehicles, ActiveVehicles
<1>7. ASSUME NEW w \in Workers, CommitActive(w)
      PROVE  VehiclesOwned' /\ CommitsAlone' /\ OneActiveVehicle'
  BY <1>7 DEF CommitActive, ReleaseLocks, Done, Goto, ActiveVehicles
<1>8. ASSUME NEW w \in Workers, Rollback(w)
      PROVE  VehiclesOwned' /\ CommitsAlone' /\ OneActiveVehicle'
  BY <1>8 DEF Rollback, RefuseSecondActive, Fail, AbortDeadlock, ReleaseLocks, Done, Goto,
              ActiveVehicles
<1>9. CASE UNCHANGED vars
  BY <1>9 DEF vars, vehicles, local, ActiveVehicles
<1>. QED
  BY <1>1, <1>2, <1>3, <1>4, <1>5, <1>6, <1>7, <1>8, <1>9, NextCases DEF VehicleStep

LEMMA ProfilesStep ==
    ASSUME IInv, [Next]_vars
    PROVE  /\ WritesJustified' /\ VehicleBehindApplication' /\ OnDutyApproved'
           /\ ApprovalsRecorded' /\ RoleEarned'
<1> DEFINE Goal == /\ WritesJustified /\ VehicleBehindApplication /\ OnDutyApproved
                   /\ ApprovalsRecorded /\ RoleEarned
<1>. SUFFICES Goal'
  OBVIOUS
<1>. TypeOK /\ VehiclesOwned /\ Goal
  BY DEF IInv
<1>. /\ status \in [Riders -> Statuses \cup {"none"}]
     /\ availability \in [Riders -> Availabilities]
     /\ active \subseteq {p \in Plates : owner[p] # Nobody}
     /\ pc \in [Workers -> {"idle"} \cup Stages]
     /\ rider \in [Workers -> Riders]
     /\ write \in [Workers -> Update]
     /\ plate \in [Workers -> Plates]
     /\ owner \in [Plates -> Riders \cup {Nobody}]
  BY DEF TypeOK
<1>0. NoUpdate.availability = "offline"
  BY DEF NoUpdate
<1> USE DEF WritesJustified, VehicleBehindApplication, OnDutyApproved, ApprovalsRecorded,
            RoleEarned
<1>1. ASSUME NEW w \in Workers, Arrive(w)
      PROVE  Goal'
  <2>1. PICK r \in Riders, l \in Stages, op \in AllOperations :
           Begins(w, op, r, l) /\ FirstStage(r, l, write'[w])
    BY <1>1, Arrival
  <2>2. /\ rider' = [rider EXCEPT ![w] = r] /\ pc' = [pc EXCEPT ![w] = l]
        /\ UNCHANGED <<status, availability, everApproved, owner, active, roles>>
    BY <2>1, BeginsFacts
  <2>3. /\ \A x \in Workers : write'[x].availability # "offline" => write'[x].status = "approved"
        /\ \A x \in Workers \ {w} : write'[x] = write[x]
    BY <1>1, Arrival
  <2>. QED
    BY <2>1, <2>2, <2>3 DEF ActiveVehicles, FirstStage
<1>2. ASSUME NEW w \in Workers, CreateProfile(w) \/ HasActiveVehicle(w) \/ AssignRole(w)
      PROVE  Goal'
  <2>1. CASE CreateProfile(w)
    BY <1>0, <2>1 DEF CreateProfile, Done, Goto, vehicles, ActiveVehicles
  <2>2. CASE HasActiveVehicle(w)
    BY <1>0, <2>2 DEF HasActiveVehicle, Done, Goto, local, profiles, vehicles, ActiveVehicles
  <2>3. CASE AssignRole(w)
    BY <1>0, <2>3 DEF AssignRole, Done, Goto, profiles, vehicles, ActiveVehicles
  <2>. QED
    BY <1>2, <2>1, <2>2, <2>3
<1>3. ASSUME NEW w \in Workers, WriteProfile(w) \/ WriteApproval(w)
      PROVE  Goal'
  <2>1. /\ pc[w] \in {"update", "approve"} /\ UpdateProfile(w)
        /\ UNCHANGED <<owner, active, roles, rider>>
        /\ pc' = [pc EXCEPT ![w] = "idle"] \/ pc' = [pc EXCEPT ![w] = "grant"]
        /\ write' = write \/ write' = [write EXCEPT ![w] = NoUpdate]
    BY <1>3 DEF WriteProfile, WriteApproval, Done, Goto, local, vehicles
  <2>2. WritesJustified'
    BY <1>0, <2>1 DEF ActiveVehicles
  <2>3. VehicleBehindApplication' /\ OnDutyApproved' /\ RoleEarned'
    BY <2>1 DEF UpdateProfile, ActiveVehicles
  <2>4. ApprovalsRecorded'
    <3>1. pc' = [pc EXCEPT ![w] = "grant"] => write[w].status = "approved"
      <4>1. pc' = [pc EXCEPT ![w] = "grant"] => pc'[w] = "grant"
        OBVIOUS
      <4>. QED
        BY <1>3, <4>1 DEF WriteProfile, WriteApproval, Done, Goto
    <3>. QED
      BY <2>1, <3>1 DEF UpdateProfile
  <2>. QED
    BY <2>2, <2>3, <2>4
<1>4. ASSUME NEW w \in Workers, VehicleStep(w)
      PROVE  Goal'
  <2>1. /\ UNCHANGED <<status, availability, everApproved, roles, rider>>
        /\ \A x \in Workers : write'[x] = write[x] \/ write'[x] = NoUpdate
        /\ \A x \in Workers : pc'[x] \in {"update", "approve", "grant"} =>
               pc'[x] = pc[x] /\ write'[x] = write[x]
    BY <1>4 DEF VehicleStep, CreateVehicle, CheckVehicle, FindActive, LockOld, LockVehicle,
                ActivateVehicle, CommitActive, Done, Goto, local, profiles
  <2>2. \A r \in Riders : ActiveVehicles(r) # {} => ActiveVehicles(r)' # {}
    <3>1. CASE CreateVehicle(w)
      BY <3>1, NobodyAssumption DEF CreateVehicle, ActiveVehicles
    <3>2. CASE CommitActive(w)
      BY <3>2 DEF CommitActive, VehiclesOwned, InTransaction, ActiveVehicles
    <3>3. CASE ~CreateVehicle(w) /\ ~CommitActive(w)
      BY <1>4, <3>3 DEF VehicleStep, CheckVehicle, FindActive, LockOld, LockVehicle,
                        ActivateVehicle, vehicles, ActiveVehicles
    <3>. QED
      BY <3>1, <3>2, <3>3
  <2>3. WritesJustified'
    BY <1>0, <2>1, <2>2
  <2>4. VehicleBehindApplication' /\ OnDutyApproved' /\ RoleEarned'
    BY <2>1, <2>2
  <2>5. ApprovalsRecorded'
    BY <2>1
  <2>. QED
    BY <2>3, <2>4, <2>5
<1>5. ASSUME NEW w \in Workers, Rollback(w)
      PROVE  Goal'
  BY <1>0, <1>5 DEF Rollback, RefuseSecondActive, Fail, AbortDeadlock, Done, Goto, profiles,
                    ActiveVehicles
<1>6. CASE UNCHANGED vars
  BY <1>6 DEF vars, profiles, vehicles, local, ActiveVehicles
<1>. QED
  BY <1>1, <1>2, <1>3, <1>4, <1>5, <1>6, NextCases DEF ProfileStep

-----------------------------------------------------------------------------
THEOREM Invariance == Spec => []IInv
<1>1. IInv /\ [Next]_vars => IInv'
  BY TypeStep, VehiclesStep, ProfilesStep DEF IInv
<1>. QED
  BY InitIInv, <1>1, PTL DEF Spec

(* Every variable keeps its type, and only registered vehicles are active. *)
THEOREM TypeCorrect == Spec => []TypeOK
BY Invariance, PTL DEF IInv

(* rider_one_active_vehicle_idx and the row locks of SetActiveVehicle      *)
(* leave a rider at most one active vehicle.                               *)
THEOREM OneVehicleActive == Spec => []OneActiveVehicle
BY Invariance, PTL DEF IInv

(* What SubmitApplication checked stays true: behind an application there  *)
(* is an active vehicle.                                                   *)
THEOREM ApplicationsBacked == Spec => []VehicleBehindApplication
BY Invariance, PTL DEF IInv

(* The stale writes of SetAvailability put nobody on duty who is not       *)
(* approved in the same row.                                               *)
THEOREM OnDutyOnlyApproved == Spec => []OnDutyApproved
BY Invariance, PTL DEF IInv

(* AssignRole runs only for riders whose profile was approved. *)
THEOREM RolesEarned == Spec => []RoleEarned
BY Invariance, PTL DEF IInv

-----------------------------------------------------------------------------
(* Who waits for whom *)

(* A row is locked by a transaction that has not ended and that            *)
(* deactivates or activates the vehicle.                                   *)
LocksHeld ==
    \A p \in Plates, w \in Workers : rowLock[p] = w =>
        \/ pc[w] \in {"activate", "index", "commit"} /\ p \in old[w]
        \/ pc[w] \in {"index", "commit"} /\ p = plate[w]

LEMMA LocksHeldStep ==
    ASSUME IInv, LocksHeld, [Next]_vars
    PROVE  LocksHeld'
<1>. TypeOK /\ VehiclesOwned
  BY DEF IInv
<1>. /\ rowLock \in [Plates -> Workers \cup {Nobody}]
     /\ pc \in [Workers -> {"idle"} \cup Stages]
     /\ plate \in [Workers -> Plates]
     /\ old \in [Workers -> SUBSET Plates]
  BY DEF TypeOK
<1> USE NobodyAssumption DEF LocksHeld
<1>1. ASSUME NEW w \in Workers, Arrive(w)
      PROVE  LocksHeld'
  <2>1. PICK r \in Riders, l \in Stages, op \in AllOperations : Begins(w, op, r, l)
    BY <1>1, Arrival
  <2>2. pc[w] = "idle" /\ pc' = [pc EXCEPT ![w] = l] /\ rowLock' = rowLock /\ old' = old
    BY <2>1, BeginsFacts
  <2>3. \A x \in Workers \ {w} : plate'[x] = plate[x]
    BY <1>1, Arrival
  <2>. QED
    BY <2>2, <2>3
<1>2. ASSUME NEW w \in Workers, ProfileStep(w)
      PROVE  LocksHeld'
  BY <1>2 DEF ProfileStep, CreateProfile, HasActiveVehicle, WriteProfile, WriteApproval,
              AssignRole, Done, Goto, local, vehicles
<1>3. ASSUME NEW w \in Workers, VehicleStep(w)
      PROVE  LocksHeld'
  <2>1. CASE CreateVehicle(w) \/ CheckVehicle(w) \/ FindActive(w)
    BY <2>1 DEF CreateVehicle, CheckVehicle, FindActive, Done, Goto, local, vehicles
  <2>2. CASE LockOld(w)
    BY <2>2 DEF LockOld, Goto
  <2>3. CASE LockVehicle(w)
    BY <2>3 DEF LockVehicle, Goto, local
  <2>4. CASE ActivateVehicle(w)
    BY <2>4 DEF ActivateVehicle, Goto, local, vehicles
  <2>5. CASE CommitActive(w)
    BY <2>5 DEF CommitActive, ReleaseLocks, Done, Goto
  <2>. QED
    BY <1>3, <2>1, <2>2, <2>3, <2>4, <2>5 DEF VehicleStep
<1>4. ASSUME NEW w \in Workers, Rollback(w)
      PROVE  LocksHeld'
  BY <1>4 DEF Rollback, RefuseSecondActive, Fail, AbortDeadlock, ReleaseLocks, Done, Goto
<1>5. CASE UNCHANGED vars
  BY <1>5 DEF vars, vehicles, local
<1>. QED
  BY <1>1, <1>2, <1>3, <1>4, <1>5, NextCases

(* Row locks never outlive their transaction. *)
THEOREM LocksGivenBack == Spec => []LocksHeld
<1>1. Init => LocksHeld
  BY NobodyAssumption DEF Init, LocksHeld
<1>2. IInv /\ LocksHeld /\ [Next]_vars => LocksHeld'
  BY LocksHeldStep
<1>. QED
  BY <1>1, <1>2, Invariance, PTL DEF Spec

(* The holder of a row belongs to the rider of the vehicle. *)
LEMMA HolderOf ==
    ASSUME IInv, LocksHeld, NEW p \in Plates, NEW x \in Workers, rowLock[p] = x
    PROVE  pc[x] \in {"activate", "index", "commit"} /\ owner[p] = rider[x]
BY DEF IInv, LocksHeld, VehiclesOwned, InTransaction

(* Transactions wait for transactions of the same rider that hold locks.   *)
LEMMA WaitFacts ==
    ASSUME IInv, LocksHeld, NEW w \in Workers, NEW x \in Workers, WaitsFor(w, x)
    PROVE  pc[x] \in {"activate", "index", "commit"} /\ rider[x] = rider[w]
<1>. VehiclesOwned /\ plate \in [Workers -> Plates] /\ old \in [Workers -> SUBSET Plates]
     /\ active \subseteq Plates
  BY DEF IInv, TypeOK
<1>1. CASE pc[w] = "lock_old"
  BY <1>1, HolderOf DEF WaitsFor, VehiclesOwned
<1>2. CASE pc[w] = "activate"
  BY <1>2, HolderOf DEF WaitsFor, VehiclesOwned, InTransaction
<1>3. CASE pc[w] = "index"
  BY <1>3, HolderOf DEF WaitsFor, Changing, Rivals, ActiveVehicles
<1>. QED
  BY <1>1, <1>2, <1>3 DEF WaitsFor

LEMMA CommitFree ==
    ASSUME NEW x \in Workers, pc[x] = "commit"
    PROVE  Free(x)
BY DEF Free, WaitsFor

(* A transaction that has locked the active vehicle of its rider and still *)
(* lacks the new one: it goes on, is in a deadlock of two, or waits for    *)
(* one that commits.                                                       *)
LEMMA KeeperEnds ==
    ASSUME IInv, LocksHeld, NEW h \in Workers, pc[h] = "activate",
           NEW p \in old[h], rowLock[p] = h
    PROVE  \/ Free(h) \/ Deadlocked(h)
           \/ \E y \in Workers : WaitsFor(h, y) /\ pc[y] = "commit"
<1>. /\ VehiclesOwned /\ OneActiveVehicle
     /\ plate \in [Workers -> Plates] /\ old \in [Workers -> SUBSET Plates]
     /\ active \subseteq Plates
  BY DEF IInv, TypeOK
<1> SUFFICES ASSUME NEW y \in Workers, WaitsFor(h, y), pc[y] # "commit"
             PROVE  Deadlocked(h)
  BY DEF Free
<1> DEFINE q == plate[h]
<1>1. y # h /\ rowLock[q] = y /\ rider[y] = rider[h]
  BY WaitFacts DEF WaitsFor
<1>2. p \in active /\ owner[p] = rider[h] /\ owner[q] = rider[h]
  BY DEF VehiclesOwned, InTransaction
<1>3. pc[y] = "index" /\ q = plate[y]
  <2>1. q \notin old[y]
    <3>1. ASSUME q \in old[y]
          PROVE  FALSE
      <4>1. pc[y] \in {"activate", "index", "commit"}
        BY <1>1, HolderOf
      <4>2. q \in active
        BY <3>1, <4>1 DEF VehiclesOwned
      <4>. QED
        BY <1>1, <1>2, <4>2 DEF OneActiveVehicle
    <3>. QED
      BY <3>1
  <2>. QED
    BY <1>1, <2>1 DEF LocksHeld
<1>4. p \in Rivals(y)
  <2>1. p \notin old[y]
    BY <1>1, <1>3 DEF VehiclesOwned
  <2>2. p # plate[y]
    BY <1>1, <1>3
  <2>. QED
    BY <1>1, <1>2, <2>1, <2>2 DEF Rivals, ActiveVehicles
<1>5. WaitsFor(y, h)
  BY <1>1, <1>3, <1>4 DEF WaitsFor, Changing
<1>. QED
  BY <1>1, <1>5 DEF Deadlocked

(* Every wait ends, within two transactions of the same rider, in one that *)
(* can go on or in a deadlock of two: longer cycles do not exist.          *)
THEOREM NobodyWaitsInVain == Spec => []WaitsEnd
<1>1. IInv /\ LocksHeld => WaitsEnd
  <2> SUFFICES ASSUME IInv, LocksHeld, NEW w \in Workers, NEW x \in Workers, WaitsFor(w, x),
                      ~Free(x), ~Deadlocked(x)
               PROVE  \E y \in Workers : WaitsFor(x, y) /\ (Free(y) \/ Deadlocked(y))
    BY DEF WaitsEnd
  <2>. /\ VehiclesOwned /\ OneActiveVehicle
       /\ plate \in [Workers -> Plates] /\ old \in [Workers -> SUBSET Plates]
       /\ active \subseteq Plates
    BY DEF IInv, TypeOK
  <2>1. pc[x] \in {"activate", "index"}
    BY WaitFacts, CommitFree
  <2>2. CASE pc[x] = "activate"
    <3>1. \E p \in old[x] : rowLock[p] = x
      BY <2>2, NobodyAssumption DEF WaitsFor, Changing, Rivals, ActiveVehicles, LocksHeld,
                                    VehiclesOwned
    <3>. QED
      BY <2>2, <3>1, KeeperEnds, CommitFree
  <2>3. CASE pc[x] = "index"
    <3>1. PICK y \in Workers : WaitsFor(x, y)
      BY <2>3 DEF Free
    <3>2. y # x /\ rider[y] = rider[x] /\ pc[y] \in {"activate", "index", "commit"}
      BY <2>3, <3>1, WaitFacts DEF WaitsFor, Changing
    <3>3. CASE \E z \in Workers : z # x /\ pc[z] = "commit" /\ rider[z] = rider[x]
      BY <2>3, <3>3, CommitFree DEF WaitsFor, Changing
    <3>4. CASE ~\E z \in Workers : z # x /\ pc[z] = "commit" /\ rider[z] = rider[x]
      <4>1. PICK p \in Rivals(x) : rowLock[p] = y
        BY <2>3, <3>1, <3>2, <3>4 DEF WaitsFor, Changing
      <4>2. p \in Plates /\ p \in active /\ owner[p] = rider[x]
        BY <4>1 DEF Rivals, ActiveVehicles
      <4>3. CASE pc[y] = "activate"
        <5>1. p \in old[y]
          BY <4>1, <4>2, <4>3 DEF LocksHeld
        <5>2. \A z \in Workers : WaitsFor(y, z) => pc[z] # "commit"
          BY <2>3, <3>2, <3>4, WaitFacts
        <5>. QED
          BY <3>1, <4>1, <4>3, <5>1, <5>2, KeeperEnds
      <4>4. CASE pc[y] = "index"
        <5>1. ASSUME NEW z \in Workers, WaitsFor(y, z)
              PROVE  FALSE
          <6>1. z # y /\ rider[z] = rider[y] /\ z # x
            <7>1. z # y /\ rider[z] = rider[y]
              BY <4>4, <5>1, WaitFacts DEF WaitsFor, Changing
            <7>2. z # x
              BY <2>3, <3>1, <3>2, <5>1 DEF Deadlocked
            <7>. QED
              BY <7>1, <7>2
          <6>2. PICK q \in Rivals(y) : rowLock[q] = z
            BY <3>2, <3>4, <4>4, <5>1, <6>1 DEF WaitsFor, Changing
          <6>3. q = p
            BY <3>2, <4>2, <6>2 DEF Rivals, ActiveVehicles, OneActiveVehicle
          <6>. QED
            BY <4>1, <6>1, <6>2, <6>3
        <5>. QED
          BY <3>1, <4>4, <5>1 DEF Free
      <4>. QED
        BY <3>2, <3>4, <4>3, <4>4
    <3>. QED
      BY <3>3, <3>4
  <2>. QED
    BY <2>1, <2>2, <2>3
<1>. QED
  BY <1>1, Invariance, LocksGivenBack, PTL

-----------------------------------------------------------------------------
(* Refinement *)

Writing == {"has_vehicle", "update", "approve"}

(* What a request may write into the profile of r, whatever the profile    *)
(* holds by now.                                                           *)
Founded(r, u) ==
    \/ u.status = "submitted"
    \/ /\ u.status \in {"approved", "rejected"} /\ u.availability = "offline"
       /\ status[r] \notin {"none", "draft"}
    \/ u.status \in {"approved", "suspended"} /\ r \in everApproved

(* A request past its first read has a profile to work on, for good.       *)
WritesFounded ==
    \A w \in Workers :
        /\ pc[w] \notin {"idle", "insert"} => status[rider[w]] # "none"
        /\ pc[w] \in Writing => Founded(rider[w], write[w])

LEMMA WriteOf ==
    ASSUME TypeOK, NEW w \in Workers, NEW op, NEW r, NEW l, NEW s, NEW a,
           BeginsUpdate(w, op, r, l, s, a)
    PROVE  Begins(w, op, r, l) /\ write'[w].status = s /\ write'[w].availability = a
BY DEF BeginsUpdate, TypeOK

LEMMA ArrivalFounded ==
    ASSUME IInv, NEW w \in Workers, Arrive(w)
    PROVE  /\ \E r \in Riders, l \in Stages, op \in AllOperations :
                 /\ Begins(w, op, r, l)
                 /\ l # "insert" => status[r] # "none"
                 /\ l \in Writing => Founded(r, write'[w])
           /\ \A x \in Workers \ {w} : write'[x] = write[x]
<1>. TypeOK /\ ApprovalsRecorded
  BY DEF IInv
<1> SUFFICES \E r \in Riders, l \in Stages, op \in AllOperations :
                 /\ Begins(w, op, r, l)
                 /\ l # "insert" => status[r] # "none"
                 /\ l \in Writing => Founded(r, write'[w])
  BY Arrival
<1> USE DEF Stages, AllOperations, Writing
<1>1. CASE CreateApplication(w)
  BY <1>1 DEF CreateApplication
<1>2. CASE SubmitApplication(w)
  <2>1. PICK r \in Riders : /\ status[r] \in {"draft", "rejected"}
                           /\ BeginsUpdate(w, "submit", r, "has_vehicle", "submitted", "offline")
    BY <1>2 DEF SubmitApplication
  <2>2. Begins(w, "submit", r, "has_vehicle") /\ write'[w].status = "submitted"
    BY <2>1, WriteOf
  <2>. QED
    BY <2>1, <2>2 DEF Founded
<1>3. CASE SetAvailability(w)
  <2>1. PICK r \in Riders, to \in Availabilities :
           /\ status[r] = "approved"
           /\ BeginsUpdate(w, "availability", r,
                           IF to = "available" THEN "has_vehicle" ELSE "update", status[r], to)
    BY <1>3 DEF SetAvailability
  <2>2. PICK l \in {"has_vehicle", "update"} :
           BeginsUpdate(w, "availability", r, l, "approved", to)
    BY <2>1
  <2>3. Begins(w, "availability", r, l) /\ write'[w].status = "approved"
    BY <2>2, WriteOf
  <2>4. r \in everApproved
    BY <2>1 DEF ApprovalsRecorded
  <2>. QED
    BY <2>1, <2>3, <2>4 DEF Founded
<1>4. CASE AddVehicle(w)
  BY <1>4 DEF AddVehicle
<1>5. CASE SetActiveVehicle(w)
  BY <1>5 DEF SetActiveVehicle
<1>6. CASE Approve(w)
  <2>1. PICK r \in Riders, l \in {"approve", "grant"} :
           /\ status[r] = (IF l = "grant" THEN "approved" ELSE "submitted")
           /\ BeginsUpdate(w, "approve", r, l, "approved", "offline")
    BY <1>6 DEF Approve
  <2>2. /\ Begins(w, "approve", r, l)
        /\ write'[w].status = "approved" /\ write'[w].availability = "offline"
    BY <2>1, WriteOf
  <2>. QED
    BY <2>1, <2>2 DEF Founded
<1>7. CASE Reject(w)
  <2>1. PICK r \in Riders : /\ status[r] = "submitted"
                           /\ BeginsUpdate(w, "reject", r, "update", "rejected", "offline")
    BY <1>7 DEF Reject
  <2>2. /\ Begins(w, "reject", r, "update")
        /\ write'[w].status = "rejected" /\ write'[w].availability = "offline"
    BY <2>1, WriteOf
  <2>. QED
    BY <2>1, <2>2 DEF Founded
<1>8. CASE Suspend(w)
  <2>1. PICK r \in Riders : /\ status[r] = "approved"
                           /\ BeginsUpdate(w, "suspend", r, "update", "suspended", "offline")
    BY <1>8 DEF Suspend
  <2>2. Begins(w, "suspend", r, "update") /\ write'[w].status = "suspended"
    BY <2>1, WriteOf
  <2>3. r \in everApproved
    BY <2>1 DEF ApprovalsRecorded
  <2>. QED
    BY <2>1, <2>2, <2>3 DEF Founded
<1>. QED
  BY <1>1, <1>2, <1>3, <1>4, <1>5, <1>6, <1>7, <1>8 DEF Arrive

(* The steps that write no profile keep what requests rely on; so do the   *)
(* others, since no profile goes back to draft.                            *)
LEMMA FoundedStep ==
    ASSUME IInv, WritesFounded, [Next]_vars
    PROVE  WritesFounded'
<1>. TypeOK
  BY DEF IInv
<1>. /\ status \in [Riders -> Statuses \cup {"none"}]
     /\ pc \in [Workers -> {"idle"} \cup Stages]
     /\ rider \in [Workers -> Riders]
     /\ write \in [Workers -> Update]
  BY DEF TypeOK
<1> USE DEF WritesFounded, Founded, Writing
<1>1. ASSUME NEW w \in Workers, Arrive(w)
      PROVE  WritesFounded'
  <2>1. PICK r \in Riders, l \in Stages, op \in AllOperations :
           /\ Begins(w, op, r, l)
           /\ l # "insert" => status[r] # "none"
           /\ l \in Writing => Founded(r, write'[w])
    BY <1>1, ArrivalFounded
  <2>2. /\ rider' = [rider EXCEPT ![w] = r] /\ pc' = [pc EXCEPT ![w] = l]
        /\ UNCHANGED <<status, everApproved>>
    BY <2>1, BeginsFacts
  <2>3. \A x \in Workers \ {w} : write'[x] = write[x]
    BY <1>1, ArrivalFounded
  <2>. QED
    BY <2>1, <2>2, <2>3
<1>2. ASSUME NEW w \in Workers, CreateProfile(w)
      PROVE  WritesFounded'
  BY <1>2 DEF CreateProfile, Done, Goto
<1>3. ASSUME NEW w \in Workers, WriteProfile(w) \/ WriteApproval(w)
      PROVE  WritesFounded'
  <2>1. /\ pc[w] \in Writing /\ UpdateProfile(w) /\ rider' = rider
        /\ \E l \in {"idle", "grant"} : pc' = [pc EXCEPT ![w] = l]
        /\ \A x \in Workers \ {w} : write'[x] = write[x]
    BY <1>3 DEF WriteProfile, WriteApproval, Done, Goto, local
  <2>2. write[w].status \notin {"none", "draft"}
    BY <2>1
  <2>. QED
    BY <2>1, <2>2 DEF UpdateProfile
<1>4. ASSUME NEW w \in Workers,
             HasActiveVehicle(w) \/ AssignRole(w) \/ VehicleStep(w) \/ Rollback(w)
      PROVE  WritesFounded'
  <2>1. /\ UNCHANGED <<status, everApproved, rider>>
        /\ \A x \in Workers : \/ pc'[x] = pc[x] /\ write'[x] = write[x]
                              \/ pc'[x] = "idle"
                              \/ /\ pc'[x] \notin Writing \/ pc[x] = "has_vehicle"
                                 /\ pc[x] \notin {"idle", "insert"} /\ write'[x] = write[x]
    <3>1. CASE HasActiveVehicle(w) \/ AssignRole(w)
      BY <3>1 DEF HasActiveVehicle, AssignRole, Done, Goto, local, profiles
    <3>2. CASE VehicleStep(w)
      BY <3>2 DEF VehicleStep, CreateVehicle, CheckVehicle, FindActive, LockOld, LockVehicle,
                  ActivateVehicle, CommitActive, Done, Goto, local, profiles
    <3>3. CASE Rollback(w)
      BY <3>3 DEF Rollback, RefuseSecondActive, Fail, AbortDeadlock, Done, Goto, profiles
    <3>. QED
      BY <1>4, <3>1, <3>2, <3>3
  <2>. QED
    BY <2>1
<1>5. CASE UNCHANGED vars
  BY <1>5 DEF vars, profiles, local
<1>. QED
  BY <1>1, <1>2, <1>3, <1>4, <1>5, NextCases DEF ProfileStep

(* The steps that exchange no vehicle. *)
LEMMA SameVehicles ==
    ASSUME UNCHANGED <<owner, active>>
    PROVE  UNCHANGED [r \in Riders |-> ActiveVehicles(r)]
BY DEF ActiveVehicles

LEMMA UpdateMaps ==
    ASSUME IInv, WritesFounded, NEW w \in Workers, WriteProfile(w) \/ WriteApproval(w)
    PROVE  Register!Next
<1> DEFINE r == rider[w]
<1>. /\ WritesJustified /\ r \in Riders /\ write[w] \in Update
  BY DEF IInv, TypeOK
<1>1. /\ UpdateProfile(w) /\ pc[w] \in {"update", "approve"}
      /\ UNCHANGED <<roles, owner, active>>
  BY DEF WriteProfile, WriteApproval, vehicles
<1>2. UNCHANGED [q \in Riders |-> ActiveVehicles(q)]
  BY <1>1, SameVehicles
<1>3. [q \in Riders |-> ActiveVehicles(q)][r] # {}
  BY <1>1 DEF WritesJustified
<1>4. Register!File(r, write[w].status, write[w].availability)
  BY <1>1, <1>2, <1>3 DEF UpdateProfile, Register!File
<1>5. /\ everApproved' = IF write[w].status = "approved" THEN everApproved \cup {r}
                         ELSE everApproved
      /\ status[r] # "none" /\ Founded(r, write[w])
      /\ write[w].availability # "offline" => write[w].status = "approved"
      /\ write[w].availability \in {"offline", "available", "busy"}
  BY <1>1 DEF UpdateProfile, WritesFounded, Writing, WritesJustified, Update, Availabilities
<1>6. CASE write[w].status = "submitted"
  <2>1. Register!Submit(r)
    BY <1>4, <1>5, <1>6 DEF Register!Submit
  <2>. QED
    BY <2>1 DEF Register!Next
<1>7. CASE write[w].status = "rejected"
  <2>1. Register!Reject(r)
    BY <1>4, <1>5, <1>7 DEF Register!Reject, Founded
  <2>. QED
    BY <2>1 DEF Register!Next
<1>8. CASE write[w].status = "suspended"
  <2>1. Register!Suspend(r)
    BY <1>4, <1>5, <1>8 DEF Register!Suspend, Founded
  <2>. QED
    BY <2>1 DEF Register!Next
<1>9. CASE write[w].status = "approved" /\ r \in everApproved
  <2>1. Register!Report(r, write[w].availability)
    BY <1>4, <1>5, <1>9 DEF Register!Report
  <2>. QED
    BY <1>5, <2>1 DEF Register!Next
<1>10. CASE write[w].status = "approved" /\ r \notin everApproved
  <2>1. Register!Approve(r)
    BY <1>4, <1>5, <1>10 DEF Register!Approve, Founded
  <2>. QED
    BY <2>1 DEF Register!Next
<1>. QED
  BY <1>5, <1>6, <1>7, <1>8, <1>9, <1>10 DEF Founded

LEMMA CommitMaps ==
    ASSUME IInv, NEW w \in Workers, CommitActive(w), WritesFounded
    PROVE  Register!Next
<1>. /\ VehiclesOwned /\ CommitsAlone
     /\ rider[w] \in Riders /\ plate[w] \in Plates /\ active \subseteq Plates
     /\ old[w] \subseteq Plates
  BY DEF IInv, TypeOK
<1>. PICK r \in Riders, p \in Plates : r = rider[w] /\ p = plate[w]
  OBVIOUS
<1>1. /\ pc[w] = "commit" /\ active' = (active \ old[w]) \cup {p} /\ owner' = owner
      /\ UNCHANGED <<status, availability, roles, everApproved>>
  BY DEF CommitActive, profiles
<1>2. /\ owner[p] = r /\ \A q \in old[w] : owner[q] = r
      /\ ActiveVehicles(r) \subseteq old[w] \cup {p}
  BY <1>1 DEF VehiclesOwned, CommitsAlone, InTransaction
<1>3. ActiveVehicles(r)' = {p}
  BY <1>1, <1>2 DEF ActiveVehicles
<1>4. \A s \in Riders \ {r} : ActiveVehicles(s)' = ActiveVehicles(s) /\ p \notin ActiveVehicles(s)
  BY <1>1, <1>2 DEF ActiveVehicles
<1>5. [s \in Riders |-> ActiveVehicles(s)]' =
         [[s \in Riders |-> ActiveVehicles(s)] EXCEPT ![r] = {p}]
  BY <1>3, <1>4
<1>6. status[r] # "none"
  BY <1>1 DEF WritesFounded
<1>7. Register!Choose(r, p)
  BY <1>1, <1>4, <1>5, <1>6 DEF Register!Choose
<1>. QED
  BY <1>7 DEF Register!Next

LEMMA RegisterStep ==
    ASSUME IInv, WritesFounded, [Next]_vars
    PROVE  Register!Next \/ UNCHANGED Register!register
<1>. TypeOK /\ ApprovalsRecorded
  BY DEF IInv
<1> USE DEF Register!register
<1>1. ASSUME NEW w \in Workers, Arrive(w)
      PROVE  UNCHANGED Register!register
  BY <1>1, Arrival, BeginsFacts, SameVehicles
<1>2. ASSUME NEW w \in Workers, CreateProfile(w)
      PROVE  Register!Next \/ UNCHANGED Register!register
  <2>1. /\ UNCHANGED [r \in Riders |-> ActiveVehicles(r)]
        /\ UNCHANGED <<availability, everApproved, roles>>
        /\ rider[w] \in Riders /\ status \in [Riders -> Statuses \cup {"none"}]
    BY <1>2, SameVehicles DEF CreateProfile, vehicles, TypeOK
  <2>2. CASE status[rider[w]] = "none"
    <3>1. Register!Open(rider[w])
      BY <1>2, <2>1, <2>2 DEF CreateProfile, Register!Open
    <3>. QED
      BY <2>1, <3>1 DEF Register!Next
  <2>3. CASE status[rider[w]] # "none"
    BY <1>2, <2>1, <2>3 DEF CreateProfile
  <2>. QED
    BY <2>2, <2>3
<1>3. ASSUME NEW w \in Workers, AssignRole(w)
      PROVE  Register!Next
  <2>1. Register!Grant(rider[w])
    BY <1>3, SameVehicles DEF AssignRole, profiles, vehicles, ApprovalsRecorded, Register!Grant
  <2>. QED
    BY <2>1 DEF TypeOK, Register!Next
<1>4. ASSUME NEW w \in Workers, CreateVehicle(w)
      PROVE  UNCHANGED Register!register
  <2>1. UNCHANGED <<profiles, roles, active>>
    BY <1>4 DEF CreateVehicle
  <2>2. \A p \in active : owner'[p] = owner[p]
    BY <1>4 DEF CreateVehicle, TypeOK
  <2>3. \A r \in Riders : ActiveVehicles(r)' = ActiveVehicles(r)
    BY <2>1, <2>2 DEF ActiveVehicles
  <2>. QED
    BY <2>1, <2>3 DEF profiles
<1>5. ASSUME NEW w \in Workers,
             \/ HasActiveVehicle(w) \/ CheckVehicle(w) \/ FindActive(w) \/ LockOld(w)
             \/ LockVehicle(w) \/ ActivateVehicle(w) \/ Rollback(w)
      PROVE  UNCHANGED Register!register
  <2>1. UNCHANGED <<profiles, roles, owner, active>>
    BY <1>5 DEF HasActiveVehicle, CheckVehicle, FindActive, LockOld, LockVehicle,
                ActivateVehicle, Rollback, RefuseSecondActive, Fail, AbortDeadlock, vehicles
  <2>. QED
    BY <2>1, SameVehicles DEF profiles
<1>6. CASE UNCHANGED vars
  BY <1>6, SameVehicles DEF vars, profiles, vehicles
<1>. QED
  BY <1>1, <1>2, <1>3, <1>4, <1>5, <1>6, UpdateMaps, CommitMaps, NextCases
     DEF ProfileStep, VehicleStep

(* Reads, stale writes, locks and failures implement the register.         *)
THEOREM RegisterImplemented == Spec => ImplementsRegister
<1>1. Init => WritesFounded
  BY DEF Init, WritesFounded, Writing
<1>2. Init => Register!Init
  BY DEF Init, Register!Init, ActiveVehicles
<1>3. IInv /\ WritesFounded /\ [Next]_vars => WritesFounded'
  BY FoundedStep
<1>4. IInv /\ WritesFounded /\ [Next]_vars => [Register!Next]_(Register!register)
  BY RegisterStep
<1>. QED
  BY <1>1, <1>2, <1>3, <1>4, Invariance, PTL DEF Spec, ImplementsRegister, Register!Spec

(* The guards of the register add up to what the service is for.           *)
THEOREM RegisterKeepsOrder == Register!Spec => []Register!Consistent
<1> DEFINE Inv == /\ status \in [Riders -> Statuses \cup {"none"}]
                  /\ DOMAIN availability = Riders
                  /\ \A r \in Riders : status[r] \in {"none", "draft"} => availability[r] = "offline"
                  /\ Register!Consistent
<1>1. Register!Init => Inv
  BY DEF Register!Init, Register!Consistent
<1>2. Inv /\ [Register!Next]_(Register!register) => Inv'
  <2> SUFFICES ASSUME Inv, Register!Next
               PROVE  Inv'
    BY DEF Register!register, Register!Consistent
  <2>. USE DEF Register!Consistent
  <2>1. ASSUME NEW r \in Riders, Register!Open(r)
        PROVE  Inv'
    BY <2>1 DEF Register!Open, Statuses
  <2>2. ASSUME NEW r \in Riders, NEW p \in Plates, Register!Choose(r, p)
        PROVE  Inv'
    <3>1. /\ UNCHANGED <<status, availability, roles, everApproved>>
          /\ \A s \in Riders \ {r} : p \notin ActiveVehicles(s)
      BY <2>2 DEF Register!Choose
    <3>2. \A s \in Riders : ActiveVehicles(s)' = IF s = r THEN {p} ELSE ActiveVehicles(s)
      BY <2>2 DEF Register!Choose
    <3>. QED
      BY <3>1, <3>2
  <2>3. ASSUME NEW r \in Riders,
               Register!Submit(r) \/ Register!Reject(r) \/ Register!Suspend(r)
        PROVE  Inv'
    BY <2>3 DEF Register!Submit, Register!Reject, Register!Suspend, Register!File, Statuses
  <2>4. ASSUME NEW r \in Riders, Register!Approve(r)
        PROVE  Inv'
    BY <2>4 DEF Register!Approve, Register!File, Statuses
  <2>5. ASSUME NEW r \in Riders, NEW a, Register!Report(r, a)
        PROVE  Inv'
    BY <2>5 DEF Register!Report, Register!File, Statuses
  <2>6. ASSUME NEW r \in Riders, Register!Grant(r)
        PROVE  Inv'
    BY <2>6 DEF Register!Grant
  <2>. QED
    BY <2>1, <2>2, <2>3, <2>4, <2>5, <2>6 DEF Register!Next
<1>3. Inv => Register!Consistent
  OBVIOUS
<1>. HIDE DEF Inv
<1>. QED
  BY <1>1, <1>2, <1>3, PTL DEF Register!Spec
=============================================================================
