---------------------------- MODULE RiderRegister ----------------------------
(***************************************************************************)
(* What the riders component promises, without statements, locks, waits or *)
(* failures.  A profile is a row that later requests overwrite, whatever   *)
(* they have read; what holds in spite of that is said by the guards: no   *)
(* decision before an application, no application without a vehicle, duty, *)
(* suspension and role only after an approval.  The active vehicle is      *)
(* exchanged in one step.                                                  *)
(***************************************************************************)
CONSTANTS Riders, Plates

VARIABLES
    status,         \* where the application of a rider stands
    availability,   \* whether the rider is on duty
    vehicle,        \* the active vehicle of a rider: none or one
    approved,       \* the riders that were approved at some time
    roles           \* the riders with the role "rider"

register == <<status, availability, vehicle, approved, roles>>

Init ==
    /\ status = [r \in Riders |-> "none"]
    /\ availability = [r \in Riders |-> "offline"]
    /\ vehicle = [r \in Riders |-> {}]
    /\ approved = {}
    /\ roles = {}

Open(r) ==
    /\ status[r] = "none"
    /\ status' = [status EXCEPT ![r] = "draft"]
    /\ UNCHANGED <<availability, vehicle, approved, roles>>

(* The vehicle is no other rider's; the one before stops being active. *)
Choose(r, p) ==
    /\ status[r] # "none"
    /\ \A s \in Riders \ {r} : p \notin vehicle[s]
    /\ vehicle' = [vehicle EXCEPT ![r] = {p}]
    /\ UNCHANGED <<status, availability, approved, roles>>

(* Only an application with a vehicle behind it is filed and moved on. *)
File(r, s, a) ==
    /\ vehicle[r] # {}
    /\ status' = [status EXCEPT ![r] = s]
    /\ availability' = [availability EXCEPT ![r] = a]
    /\ UNCHANGED <<vehicle, roles>>

Submit(r) ==
    /\ status[r] # "none"
    /\ File(r, "submitted", "offline")
    /\ UNCHANGED approved

Approve(r) ==
    /\ status[r] \notin {"none", "draft"}
    /\ File(r, "approved", "offline")
    /\ approved' = approved \cup {r}

Reject(r) ==
    /\ status[r] \notin {"none", "draft"}
    /\ File(r, "rejected", "offline")
    /\ UNCHANGED approved

Suspend(r) ==
    /\ r \in approved
    /\ File(r, "suspended", "offline")
    /\ UNCHANGED approved

(* Duty comes with the status that was read: it may undo a suspension. *)
Report(r, a) ==
    /\ r \in approved
    /\ File(r, "approved", a)
    /\ UNCHANGED approved

Grant(r) ==
    /\ r \in approved
    /\ roles' = roles \cup {r}
    /\ UNCHANGED <<status, availability, vehicle, approved>>

Next ==
    \E r \in Riders :
        \/ Open(r) \/ Submit(r) \/ Approve(r) \/ Reject(r) \/ Suspend(r) \/ Grant(r)
        \/ \E p \in Plates : Choose(r, p)
        \/ \E a \in {"offline", "available", "busy"} : Report(r, a)

Spec == Init /\ [][Next]_register

(* What the guards add up to: duty and role are earned, an application has *)
(* a vehicle behind it, and no two riders drive the same one.              *)
Consistent ==
    /\ roles \subseteq approved
    /\ \A r \in Riders :
        /\ availability[r] # "offline" => status[r] = "approved" /\ r \in approved
        /\ status[r] \notin {"none", "draft"} => vehicle[r] # {}
        /\ \A s \in Riders \ {r} : vehicle[r] \cap vehicle[s] = {}
=============================================================================
