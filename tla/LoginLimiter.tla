----------------------------- MODULE LoginLimiter -----------------------------
(***************************************************************************)
(* POST /auth/login and the MemoryLoginLimiter that guards it.  The        *)
(* limiter's three operations are atomic (a mutex); a login calls them     *)
(* before and after the comparison of the password, which takes bcrypt a   *)
(* while, so that other logins run in between.                             *)
(*                                                                         *)
(* Worker w stands for one login in flight; when it has been answered, w   *)
(* serves the next.  The age of a window is the time since it started, up  *)
(* to Window: an older window is as good as none.                          *)
(***************************************************************************)
EXTENDS Integers, FiniteSets

CONSTANTS
    Accounts,       \* the keys "account:" + email
    Addresses,      \* the keys "ip:" + address
    Workers,        \* the logins that can be in flight at once
    Window,         \* MemoryLoginLimiter.window
    MaxFailures     \* MemoryLoginLimiter.maxFailures

ASSUME KeysAssumption == Accounts \cap Addresses = {}
ASSUME WorkersAssumption == IsFiniteSet(Workers)
ASSUME LimitAssumption == Window \in Nat \ {0} /\ MaxFailures \in Nat \ {0}

VARIABLES
    failures,       \* attempts[key].failures, 0 when the map has no such key
    age,            \* time.Since(attempts[key].started), at most Window
    pc,             \* where a login is
    account,        \* its account key
    address         \* its address key

limiter == <<failures, age>>
vars == <<limiter, pc, account, address>>

-----------------------------------------------------------------------------
Keys == Accounts \cup Addresses

Stages == {"allow_account", "allow_ip", "compare", "fail_account", "fail_ip",
           "reset_account", "reset_ip", "issue"}

TypeOK ==
    /\ failures \in [Keys -> Nat]
    /\ age \in [Keys -> 0 .. Window]
    /\ \A k \in Keys : failures[k] = 0 => age[k] = 0
    /\ pc \in [Workers -> {"idle"} \cup Stages]
    /\ account \in [Workers -> Accounts]
    /\ address \in [Workers -> Addresses]

Init ==
    /\ failures = [k \in Keys |-> 0]
    /\ age = [k \in Keys |-> 0]
    /\ pc = [w \in Workers |-> "idle"]
    /\ account \in [Workers -> Accounts]
    /\ address \in [Workers -> Addresses]

-----------------------------------------------------------------------------
(* The limiter *)

(* Faulty: the window is never looked at. *)
LapsedNever(k) == failures[k] = 0

(* !ok || time.Since(state.started) >= l.window *)
Lapsed(k) == failures[k] = 0 \/ age[k] >= Window

Allow(k) == Lapsed(k) \/ failures[k] < MaxFailures

(* Faulty: an old window is restarted, its failures are kept. *)
RecordFailureKeeping(k) ==
    /\ failures' = [failures EXCEPT ![k] = @ + 1]
    /\ age' = IF Lapsed(k) THEN [age EXCEPT ![k] = 0] ELSE age

RecordFailure(k) ==
    IF Lapsed(k)
    THEN failures' = [failures EXCEPT ![k] = 1] /\ age' = [age EXCEPT ![k] = 0]
    ELSE failures' = [failures EXCEPT ![k] = @ + 1] /\ UNCHANGED age

(* Faulty: the count goes, the start of the window stays. *)
ResetKeepingWindow(k) == failures' = [failures EXCEPT ![k] = 0] /\ UNCHANGED age

Reset(k) == failures' = [failures EXCEPT ![k] = 0] /\ age' = [age EXCEPT ![k] = 0]

-----------------------------------------------------------------------------
(* Login *)

Goto(w, l) == pc' = [pc EXCEPT ![w] = l]

Login(w) ==
    /\ pc[w] = "idle"
    /\ \E a \in Accounts : account' = [account EXCEPT ![w] = a]
    /\ \E i \in Addresses : address' = [address EXCEPT ![w] = i]
    /\ Goto(w, "allow_account")
    /\ UNCHANGED limiter

(* The address is asked only if the account is allowed. *)
AllowAccount(w) ==
    /\ pc[w] = "allow_account"
    /\ Goto(w, IF Allow(account[w]) THEN "allow_ip" ELSE "idle")
    /\ UNCHANGED <<limiter, account, address>>

AllowAddress(w) ==
    /\ pc[w] = "allow_ip"
    /\ Goto(w, IF Allow(address[w]) THEN "compare" ELSE "idle")
    /\ UNCHANGED <<limiter, account, address>>

(* A malformed email, an unknown, inactive or unverified user and a failed *)
(* query count like a wrong password.                                      *)
Compare(w) ==
    /\ pc[w] = "compare"
    /\ \E right \in BOOLEAN : Goto(w, IF right THEN "reset_account" ELSE "fail_account")
    /\ UNCHANGED <<limiter, account, address>>

FailAccount(w) ==
    /\ pc[w] = "fail_account"
    /\ RecordFailure(account[w])
    /\ Goto(w, "fail_ip")
    /\ UNCHANGED <<account, address>>

FailAddress(w) ==
    /\ pc[w] = "fail_ip"
    /\ RecordFailure(address[w])
    /\ Goto(w, "idle")
    /\ UNCHANGED <<account, address>>

ResetAccount(w) ==
    /\ pc[w] = "reset_account"
    /\ Reset(account[w])
    /\ Goto(w, "reset_ip")
    /\ UNCHANGED <<account, address>>

ResetAddress(w) ==
    /\ pc[w] = "reset_ip"
    /\ Reset(address[w])
    /\ Goto(w, "issue")
    /\ UNCHANGED <<account, address>>

(* The session is stored (module Sessions); the login is answered. *)
Issue(w) ==
    /\ pc[w] = "issue"
    /\ Goto(w, "idle")
    /\ UNCHANGED <<limiter, account, address>>

Tick ==
    /\ age' = [k \in Keys |-> IF failures[k] = 0 \/ age[k] = Window THEN age[k]
                              ELSE age[k] + 1]
    /\ UNCHANGED <<failures, pc, account, address>>

Step(w) ==
    \/ AllowAccount(w) \/ AllowAddress(w) \/ Compare(w) \/ FailAccount(w) \/ FailAddress(w)
    \/ ResetAccount(w) \/ ResetAddress(w) \/ Issue(w)

Next == (\E w \in Workers : Login(w) \/ Step(w)) \/ Tick

Spec == Init /\ [][Next]_vars

(* Time passes and a goroutine that can run runs. *)
FairSpec == Spec /\ WF_vars(Tick) /\ \A w \in Workers : WF_vars(Step(w))

-----------------------------------------------------------------------------
(* Properties *)

(* The check of a key and the count of the failure are two calls: logins   *)
(* that were let in together all count, but a key never collects more      *)
(* failures in a window than the limit and the other logins in flight.     *)
FailuresBounded ==
    \A k \in Keys : failures[k] <= MaxFailures - 1 + Cardinality(Workers)

(* A key that is shut opens again: neither logins that are refused nor     *)
(* failures still on their way prolong the window.                         *)
KeyReopens == \A k \in Keys : ~Allow(k) ~> Allow(k)

(* How it opens: while a key stays shut no call starts its window anew,    *)
(* and every tick brings the window nearer to its end.                     *)
ShutWindowRunsOut ==
    [][\A k \in Keys : ~Allow(k) /\ ~Allow(k)' =>
          /\ age'[k] >= age[k]
          /\ Tick => age'[k] = age[k] + 1]_vars
=============================================================================
