----------------------------- MODULE AccessProofs -----------------------------
(***************************************************************************)
(* Proofs about Access for every set of users and requests and every       *)
(* lifetime: how late logout and deactivation reach the protected calls.   *)
(***************************************************************************)
EXTENDS Access, TLAPS

(* Only tokens that reached a client are sent, spent or looked at again; a *)
(* request signs once its refresh token is stored.                         *)
TokensKnown ==
    /\ \A r \in Requests : reply[r] # "none" => pc[r] = "done"
    /\ \A r \in Requests : token[r] # NoRequest => token[r] \in Known
    /\ \A r \in Requests : pc[r] \in {"load", "rotate", "close"} => token[r] # NoRequest
    /\ \A r \in Requests : admitted[r] # Never => token[r] # NoRequest /\ pc[r] # "idle"
    /\ spent \subseteq Known
    /\ \A r \in Requests : pc[r] \in Signing \/ r \in Known => r \in live \cup spent

(* Of the tokens of a session at most one is live. *)
LineagesKnown ==
    /\ \A s, t \in live : origin[s] = origin[t] => s = t
    /\ \A t \in live \cup spent : origin[t] \in live \cup spent
    /\ live \cap spent = {}

(* A session that ended has no live token, and every access token of it    *)
(* was signed before the end.                                              *)
EndsKnown ==
    \A o \in Requests : endedAt[o] # Never =>
        /\ o \in live \cup spent
        /\ \A t \in live : origin[t] # o
        /\ \A t \in spent : origin[t] = o => stamp[t] <= endedAt[o] + AccessTTL

(* A token is signed for a user who was active when, or after, the request *)
(* arrived, and is let in before it expires.                               *)
TimesKnown ==
    /\ \A u \in Users : lastActive[u] <= clock
    /\ \A r \in Requests : begun[r] <= clock
    /\ \A r \in Requests : pc[r] \in {"open", "rotate"} \cup Signing =>
          begun[r] <= LastActive(user[r])
    /\ \A r \in Requests : pc[r] = "respond" \/ r \in Known => stamp[r] <= clock + AccessTTL
    /\ \A r \in Known : stamp[r] < LastActive(user[r]) + AccessTTL + WriteTimeout
    /\ \A r \in Requests : admitted[r] # Never =>
          user[r] = user[token[r]] /\ admitted[r] < stamp[token[r]]

IInv == TypeOK /\ TokensKnown /\ LineagesKnown /\ EndsKnown /\ TimesKnown

-----------------------------------------------------------------------------
LEMMA InitIInv == Init => IInv
BY NobodyAssumption, TimesAssumption
   DEF Init, IInv, TypeOK, TokensKnown, LineagesKnown, EndsKnown, TimesKnown, Known, Never,
       Signing, Issuing, InFlight, Replies, Ledger!Init

Signs(r) ==
    \/ Login(r) \/ CheckAccount(r) \/ VerifyPhone(r) \/ VerifyOTP(r) \/ Refresh(r)
    \/ LoadUser(r) \/ IssueAccess(r) \/ Respond(r)

Stores(r) == CreateSession(r) \/ RotateSession(r)

Leaves(r) == Logout(r) \/ RevokeSession(r) \/ LogoutInVain(r)

Calls(r) == Call(r) \/ Serve(r) \/ Me(r) \/ Refuse(r)

LEMMA NextCases ==
    ASSUME [Next]_vars
    PROVE  \/ \E r \in Requests : Signs(r) \/ Stores(r) \/ Leaves(r) \/ Calls(r)
           \/ \E u \in Users : Deactivate(u)
           \/ Tick
           \/ UNCHANGED vars
BY DEF Next, Step, Signs, Stores, Leaves, Calls, Finished

LEMMA TypeStep ==
    ASSUME TypeOK, TokensKnown, [Next]_vars
    PROVE  TypeOK'
<1>. clock \in Nat /\ AccessTTL \in Nat
  BY TimesAssumption DEF TypeOK
<1>. USE DEF TypeOK, Goto, Arrive, Answer, InFlight, Issuing, Signing, Replies, refresh, request
<1>1. ASSUME NEW r \in Requests, Login(r) \/ CheckAccount(r) \/ VerifyPhone(r) \/ VerifyOTP(r)
      PROVE  TypeOK'
  BY <1>1 DEF Login, CheckAccount, VerifyPhone, VerifyOTP
<1>2. ASSUME NEW r \in Requests, Refresh(r) \/ LoadUser(r)
      PROVE  TypeOK'
  BY <1>2 DEF Refresh, LoadUser, Known, TokensKnown
<1>3. ASSUME NEW r \in Requests, IssueAccess(r) \/ Respond(r)
      PROVE  TypeOK'
  BY <1>3 DEF IssueAccess, Respond
<1>4. ASSUME NEW r \in Requests, Stores(r)
      PROVE  TypeOK'
  BY <1>4 DEF Stores, CreateSession, RotateSession, Ledger!Open, Ledger!Rotate
<1>5. ASSUME NEW r \in Requests, Leaves(r)
      PROVE  TypeOK'
  BY <1>5 DEF Leaves, Logout, LogoutInVain, RevokeSession, Ledger!Close, Known
<1>6. ASSUME NEW r \in Requests, Calls(r)
      PROVE  TypeOK'
  BY <1>6 DEF Calls, Call, Serve, Me, Refuse, Known
<1>7. ASSUME NEW u \in Users, Deactivate(u)
      PROVE  TypeOK'
  BY <1>7 DEF Deactivate
<1>8. CASE Tick \/ UNCHANGED vars
  BY <1>8, TimesAssumption DEF Tick, vars
<1>. QED
  BY <1>1, <1>2, <1>3, <1>4, <1>5, <1>6, <1>7, <1>8, NextCases DEF Signs

-----------------------------------------------------------------------------
(* Tokens *)

LEMMA TokensStep ==
    ASSUME TypeOK, TokensKnown, [Next]_vars
    PROVE  TokensKnown'
<1>. /\ pc \in [Requests -> {"idle", "done"} \cup InFlight]
     /\ token \in [Requests -> Requests \cup {NoRequest}]
     /\ admitted \in [Requests -> Nat \cup {Never}]
     /\ reply \in [Requests -> Replies]
     /\ spent \subseteq Requests
     /\ clock \in Nat
  BY DEF TypeOK
<1>. USE NobodyAssumption DEF TokensKnown, Known, Signing
<1>1. ASSUME NEW r \in Requests, Signs(r)
      PROVE  TokensKnown'
  BY <1>1 DEF Signs, Login, CheckAccount, VerifyPhone, VerifyOTP, Refresh, LoadUser,
              IssueAccess, Respond, Arrive, Answer, Goto, refresh, request
<1>2. ASSUME NEW r \in Requests, Stores(r)
      PROVE  TokensKnown'
  BY <1>2 DEF Stores, CreateSession, RotateSession, Ledger!Open, Ledger!Rotate, Goto, request
<1>3. ASSUME NEW r \in Requests, Leaves(r)
      PROVE  TokensKnown'
  BY <1>3 DEF Leaves, Logout, RevokeSession, LogoutInVain, Ledger!Close, Arrive, Answer,
              Goto, refresh, request
<1>4. ASSUME NEW r \in Requests, Calls(r)
      PROVE  TokensKnown'
  BY <1>4 DEF Calls, Call, Serve, Me, Refuse, Arrive, Answer, Goto, refresh, request, InFlight, Issuing
<1>5. ASSUME NEW u \in Users, Deactivate(u)
      PROVE  TokensKnown'
  BY <1>5 DEF Deactivate, refresh, request
<1>6. CASE Tick \/ UNCHANGED vars
  BY <1>6 DEF Tick, vars, refresh, request
<1>. QED
  BY <1>1, <1>2, <1>3, <1>4, <1>5, <1>6, NextCases

-----------------------------------------------------------------------------
(* Sessions *)

(* The rows of refresh tokens change in three steps only. *)
LEMMA RefreshSteps ==
    ASSUME [Next]_vars
    PROVE  \/ UNCHANGED <<refresh, endedAt>>
           \/ \E r \in Requests : Stores(r) \/ RevokeSession(r)
BY NextCases DEF Signs, Leaves, Calls, Login, CheckAccount, VerifyPhone, VerifyOTP, Refresh,
   LoadUser, IssueAccess, Respond, Logout, LogoutInVain, Call, Serve, Me, Refuse,
   Deactivate, Tick, vars

LEMMA LineagesStep ==
    ASSUME TypeOK, LineagesKnown, [Next]_vars
    PROVE  LineagesKnown'
<1>. origin \in [Requests -> Requests] /\ live \subseteq Requests /\ spent \subseteq Requests
  BY DEF TypeOK
<1>1. CASE UNCHANGED refresh
  BY <1>1 DEF LineagesKnown, refresh
<1>2. ASSUME NEW r \in Requests, CreateSession(r)
      PROVE  LineagesKnown'
  BY <1>2 DEF LineagesKnown, CreateSession, Ledger!Open, Ledger!Fresh
<1>3. ASSUME NEW r \in Requests, RotateSession(r)
      PROVE  LineagesKnown'
  BY <1>3 DEF LineagesKnown, RotateSession, Ledger!Rotate, Ledger!Fresh
<1>4. ASSUME NEW r \in Requests, RevokeSession(r)
      PROVE  LineagesKnown'
  BY <1>4 DEF LineagesKnown, RevokeSession, Ledger!Close
<1>. QED
  BY <1>1, <1>2, <1>3, <1>4, RefreshSteps DEF Stores, refresh

(* The stamp of a token that reached a client is never changed. *)
LEMMA StampKept ==
    ASSUME TypeOK, TokensKnown, [Next]_vars, NEW t \in Known
    PROVE  stamp'[t] = stamp[t] /\ user'[t] = user[t] /\ t \in Known'
<1>1. t \in Requests /\ reply[t] = "ok" /\ pc[t] = "done"
  BY DEF Known, TokensKnown
<1>. /\ stamp \in [Requests -> Nat] /\ user \in [Requests -> Users]
     /\ reply \in [Requests -> Replies]
  BY DEF TypeOK
<1>. USE DEF Known
<1>2. ASSUME NEW r \in Requests, Signs(r)
      PROVE  stamp'[t] = stamp[t] /\ user'[t] = user[t] /\ t \in Known'
  BY <1>1, <1>2 DEF Signs, Login, CheckAccount, VerifyPhone, VerifyOTP, Refresh, LoadUser,
              IssueAccess, Respond, Arrive, Answer, Goto, request
<1>3. ASSUME NEW r \in Requests, Stores(r) \/ Leaves(r)
      PROVE  stamp'[t] = stamp[t] /\ user'[t] = user[t] /\ t \in Known'
  BY <1>1, <1>3 DEF Stores, CreateSession, RotateSession, Leaves, Logout, RevokeSession,
              LogoutInVain, Arrive, Answer, Goto, request
<1>4. ASSUME NEW r \in Requests, Calls(r)
      PROVE  stamp'[t] = stamp[t] /\ user'[t] = user[t] /\ t \in Known'
  BY <1>1, <1>4 DEF Calls, Call, Serve, Me, Refuse, Arrive, Answer, Goto, request, InFlight,
              Issuing, Signing
<1>5. ASSUME NEW u \in Users, Deactivate(u)
      PROVE  stamp'[t] = stamp[t] /\ user'[t] = user[t] /\ t \in Known'
  BY <1>1, <1>5 DEF Deactivate, request
<1>6. CASE Tick \/ UNCHANGED vars
  BY <1>1, <1>6 DEF Tick, vars, request
<1>. QED
  BY <1>2, <1>3, <1>4, <1>5, <1>6, NextCases

LEMMA EndsStep ==
    ASSUME TypeOK, TokensKnown, LineagesKnown, EndsKnown, TimesKnown, [Next]_vars
    PROVE  EndsKnown'
<1>. /\ origin \in [Requests -> Requests] /\ live \subseteq Requests /\ spent \subseteq Requests
     /\ endedAt \in [Requests -> Nat \cup {Never}] /\ clock \in Nat
     /\ spent \subseteq Known
  BY DEF TypeOK, TokensKnown
<1>1. \A t \in Known : stamp'[t] = stamp[t]
  BY StampKept
<1>2. CASE UNCHANGED <<refresh, endedAt>>
  BY <1>1, <1>2 DEF EndsKnown, refresh
<1>3. ASSUME NEW r \in Requests, CreateSession(r)
      PROVE  EndsKnown'
  BY <1>1, <1>3 DEF EndsKnown, CreateSession, Ledger!Open, Ledger!Fresh, LineagesKnown
<1>4. ASSUME NEW r \in Requests, RotateSession(r)
      PROVE  EndsKnown'
  BY <1>1, <1>4 DEF EndsKnown, RotateSession, Ledger!Rotate, Ledger!Fresh, LineagesKnown
<1>5. ASSUME NEW r \in Requests, RevokeSession(r)
      PROVE  EndsKnown'
  <2> DEFINE t == token[r]
  <2>1. /\ t \in live /\ t \in Known /\ live' = live \ {t} /\ spent' = spent \cup {t}
        /\ origin' = origin /\ endedAt' = [endedAt EXCEPT ![origin[t]] = clock]
    BY <1>5 DEF RevokeSession, Ledger!Close, TokensKnown
  <2>2. \A s \in spent \cup {t} : stamp'[s] <= clock + AccessTTL
    BY <1>1, <2>1 DEF TimesKnown, Known
  <2>. QED
    BY <1>1, <2>1, <2>2 DEF EndsKnown, LineagesKnown, Never
<1>. QED
  BY <1>2, <1>3, <1>4, <1>5, RefreshSteps DEF Stores

-----------------------------------------------------------------------------
(* Times *)

(* LastActive never goes back. *)
LEMMA LastActiveGrows ==
    ASSUME TypeOK, TimesKnown, [Next]_vars
    PROVE  \A u \in Users : /\ LastActive(u) \in Int /\ LastActive(u)' \in Int
                            /\ LastActive(u) <= LastActive(u)'
<1>. /\ clock \in Nat /\ lastActive \in [Users -> Nat \cup {Never}] /\ active \subseteq Users
  BY DEF TypeOK
<1>. \A u \in Users : lastActive[u] <= clock
  BY DEF TimesKnown
<1>. USE DEF LastActive, Never
<1>1. CASE UNCHANGED <<clock, active, lastActive>>
  BY <1>1
<1>2. ASSUME NEW r \in Requests, VerifyOTP(r)
      PROVE  \A u \in Users : /\ LastActive(u) \in Int /\ LastActive(u)' \in Int
                              /\ LastActive(u) <= LastActive(u)'
  BY <1>2 DEF VerifyOTP
<1>3. ASSUME NEW u \in Users, Deactivate(u)
      PROVE  \A v \in Users : /\ LastActive(v) \in Int /\ LastActive(v)' \in Int
                              /\ LastActive(v) <= LastActive(v)'
  BY <1>3 DEF Deactivate
<1>4. CASE Tick
  BY <1>4 DEF Tick
<1>5. ASSUME NEW r \in Requests, Signs(r) \/ Stores(r) \/ Leaves(r) \/ Calls(r), ~VerifyOTP(r)
      PROVE  UNCHANGED <<clock, active, lastActive>>
  BY <1>5 DEF Signs, Login, CheckAccount, VerifyPhone, Refresh, LoadUser, IssueAccess, Respond,
     Stores, CreateSession, RotateSession, Leaves, Logout, RevokeSession, LogoutInVain,
     Calls, Call, Serve, Me, Refuse
<1>. QED
  BY <1>1, <1>2, <1>3, <1>4, <1>5, NextCases DEF vars

LEMMA TimesStep ==
    ASSUME TypeOK, TokensKnown, TimesKnown, [Next]_vars
    PROVE  TimesKnown'
<1>. /\ clock \in Nat /\ AccessTTL \in Nat /\ WriteTimeout \in Nat
     /\ pc \in [Requests -> {"idle", "done"} \cup InFlight]
     /\ user \in [Requests -> Users]
     /\ token \in [Requests -> Requests \cup {NoRequest}]
     /\ begun \in [Requests -> Nat] /\ stamp \in [Requests -> Nat]
     /\ admitted \in [Requests -> Nat \cup {Never}]
     /\ reply \in [Requests -> Replies]
     /\ lastActive \in [Users -> Nat \cup {Never}]
  BY TimesAssumption DEF TypeOK
<1>1. \A u \in Users : /\ LastActive(u) \in Int /\ LastActive(u)' \in Int
                       /\ LastActive(u) <= LastActive(u)'
  BY LastActiveGrows
<1>2. \A t \in Known : stamp'[t] = stamp[t] /\ user'[t] = user[t] /\ t \in Known'
  BY StampKept
<1>3. \A r \in Requests : token[r] # NoRequest => token[r] \in Known
  BY DEF TokensKnown
<1>. USE NobodyAssumption DEF TimesKnown, Known, Signing
<1>4. ASSUME NEW r \in Requests, Login(r) \/ VerifyPhone(r) \/ Refresh(r)
      PROVE  TimesKnown'
  BY <1>1, <1>2, <1>3, <1>4 DEF Login, VerifyPhone, Refresh, Arrive, Goto, TokensKnown, LastActive
<1>5. ASSUME NEW r \in Requests, CheckAccount(r) \/ VerifyOTP(r)
      PROVE  TimesKnown'
  BY <1>1, <1>2, <1>3, <1>5 DEF CheckAccount, VerifyOTP, Goto, TokensKnown, LastActive, request
<1>6. ASSUME NEW r \in Requests, LoadUser(r)
      PROVE  TimesKnown'
  BY <1>1, <1>2, <1>3, <1>6 DEF LoadUser, Goto, TokensKnown, LastActive
<1>7. ASSUME NEW r \in Requests, IssueAccess(r)
      PROVE  TimesKnown'
  BY <1>1, <1>2, <1>3, <1>7 DEF IssueAccess, Goto, TokensKnown, LastActive
<1>8. ASSUME NEW r \in Requests, Respond(r)
      PROVE  TimesKnown'
  BY <1>1, <1>2, <1>3, <1>8 DEF Respond, Answer, Goto, TokensKnown, LastActive, request
<1>9. ASSUME NEW r \in Requests, Stores(r)
      PROVE  TimesKnown'
  BY <1>1, <1>2, <1>3, <1>9
     DEF Stores, CreateSession, RotateSession, Goto, TokensKnown, LastActive, request
<1>10. ASSUME NEW r \in Requests, Leaves(r)
       PROVE  TimesKnown'
  BY <1>1, <1>2, <1>3, <1>10
     DEF Leaves, Logout, RevokeSession, LogoutInVain, Arrive, Answer, Goto, TokensKnown,
         LastActive, request
<1>11. ASSUME NEW r \in Requests, Call(r)
       PROVE  TimesKnown'
  BY <1>1, <1>2, <1>3, <1>11 DEF Call, Accepts, Arrive, Goto, TokensKnown, LastActive
<1>12. ASSUME NEW r \in Requests, Serve(r) \/ Me(r) \/ Refuse(r)
       PROVE  TimesKnown'
  BY <1>1, <1>2, <1>3, <1>12
     DEF Serve, Me, Refuse, Answer, Goto, TokensKnown, LastActive, request, InFlight, Issuing
<1>13. ASSUME NEW u \in Users, Deactivate(u)
       PROVE  TimesKnown'
  BY <1>1, <1>2, <1>3, <1>13 DEF Deactivate, TokensKnown, LastActive, request
<1>14. CASE Tick
  <2>1. clock' = clock + 1 /\ UNCHANGED <<pc, request, begun, reply, lastActive>>
    BY <1>14 DEF Tick
  <2>2. ASSUME NEW r \in Requests, begun[r] <= LastActive(user[r])
        PROVE  begun'[r] <= LastActive(user[r])'
    BY <1>1, <2>1, <2>2 DEF request
  <2>3. ASSUME NEW r \in Requests, stamp[r] <= clock + AccessTTL
        PROVE  stamp'[r] <= clock' + AccessTTL
    BY <2>1, <2>3 DEF request
  <2>4. ASSUME NEW r \in Known
        PROVE  stamp'[r] < LastActive(user[r])' + AccessTTL + WriteTimeout
    <3>1. stamp[r] < LastActive(user[r]) + AccessTTL + WriteTimeout
      BY <2>4
    <3>2. PICK u \in Users : u = user[r] /\ u = user'[r]
      BY <2>1, <2>4 DEF request
    <3>. QED
      BY <1>1, <2>1, <2>4, <3>1, <3>2 DEF request
  <2>. QED
    BY <2>1, <2>2, <2>3, <2>4 DEF request, Never
<1>15. CASE UNCHANGED vars
  BY <1>15 DEF vars, LastActive, request
<1>. QED
  BY <1>4, <1>5, <1>6, <1>7, <1>8, <1>9, <1>10, <1>11, <1>12, <1>13, <1>14, <1>15,
     NextCases DEF Signs, Calls

-----------------------------------------------------------------------------
(* The properties *)

LEMMA StepIInv == IInv /\ [Next]_vars => IInv'
BY TypeStep, TokensStep, LineagesStep, EndsStep, TimesStep DEF IInv

(* Every reachable state satisfies the inductive invariant. *)
THEOREM Invariance == Spec => []IInv
BY InitIInv, StepIInv, PTL DEF Spec

(* Every variable keeps its type: accounts, tokens, calls and clocks. *)
THEOREM TypeCorrect == Spec => []TypeOK
<1>1. IInv => TypeOK
  BY DEF IInv
<1>. QED
  BY Invariance, <1>1, PTL

(* A deactivated user's calls are let in for AccessTTL plus one            *)
(* WriteTimeout at most.                                                   *)
THEOREM DeactivationReachesCalls == Spec => []DeactivationBites
<1>1. IInv => DeactivationBites
  <2> SUFFICES ASSUME IInv, NEW r \in Requests, admitted[r] # Never
               PROVE  admitted[r] < LastActive(user[r]) + AccessTTL + WriteTimeout
    BY DEF DeactivationBites
  <2>1. token[r] \in Known /\ token[r] \in Requests
    BY DEF IInv, TokensKnown, Known
  <2>2. /\ user[r] = user[token[r]] /\ admitted[r] < stamp[token[r]]
        /\ stamp[token[r]] < LastActive(user[token[r]]) + AccessTTL + WriteTimeout
    BY <2>1 DEF IInv, TimesKnown
  <2>3. LastActive(user[r]) \in Int /\ admitted[r] \in Int /\ stamp[token[r]] \in Int
    BY <2>1 DEF IInv, TypeOK, LastActive, Never
  <2>. QED
    BY <2>2, <2>3, TimesAssumption
<1>. QED
  BY Invariance, <1>1, PTL

(* The calls of a session that was logged out are let in for AccessTTL at  *)
(* most.                                                                   *)
THEOREM LogoutReachesCalls == Spec => []LogoutBites
<1>1. IInv => LogoutBites
  <2> SUFFICES ASSUME IInv, NEW r \in Requests, admitted[r] # Never,
                      endedAt[origin[token[r]]] # Never
               PROVE  admitted[r] < endedAt[origin[token[r]]] + AccessTTL
    BY DEF LogoutBites
  <2>1. token[r] \in Known /\ token[r] \in Requests /\ token[r] \in live \cup spent
    BY DEF IInv, TokensKnown, Known
  <2>2. origin[token[r]] \in Requests
    BY <2>1 DEF IInv, TypeOK
  <2>3. stamp[token[r]] <= endedAt[origin[token[r]]] + AccessTTL
    BY <2>1, <2>2 DEF IInv, EndsKnown
  <2>4. admitted[r] < stamp[token[r]]
    BY DEF IInv, TimesKnown
  <2>5. /\ endedAt[origin[token[r]]] \in Int /\ admitted[r] \in Int
        /\ stamp[token[r]] \in Int
    BY <2>1, <2>2 DEF IInv, TypeOK, Never
  <2>. QED
    BY <2>3, <2>4, <2>5, TimesAssumption
<1>. QED
  BY Invariance, <1>1, PTL
=============================================================================
