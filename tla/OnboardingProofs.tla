--------------------------- MODULE OnboardingProofs ---------------------------
(***************************************************************************)
(* Proofs about Onboarding for every set of users and codes, every policy  *)
(* and any number of faults.                                               *)
(***************************************************************************)
EXTENDS Onboarding, TLAPS

(* A handler that sends has a code to send. *)
CodesAtHand == \A u \in Users : phase[u] \in {"send", "posted"} => code[u] # NoCode

(* Handlers work for users who have registered. *)
HandlersRegistered == \A u \in Users : phase[u] # "idle" => u \in registered

(* A session is made for somebody who is verified. *)
SessionsVerified == \A u \in Users : phase[u] \in {"session", "answer"} => u \in verified

IInv == TypeOK /\ CodesAtHand /\ HandlersRegistered /\ SessionsVerified /\ InByVerification

-----------------------------------------------------------------------------
LEMMA InitIInv == Init => IInv
BY DEF Init, Contract!Init, IInv, TypeOK, CodesAtHand, HandlersRegistered, SessionsVerified,
       InByVerification, Phases

(* The three steps of the contract a handler takes, and expiry. *)
LEMMA ContractTypes ==
    ASSUME TypeOK, NEW u \in Users,
           \/ \E c \in Codes : Contract!Issue(u, c)
           \/ Contract!Miss(u) \/ Contract!Lapse(u) \/ Contract!Redeem(u)
    PROVE  /\ pending' \in [Users -> Codes \cup {NoCode}]
           /\ tries' \in [Users -> Nat]
BY DEF TypeOK, Contract!Issue, Contract!Miss, Contract!Lapse, Contract!Redeem, Contract!Holds

LEMMA HandlerStep ==
    ASSUME IInv, NEW u \in Users,
           \/ Register(u) \/ Resend(u) \/ RefuseOTP(u) \/ Send(u) \/ Sent(u)
           \/ \E c \in Codes : IssueOTP(u, c)
           \/ VerifyPhone(u) \/ VerifyWrongCode(u) \/ Login(u)
           \/ CreateSession(u) \/ AnswerTokens(u)
           \/ HandlerFails(u) \/ RotationLost(u) \/ CodeExpires(u)
    PROVE  IInv'
<1>. TypeOK /\ CodesAtHand /\ HandlersRegistered /\ SessionsVerified /\ InByVerification
  BY DEF IInv
<1> USE NoCodeAssumption
    DEF IInv, TypeOK, CodesAtHand, HandlersRegistered, SessionsVerified, InByVerification,
        Goto, otp, sms, Phases
<1>1. CASE Register(u) \/ Resend(u) \/ RefuseOTP(u)
  BY <1>1 DEF Register, Resend, RefuseOTP
<1>2. CASE Send(u)
  <2>1. [to |-> u, code |-> code[u]] \in Messages
    BY <1>2 DEF Send, Messages
  <2>. QED
    BY <1>2, <2>1 DEF Send
<1>3. CASE Sent(u)
  BY <1>3 DEF Sent
<1>4. ASSUME NEW c \in Codes, IssueOTP(u, c)
      PROVE  IInv'
  <2>1. /\ verified' = verified /\ u \in registered
        /\ pending' = [pending EXCEPT ![u] = c]
    BY <1>4 DEF IssueOTP, Contract!Issue, Contract!Holds
  <2>. QED
    BY <1>4, <2>1, ContractTypes DEF IssueOTP
<1>5. CASE VerifyPhone(u)
  <2>1. pending[u] # NoCode /\ pending' = [pending EXCEPT ![u] = NoCode]
        /\ verified' = verified \cup {u}
    BY <1>5 DEF VerifyPhone, Contract!Redeem, Contract!Holds
  <2>. QED
    BY <1>5, <2>1, ContractTypes DEF VerifyPhone
<1>6. CASE VerifyWrongCode(u) \/ CodeExpires(u)
  <2>1. /\ verified' = verified /\ pending[u] # NoCode
        /\ \/ pending' = [pending EXCEPT ![u] = NoCode]
           \/ pending' = [pending EXCEPT ![u] = pending[u]]
    BY <1>6 DEF VerifyWrongCode, CodeExpires, Contract!Miss, Contract!Lapse, Contract!Holds
  <2>. QED
    BY <1>6, <2>1, ContractTypes DEF VerifyWrongCode, CodeExpires
<1>7. CASE Login(u) \/ CreateSession(u) \/ AnswerTokens(u)
  BY <1>7 DEF Login, CreateSession, AnswerTokens
<1>8. CASE HandlerFails(u) \/ RotationLost(u)
  BY <1>8 DEF HandlerFails, RotationLost
<1>. QED
  BY <1>1, <1>2, <1>3, <1>4, <1>5, <1>6, <1>7, <1>8

LEMMA MessageStep ==
    ASSUME IInv,
           \/ \E m \in Messages \cup {NoMessage} : StoreMessage(m)
           \/ \E m \in Messages : LoseMessage(m)
           \/ \E u \in Users : ReadText(u)
    PROVE  IInv'
<1>. TypeOK /\ CodesAtHand /\ HandlersRegistered /\ SessionsVerified /\ InByVerification
  BY DEF IInv
<1> USE DEF IInv, TypeOK, CodesAtHand, HandlersRegistered, SessionsVerified, InByVerification, otp
<1>1. ASSUME NEW m \in Messages \cup {NoMessage}, StoreMessage(m)
      PROVE  IInv'
  BY <1>1 DEF StoreMessage
<1>2. ASSUME NEW m \in Messages, LoseMessage(m)
      PROVE  IInv'
  BY <1>2 DEF LoseMessage
<1>3. ASSUME NEW u \in Users, ReadText(u)
      PROVE  IInv'
  <2>1. latest \in Messages /\ latest.to = u
    BY <1>3, NoCodeAssumption DEF ReadText, NoMessage
  <2>2. latest.code \in Codes
    BY <2>1, NoCodeAssumption DEF Messages
  <2>3. /\ text' = [text EXCEPT ![u] = latest.code]
        /\ UNCHANGED <<pending, tries, verified, registered, phase, code, posts, latest, signedIn>>
    BY <1>3 DEF ReadText
  <2>4. TypeOK'
    BY <2>2, <2>3
  <2>5. (CodesAtHand /\ HandlersRegistered /\ SessionsVerified /\ InByVerification)'
    BY <2>3
  <2>. QED
    BY <2>4, <2>5
<1>. QED
  BY <1>1, <1>2, <1>3

(* Every reachable state satisfies the inductive invariant. *)
THEOREM Invariance == Spec => []IInv
<1>1. IInv /\ [Next]_vars => IInv'
  <2> SUFFICES ASSUME IInv, [Next]_vars
               PROVE  IInv'
    OBVIOUS
  <2>1. CASE UNCHANGED vars
    BY <2>1 DEF vars, otp, sms, IInv, TypeOK, CodesAtHand, HandlersRegistered, SessionsVerified,
                InByVerification
  <2>. QED
    BY <2>1, HandlerStep, MessageStep DEF Next
<1>. QED
  BY InitIInv, <1>1, PTL DEF Spec

(* Every variable keeps its type, and the stages those of a handler. *)
THEOREM TypeCorrect == Spec => []TypeOK
<1>1. IInv => TypeOK
  BY DEF IInv
<1>. QED
  BY Invariance, <1>1, PTL

(* Sessions are for the verified, verification and codes for the           *)
(* registered, whichever steps failed and whichever requests were tried    *)
(* again.                                                                  *)
THEOREM VerifiedBeforeIn == Spec => []InByVerification
<1>1. IInv => InByVerification
  BY DEF IInv
<1>. QED
  BY Invariance, <1>1, PTL

-----------------------------------------------------------------------------
(* The contract itself bounds the guesses at a code that still works. *)
THEOREM ContractBoundsGuesses == Contract!Spec => []Contract!GuessesLeft
<1> DEFINE Inv == /\ pending \in [Users -> Codes \cup {NoCode}]
                  /\ tries \in [Users -> Nat]
                  /\ Contract!GuessesLeft
<1> USE PolicyAssumption, NoCodeAssumption
    DEF Contract!GuessesLeft, Contract!Holds
<1>1. Contract!Init => Inv
  BY DEF Contract!Init
<1>2. Inv /\ [Contract!Next]_(Contract!contract) => Inv'
  <2> SUFFICES ASSUME Inv, Contract!Next
               PROVE  Inv'
    BY DEF Contract!contract
  <2>1. ASSUME NEW u \in Users, NEW c \in Codes, Contract!Issue(u, c)
        PROVE  Inv'
    BY <2>1 DEF Contract!Issue
  <2>2. ASSUME NEW u \in Users, Contract!Miss(u)
        PROVE  Inv'
    BY <2>2 DEF Contract!Miss
  <2>3. ASSUME NEW u \in Users, Contract!Lapse(u) \/ Contract!Redeem(u)
        PROVE  Inv'
    BY <2>3 DEF Contract!Lapse, Contract!Redeem
  <2>. QED
    BY <2>1, <2>2, <2>3 DEF Contract!Next
<1>3. Inv => Contract!GuessesLeft
  OBVIOUS
<1>. HIDE DEF Inv
<1>. QED
  BY <1>1, <1>2, <1>3, PTL DEF Contract!Spec
=============================================================================
