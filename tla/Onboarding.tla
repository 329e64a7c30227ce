------------------------------ MODULE Onboarding ------------------------------
(***************************************************************************)
(* From registration to a session: the handlers of auth over the one-time  *)
(* codes of OtpContract, the SMS they send by webhook, the sink that takes *)
(* the webhook's messages, and the person who holds phone and password.    *)
(*                                                                         *)
(* A handler takes several steps that commit on their own, and may fail    *)
(* between any two of them.  The holder sends one request at a time and,   *)
(* answered or not, tries again.                                           *)
(***************************************************************************)
EXTENDS Naturals

CONSTANTS
    Users, Codes, NoCode, MaxAttempts,
    MaxFaults       \* how often something may go wrong

ASSUME NoCodeAssumption == NoCode \notin Users \cup Codes
ASSUME PolicyAssumption == MaxAttempts \in Nat \ {0}

VARIABLES
    pending, tries, verified,   \* the state of OtpContract
    registered,     \* the users whose row is committed
    phase,          \* what the handler of a user's request does next: "idle",
                    \* "issue", "send", "posted", "session" or "answer"
    code,           \* the code that handler has issued, or NoCode
    posts,          \* messages on their way to the sink
    latest,         \* the message the sink keeps, or NoMessage
    text,           \* the code a user has read last, or NoCode
    signedIn,       \* the users who hold a refresh token that is live
    faults          \* how often something has gone wrong

Contract == INSTANCE OtpContract

otp == <<pending, tries, verified>>
sms == <<posts, latest, text>>
vars == <<otp, registered, phase, code, sms, signedIn, faults>>

Messages == [to : Users, code : Codes]

(* None, or one to somebody who is not among Users. *)
NoMessage == [to |-> NoCode, code |-> NoCode]

Phases == {"idle", "issue", "send", "posted", "session", "answer"}

TypeOK ==
    /\ pending \in [Users -> Codes \cup {NoCode}]
    /\ tries \in [Users -> Nat]
    /\ verified \subseteq Users
    /\ registered \subseteq Users
    /\ phase \in [Users -> Phases]
    /\ code \in [Users -> Codes \cup {NoCode}]
    /\ posts \subseteq Messages
    /\ latest \in Messages \cup {NoMessage}
    /\ text \in [Users -> Codes \cup {NoCode}]
    /\ signedIn \subseteq Users

Init ==
    /\ Contract!Init
    /\ registered = {} /\ signedIn = {}
    /\ phase = [u \in Users |-> "idle"]
    /\ code = [u \in Users |-> NoCode]
    /\ posts = {} /\ latest = NoMessage
    /\ text = [u \in Users |-> NoCode]
    /\ faults = 0

Goto(u, from, to) ==
    /\ phase[u] = from
    /\ phase' = [phase EXCEPT ![u] = to]

Fault == faults < MaxFaults /\ faults' = faults + 1

-----------------------------------------------------------------------------
(* The handlers *)

(* CreateUser commits; from now on a second Register answers 409. *)
Register(u) ==
    /\ u \notin registered
    /\ registered' = registered \cup {u}
    /\ Goto(u, "idle", "issue")
    /\ UNCHANGED <<otp, code, sms, signedIn, faults>>

(* The holder reads what has come before asking for another code. *)
HasRead(u) == latest.to = u => text[u] = latest.code

(* Faulty: only a code that was issued is sent again. *)
ResendLive(u) ==
    /\ u \in registered \ verified /\ HasRead(u) /\ pending[u] # NoCode
    /\ Goto(u, "idle", "issue")
    /\ UNCHANGED <<otp, registered, code, sms, signedIn, faults>>

(* For any other phone the answer is the same, and nothing happens. *)
Resend(u) ==
    /\ u \in registered \ verified /\ HasRead(u)
    /\ Goto(u, "idle", "issue")
    /\ UNCHANGED <<otp, registered, code, sms, signedIn, faults>>

IssueOTP(u, c) ==
    /\ Goto(u, "issue", "send")
    /\ Contract!Issue(u, c)
    /\ code' = [code EXCEPT ![u] = c]
    /\ UNCHANGED <<registered, sms, signedIn, faults>>

(* ErrOTPCooldown or ErrOTPRateLimited. *)
RefuseOTP(u) ==
    /\ Goto(u, "issue", "idle")
    /\ UNCHANGED <<otp, registered, code, sms, signedIn, faults>>

Send(u) ==
    /\ Goto(u, "send", "posted")
    /\ posts' = posts \cup {[to |-> u, code |-> code[u]]}
    /\ UNCHANGED <<otp, registered, code, latest, text, signedIn, faults>>

(* The webhook answered with a status below 300: it has the message, and   *)
(* may lose it yet.                                                        *)
Sent(u) ==
    /\ [to |-> u, code |-> code[u]] \notin posts
    /\ Goto(u, "posted", "idle")
    /\ code' = [code EXCEPT ![u] = NoCode]
    /\ UNCHANGED <<otp, registered, sms, signedIn, faults>>

(* The code that was submitted is the right one, read or guessed. *)
VerifyPhone(u) ==
    /\ Contract!Redeem(u)
    /\ Goto(u, "idle", "session")
    /\ UNCHANGED <<registered, code, sms, signedIn, faults>>

(* An old text, a mistake in typing or a wrong guess. *)
VerifyWrongCode(u) ==
    /\ phase[u] = "idle"
    /\ Contract!Miss(u)
    /\ Fault
    /\ UNCHANGED <<registered, phase, code, sms, signedIn>>

(* The password is right; the limiter's refusal is among the faults. *)
Login(u) ==
    /\ u \in verified
    /\ Goto(u, "idle", "session")
    /\ UNCHANGED <<otp, registered, code, sms, signedIn, faults>>

CreateSession(u) ==
    /\ Goto(u, "session", "answer")
    /\ UNCHANGED <<otp, registered, code, sms, signedIn, faults>>

AnswerTokens(u) ==
    /\ Goto(u, "answer", "idle")
    /\ signedIn' = signedIn \cup {u}
    /\ UNCHANGED <<otp, registered, code, sms, faults>>

(* The step in progress fails, Send's ten seconds are over, the answer is  *)
(* lost or the API goes down: what was committed before remains.           *)
HandlerFails(u) ==
    /\ phase[u] # "idle"
    /\ phase' = [phase EXCEPT ![u] = "idle"]
    /\ code' = [code EXCEPT ![u] = NoCode]
    /\ Fault
    /\ UNCHANGED <<otp, registered, sms, signedIn>>

(* Refresh has rotated the session and its answer is lost. *)
RotationLost(u) ==
    /\ phase[u] = "idle"
    /\ u \in signedIn
    /\ signedIn' = signedIn \ {u}
    /\ Fault
    /\ UNCHANGED <<otp, registered, phase, code, sms>>

(* Time passes: the code expires. *)
CodeExpires(u) ==
    /\ Contract!Lapse(u)
    /\ Fault
    /\ UNCHANGED <<registered, phase, code, sms, signedIn>>

-----------------------------------------------------------------------------
(* The sink: the last message to arrive, whoever it is for. *)

StoreMessage(m) ==
    /\ m \in posts \cup {NoMessage}
    /\ posts' = posts \ {m}
    /\ latest' = m
    /\ UNCHANGED <<otp, registered, phase, code, text, signedIn, faults>>

LoseMessage(m) ==
    /\ m \in posts
    /\ posts' = posts \ {m}
    /\ Fault
    /\ UNCHANGED <<otp, registered, phase, code, latest, text, signedIn>>

ReadText(u) ==
    /\ latest.to = u
    /\ text' = [text EXCEPT ![u] = latest.code]
    /\ text' # text
    /\ UNCHANGED <<otp, registered, phase, code, posts, latest, signedIn, faults>>

-----------------------------------------------------------------------------
Next ==
    \/ \E u \in Users :
         \/ Register(u) \/ Resend(u) \/ RefuseOTP(u) \/ Send(u) \/ Sent(u)
         \/ \E c \in Codes : IssueOTP(u, c)
         \/ VerifyPhone(u) \/ VerifyWrongCode(u) \/ Login(u)
         \/ CreateSession(u) \/ AnswerTokens(u)
         \/ HandlerFails(u) \/ RotationLost(u) \/ CodeExpires(u) \/ ReadText(u)
    \/ \E m \in Messages \cup {NoMessage} : StoreMessage(m)
    \/ \E m \in Messages : LoseMessage(m)

Spec == Init /\ [][Next]_vars

(* Handlers and the sink go on.  The holder, still locked out, tries each  *)
(* of the three ways in again and again, with the code of the text last    *)
(* read - no guess is counted on -, and not always too soon for another.   *)
Fairness ==
    /\ \A u \in Users :
         /\ WF_vars(Send(u)) /\ WF_vars(Sent(u))
         /\ WF_vars(CreateSession(u)) /\ WF_vars(AnswerTokens(u))
         /\ SF_vars(\E c \in Codes : IssueOTP(u, c))
         /\ SF_vars(Resend(u)) /\ SF_vars(phase[u] \in {"idle", "posted"} /\ ReadText(u))
         /\ SF_vars(text[u] = pending[u] /\ VerifyPhone(u))
         /\ SF_vars(Login(u))
    /\ \A m \in Messages : WF_vars(StoreMessage(m))

FairSpec == Spec /\ Fairness

-----------------------------------------------------------------------------
(* Properties *)

(* Whatever fails in between, nobody holds a session whose phone was not   *)
(* verified, and nobody is verified or has a code without a committed row: *)
(* codes are for registered users, and a session is stored behind Redeem   *)
(* or behind Login's test of phone_verified_at.                            *)
InByVerification ==
    /\ signedIn \subseteq verified
    /\ verified \cup {u \in Users : pending[u] # NoCode} \subseteq registered

(* Whatever was half done when a request failed, lost its SMS or lost its  *)
(* answer, a registered user gets in, and gets in again: no committed step *)
(* leaves an account that neither a resend, a text nor a login can open.   *)
RegisteredGetsIn ==
    \A u \in Users : (u \in registered) ~> (u \in signedIn)
=============================================================================
