------------------------------ MODULE ApiProcess ------------------------------
(***************************************************************************)
(* The API process, cmd/api/main.go: configuration, database pool, server, *)
(* signals and shutdown, seen from the requests it serves.  Who starts and *)
(* signals the process is up to the module that composes this one.         *)
(***************************************************************************)
EXTENDS Naturals

CONSTANT Handlers       \* the connections, one request each

VARIABLES
    main,       \* where main() is
    server,     \* the goroutine that runs ListenAndServe
    stop,       \* messages in the stop channel, which holds one
    handler,    \* where the request of a connection is
    drained,    \* "yes" when Shutdown returned nil
    status      \* how the process ended

api == <<main, server, stop, handler, drained, status>>

Alive == {"load", "open", "build", "spawn", "notify", "wait", "drain", "close"}
Notified == {"wait", "drain", "close"}
Serving == {"running", "tx"}

ApiTypeOK ==
    /\ main \in {"off", "gone"} \cup Alive
    /\ server \in {"off", "binding", "listening", "failed", "closed"}
    /\ stop \in 0 .. 1
    /\ handler \in [Handlers -> {"idle", "new", "dropped", "done", "cut", "torn"} \cup Serving]
    /\ drained \in {"no", "yes"}
    /\ status \in {"none", "ok", "failed", "interrupted"}

ApiInit ==
    /\ main = "off"
    /\ server = "off"
    /\ stop = 0
    /\ handler = [h \in Handlers |-> "idle"]
    /\ drained = "no"
    /\ status = "none"

-----------------------------------------------------------------------------
(* config.Load *)

Trimmed(v) == IF v = "blank" THEN "" ELSE v

Value(v, fallback) == IF Trimmed(v) = "" THEN fallback ELSE v

(* What the tests of Load tell apart.  "limits" stands for the nine        *)
(* durations and numbers: absent, or not a positive one.                   *)
Environments ==
    [database : {"", "blank", "url"}, secrets : {"short", "long"},
     limits : {"", "bad"}, app : {"", "development", "test", "production", "other"},
     provider : {"", "log", "webhook", "other"}, url : {"", "blank", "url"}]

Load(e) ==
    LET app == Value(e.app, "development")
        provider == Value(e.provider, "log")
    IN
    /\ Trimmed(e.database) # ""
    /\ e.secrets = "long"
    /\ e.limits # "bad"
    /\ app \in {"development", "test", "production"}
    /\ provider \in {"log", "webhook"}
    /\ app = "production" => provider = "webhook"
    /\ provider = "webhook" => Trimmed(e.url) # ""

(* buildSMSSender: the only part of the services that can be refused. *)
Builds(e) == Value(e.provider, "log") = "webhook" => Trimmed(e.url) # ""

-----------------------------------------------------------------------------
(* The process ends: what it was doing is cut off. *)
End(s) ==
    /\ main' = "gone"
    /\ status' = s
    /\ server' = "off"
    /\ handler' = [h \in Handlers |->
         CASE handler[h] = "tx" -> "torn"
           [] handler[h] = "running" -> "cut"
           [] handler[h] = "new" -> "dropped"
           [] OTHER -> handler[h]]
    /\ UNCHANGED <<stop, drained>>

Advance(from, to) ==
    /\ main = from
    /\ main' = to
    /\ UNCHANGED <<stop, handler, drained, status>>

Configure(e) ==
    \/ Load(e) /\ Advance("load", "open") /\ UNCHANGED server
    \/ ~Load(e) /\ main = "load" /\ End("failed")

OpenDatabase ==
    \/ Advance("open", "build") /\ UNCHANGED server
    \/ main = "open" /\ End("failed")

BuildServices(e) ==
    \/ Builds(e) /\ Advance("build", "spawn") /\ UNCHANGED server
    \/ ~Builds(e) /\ main = "build" /\ End("failed")

(* go func() { errCh <- srv.ListenAndServe() }() *)
Spawn == Advance("spawn", "notify") /\ server' = "binding"

(* Until here a signal kills the process, though it may be serving. *)
Notify == Advance("notify", "wait") /\ UNCHANGED server

Bind ==
    /\ server = "binding"
    /\ server' = "listening"
    /\ UNCHANGED <<main, stop, handler, drained, status>>

(* The address is taken, or Accept fails for good. *)
ServeFails ==
    /\ server \in {"binding", "listening"}
    /\ server' = "failed"
    /\ UNCHANGED <<main, stop, handler, drained, status>>

(* os.Exit: neither Shutdown nor the deferred Close runs. *)
ExitOnError ==
    /\ main = "wait"
    /\ server = "failed"
    /\ End("failed")

(* Faulty: the listener stays open while Shutdown drains. *)
BeginShutdownListening ==
    /\ main = "wait"
    /\ stop = 1
    /\ main' = "drain"
    /\ stop' = 0
    /\ UNCHANGED <<server, handler, drained, status>>

(* <-stop, and Shutdown closes the listener. *)
BeginShutdown ==
    /\ main = "wait"
    /\ stop = 1
    /\ main' = "drain"
    /\ stop' = 0
    /\ server' = "closed"
    /\ UNCHANGED <<handler, drained, status>>

(* Shutdown returns nil; a connection without a request is closed. *)
Drained ==
    /\ main = "drain"
    /\ \A h \in Handlers : handler[h] \notin Serving
    /\ main' = "close"
    /\ drained' = "yes"
    /\ handler' = [h \in Handlers |-> IF handler[h] = "new" THEN "dropped" ELSE handler[h]]
    /\ UNCHANGED <<server, stop, status>>

(* Faulty: Shutdown(context.Background()). *)
ShutdownUnbounded == FALSE /\ UNCHANGED api

(* shutdownCtx is done: Shutdown gives up, its error is logged. *)
ShutdownTimesOut == Advance("drain", "close") /\ UNCHANGED server

(* Faulty: without defer db.Close(). *)
ExitWithoutClose == main = "close" /\ End("ok")

(* db.Close waits until every connection is back in the pool. *)
CloseDatabase ==
    /\ main = "close"
    /\ \A h \in Handlers : handler[h] # "tx"
    /\ End("ok")

(* Faulty: a queue of signals that nobody bounds. *)
InterruptQueued ==
    \/ main \in Alive \ Notified /\ End("interrupted")
    \/ /\ main \in Notified
       /\ stop' = stop + 1
       /\ UNCHANGED <<main, server, handler, drained, status>>
    \/ main \notin Alive /\ UNCHANGED api

(* SIGINT or SIGTERM: Notify drops what does not fit into the channel. *)
Interrupt ==
    \/ main \in Alive \ Notified /\ End("interrupted")
    \/ /\ main \in Notified
       /\ stop' = 1
       /\ UNCHANGED <<main, server, handler, drained, status>>
    \/ main \notin Alive /\ UNCHANGED api

-----------------------------------------------------------------------------
(* One request. *)

Moves(h, from, to) ==
    /\ main \in Alive
    /\ handler[h] = from
    /\ handler' = [handler EXCEPT ![h] = to]
    /\ UNCHANGED <<main, server, stop, drained, status>>

Connect(h) == server = "listening" /\ Moves(h, "idle", "new")

ReadRequest(h) == Moves(h, "new", "running")

(* A closed pool refuses Begin, and the handler answers an error. *)
BeginTx(h) == main # "close" /\ Moves(h, "running", "tx")

EndTx(h) == Moves(h, "tx", "running")

Respond(h) == Moves(h, "running", "done")

Handle(h) == Connect(h) \/ ReadRequest(h) \/ BeginTx(h) \/ EndTx(h) \/ Respond(h)

Main(e) ==
    \/ Configure(e) \/ OpenDatabase \/ BuildServices(e) \/ Spawn \/ Notify \/ Bind \/ ServeFails
    \/ ExitOnError \/ BeginShutdown \/ Drained \/ ShutdownTimesOut \/ CloseDatabase

-----------------------------------------------------------------------------
(* Properties *)

(* A shutdown that ended well cut nobody off: every request whose headers  *)
(* the server had read was answered.                                       *)
AnsweredIfDrained ==
    drained = "yes" => \A h \in Handlers : handler[h] \notin {"cut", "torn"}

(* Even a shutdown that gave up on its requests tears no transaction: the  *)
(* process leaves main() only when every transaction is over.              *)
NoTransactionTorn ==
    status = "ok" => \A h \in Handlers : handler[h] # "torn"
=============================================================================
