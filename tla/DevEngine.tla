------------------------------- MODULE DevEngine -------------------------------
(***************************************************************************)
(* The development engine, cmd/dev/main.go, with the API process and the   *)
(* SMS sink it supervises.                                                 *)
(*                                                                         *)
(* The engine starts both by `go run', a wrapper that builds the program,  *)
(* runs it as a child and ends with it.  A wrapper that is interrupted     *)
(* while it builds ends; while its child runs it ignores the signal, and   *)
(* when it is killed the child lives on.  Ctrl+C reaches every process of  *)
(* the terminal.                                                           *)
(***************************************************************************)
EXTENDS ApiProcess

VARIABLES
    env,        \* the environment, .env included
    engine,     \* where run() is
    caught,     \* messages in the engine's stop channel, which holds one
    wrapper,    \* the two `go run'
    sink,       \* the SMS sink
    pressed     \* history: "yes" once Ctrl+C was pressed

processes == <<wrapper, sink, api>>
vars == <<env, engine, caught, processes, pressed>>

-----------------------------------------------------------------------------
Preparing == {"docker", "load", "compose", "ready", "migrate", "bruno"}
Running == Preparing \cup {"sink", "api", "notify", "supervise", "grace"}

TypeOK ==
    /\ ApiTypeOK
    /\ env \in Environments
    /\ engine \in Running \cup {"gone"}
    /\ caught \in 0 .. 1
    /\ wrapper \in [{"api", "sink"} -> {"off", "build", "run", "gone"}]
    /\ sink \in {"off", "up", "gone"}
    /\ pressed \in {"no", "yes"}

Init ==
    /\ ApiInit
    /\ env \in Environments
    /\ engine = "docker"
    /\ caught = 0
    /\ wrapper = [w \in {"api", "sink"} |-> "off"]
    /\ sink = "off"
    /\ pressed = "no"

(* Faulty: the sender is switched to the webhook, its URL left as it was. *)
ApiEnvWithoutURL(e) == [e EXCEPT !.provider = "webhook"]

(* append(os.Environ(), ...): the last of two entries counts. *)
ApiEnv(e) == [e EXCEPT !.provider = "webhook", !.url = "url"]

(* SIGKILL; nothing happens to a wrapper that has not been started. *)
Kill(names) ==
    wrapper' = [w \in {"api", "sink"} |->
                  IF w \in names /\ wrapper[w] # "off" THEN "gone" ELSE wrapper[w]]

(* SIGINT *)
InterruptWrappers ==
    wrapper' = [w \in {"api", "sink"} |-> IF wrapper[w] = "build" THEN "gone" ELSE wrapper[w]]

-----------------------------------------------------------------------------
(* requireCommand, config.Load, docker compose up, waitForPostgres, the    *)
(* migrations, the token and the Bruno environment, in this order.         *)
After(phase) ==
    CASE phase = "docker" -> "load"
      [] phase = "load" -> "compose"
      [] phase = "compose" -> "ready"
      [] phase = "ready" -> "migrate"
      [] phase = "migrate" -> "bruno"
      [] phase = "bruno" -> "sink"

Prepare ==
    /\ engine \in Preparing
    /\ engine = "load" => Load(env)
    /\ engine' = After(engine)
    /\ UNCHANGED <<env, caught, processes, pressed>>

(* A command fails, PostgreSQL is not ready in time or a file cannot be    *)
(* written.                                                                *)
PrepareFails ==
    /\ engine \in Preparing
    /\ engine = "load" => ~Load(env)
    /\ engine' = "gone"
    /\ UNCHANGED <<env, caught, processes, pressed>>

StartSink ==
    /\ engine = "sink"
    /\ \/ engine' = "api" /\ wrapper' = [wrapper EXCEPT !["sink"] = "build"]
       \/ engine' = "gone" /\ UNCHANGED wrapper
    /\ UNCHANGED <<env, caught, sink, api, pressed>>

StartApi ==
    /\ engine = "api"
    /\ \/ engine' = "notify" /\ wrapper' = [wrapper EXCEPT !["api"] = "build"]
       \/ engine' = "gone" /\ Kill({"sink"})
    /\ UNCHANGED <<env, caught, sink, api, pressed>>

EngineNotify ==
    /\ engine = "notify"
    /\ engine' = "supervise"
    /\ UNCHANGED <<env, caught, processes, pressed>>

(* <-stop *)
StopChildren ==
    /\ engine = "supervise"
    /\ caught = 1
    /\ caught' = 0
    /\ InterruptWrappers
    /\ engine' = "grace"
    /\ UNCHANGED <<env, sink, api, pressed>>

GraceOver ==
    /\ engine = "grace"
    /\ Kill({"api", "sink"})
    /\ engine' = "gone"
    /\ UNCHANGED <<env, caught, sink, api, pressed>>

(* <-done: a wrapper has ended. *)
ChildDone ==
    /\ engine = "supervise"
    /\ \E w \in {"api", "sink"} : wrapper[w] = "gone"
    /\ Kill({"api", "sink"})
    /\ engine' = "gone"
    /\ UNCHANGED <<env, caught, sink, api, pressed>>

Engine ==
    \/ Prepare \/ PrepareFails \/ StartSink \/ StartApi \/ EngineNotify
    \/ StopChildren \/ GraceOver \/ ChildDone

-----------------------------------------------------------------------------
(* go run ./cmd/api and go run ./cmd/sms-sink *)

ApiBuilt ==
    /\ wrapper["api"] = "build"
    /\ wrapper' = [wrapper EXCEPT !["api"] = "run"]
    /\ main' = "load"
    /\ UNCHANGED <<env, engine, caught, sink, pressed, server, stop, handler, drained, status>>

SinkBuilt ==
    /\ wrapper["sink"] = "build"
    /\ wrapper' = [wrapper EXCEPT !["sink"] = "run"]
    /\ sink' = "up"
    /\ UNCHANGED <<env, engine, caught, api, pressed>>

(* The build fails, or the child has ended. *)
WrapperEnds(w) ==
    /\ \/ wrapper[w] = "build"
       \/ wrapper[w] = "run" /\ (IF w = "api" THEN main = "gone" ELSE sink = "gone")
    /\ wrapper' = [wrapper EXCEPT ![w] = "gone"]
    /\ UNCHANGED <<env, engine, caught, sink, api, pressed>>

(* The sink has no shutdown: log.Fatal when its port is taken. *)
SinkFails ==
    /\ sink = "up"
    /\ sink' = "gone"
    /\ UNCHANGED <<env, engine, caught, wrapper, api, pressed>>

ApiMain == Main(ApiEnv(env)) /\ UNCHANGED <<env, engine, caught, wrapper, sink, pressed>>

ApiHandle(h) == Handle(h) /\ UNCHANGED <<env, engine, caught, wrapper, sink, pressed>>

-----------------------------------------------------------------------------
(* Until signal.Notify a signal ends the engine. *)
SignalEngine ==
    IF engine \in {"supervise", "grace"}
    THEN caught' = 1 /\ UNCHANGED engine
    ELSE engine' = "gone" /\ UNCHANGED caught

CtrlC ==
    /\ engine \in Running
    /\ SignalEngine
    /\ Interrupt
    /\ InterruptWrappers
    /\ sink' = IF sink = "up" THEN "gone" ELSE sink
    /\ pressed' = "yes"
    /\ UNCHANGED env

(* kill <pid of the engine> *)
Terminate ==
    /\ engine \in Running
    /\ SignalEngine
    /\ UNCHANGED <<env, processes, pressed>>

Next ==
    \/ Engine
    \/ ApiBuilt \/ SinkBuilt \/ SinkFails
    \/ \E w \in {"api", "sink"} : WrapperEnds(w)
    \/ ApiMain
    \/ \E h \in Handlers : ApiHandle(h)
    \/ CtrlC
    \/ Terminate

Spec == Init /\ [][Next]_vars

(* A main() that can go on does, Shutdown's deadline passes and the        *)
(* database ends what it was asked to do.  Nothing is assumed of docker    *)
(* and the other commands, of clients, of handlers outside transactions,   *)
(* of the server's own failures or of signals.                             *)
Fairness ==
    /\ WF_vars(StopChildren) /\ WF_vars(GraceOver) /\ WF_vars(ChildDone)
    /\ WF_vars(ApiMain /\ main' # main)
    /\ \A h \in Handlers : WF_vars(EndTx(h) /\ ApiHandle(h))

FairSpec == Spec /\ Fairness

-----------------------------------------------------------------------------
(* Properties *)

(* "Press Ctrl+C to stop the API and local SMS sink": both end with the    *)
(* engine, and stay ended, whatever each of them was doing and whatever    *)
(* requests were served.                                                   *)
Stopped == engine = "gone" /\ main \in {"off", "gone"} /\ sink \in {"off", "gone"}

CtrlCStops == (pressed = "yes") ~> []Stopped

(* What the end of all three rests on: once Ctrl+C was pressed, nothing is *)
(* building or serving texts any more, and each main() has ended, is       *)
(* ending, or has the signal waiting in its channel, however the children  *)
(* end meanwhile.                                                          *)
EverybodyTold ==
    pressed = "yes" =>
        /\ sink # "up"
        /\ \A w \in {"api", "sink"} : wrapper[w] # "build"
        /\ engine \in {"supervise", "grace", "gone"}
        /\ engine = "supervise" => caught = 1
        /\ main \in {"off", "wait", "drain", "close", "gone"}
        /\ main = "wait" => stop = 1

(* "configures the API's local SMS webhook integration": whatever the      *)
(* environment the engine itself accepted, the API it starts is not        *)
(* refused by its configuration.                                           *)
ApiConfigured ==
    main \in Alive => Load(ApiEnv(env)) /\ Builds(ApiEnv(env))
=============================================================================
