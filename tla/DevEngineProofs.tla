---------------------------- MODULE DevEngineProofs ----------------------------
(***************************************************************************)
(* Every safety property of the DevEngine run, for any number of           *)
(* connections.                                                            *)
(***************************************************************************)
EXTENDS DevEngine, TLAPS

Unanswered == {"cut", "torn"}

(* What main(), the server and Shutdown promise each other. *)
ShutdownInv ==
    /\ main \in {"off", "gone"} => server = "off"
    /\ main \in {"drain", "close"} => server = "closed"
    /\ main # "gone" => \A h \in Handlers : handler[h] \notin Unanswered
    /\ drained = "yes" =>
         /\ main \in {"close", "gone"}
         /\ \A h \in Handlers : handler[h] \notin {"new"} \cup Serving \cup Unanswered
    /\ NoTransactionTorn

(* The API is started once, with a configuration the engine accepted. *)
StartInv ==
    /\ wrapper["api"] \in {"off", "build"} => main = "off"
    /\ engine \in Preparing \cup {"sink", "api"} => wrapper["api"] = "off"
    /\ \/ wrapper["api"] # "off" \/ main # "off"
       \/ engine \notin {"docker", "load", "gone"}
       => Load(env)

IInv == TypeOK /\ ShutdownInv /\ StartInv

-----------------------------------------------------------------------------
(* The webhook that the engine writes into the environment is one that     *)
(* every environment accepted by Load can be completed with.               *)
LEMMA Completed ==
    ASSUME NEW e \in Environments, Load(e)
    PROVE  Load(ApiEnv(e)) /\ Builds(ApiEnv(e))
<1> DEFINE f == ApiEnv(e)
<1>1. /\ f.database = e.database /\ f.secrets = e.secrets /\ f.limits = e.limits
      /\ f.app = e.app /\ f.provider = "webhook" /\ f.url = "url"
  BY DEF ApiEnv, Environments
<1>2. Value("webhook", "log") = "webhook" /\ Trimmed("url") = "url"
  BY DEF Value, Trimmed
<1>3. Value(e.app, "development") = "production" \/ Value(e.app, "development") # "production"
  OBVIOUS
<1> HIDE DEF f
<1>4. Load(f) /\ Builds(f)
  BY <1>1, <1>2 DEF Load, Builds
<1> QED
  BY <1>4 DEF f

(* What the end of the process does to the requests. *)
LEMMA Ended ==
    ASSUME ApiTypeOK, ShutdownInv, NEW s \in {"ok", "failed", "interrupted"}, End(s),
           main # "gone", s = "ok" => \A h \in Handlers : handler[h] # "tx"
    PROVE  ApiTypeOK' /\ ShutdownInv'
<1>1. ApiTypeOK'
  BY DEF ApiTypeOK, End, Serving, Alive
<1>2. ASSUME NEW h \in Handlers
      PROVE  /\ handler'[h] = "torn" => handler[h] = "tx"
             /\ drained = "yes" =>
                  handler'[h] \notin {"new"} \cup Serving \cup Unanswered
  BY DEF ApiTypeOK, ShutdownInv, End, Serving, Unanswered
<1>3. main' = "gone" /\ server' = "off" /\ drained' = drained /\ status' = s
  BY DEF End
<1> QED
  BY <1>1, <1>2, <1>3 DEF ShutdownInv, NoTransactionTorn

(* A step that leaves the requests alone, Shutdown not having returned. *)
LEMMA Advanced ==
    ASSUME ApiTypeOK, ShutdownInv, main \in Alive, main' \in Alive,
           server' \in {"off", "binding", "listening", "failed", "closed"},
           stop' \in 0 .. 1,
           main' \in {"drain", "close"} => server' = "closed",
           drained = "yes" => main' = "close",
           UNCHANGED <<handler, drained, status>>
    PROVE  ApiTypeOK' /\ ShutdownInv'
<1>1. ApiTypeOK'
  BY DEF ApiTypeOK
<1>2. ShutdownInv'
  BY DEF ShutdownInv, NoTransactionTorn, Alive
<1> QED
  BY <1>1, <1>2

LEMMA MainStep ==
    ASSUME ApiTypeOK, ShutdownInv, NEW e, Main(e)
    PROVE  ApiTypeOK' /\ ShutdownInv' /\ main # "off" /\ main' # "off"
<1> USE DEF Alive
<1>1. CASE main \in Alive /\ End("failed")
  <2>1. main # "gone" /\ main' = "gone"
    BY <1>1 DEF End
  <2> QED
    BY <1>1, <2>1, Ended
<1>2. CASE CloseDatabase
  <2>1. main = "close" /\ main' = "gone" /\ End("ok")
    BY <1>2 DEF CloseDatabase, End
  <2>2. \A h \in Handlers : handler[h] # "tx"
    BY <1>2 DEF CloseDatabase
  <2> QED
    BY <2>1, <2>2, Ended
<1>3. CASE ExitOnError
  BY <1>1, <1>3 DEF ExitOnError
<1>4. CASE Drained
  <2>1. ApiTypeOK'
    BY <1>4 DEF ApiTypeOK, Drained
  <2>2. ASSUME NEW h \in Handlers
        PROVE  handler'[h] \notin {"new"} \cup Serving \cup Unanswered
    BY <1>4 DEF ApiTypeOK, ShutdownInv, Drained, Unanswered, Serving
  <2>3. main = "drain" /\ main' = "close" /\ server' = server /\ drained' = "yes"
    BY <1>4 DEF Drained
  <2>4. ShutdownInv'
    BY <2>2, <2>3 DEF ShutdownInv, NoTransactionTorn, Unanswered
  <2> QED
    BY <2>1, <2>3, <2>4
<1>5. CASE Bind \/ ServeFails
  <2>1. server \in {"binding", "listening"} /\ server' \in {"listening", "failed"}
        /\ UNCHANGED <<main, stop, handler, drained, status>>
    BY <1>5 DEF Bind, ServeFails
  <2>2. main \in Alive \ {"drain", "close"} /\ drained # "yes"
    BY <2>1 DEF ApiTypeOK, ShutdownInv
  <2> QED
    BY <2>1, <2>2, Advanced DEF ApiTypeOK
<1>6. CASE BeginShutdown
  <2>1. main = "wait" /\ main' = "drain" /\ stop' = 0 /\ server' = "closed"
        /\ UNCHANGED <<handler, drained, status>>
    BY <1>6 DEF BeginShutdown
  <2>2. drained # "yes"
    BY <2>1 DEF ShutdownInv
  <2> QED
    BY <2>1, <2>2, Advanced
<1>7. CASE ShutdownTimesOut
  <2>1. main = "drain" /\ main' = "close" /\ server' = "closed"
        /\ UNCHANGED <<stop, handler, drained, status>>
    BY <1>7 DEF ShutdownTimesOut, Advance, ShutdownInv
  <2> QED
    BY <2>1, Advanced DEF ApiTypeOK
<1>8. CASE \E from \in {"load", "open", "build", "spawn", "notify"} :
             \E to \in {"open", "build", "spawn", "notify", "wait"} :
               /\ Advance(from, to)
               /\ server' \in {server, "binding"}
  <2>1. /\ main \in Alive \ {"drain", "close"} /\ main' \in Alive \ {"drain", "close"}
        /\ server' \in {server, "binding"} /\ UNCHANGED <<stop, handler, drained, status>>
    BY <1>8 DEF Advance
  <2>2. drained # "yes"
    BY <2>1 DEF ShutdownInv
  <2> QED
    BY <2>1, <2>2, Advanced DEF ApiTypeOK
<1>9. CASE Configure(e) \/ OpenDatabase \/ BuildServices(e)
  <2>1. CASE Advance("load", "open") /\ UNCHANGED server
    BY <1>8, <2>1
  <2>2. CASE Advance("open", "build") /\ UNCHANGED server
    BY <1>8, <2>2
  <2>3. CASE Advance("build", "spawn") /\ UNCHANGED server
    BY <1>8, <2>3
  <2> QED
    BY <1>1, <1>9, <2>1, <2>2, <2>3 DEF Configure, OpenDatabase, BuildServices
<1>10. CASE Spawn
  BY <1>8, <1>10 DEF Spawn
<1>11. CASE Notify
  BY <1>8, <1>11 DEF Notify
<1> QED
  BY <1>2, <1>3, <1>4, <1>5, <1>6, <1>7, <1>9, <1>10, <1>11 DEF Main

LEMMA HandleStep ==
    ASSUME ApiTypeOK, ShutdownInv, NEW h \in Handlers, Handle(h)
    PROVE  ApiTypeOK' /\ ShutdownInv' /\ UNCHANGED main
<1>1. PICK from \in {"idle", "new", "running", "tx"}, to \in {"new", "running", "tx", "done"} :
        /\ Moves(h, from, to)
        /\ from = "idle" => server = "listening"
  BY DEF Handle, Connect, ReadRequest, BeginTx, EndTx, Respond
<1>2. /\ main \in Alive /\ handler[h] = from
      /\ handler' = [handler EXCEPT ![h] = to]
      /\ UNCHANGED <<main, server, stop, drained, status>>
  BY <1>1 DEF Moves
<1>3. drained # "yes"
  BY <1>1, <1>2 DEF ShutdownInv, Serving, Alive
<1>4. ApiTypeOK'
  BY <1>2 DEF ApiTypeOK, Serving
<1>5. \A k \in Handlers : handler'[k] \in Unanswered => handler[k] \in Unanswered
  BY <1>2 DEF ApiTypeOK, Unanswered
<1>6. main # "gone"
  BY <1>2 DEF Alive
<1> QED
  BY <1>2, <1>3, <1>4, <1>5, <1>6 DEF ShutdownInv, NoTransactionTorn, Unanswered

LEMMA InterruptStep ==
    ASSUME ApiTypeOK, ShutdownInv, Interrupt
    PROVE  ApiTypeOK' /\ ShutdownInv' /\ (main = "off" <=> main' = "off")
<1>1. CASE main \in Alive \ Notified /\ End("interrupted")
  <2>1. main \notin {"off", "gone"} /\ main' = "gone"
    BY <1>1 DEF Alive, End
  <2> QED
    BY <1>1, <2>1, Ended
<1>2. CASE main \in Notified /\ stop' = 1 /\ UNCHANGED <<main, server, handler, drained, status>>
  BY <1>2 DEF ApiTypeOK, ShutdownInv, NoTransactionTorn, Notified
<1>3. CASE UNCHANGED api
  BY <1>3 DEF ApiTypeOK, ShutdownInv, NoTransactionTorn, api
<1> QED
  BY <1>1, <1>2, <1>3 DEF Interrupt

-----------------------------------------------------------------------------
LEMMA InitInv == Init => IInv
<1> SUFFICES ASSUME Init PROVE IInv
  OBVIOUS
<1>1. TypeOK
  BY DEF Init, ApiInit, TypeOK, ApiTypeOK, Running, Preparing
<1>2. ShutdownInv
  BY DEF Init, ApiInit, ShutdownInv, NoTransactionTorn, Unanswered
<1>3. StartInv
  BY DEF Init, ApiInit, StartInv
<1> QED
  BY <1>1, <1>2, <1>3 DEF IInv

(* What the API does on its own concerns neither engine nor wrappers. *)
LEMMA ApiKeepsInv ==
    ASSUME IInv, ApiTypeOK', ShutdownInv', main = "off" <=> main' = "off",
           UNCHANGED <<env, engine, caught, wrapper, sink, pressed>>
    PROVE  IInv'
<1>1. TypeOK'
  BY DEF IInv, TypeOK
<1>2. StartInv'
  BY DEF IInv, StartInv
<1> QED
  BY <1>1, <1>2 DEF IInv

LEMMA WrappersTyped ==
    ASSUME TypeOK, NEW names \in {{"api", "sink"}, {"sink"}}, Kill(names) \/ InterruptWrappers
    PROVE  /\ wrapper' \in [{"api", "sink"} -> {"off", "build", "run", "gone"}]
           /\ wrapper["api"] = "off" <=> wrapper'["api"] = "off"
           /\ wrapper'["api"] = "build" => wrapper["api"] = "build"
<1>1. CASE Kill(names)
  BY <1>1 DEF TypeOK, Kill
<1>2. CASE InterruptWrappers
  BY <1>2 DEF TypeOK, InterruptWrappers
<1> QED
  BY <1>1, <1>2

(* A step of the engine: the API's own state stays. *)
LEMMA EngineStep ==
    ASSUME IInv, Engine
    PROVE  IInv'
<1> USE DEF IInv
<1>1. UNCHANGED <<env, sink, api, pressed>>
  BY DEF Engine, Prepare, PrepareFails, StartSink, StartApi, EngineNotify,
         StopChildren, GraceOver, ChildDone, processes
<1>2. ApiTypeOK' /\ ShutdownInv'
  BY <1>1 DEF TypeOK, ApiTypeOK, ShutdownInv, NoTransactionTorn, api
<1>3. main' = main
  BY <1>1 DEF api
<1>4. CASE Prepare
  <2>1. UNCHANGED <<wrapper, caught>>
    BY <1>4 DEF Prepare, processes
  <2>2. engine \in Preparing /\ engine' \in (Preparing \cup {"sink"}) \ {"docker"}
    BY <1>4 DEF Prepare, After, Preparing
  <2>3. engine' = "load" \/ Load(env)
    BY <1>4, <2>2 DEF Prepare, After, Preparing, StartInv
  <2>4. TypeOK'
    BY <1>1, <1>2, <2>1, <2>2 DEF TypeOK, Running
  <2>5. StartInv'
    BY <1>1, <1>3, <2>1, <2>2, <2>3 DEF StartInv
  <2> QED
    BY <1>2, <2>4, <2>5
<1>5. CASE PrepareFails
  <2>1. UNCHANGED <<wrapper, caught>> /\ engine' = "gone"
    BY <1>5 DEF PrepareFails, processes
  <2>2. TypeOK'
    BY <1>1, <1>2, <2>1 DEF TypeOK
  <2>3. StartInv'
    BY <1>1, <1>3, <2>1 DEF StartInv, Preparing
  <2> QED
    BY <1>2, <2>2, <2>3
<1>6. CASE StartSink
  <2>1. /\ engine = "sink" /\ engine' \in {"api", "gone"} /\ UNCHANGED caught
        /\ wrapper' \in {wrapper, [wrapper EXCEPT !["sink"] = "build"]}
    BY <1>6 DEF StartSink
  <2>2. wrapper'["api"] = wrapper["api"]
    BY <2>1 DEF TypeOK
  <2>3. TypeOK'
    BY <1>1, <1>2, <2>1 DEF TypeOK, Running
  <2>4. StartInv'
    BY <1>1, <1>3, <2>1, <2>2 DEF StartInv, Preparing
  <2> QED
    BY <1>2, <2>3, <2>4
<1>7. CASE StartApi
  <2>1. engine = "api" /\ wrapper["api"] = "off" /\ main = "off" /\ Load(env) /\ UNCHANGED caught
    BY <1>7 DEF StartApi, StartInv
  <2>2. CASE engine' = "notify" /\ wrapper' = [wrapper EXCEPT !["api"] = "build"]
    <3>1. TypeOK'
      BY <1>1, <1>2, <2>1, <2>2 DEF TypeOK, Running
    <3>2. StartInv'
      BY <1>1, <1>3, <2>1, <2>2 DEF StartInv, Preparing
    <3> QED
      BY <1>2, <3>1, <3>2
  <2>3. CASE engine' = "gone" /\ Kill({"sink"})
    <3>1. TypeOK'
      BY <1>1, <1>2, <2>1, <2>3, WrappersTyped DEF TypeOK
    <3>2. StartInv'
      BY <1>1, <1>3, <2>1, <2>3, WrappersTyped DEF StartInv, Preparing
    <3> QED
      BY <1>2, <3>1, <3>2
  <2> QED
    BY <1>7, <2>2, <2>3 DEF StartApi
<1>8. CASE EngineNotify
  <2>1. engine = "notify" /\ engine' = "supervise" /\ UNCHANGED <<caught, wrapper>>
    BY <1>8 DEF EngineNotify, processes
  <2>2. TypeOK'
    BY <1>1, <1>2, <2>1 DEF TypeOK, Running
  <2>3. StartInv'
    BY <1>1, <1>3, <2>1 DEF StartInv, Preparing
  <2> QED
    BY <1>2, <2>2, <2>3
<1>9. CASE StopChildren \/ GraceOver \/ ChildDone
  <2>1. /\ engine \in {"supervise", "grace"} /\ engine' \in {"grace", "gone"}
        /\ caught' \in {0, caught}
        /\ InterruptWrappers \/ Kill({"api", "sink"})
    BY <1>9 DEF StopChildren, GraceOver, ChildDone
  <2>2. TypeOK'
    BY <1>1, <1>2, <2>1, WrappersTyped DEF TypeOK, Running
  <2>3. StartInv'
    BY <1>1, <1>3, <2>1, WrappersTyped DEF StartInv, Preparing
  <2> QED
    BY <1>2, <2>2, <2>3
<1> QED
  BY <1>4, <1>5, <1>6, <1>7, <1>8, <1>9 DEF Engine

LEMMA NextInv == IInv /\ [Next]_vars => IInv'
<1> SUFFICES ASSUME IInv, [Next]_vars PROVE IInv'
  OBVIOUS
<1> TypeOK /\ ApiTypeOK /\ ShutdownInv /\ StartInv
  BY DEF IInv, TypeOK
<1>1. CASE Engine
  BY <1>1, EngineStep
<1>2. CASE ApiBuilt
  <2>1. /\ wrapper["api"] = "build" /\ wrapper' = [wrapper EXCEPT !["api"] = "run"]
        /\ main = "off" /\ main' = "load"
        /\ UNCHANGED <<env, engine, caught, sink, pressed, server, stop, handler, drained, status>>
    BY <1>2 DEF ApiBuilt, StartInv
  <2>2. TypeOK'
    BY <2>1 DEF TypeOK, ApiTypeOK, Alive
  <2>3. ShutdownInv'
    BY <2>1 DEF ShutdownInv, NoTransactionTorn
  <2>4. StartInv'
    BY <2>1 DEF StartInv, TypeOK
  <2> QED
    BY <2>2, <2>3, <2>4 DEF IInv
<1>3. CASE SinkBuilt \/ SinkFails \/ \E w \in {"api", "sink"} : WrapperEnds(w)
  <2>1. /\ UNCHANGED <<env, engine, caught, api, pressed>>
        /\ sink' \in {sink, "up", "gone"}
        /\ \/ UNCHANGED wrapper
           \/ wrapper' = [wrapper EXCEPT !["sink"] = "run"]
           \/ \E w \in {"api", "sink"} :
                wrapper[w] # "off" /\ wrapper' = [wrapper EXCEPT ![w] = "gone"]
    BY <1>3 DEF SinkBuilt, SinkFails, WrapperEnds
  <2>2. wrapper' \in [{"api", "sink"} -> {"off", "build", "run", "gone"}]
    BY <2>1 DEF TypeOK
  <2>3. wrapper'["api"] \in {wrapper["api"], "gone"} /\ (wrapper["api"] = "off" <=> wrapper'["api"] = "off")
    BY <2>1 DEF TypeOK
  <2>4. TypeOK' /\ ShutdownInv'
    BY <2>1, <2>2 DEF TypeOK, ApiTypeOK, ShutdownInv, NoTransactionTorn, api
  <2>5. StartInv'
    BY <2>1, <2>3 DEF StartInv, api
  <2> QED
    BY <2>4, <2>5 DEF IInv
<1>4. CASE ApiMain
  BY <1>4, MainStep, ApiKeepsInv DEF ApiMain
<1>5. ASSUME NEW h \in Handlers, ApiHandle(h)
      PROVE  IInv'
  BY <1>5, HandleStep, ApiKeepsInv DEF ApiHandle
<1>6. CASE CtrlC
  <2>1. ApiTypeOK' /\ ShutdownInv' /\ (main = "off" <=> main' = "off")
    BY <1>6, InterruptStep DEF CtrlC
  <2>2. InterruptWrappers /\ UNCHANGED env /\ engine \in Running
    BY <1>6 DEF CtrlC
  <2>3. /\ caught' \in 0 .. 1 /\ engine' \in {engine, "gone"}
        /\ engine' # "gone" => engine = engine'
    BY <1>6 DEF CtrlC, SignalEngine, TypeOK
  <2>4. sink' \in {"off", "up", "gone"} /\ pressed' \in {"no", "yes"}
    BY <1>6 DEF CtrlC, TypeOK
  <2>5. TypeOK'
    BY <2>1, <2>2, <2>3, <2>4, WrappersTyped DEF TypeOK
  <2>6. StartInv'
    BY <2>1, <2>2, <2>3, WrappersTyped DEF StartInv, Preparing, Running
  <2> QED
    BY <2>1, <2>5, <2>6 DEF IInv
<1>7. CASE Terminate
  <2>1. /\ UNCHANGED <<env, wrapper, sink, api, pressed>>
        /\ engine' \in {engine, "gone"} /\ caught' \in 0 .. 1
    BY <1>7 DEF Terminate, SignalEngine, processes, TypeOK
  <2>2. TypeOK' /\ ShutdownInv'
    BY <2>1 DEF TypeOK, ApiTypeOK, ShutdownInv, NoTransactionTorn, api
  <2>3. StartInv'
    BY <2>1 DEF StartInv, Preparing, api
  <2> QED
    BY <2>2, <2>3 DEF IInv
<1>8. CASE UNCHANGED vars
  BY <1>8 DEF IInv, TypeOK, ApiTypeOK, ShutdownInv, NoTransactionTorn, StartInv,
              vars, processes, api
<1> QED
  BY <1>1, <1>2, <1>3, <1>4, <1>5, <1>6, <1>7, <1>8 DEF Next

(* The inductive invariant holds throughout. *)
THEOREM Invariance == Spec => []IInv
<1> QED
  BY InitInv, NextInv, PTL DEF Spec

(* The two processes' states stay within their types: the engine's and the *)
(* API's channels hold one signal.                                         *)
THEOREM TypeCorrect == Spec => []TypeOK
<1>1. IInv => TypeOK
  BY DEF IInv
<1> QED
  BY <1>1, Invariance, PTL

(* Shutdown that returns nil has answered every request (main.go:101).     *)
THEOREM DrainedAnswered == Spec => []AnsweredIfDrained
<1>1. IInv => AnsweredIfDrained
  BY DEF IInv, ShutdownInv, AnsweredIfDrained, Unanswered
<1> QED
  BY <1>1, Invariance, PTL

(* The deferred db.Close waits for transactions (main.go:42).              *)
THEOREM TransactionsWhole == Spec => []NoTransactionTorn
<1>1. IInv => NoTransactionTorn
  BY DEF IInv, ShutdownInv
<1> QED
  BY <1>1, Invariance, PTL

(* The environment the engine completes is accepted by the API.            *)
THEOREM AlwaysConfigured == Spec => []ApiConfigured
<1>1. IInv => ApiConfigured
  <2> SUFFICES ASSUME IInv, main \in Alive
               PROVE  Load(ApiEnv(env)) /\ Builds(ApiEnv(env))
    BY DEF ApiConfigured
  <2>1. Load(env) /\ env \in Environments
    BY DEF IInv, StartInv, TypeOK, Alive
  <2> QED
    BY <2>1, Completed
<1> QED
  BY <1>1, Invariance, PTL

-----------------------------------------------------------------------------
(* Ctrl+C *)

(* Killed or interrupted, no wrapper starts to build. *)
LEMMA NoneBuilds ==
    ASSUME TypeOK, Kill({"api", "sink"}) \/ InterruptWrappers,
           \A w \in {"api", "sink"} : wrapper[w] # "build"
    PROVE  \A w \in {"api", "sink"} : wrapper'[w] # "build"
BY DEF TypeOK, Kill, InterruptWrappers

(* The API, told to stop, takes no way back. *)
LEMMA MainTold ==
    ASSUME ApiTypeOK, NEW e, Main(e), main \in {"off", "wait", "drain", "close", "gone"},
           main = "wait" => stop = 1
    PROVE  /\ main' \in {"off", "wait", "drain", "close", "gone"}
           /\ main' = "wait" => stop' = 1
BY DEF Main, Configure, OpenDatabase, BuildServices, Spawn, Notify, Bind, ServeFails,
       ExitOnError, BeginShutdown, Drained, ShutdownTimesOut, CloseDatabase, Advance, End

(* Ctrl+C itself, whatever is running. *)
LEMMA TellsEverybody ==
    ASSUME TypeOK, CtrlC
    PROVE  EverybodyTold'
<1>. /\ wrapper \in [{"api", "sink"} -> {"off", "build", "run", "gone"}]
     /\ sink \in {"off", "up", "gone"} /\ main \in {"off", "gone"} \cup Alive
  BY DEF TypeOK, ApiTypeOK
<1>1. sink' # "up" /\ \A w \in {"api", "sink"} : wrapper'[w] # "build"
  BY DEF CtrlC, InterruptWrappers
<1>2. /\ engine' \in {"supervise", "grace", "gone"}
      /\ engine' = "supervise" => caught' = 1
  BY DEF CtrlC, SignalEngine
<1>3. /\ main' \in {"off", "wait", "drain", "close", "gone"}
      /\ main' = "wait" => stop' = 1
  BY DEF CtrlC, Interrupt, End, Notified, api
<1> QED
  BY <1>1, <1>2, <1>3 DEF EverybodyTold

LEMMA ToldStep ==
    ASSUME TypeOK, EverybodyTold, [Next]_vars
    PROVE  EverybodyTold'
<1>1. CASE CtrlC
  BY <1>1, TellsEverybody
<1>2. CASE ~CtrlC /\ pressed' # "yes"
  BY <1>2 DEF EverybodyTold
<1>3. CASE ~CtrlC /\ pressed' = "yes"
  <2>1. pressed = "yes"
    BY <1>3 DEF Next, Engine, Prepare, PrepareFails, StartSink, StartApi, EngineNotify,
       StopChildren, GraceOver, ChildDone, ApiBuilt, SinkBuilt, WrapperEnds, SinkFails,
       ApiMain, ApiHandle, Terminate, vars
  <2>2. /\ sink # "up" /\ \A w \in {"api", "sink"} : wrapper[w] # "build"
        /\ engine \in {"supervise", "grace", "gone"} /\ (engine = "supervise" => caught = 1)
        /\ main \in {"off", "wait", "drain", "close", "gone"} /\ (main = "wait" => stop = 1)
    BY <2>1 DEF EverybodyTold
  <2>. ApiTypeOK /\ wrapper \in [{"api", "sink"} -> {"off", "build", "run", "gone"}]
    BY DEF TypeOK
  <2>3. CASE Engine
    <3>1. \/ engine = "supervise" /\ engine' \in {"grace", "gone"}
          \/ engine = "grace" /\ engine' = "gone"
      BY <2>2, <2>3 DEF Engine, Prepare, PrepareFails, StartSink, StartApi, EngineNotify,
         StopChildren, GraceOver, ChildDone, Preparing
    <3>2. (Kill({"api", "sink"}) \/ InterruptWrappers) /\ UNCHANGED <<sink, api>>
      BY <2>2, <2>3 DEF Engine, Prepare, PrepareFails, StartSink, StartApi, EngineNotify,
         StopChildren, GraceOver, ChildDone, Preparing
    <3> QED
      BY <2>2, <3>1, <3>2, NoneBuilds DEF EverybodyTold, api
  <2>4. CASE SinkFails \/ (\E w \in {"api", "sink"} : WrapperEnds(w)) \/ Terminate
             \/ UNCHANGED vars
    <3>1. /\ sink' \in {sink, "gone"} /\ UNCHANGED api
          /\ \A w \in {"api", "sink"} : wrapper'[w] \in {wrapper[w], "gone"}
      BY <2>4 DEF SinkFails, WrapperEnds, Terminate, vars, processes
    <3>2. engine' \in {engine, "gone"} /\ caught' \in {caught, 1}
      BY <2>4 DEF SinkFails, WrapperEnds, Terminate, SignalEngine, vars
    <3> QED
      BY <2>2, <3>1, <3>2 DEF EverybodyTold, api
  <2>5. CASE ApiBuilt \/ SinkBuilt
    BY <2>2, <2>5 DEF ApiBuilt, SinkBuilt
  <2>6. CASE ApiMain
    <3>1. UNCHANGED <<engine, caught, wrapper, sink>>
      BY <2>6 DEF ApiMain
    <3> QED
      BY <2>2, <2>6, <3>1, MainTold DEF ApiMain, EverybodyTold
  <2>7. ASSUME NEW h \in Handlers, ApiHandle(h)
        PROVE  EverybodyTold'
    <3>1. UNCHANGED <<engine, caught, wrapper, sink, main, stop>>
      BY <2>7 DEF ApiHandle, Handle, Connect, ReadRequest, BeginTx, EndTx, Respond, Moves
    <3> QED
      BY <2>2, <3>1 DEF EverybodyTold
  <2> QED
    BY <1>3, <2>3, <2>4, <2>5, <2>6, <2>7 DEF Next
<1> QED
  BY <1>1, <1>2, <1>3

(* "Press Ctrl+C to stop the API and local SMS sink" (cmd/dev/main.go): at *)
(* whatever moment, everybody has ended or knows that he is to end, and    *)
(* nobody is started after it.                                             *)
THEOREM CtrlCReachesAll == Spec => []EverybodyTold
<1>1. Init => EverybodyTold
  BY DEF Init, EverybodyTold
<1> QED
  BY <1>1, ToldStep, TypeCorrect, PTL DEF Spec
=============================================================================
