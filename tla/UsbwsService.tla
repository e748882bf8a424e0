------------------------------ MODULE UsbwsService ------------------------------
(***************************************************************************)
(* The sessions of a daemon and their threads (usbwsd.c).                  *)
(*                                                                         *)
(* One thread services the context: it runs the callbacks of all           *)
(* connections and checks the sessions between them.  Every established    *)
(* session gets a worker, a thread that serves USB/IP on it with usbws_send*)
(* and usbws_recv.  When the connection is over, the service thread wakes  *)
(* the worker up, joins it, and libwebsockets frees the session.  A worker *)
(* that sends visits all connections of the context, by way of             *)
(* lws_callback_all_protocol, and takes no lock for that.                  *)
(*                                                                         *)
(* What a send and a read do is in UsbwsSend and UsbwsRecvQueue; here they *)
(* are somewhere to sleep.                                                 *)
(***************************************************************************)
EXTENDS Integers

None == "none"

CONSTANTS
  Sessions,        (* connections the daemon accepts                       *)
  TidAfterFailure, (* what a failing pthread_create leaves in tid: a       *)
                   (* subset of {"zero", "garbage"}, {} if it never fails  *)
  ServiceMayFail,  (* lws_service may return an error                      *)
  MaxSigint        (* bound: SIGINTs                                       *)

ASSUME ServiceConstants ==
  /\ None \notin Sessions
  /\ TidAfterFailure \subseteq {"zero", "garbage"}
  /\ ServiceMayFail \in BOOLEAN
  /\ MaxSigint \in Nat

VARIABLES
  ctx_cont, context, cancelled,
  (* each connection, and its session *)
  conn, cont, tid,
  (* the threads *)
  pc,         \* the service thread
  current,    \* the connection whose callback runs
  todo,       \* sessions the health check has still to look at
  worker,
  queue,      \* connections a sending worker has still to visit
  at,         \* the connection it has in hand
  handler,    \* the SIGINT handler
  breaking,   \* connections it may still have to break
  broken,     \* the one it breaks
  sigints

ctxVars == <<ctx_cont, context, cancelled>>
connVars == <<conn, cont, tid>>
serviceVars == <<pc, current, todo>>
workerVars == <<worker, queue, at>>
sigVars == <<handler, breaking, broken, sigints>>
vars == <<ctxVars, connVars, serviceVars, workerVars, sigVars>>

(* Those whose session is in memory.                                       *)
Live == {s \in Sessions : conn[s] \in {"open", "over"}}

Asleep == {"recv", "send"}

TypeOK ==
  /\ ctx_cont \in BOOLEAN /\ cancelled \in BOOLEAN
  /\ context \in {"live", "dying", "destroyed"}
  /\ conn \in [Sessions -> {"none", "open", "over", "freed"}]
  /\ cont \in [Sessions -> BOOLEAN]
  /\ tid \in [Sessions -> {"zero", "thread", "garbage"}]
  /\ pc \in {"loop", "poll", "handle", "start", "over", "signal", "join", "free", "check",
             "expired", "destroy", "ended", "crashed"}
  /\ current \in Sessions \cup {None}
  /\ pc \in {"start", "over", "signal", "join", "free", "expired"} => current # None
  /\ pc \in {"loop", "poll", "handle", "check", "destroy", "ended"} => current = None
  /\ todo \subseteq Sessions
  /\ worker \in [Sessions -> {"none", "begin", "serve", "visit", "ended"} \cup Asleep]
  /\ queue \in [Sessions -> SUBSET Sessions]
  /\ at \in [Sessions -> Sessions \cup {None}]
  /\ handler \in {"ready", "break", "signal", "stop"} /\ sigints \in 0..MaxSigint
  /\ breaking \subseteq Sessions
  /\ broken \in Sessions \cup {None} /\ (handler = "signal" <=> broken # None)

(* usbws_service before its loop.                                          *)
Init ==
  /\ ctx_cont = TRUE /\ context = "live" /\ cancelled = FALSE
  /\ conn = [s \in Sessions |-> "none"]
  /\ cont = [s \in Sessions |-> FALSE]
  /\ tid = [s \in Sessions |-> "zero"]
  /\ pc = "loop" /\ current = None /\ todo = {}
  /\ worker = [s \in Sessions |-> "none"]
  /\ queue = [s \in Sessions |-> {}]
  /\ at = [s \in Sessions |-> None]
  /\ handler = "ready" /\ breaking = {} /\ broken = None /\ sigints = 0

-----------------------------------------------------------------------------
(* usbws_session_discontinue, in two steps: the session is over for those  *)
(* who test cont, which is stored without a lock ...                       *)
Discontinue(s) == cont' = [cont EXCEPT ![s] = FALSE]

(* ... and then whoever sleeps in usbws_send or usbws_recv is woken up.    *)
(* The two signals are one step: a worker sleeps in one call at a time.    *)
(* On a session that was freed in between they wake nobody.                *)
SignalMutant(s) ==                         \* mutant: only recv_queue_cond
  worker' = [worker EXCEPT ![s] = IF @ = "recv" THEN "serve" ELSE @]
Signal(s) == worker' = [worker EXCEPT ![s] = IF @ \in Asleep THEN "serve" ELSE @]

-----------------------------------------------------------------------------
(* The worker: usbws_service_session.                                      *)

(* getpeername or getnameinfo fails and the thread ends, or it serves.     *)
WorkerBegins(s) ==
  /\ worker[s] = "begin"
  /\ \E w \in {"serve", "ended"} : worker' = [worker EXCEPT ![s] = w]
  /\ UNCHANGED <<ctxVars, connVars, serviceVars, queue, at, sigVars>>

(* usbws_recv finds the queue empty.                                       *)
SleepInRecv(s) ==
  /\ worker[s] = "serve" /\ cont[s]
  /\ worker' = [worker EXCEPT ![s] = "recv"]
  /\ UNCHANGED <<ctxVars, connVars, serviceVars, queue, at, sigVars>>

(* A packet arrives.                                                       *)
RecvWakes(s) ==
  /\ worker[s] = "recv"
  /\ pc = "handle" /\ conn[s] = "open"
  /\ worker' = [worker EXCEPT ![s] = "serve"]
  /\ UNCHANGED <<ctxVars, connVars, serviceVars, queue, at, sigVars>>

(* usbws_send: the buffer is published and usbws_request_send begins.      *)
StartSend(s) ==
  /\ worker[s] = "serve"
  /\ worker' = [worker EXCEPT ![s] = "visit"]
  /\ queue' = [queue EXCEPT ![s] = Sessions]
  /\ UNCHANGED <<ctxVars, connVars, serviceVars, at, sigVars>>

(* lws_callback_all_protocol takes a connection from its table, where it   *)
(* may be or not ...                                                       *)
TakeNext(s) ==
  /\ worker[s] = "visit" /\ at[s] = None
  /\ \E c \in queue[s] :
       /\ queue' = [queue EXCEPT ![s] = @ \ {c}]
       /\ at' = [at EXCEPT ![s] = IF c \in Live THEN c ELSE None]
  /\ UNCHANGED <<ctxVars, connVars, serviceVars, worker, sigVars>>

(* ... and calls usbws_handle_send_request on its session, which writes a  *)
(* chunk, perhaps the last, cancels the service or is not meant.           *)
Visit(s) ==
  /\ at[s] \in Live
  /\ at' = [at EXCEPT ![s] = None]
  /\ \/ worker[at[s]] = "send" /\ worker' = [worker EXCEPT ![at[s]] = "serve"]
        /\ UNCHANGED cancelled
     \/ cancelled' = TRUE /\ UNCHANGED worker
     \/ UNCHANGED <<cancelled, worker>>
  /\ UNCHANGED <<ctx_cont, context, connVars, serviceVars, queue, sigVars>>

(* The session was freed meanwhile: nothing, or the end of the process.    *)
VisitFreed(s) ==
  /\ at[s] # None /\ at[s] \notin Live
  /\ \/ at' = [at EXCEPT ![s] = None] /\ UNCHANGED pc
     \/ pc' = "crashed" /\ UNCHANGED at
  /\ UNCHANGED <<ctxVars, connVars, current, todo, worker, queue, sigVars>>

(* The wait of usbws_send, which a session that is over does not begin.    *)
SleepInSend(s) ==
  /\ worker[s] = "visit" /\ queue[s] = {} /\ at[s] = None
  /\ \/ cont[s] /\ worker' = [worker EXCEPT ![s] = "send"]
     \/ worker' = [worker EXCEPT ![s] = "serve"]
  /\ UNCHANGED <<ctxVars, connVars, serviceVars, queue, at, sigVars>>

(* The service thread writes the rest of the buffer.                       *)
SendCompletes(s) ==
  /\ worker[s] = "send"
  /\ pc = "handle" /\ conn[s] = "open"
  /\ worker' = [worker EXCEPT ![s] = "serve"]
  /\ UNCHANGED <<ctxVars, connVars, serviceVars, queue, at, sigVars>>

(* usbws_shutdown by the worker itself, whose signals find nobody asleep.  *)
Shutdown(s) ==
  /\ worker[s] = "serve"
  /\ Discontinue(s)
  /\ UNCHANGED <<ctxVars, conn, tid, serviceVars, workerVars, sigVars>>

(* usbipd_recv_pdu comes back, after an error or at the end of the service.*)
WorkerEnds(s) ==
  /\ worker[s] = "serve"
  /\ worker' = [worker EXCEPT ![s] = "ended"]
  /\ UNCHANGED <<ctxVars, connVars, serviceVars, queue, at, sigVars>>

-----------------------------------------------------------------------------
(* The service thread: usbws_service.                                      *)

TestStopped ==
  /\ pc = "loop"
  /\ \/ ctx_cont /\ pc' = "poll" /\ UNCHANGED context
     \/ ~ctx_cont /\ pc' = "destroy" /\ context' = "dying"
  /\ UNCHANGED <<ctx_cont, cancelled, connVars, current, todo, workerVars, sigVars>>

PollReturn ==
  /\ pc = "poll"
  /\ pc' = "handle" /\ cancelled' = FALSE
  /\ UNCHANGED <<ctx_cont, context, connVars, current, todo, workerVars, sigVars>>

(* LWS_CALLBACK_ESTABLISHED: usbws_session_init, then                      *)
(* usbws_service_start_session.                                            *)
Established(s) ==
  /\ pc = "handle" /\ conn[s] = "none"
  /\ conn' = [conn EXCEPT ![s] = "open"]
  /\ cont' = [cont EXCEPT ![s] = TRUE]
  /\ pc' = "start" /\ current' = s
  /\ UNCHANGED <<ctxVars, tid, todo, workerVars, sigVars>>

StartSession ==
  /\ pc = "start"
  /\ pc' = "handle" /\ current' = None
  /\ tid' = [tid EXCEPT ![current] = "thread"]
  /\ worker' = [worker EXCEPT ![current] = "begin"]
  /\ UNCHANGED <<ctxVars, conn, cont, todo, queue, at, sigVars>>

(* pthread_create fails: the result of -1 makes lws close the connection.  *)
StartFails ==
  /\ pc = "start"
  /\ \E t \in TidAfterFailure : tid' = [tid EXCEPT ![current] = t]
  /\ conn' = [conn EXCEPT ![current] = "over"]
  /\ pc' = "over"
  /\ UNCHANGED <<ctxVars, cont, current, todo, workerVars, sigVars>>

(* A connection ends: by the peer, by TCP, by the pong to a session that   *)
(* is over, or because the context is destroyed.                           *)
ConnectionOver(s) ==
  /\ pc \in {"handle", "destroy"} /\ conn[s] = "open"
  /\ conn' = [conn EXCEPT ![s] = "over"]
  /\ pc' = "over" /\ current' = s
  /\ UNCHANGED <<ctxVars, cont, tid, todo, workerVars, sigVars>>

(* LWS_CALLBACK_CLOSED: usbws_wait_recv and usbws_session_close ...        *)
SessionClose ==
  /\ pc = "over"
  /\ Discontinue(current)
  /\ pc' = "signal"
  /\ UNCHANGED <<ctxVars, conn, tid, current, todo, workerVars, sigVars>>

SessionCloseSignals ==
  /\ pc = "signal"
  /\ Signal(current)
  /\ pc' = "join"
  /\ UNCHANGED <<ctxVars, connVars, current, todo, queue, at, sigVars>>

(* ... and usbws_service_stop_session, which joins the worker, if any.     *)
StopSessionMutant ==                       \* mutant: pthread_detach
  /\ pc = "join" /\ tid[current] \in {"zero", "thread"}
  /\ pc' = "free"
  /\ UNCHANGED <<ctxVars, connVars, current, todo, workerVars, sigVars>>

StopSession ==
  /\ pc = "join"
  /\ \/ tid[current] = "zero"
     \/ tid[current] = "thread" /\ worker[current] = "ended"
  /\ pc' = "free"
  /\ UNCHANGED <<ctxVars, connVars, current, todo, workerVars, sigVars>>

(* pthread_join of something that is no thread.                            *)
JoinsGarbage ==
  /\ pc = "join" /\ tid[current] = "garbage"
  /\ pc' = "crashed"
  /\ UNCHANGED <<ctxVars, connVars, current, todo, workerVars, sigVars>>

(* lws frees the session.                                                  *)
FreeSessionMutant ==                       \* mutant: current is kept
  /\ pc = "free"
  /\ conn' = [conn EXCEPT ![current] = "freed"]
  /\ pc' = IF context = "live" THEN "handle" ELSE "destroy"
  /\ UNCHANGED <<ctxVars, cont, tid, current, todo, workerVars, sigVars>>

FreeSession ==
  /\ pc = "free"
  /\ conn' = [conn EXCEPT ![current] = "freed"]
  /\ pc' = IF context = "live" THEN "handle" ELSE "destroy"
  /\ current' = None
  /\ UNCHANGED <<ctxVars, cont, tid, todo, workerVars, sigVars>>

(* lws_service comes back, and usbws_health_check begins ...               *)
ServiceReturns ==
  /\ pc = "handle"
  /\ pc' = "check" /\ todo' = {s \in Sessions : conn[s] = "open"}
  /\ UNCHANGED <<ctxVars, connVars, current, workerVars, sigVars>>

(* ... or the service is at its end.                                       *)
ServiceFails ==
  /\ ServiceMayFail
  /\ pc = "handle"
  /\ pc' = "destroy" /\ context' = "dying"
  /\ UNCHANGED <<ctx_cont, cancelled, connVars, current, todo, workerVars, sigVars>>

(* usbws_check_session: the session was silent for too long, or not.  When *)
(* it is too long is in UsbwsHealthCheck.                                  *)
CheckSession(s) ==
  /\ pc = "check" /\ s \in todo
  /\ todo' = todo \ {s}
  /\ \/ cont[s] /\ Discontinue(s) /\ pc' = "expired" /\ current' = s
     \/ UNCHANGED <<cont, pc, current>>
  /\ UNCHANGED <<ctxVars, conn, tid, workerVars, sigVars>>

CheckSignals ==
  /\ pc = "expired"
  /\ Signal(current)
  /\ pc' = "check" /\ current' = None
  /\ UNCHANGED <<ctxVars, connVars, todo, queue, at, sigVars>>

CheckEnds ==
  /\ pc = "check" /\ todo = {}
  /\ pc' = "loop"
  /\ UNCHANGED <<ctxVars, connVars, current, todo, workerVars, sigVars>>

(* usbws_ctx_destroy, when every connection is closed.                     *)
ContextDestroyedMutant ==                  \* mutant: exit without closing them
  /\ pc = "destroy"
  /\ context' = "destroyed" /\ pc' = "ended"
  /\ UNCHANGED <<ctx_cont, cancelled, connVars, current, todo, workerVars, sigVars>>

ContextDestroyed ==
  /\ pc = "destroy" /\ \A s \in Sessions : conn[s] # "open"
  /\ context' = "destroyed" /\ pc' = "ended"
  /\ UNCHANGED <<ctx_cont, cancelled, connVars, current, todo, workerVars, sigVars>>

-----------------------------------------------------------------------------
(* SIGINT, in any thread at any time: usbip_break_all_connections calls    *)
(* usbws_shutdown for each socket it knows of, one after the other, then   *)
(* the context is stopped.                                                 *)

BreakConnections ==
  /\ handler = "ready" /\ sigints < MaxSigint
  /\ handler' = "break" /\ breaking' = Sessions /\ sigints' = sigints + 1
  /\ UNCHANGED <<ctxVars, connVars, serviceVars, workerVars, broken>>

AtWork == {s \in Sessions : worker[s] \in {"serve", "visit"} \cup Asleep}

BreakConnection(s) ==
  /\ handler = "break" /\ s \in breaking \cap AtWork
  /\ Discontinue(s)
  /\ handler' = "signal" /\ broken' = s /\ breaking' = breaking \ {s}
  /\ UNCHANGED <<ctxVars, conn, tid, serviceVars, workerVars, sigints>>

BreakSignals ==
  /\ handler = "signal"
  /\ Signal(broken)
  /\ handler' = "break" /\ broken' = None
  /\ UNCHANGED <<ctxVars, connVars, serviceVars, queue, at, breaking, sigints>>

(* The others it does not know of.                                         *)
BreakEnds ==
  /\ handler = "break"
  /\ handler' = "stop" /\ breaking' = {}
  /\ UNCHANGED <<ctxVars, connVars, serviceVars, workerVars, broken, sigints>>

CtxStopMutant == ctx_cont' = FALSE /\ UNCHANGED <<context, cancelled>>  \* mutant: no cancel
CtxStop == ctx_cont' = FALSE /\ cancelled' = TRUE /\ UNCHANGED context

SigintStop ==
  /\ handler = "stop" /\ context # "destroyed"
  /\ handler' = "ready"
  /\ CtxStop
  /\ UNCHANGED <<connVars, serviceVars, workerVars, breaking, broken, sigints>>

(* The context is gone: lws_cancel_service(NULL).                          *)
SigintTooLate ==
  /\ handler = "stop" /\ context = "destroyed"
  /\ handler' = "ready" /\ pc' = "crashed"
  /\ UNCHANGED <<ctxVars, connVars, current, todo, workerVars, breaking, broken, sigints>>

-----------------------------------------------------------------------------
WorkerStep(s) ==
  \/ WorkerBegins(s) \/ SleepInRecv(s) \/ RecvWakes(s) \/ StartSend(s)
  \/ TakeNext(s) \/ Visit(s) \/ VisitFreed(s) \/ SleepInSend(s) \/ SendCompletes(s)
  \/ Shutdown(s) \/ WorkerEnds(s)

(* What the service thread does without waiting for the network.           *)
ServiceStep ==
  \/ TestStopped \/ StartSession \/ StartFails \/ SessionClose \/ SessionCloseSignals
  \/ StopSession \/ JoinsGarbage \/ FreeSession \/ ServiceReturns \/ CheckSignals
  \/ CheckEnds \/ ContextDestroyed
  \/ \E s \in Sessions : CheckSession(s)

ServiceEvent ==
  \/ PollReturn \/ ServiceFails
  \/ \E s \in Sessions : Established(s) \/ ConnectionOver(s)

HandlerStep ==
  \/ BreakSignals \/ BreakEnds \/ SigintStop \/ SigintTooLate
  \/ \E s \in Sessions : BreakConnection(s)

Running ==
  /\ pc # "crashed"
  /\ \/ ServiceStep \/ ServiceEvent
     \/ BreakConnections \/ HandlerStep
     \/ \E s \in Sessions : WorkerStep(s)

Over == pc \in {"ended", "crashed"} /\ UNCHANGED vars

Next == Running \/ Over

Spec == Init /\ [][Next]_vars

(* The threads run and a cancelled poll returns.  The destruction          *)
(* of the context closes every connection.  A worker gets to the end of    *)
(* what it does, and usbipd_recv_pdu comes back when its session is over.  *)
Fairness ==
  /\ WF_vars(ServiceStep)
  /\ WF_vars(PollReturn /\ cancelled)
  /\ WF_vars(pc = "destroy" /\ \E s \in Sessions : ConnectionOver(s))
  /\ WF_vars(pc # "crashed" /\ HandlerStep)
  /\ \A s \in Sessions :
       /\ WF_vars(/\ pc # "crashed"
                  /\ \/ WorkerBegins(s) \/ TakeNext(s) \/ Visit(s) \/ VisitFreed(s)
                     \/ SleepInSend(s))
       /\ SF_vars(pc # "crashed" /\ ~cont[s] /\ WorkerEnds(s))

FairSpec == Spec /\ Fairness

-----------------------------------------------------------------------------
(* Safety.                                                                 *)

(* The whole life of the sessions and their workers: none is freed twice   *)
(* or under its worker, no worker begins once the service is at its end,   *)
(* and the context goes last, when nothing is left behind.                 *)
WorkerState(s) == IF worker[s] \in {"none", "ended"} THEN worker[s] ELSE "running"
MemoryState(s) == IF s \in Live THEN "live" ELSE conn[s]

Life == INSTANCE ContextLife
          WITH memory <- [s \in Sessions |-> MemoryState(s)],
               worker <- [s \in Sessions |-> WorkerState(s)]

KeepsContextLife == Life!Spec

(* The service thread or the SIGINT handler has ended the session and has  *)
(* still to signal.                                                        *)
SignalDue(s) ==
  \/ pc \in {"signal", "expired"} /\ current = s
  \/ handler = "signal" /\ broken = s

(* No worker is left asleep: while its session is over somebody has still  *)
(* to signal, however the close, the health check, the SIGINT handler and  *)
(* the worker itself get between each other in usbws_session_discontinue;  *)
(* and the service thread never waits for a worker that sleeps, though it  *)
(* waits without regard to the others.                                     *)
NobodyLeftAsleep ==
  pc # "crashed" =>
    /\ \A s \in Sessions : worker[s] \in Asleep => cont[s] \/ SignalDue(s)
    /\ pc = "join" => worker[current] \notin Asleep

(* Liveness.                                                               *)

(* After SIGINT the service comes to an end.                               *)
StopEndsService == ~ctx_cont ~> pc \in {"ended", "crashed"}

(* The service thread does not stay with a connection that is over: there  *)
(* is one at a time, the one it has in hand, and it is freed.              *)
NoneOver == \A s \in Sessions : conn[s] # "over"
OverIsFreed == ~NoneOver ~> (NoneOver \/ pc = "crashed")
=============================================================================
