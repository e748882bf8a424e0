------------------------------ MODULE UsbwsClient ------------------------------
(***************************************************************************)
(* One connection of the client (usbws_client.c).                          *)
(*                                                                         *)
(* The main thread of a command opens the connection: it creates a context *)
(* and a thread that services it, and sleeps until the callbacks of that   *)
(* thread say that the connection is established or has failed.  Then it   *)
(* works on the session with usbws_send, usbws_recv and usbws_shutdown,    *)
(* while the thread services the context, and at last frees the socket.    *)
(* The thread ends when the context is stopped: by the end of the          *)
(* connection or by SIGINT.                                                *)
(***************************************************************************)
EXTENDS Integers

CONSTANTS
  MayFail,          (* calls of usbws_client_open that may fail            *)
  ErrorOnDestroy,   (* lws reports an unfinished connection as an error    *)
                    (* when its context is destroyed                       *)
  MaxSigint         (* bound: SIGINTs                                      *)

ASSUME ClientConstants ==
  /\ MayFail \subseteq {"context", "proxy", "connect", "sock", "thread"}
  /\ ErrorOnDestroy \in BOOLEAN
  /\ MaxSigint \in Nat

VARIABLES
  (* struct usbws_client *)
  started,       \* 0, 1: established, -1: failed or over
  wsi,           \* client->wsi is set
  ctx_cont, context,
  (* libwebsockets *)
  conn, cancelled,
  session,       \* the memory of the session
  cont,          \* session->cont
  (* the threads and the SIGINT handler *)
  main, thread, handler,
  sock,          \* the memory of the socket
  (* history *)
  established,   \* the connection was established
  reason,        \* there was a reason to end the connection
  sigints,
  crashed        \* lws_cancel_service(NULL)

clientVars == <<started, wsi, ctx_cont, context>>
lwsVars == <<conn, cancelled, session, cont>>
histVars == <<established, reason, sigints, crashed>>
vars == <<clientVars, lwsVars, main, thread, handler, sock, histVars>>

MainPc == {"context", "proxy", "connect", "sock", "thread", "wait", "blocked",
           "woken", "use", "failed", "closed"}

(* Between "closed" and "free" the thread is in the callback that ends the *)
(* connection.                                                             *)
ThreadPc == {"none", "loop", "service", "established", "closed", "stop", "notify",
             "free", "leave", "destroy", "ended"}

TypeOK ==
  /\ started \in {-1, 0, 1}
  /\ wsi \in BOOLEAN /\ ctx_cont \in BOOLEAN /\ cancelled \in BOOLEAN /\ cont \in BOOLEAN
  /\ established \in BOOLEAN /\ reason \in BOOLEAN /\ crashed \in BOOLEAN
  /\ context \in {"none", "live", "dying", "destroyed"}
  /\ conn \in {"none", "connecting", "established", "over"}
  /\ session \in {"none", "live", "freed"}
  /\ main \in MainPc /\ thread \in ThreadPc
  /\ handler \in {"off", "ready", "stop"}
  /\ sock \in {"none", "allocated", "freed"}
  /\ sigints \in 0..MaxSigint

(* usbws_client_init.                                                      *)
Init ==
  /\ started = 0 /\ wsi = FALSE /\ ctx_cont = TRUE /\ context = "none"
  /\ conn = "none" /\ cancelled = FALSE /\ session = "none" /\ cont = FALSE
  /\ main = "context" /\ thread = "none" /\ handler = "off" /\ sock = "none"
  /\ established = FALSE /\ reason = FALSE /\ sigints = 0
  /\ crashed = FALSE

(* __notify_start.                                                         *)
NotifyMutant(val) == started' = val /\ UNCHANGED main  \* mutant: no signal
Notify(val) ==
  /\ started' = val
  /\ main' = IF main = "blocked" THEN "woken" ELSE main

(* usbws_ctx_stop of a context that is there.                              *)
CtxStopMutant == ctx_cont' = FALSE /\ UNCHANGED cancelled  \* mutant: no cancel
CtxStop == ctx_cont' = FALSE /\ cancelled' = TRUE

-----------------------------------------------------------------------------
(* usbws_client_open.                                                      *)

CreateContext ==
  /\ main = "context"
  /\ \/ context' = "live" /\ main' = "proxy"
     \/ "context" \in MayFail /\ main' = "failed" /\ UNCHANGED context
  /\ UNCHANGED <<started, wsi, ctx_cont, lwsVars, thread, handler, sock, histVars>>

(* usbws_client_stop_session as a whole, for nobody but this thread.       *)
StopSessionAlone ==
  /\ wsi' = FALSE /\ CtxStop
  /\ started' = -1

(* err_destroy_context, as long as there is no thread.  The callback of a  *)
(* connection that the destroyed context reports as an error runs in this  *)
(* thread.                                                                 *)
DestroyContextMutant ==                    \* mutant: goto err_out
  /\ main' = "failed"
  /\ UNCHANGED <<clientVars, conn, cancelled>>

DestroyContext ==
  /\ main' = "failed"
  /\ context' = "destroyed"
  /\ conn' = IF conn = "none" THEN conn ELSE "over"
  /\ IF conn = "connecting" /\ ErrorOnDestroy
     THEN StopSessionAlone
     ELSE UNCHANGED <<started, wsi, ctx_cont, cancelled>>

SetProxy ==
  /\ main = "proxy"
  /\ \/ main' = "connect" /\ UNCHANGED <<clientVars, conn, cancelled>>
     \/ "proxy" \in MayFail /\ DestroyContext
  /\ UNCHANGED <<session, cont, thread, handler, sock, histVars>>

Connect ==
  /\ main = "connect"
  /\ \/ conn' = "connecting" /\ main' = "sock" /\ UNCHANGED <<clientVars, cancelled>>
     \/ "connect" \in MayFail /\ DestroyContext
  /\ UNCHANGED <<session, cont, thread, handler, sock, histVars>>

(* calloc, and usbws_set_sigint after it.                                  *)
AllocSock ==
  /\ main = "sock"
  /\ \/ sock' = "allocated" /\ handler' = "ready" /\ main' = "thread"
        /\ UNCHANGED <<clientVars, conn, cancelled>>
     \/ "sock" \in MayFail /\ DestroyContext /\ UNCHANGED <<sock, handler>>
  /\ UNCHANGED <<session, cont, thread, histVars>>

CreateThread ==
  /\ main = "thread"
  /\ \/ thread' = "loop" /\ main' = "wait" /\ UNCHANGED <<clientVars, conn, cancelled>>
     \/ "thread" \in MayFail /\ DestroyContext /\ UNCHANGED thread
  /\ UNCHANGED <<session, cont, handler, sock, histVars>>

(* usbws_client_wait_start: the test and the wait hold client->lock.       *)
WaitStart ==
  /\ main = "wait"
  /\ main' = IF started = 0 THEN "blocked" ELSE "woken"
  /\ UNCHANGED <<clientVars, lwsVars, thread, handler, sock, histVars>>

SpuriousWakeup ==
  /\ main = "blocked"
  /\ main' = "wait"
  /\ UNCHANGED <<clientVars, lwsVars, thread, handler, sock, histVars>>

(* free(sock), which TypeOK says happens once.                             *)
FreeSock == sock' = IF sock = "allocated" THEN "freed" ELSE "freed twice"

(* started is read again after the lock is released.                       *)
OpenReturnMutant ==                        \* mutant: not looked at again
  /\ main = "woken"
  /\ main' = "use"
  /\ UNCHANGED <<clientVars, lwsVars, thread, handler, sock, histVars>>

FallThroughMutant ==                       \* mutant: no return sock
  /\ main = "woken"
  /\ main' = "use" /\ FreeSock
  /\ UNCHANGED <<clientVars, lwsVars, thread, handler, histVars>>

OpenReturn ==
  /\ main = "woken"
  /\ \/ started # -1 /\ main' = "use" /\ UNCHANGED sock
     \/ started = -1 /\ main' = "failed" /\ FreeSock
  /\ UNCHANGED <<clientVars, lwsVars, thread, handler, histVars>>

-----------------------------------------------------------------------------
(* The command at work on the session.                                     *)

(* usbws_session_discontinue; what it signals to is in UsbwsSend and       *)
(* UsbwsRecvQueue.                                                         *)
Discontinue == cont' = FALSE

Shutdown ==
  /\ main = "use"
  /\ Discontinue /\ reason' = TRUE
  /\ UNCHANGED <<clientVars, conn, cancelled, session, main, thread, handler, sock,
                 established, sigints, crashed>>

(* usbws_client_close.                                                     *)
CloseSock ==
  /\ main = "use"
  /\ main' = "closed" /\ FreeSock
  /\ UNCHANGED <<clientVars, lwsVars, thread, handler, histVars>>

-----------------------------------------------------------------------------
(* usbws_client, the thread.                                               *)

TestStopped ==
  /\ thread = "loop"
  /\ thread' = IF ctx_cont THEN "service" ELSE "leave"
  /\ UNCHANGED <<clientVars, lwsVars, main, handler, sock, histVars>>

(* lws_service comes back without a callback of this connection.           *)
Serviced ==
  /\ thread = "service"
  /\ cancelled' = FALSE
  /\ thread' = "loop"
  /\ UNCHANGED <<clientVars, conn, session, cont, main, handler, sock, histVars>>

ServiceFails ==
  /\ thread = "service"
  /\ thread' = "leave" /\ reason' = TRUE
  /\ UNCHANGED <<clientVars, lwsVars, main, handler, sock, established, sigints,
                 crashed>>

(* LWS_CALLBACK_CLIENT_ESTABLISHED: usbws_session_init, then               *)
(* usbws_client_start_session.                                             *)
Established ==
  /\ thread = "service" /\ conn = "connecting"
  /\ conn' = "established" /\ established' = TRUE
  /\ session' = "live" /\ cont' = TRUE /\ wsi' = TRUE
  /\ thread' = "established"
  /\ UNCHANGED <<started, ctx_cont, context, cancelled, main, handler, sock, reason,
                 sigints, crashed>>

(* It ends without a return statement: lws closes the connection if what   *)
(* it finds for a result is not 0.                                         *)
NotifyStart ==
  /\ thread = "established"
  /\ Notify(1)
  /\ thread' \in {"loop", "closed"}
  /\ UNCHANGED <<wsi, ctx_cont, context, lwsVars, handler, sock, histVars>>

(* LWS_CALLBACK_CLIENT_CONNECTION_ERROR.                                   *)
ConnectionError ==
  /\ thread = "service" /\ conn = "connecting"
  /\ conn' = "over" /\ thread' = "stop" /\ reason' = TRUE
  /\ UNCHANGED <<clientVars, cancelled, session, cont, main, handler, sock,
                 established, sigints, crashed>>

(* The peer closes the connection, or TCP gives it up.                     *)
PeerCloses ==
  /\ thread = "service" /\ conn = "established"
  /\ thread' = "closed" /\ reason' = TRUE
  /\ UNCHANGED <<clientVars, lwsVars, main, handler, sock, established, sigints,
                 crashed>>

(* LWS_CALLBACK_CLOSED: usbws_wait_recv and usbws_session_close.           *)
SessionClose ==
  /\ thread = "closed"
  /\ cont' = FALSE /\ conn' = "over"
  /\ thread' = "stop"
  /\ UNCHANGED <<clientVars, cancelled, session, main, handler, sock, histVars>>

(* usbws_client_stop_session: client->wsi = NULL, usbws_ctx_stop ...       *)
StopSessionMutant ==                       \* mutant: client->wsi is kept
  /\ thread = "stop"
  /\ CtxStop
  /\ thread' = "notify"
  /\ UNCHANGED <<started, wsi, context, conn, session, cont, main, handler, sock, histVars>>

StopSession ==
  /\ thread = "stop"
  /\ wsi' = FALSE /\ CtxStop
  /\ thread' = "notify"
  /\ UNCHANGED <<started, context, conn, session, cont, main, handler, sock, histVars>>

(* ... and usbws_client_notify_error.                                      *)
NotifyError ==
  /\ thread = "notify"
  /\ Notify(-1)
  /\ thread' = "free"
  /\ UNCHANGED <<wsi, ctx_cont, context, lwsVars, handler, sock, histVars>>

(* lws frees the session of the connection that is over; the loop goes on, *)
(* or the context is gone if all this happened in lws_context_destroy.     *)
FreeSession ==
  /\ thread = "free"
  /\ session' = IF session = "live" THEN "freed" ELSE session
  /\ \/ context = "live" /\ thread' = "loop" /\ UNCHANGED context
     \/ context = "dying" /\ thread' = "ended" /\ context' = "destroyed"
  /\ UNCHANGED <<started, wsi, ctx_cont, conn, cancelled, cont, main, handler, sock,
                 histVars>>

(* After the loop: discontinue what client->wsi still names.               *)
LeaveLoop ==
  /\ thread = "leave"
  /\ IF wsi THEN Discontinue ELSE UNCHANGED cont
  /\ thread' = "destroy" /\ reason' = TRUE
  /\ UNCHANGED <<clientVars, conn, cancelled, session, main, handler, sock,
                 established, sigints, crashed>>

(* usbws_ctx_destroy: the connection ends with its callback.               *)
DestroyOwnContext ==
  /\ thread = "destroy"
  /\ \/ conn = "established"
        /\ thread' = "closed" /\ context' = "dying" /\ UNCHANGED conn
     \/ conn = "connecting" /\ ErrorOnDestroy
        /\ thread' = "stop" /\ context' = "dying" /\ conn' = "over"
     \/ (conn = "over" \/ ~ErrorOnDestroy) /\ conn # "established"
        /\ thread' = "ended" /\ context' = "destroyed" /\ conn' = "over"
  /\ UNCHANGED <<started, wsi, ctx_cont, cancelled, session, cont, main, handler,
                 sock, histVars>>

-----------------------------------------------------------------------------
(* SIGINT: usbip_break_all_connections shuts down the socket of a command  *)
(* that is at work, then the context is stopped.                           *)

BreakConnections ==
  /\ handler = "ready" /\ sigints < MaxSigint
  /\ handler' = "stop" /\ sigints' = sigints + 1
  /\ IF main = "use"
     THEN Discontinue /\ reason' = TRUE
     ELSE UNCHANGED <<cont, reason>>
  /\ UNCHANGED <<clientVars, conn, cancelled, session, main, thread, sock,
                 established, crashed>>

(* The context may be gone: lws_cancel_service(NULL).                      *)
SigintStop ==
  /\ handler = "stop"
  /\ handler' = "ready"
  /\ \/ context \in {"live", "dying"} /\ CtxStop /\ UNCHANGED crashed
     \/ context = "destroyed" /\ ctx_cont' = FALSE /\ crashed' = TRUE
        /\ UNCHANGED cancelled
  /\ UNCHANGED <<started, wsi, context, conn, session, cont, main, thread, sock,
                 established, reason, sigints>>

-----------------------------------------------------------------------------
OpenStep ==
  \/ CreateContext \/ SetProxy \/ Connect \/ AllocSock \/ CreateThread
  \/ WaitStart \/ OpenReturn

UseStep == Shutdown \/ CloseSock

(* What the thread does without waiting for the network.                   *)
ThreadStep ==
  \/ TestStopped \/ NotifyStart \/ SessionClose \/ StopSession \/ NotifyError
  \/ FreeSession \/ LeaveLoop \/ DestroyOwnContext

ServiceEvent == Serviced \/ ServiceFails \/ Established \/ ConnectionError \/ PeerCloses

Running ==
  /\ ~crashed
  /\ OpenStep \/ SpuriousWakeup \/ UseStep \/ ThreadStep \/ ServiceEvent
     \/ BreakConnections \/ SigintStop

(* The process is dead, or its main thread is done and nothing is left to  *)
(* do for the other one.                                                   *)
Over ==
  /\ crashed \/ (main \in {"failed", "closed"} /\ thread \in {"none", "ended"})
  /\ UNCHANGED vars

Next == Running \/ Over

Spec == Init /\ [][Next]_vars

(* Threads run, a cancelled service comes back, and a connection under way *)
(* is established or fails: lws gives up after a timeout.                  *)
Fairness ==
  /\ WF_vars(~crashed /\ OpenStep)
  /\ WF_vars(~crashed /\ ThreadStep)
  /\ WF_vars(~crashed /\ Serviced /\ cancelled)
  /\ SF_vars(~crashed /\ (Established \/ ConnectionError))
  /\ WF_vars(~crashed /\ SigintStop)

FairSpec == Spec /\ Fairness

-----------------------------------------------------------------------------
(* Safety.                                                                 *)

(* usbws_client_open returns a socket only for a connection that was       *)
(* established, with a session that was initialised before it is used.     *)
OpenMeansEstablished ==
  main = "use" => established /\ session # "none" /\ sock = "allocated"

(* client->wsi never names a session whose memory is gone: the thread uses *)
(* it on its way out.                                                      *)
WsiIsLive == wsi => session = "live"

(* An open that fails destroys the context it made or leaves it to the     *)
(* thread that services it, never both, and leaves no socket unless it is  *)
(* pthread_create that failed (client.c:149 skips err_free_sock).          *)
FailedIsClean ==
  main = "failed" =>
    IF thread = "none" THEN context # "live"
    ELSE /\ sock # "allocated"
         /\ thread \in {"loop", "service", "leave", "destroy"} => context = "live"

(* A connection ends only for a reason: the peer, the network, SIGINT, the *)
(* command itself or the end of the service.                               *)
EstablishedStays == established /\ conn = "over" => reason

(* Liveness.                                                               *)

(* usbws_client_open comes back: whoever ends the connection notifies it.  *)
OpenReturns ==
  (main \in {"wait", "blocked"}) ~> (main \in {"use", "failed", "closed"} \/ crashed)

(* Once the context is stopped, by SIGINT or by the end of the connection, *)
(* the thread ends.                                                        *)
StopEndsThread == (~ctx_cont /\ thread # "none") ~> (thread = "ended" \/ crashed)
=============================================================================
