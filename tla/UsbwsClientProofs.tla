--------------------------- MODULE UsbwsClientProofs ---------------------------
(***************************************************************************)
(* Proofs about one connection of the client, whatever may fail, however   *)
(* lws reports an unfinished connection and however many SIGINTs there     *)
(* are.  The properties hold by one inductive invariant: it says which     *)
(* memory and which context there are at each place of the two threads.    *)
(***************************************************************************)
EXTENDS UsbwsClient, TLAPS

(* Where usbws_client_open stands before there is a thread to service the  *)
(* context, and between that and its end or the end of the command.        *)
Opening == {"context", "proxy", "connect", "sock", "thread"}
Opened == {"wait", "blocked", "woken", "use"}

(* What the main thread has made: the context, then the socket, then the   *)
(* thread.                                                                 *)
MainInv ==
  /\ main \in Opening => thread = "none"
  /\ main \in Opened => thread # "none"
  /\ main = "context" => context = "none"
  /\ main \in Opening \ {"context"} => context = "live"
  /\ main \in Opened \cup {"thread"} => sock = "allocated"

(* The thread is in its loop as long as the context is not being           *)
(* destroyed, and destroys it at the end of its last callback.             *)
ThreadInv ==
  /\ thread \in {"loop", "service", "established", "leave", "destroy"} => context = "live"
  /\ thread \in {"closed", "stop", "notify", "free"} => context \in {"live", "dying"}

(* What the callbacks have told the main thread is so: there was a session *)
(* by the time started became 1, and client->wsi is gone before it is.     *)
SessionInv ==
  /\ started = 1 \/ thread = "established" => established
  /\ main = "woken" => started # 0
  /\ main = "use" => established
  /\ established => session # "none"
  /\ thread \in {"notify", "free"} => ~wsi

PlaceInv == MainInv /\ ThreadInv /\ SessionInv /\ WsiIsLive /\ FailedIsClean
IInv == TypeOK /\ PlaceInv

(* TypeOK in two parts: the provers treat truth values apart.              *)
Flags ==
  /\ wsi \in BOOLEAN /\ ctx_cont \in BOOLEAN /\ cancelled \in BOOLEAN /\ cont \in BOOLEAN
  /\ established \in BOOLEAN /\ reason \in BOOLEAN /\ crashed \in BOOLEAN

Values ==
  /\ started \in {-1, 0, 1}
  /\ context \in {"none", "live", "dying", "destroyed"}
  /\ conn \in {"none", "connecting", "established", "over"}
  /\ session \in {"none", "live", "freed"}
  /\ main \in MainPc /\ thread \in ThreadPc
  /\ handler \in {"off", "ready", "stop"}
  /\ sock \in {"none", "allocated", "freed"}
  /\ sigints \in 0..MaxSigint

LEMMA InvInit == Init => IInv
<1> SUFFICES ASSUME Init PROVE IInv
  OBVIOUS
<1>1. Flags
  BY DEF Init, Flags
<1>2. Values
  BY ClientConstants DEF Init, Values, MainPc, ThreadPc
<1>3. PlaceInv
  BY DEF Init, PlaceInv, MainInv, ThreadInv, SessionInv, WsiIsLive, FailedIsClean,
     Opening, Opened
<1> QED
  BY <1>1, <1>2, <1>3 DEF IInv, TypeOK, Flags, Values

(* A flag is set, cleared or left alone.                                   *)
LEMMA FlagsNext == TypeOK /\ [Next]_vars => Flags'
<1> SUFFICES ASSUME TypeOK, [Next]_vars PROVE Flags'
  OBVIOUS
<1> USE DEF TypeOK, Flags, clientVars, lwsVars, histVars
<1>1. CASE CreateContext
  BY <1>1 DEF CreateContext
<1>2. CASE SetProxy
  BY <1>2 DEF SetProxy, DestroyContext, StopSessionAlone, CtxStop
<1>3. CASE Connect
  BY <1>3 DEF Connect, DestroyContext, StopSessionAlone, CtxStop
<1>4. CASE AllocSock
  BY <1>4 DEF AllocSock, DestroyContext, StopSessionAlone, CtxStop
<1>5. CASE CreateThread
  BY <1>5 DEF CreateThread, DestroyContext, StopSessionAlone, CtxStop
<1>6. CASE WaitStart \/ SpuriousWakeup
  BY <1>6 DEF WaitStart, SpuriousWakeup
<1>7. CASE OpenReturn
  BY <1>7 DEF OpenReturn, FreeSock
<1>8. CASE Shutdown
  BY <1>8 DEF Shutdown, Discontinue
<1>9. CASE CloseSock
  BY <1>9 DEF CloseSock, FreeSock
<1>10. CASE TestStopped
  BY <1>10 DEF TestStopped
<1>11. CASE Serviced \/ ServiceFails
  BY <1>11 DEF Serviced, ServiceFails
<1>12. CASE Established
  BY <1>12 DEF Established
<1>13. CASE NotifyStart
  BY <1>13 DEF NotifyStart, Notify
<1>14. CASE ConnectionError \/ PeerCloses
  BY <1>14 DEF ConnectionError, PeerCloses
<1>15. CASE SessionClose
  BY <1>15 DEF SessionClose
<1>16. CASE StopSession
  BY <1>16 DEF StopSession, CtxStop
<1>17. CASE NotifyError
  BY <1>17 DEF NotifyError, Notify
<1>18. CASE FreeSession
  BY <1>18 DEF FreeSession
<1>19. CASE LeaveLoop
  BY <1>19 DEF LeaveLoop, Discontinue
<1>20. CASE DestroyOwnContext
  BY <1>20 DEF DestroyOwnContext
<1>21. CASE BreakConnections
  BY <1>21 DEF BreakConnections, Discontinue
<1>22. CASE SigintStop
  BY <1>22 DEF SigintStop, CtxStop
<1>23. CASE UNCHANGED vars
  BY <1>23 DEF vars
<1> QED
  BY <1>1, <1>2, <1>3, <1>4, <1>5, <1>6, <1>7, <1>8, <1>9, <1>10, <1>11, <1>12,
     <1>13, <1>14, <1>15, <1>16, <1>17, <1>18, <1>19, <1>20, <1>21, <1>22, <1>23
     DEF Next, Running, Over, OpenStep, UseStep, ThreadStep, ServiceEvent

(* The socket is freed where it is allocated, so a type has all it needs.  *)
LEMMA ValuesNext == IInv /\ [Next]_vars => Values'
<1> SUFFICES ASSUME IInv, [Next]_vars PROVE Values'
  OBVIOUS
<1>0. TypeOK /\ (main \in Opened => sock = "allocated")
  BY DEF IInv, PlaceInv, MainInv
<1> USE <1>0 DEF TypeOK, Values, MainPc, ThreadPc, Opened, clientVars, lwsVars, histVars
<1>1. CASE CreateContext
  BY <1>1 DEF CreateContext
<1>2. CASE SetProxy
  BY <1>2 DEF SetProxy, DestroyContext, StopSessionAlone, CtxStop
<1>3. CASE Connect
  BY <1>3 DEF Connect, DestroyContext, StopSessionAlone, CtxStop
<1>4. CASE AllocSock
  BY <1>4 DEF AllocSock, DestroyContext, StopSessionAlone, CtxStop
<1>5. CASE CreateThread
  BY <1>5 DEF CreateThread, DestroyContext, StopSessionAlone, CtxStop
<1>6. CASE WaitStart \/ SpuriousWakeup
  BY <1>6 DEF WaitStart, SpuriousWakeup
<1>7. CASE OpenReturn
  BY <1>7 DEF OpenReturn, FreeSock
<1>8. CASE Shutdown
  BY <1>8 DEF Shutdown, Discontinue
<1>9. CASE CloseSock
  BY <1>9 DEF CloseSock, FreeSock
<1>10. CASE TestStopped
  BY <1>10 DEF TestStopped
<1>11. CASE Serviced \/ ServiceFails
  BY <1>11 DEF Serviced, ServiceFails
<1>12. CASE Established
  BY <1>12 DEF Established
<1>13. CASE NotifyStart
  BY <1>13 DEF NotifyStart, Notify
<1>14. CASE ConnectionError \/ PeerCloses
  BY <1>14 DEF ConnectionError, PeerCloses
<1>15. CASE SessionClose
  BY <1>15 DEF SessionClose
<1>16. CASE StopSession
  BY <1>16 DEF StopSession, CtxStop
<1>17. CASE NotifyError
  BY <1>17 DEF NotifyError, Notify
<1>18. CASE FreeSession
  BY <1>18 DEF FreeSession
<1>19. CASE LeaveLoop
  BY <1>19 DEF LeaveLoop, Discontinue
<1>20. CASE DestroyOwnContext
  BY <1>20 DEF DestroyOwnContext
<1>21. CASE BreakConnections
  BY <1>21, ClientConstants DEF BreakConnections, Discontinue
<1>22. CASE SigintStop
  BY <1>22 DEF SigintStop, CtxStop
<1>23. CASE UNCHANGED vars
  BY <1>23 DEF vars
<1> QED
  BY <1>1, <1>2, <1>3, <1>4, <1>5, <1>6, <1>7, <1>8, <1>9, <1>10, <1>11, <1>12,
     <1>13, <1>14, <1>15, <1>16, <1>17, <1>18, <1>19, <1>20, <1>21, <1>22, <1>23
     DEF Next, Running, Over, OpenStep, UseStep, ThreadStep, ServiceEvent

LEMMA TypeNext == IInv /\ [Next]_vars => TypeOK'
  BY FlagsNext, ValuesNext DEF IInv, TypeOK, Flags, Values

(* Every step leads from one place of the two threads to another.          *)
LEMMA PlaceNext == IInv /\ [Next]_vars => PlaceInv'
<1> SUFFICES ASSUME IInv, [Next]_vars PROVE PlaceInv'
  OBVIOUS
<1> USE DEF IInv, PlaceInv, MainInv, ThreadInv, SessionInv, WsiIsLive, FailedIsClean,
            Opening, Opened, clientVars, lwsVars, histVars
<1>1. CASE CreateContext
  BY <1>1 DEF CreateContext
<1>2. CASE SetProxy
  BY <1>2 DEF SetProxy, DestroyContext, StopSessionAlone, CtxStop
<1>3. CASE Connect
  BY <1>3 DEF Connect, DestroyContext, StopSessionAlone, CtxStop
<1>4. CASE AllocSock
  BY <1>4 DEF AllocSock, DestroyContext, StopSessionAlone, CtxStop
<1>5. CASE CreateThread
  BY <1>5 DEF CreateThread, DestroyContext, StopSessionAlone, CtxStop
<1>6. CASE WaitStart \/ SpuriousWakeup
  BY <1>6 DEF WaitStart, SpuriousWakeup
<1>7. CASE OpenReturn
  BY <1>7 DEF OpenReturn, FreeSock, TypeOK
<1>8. CASE Shutdown
  BY <1>8 DEF Shutdown, Discontinue
<1>9. CASE CloseSock
  BY <1>9 DEF CloseSock, FreeSock
<1>10. CASE TestStopped
  BY <1>10 DEF TestStopped
<1>11. CASE Serviced \/ ServiceFails
  BY <1>11 DEF Serviced, ServiceFails
<1>12. CASE Established
  BY <1>12 DEF Established
<1>13. CASE NotifyStart
  BY <1>13 DEF NotifyStart, Notify
<1>14. CASE ConnectionError \/ PeerCloses
  BY <1>14 DEF ConnectionError, PeerCloses
<1>15. CASE SessionClose
  BY <1>15 DEF SessionClose
<1>16. CASE StopSession
  BY <1>16 DEF StopSession, CtxStop
<1>17. CASE NotifyError
  BY <1>17 DEF NotifyError, Notify
<1>18. CASE FreeSession
  BY <1>18 DEF FreeSession
<1>19. CASE LeaveLoop
  BY <1>19 DEF LeaveLoop, Discontinue
<1>20. CASE DestroyOwnContext
  BY <1>20 DEF DestroyOwnContext
<1>21. CASE BreakConnections
  BY <1>21 DEF BreakConnections, Discontinue
<1>22. CASE SigintStop
  BY <1>22 DEF SigintStop, CtxStop
<1>23. CASE UNCHANGED vars
  BY <1>23 DEF vars
<1> QED
  BY <1>1, <1>2, <1>3, <1>4, <1>5, <1>6, <1>7, <1>8, <1>9, <1>10, <1>11, <1>12,
     <1>13, <1>14, <1>15, <1>16, <1>17, <1>18, <1>19, <1>20, <1>21, <1>22, <1>23
     DEF Next, Running, Over, OpenStep, UseStep, ThreadStep, ServiceEvent

LEMMA InvCorrect == Spec => []IInv
  BY InvInit, TypeNext, PlaceNext, PTL DEF Spec, IInv

(* Every variable of a connection has a value of its type; of the socket   *)
(* this says that usbws_client_open and usbws_client_close free it once.   *)
THEOREM TypeCorrect == Spec => []TypeOK
<1>1. IInv => TypeOK
  BY DEF IInv
<1> QED
  BY <1>1, InvCorrect, PTL

(* usbws_client_open hands out a socket only for a connection that was     *)
(* established and has a session, and the socket is not freed.             *)
THEOREM OpenMeansEstablishedSafe == Spec => []OpenMeansEstablished
<1>1. IInv => OpenMeansEstablished
  BY DEF IInv, PlaceInv, MainInv, SessionInv, OpenMeansEstablished, Opened
<1> QED
  BY <1>1, InvCorrect, PTL

(* client->wsi, which the thread uses on its way out, never names a        *)
(* session whose memory libwebsockets has freed.                           *)
THEOREM WsiIsLiveSafe == Spec => []WsiIsLive
<1>1. IInv => WsiIsLive
  BY DEF IInv, PlaceInv
<1> QED
  BY <1>1, InvCorrect, PTL

(* When usbws_client_open fails, the context is destroyed or left to the   *)
(* thread, and the socket is freed unless there is no thread.              *)
THEOREM FailedIsCleanSafe == Spec => []FailedIsClean
<1>1. IInv => FailedIsClean
  BY DEF IInv, PlaceInv
<1> QED
  BY <1>1, InvCorrect, PTL

-----------------------------------------------------------------------------
(* The sleep of usbws_client_open.                                         *)

(* The main thread waits for started to be set; a connection that is over  *)
(* sets it, too, so there is no other end of the wait.                     *)
Open == INSTANCE SleepingCall
          WITH asleep <- main = "blocked", ready <- started # 0,
               over <- FALSE, due <- FALSE

SleepsAsPromised == Open!Spec

(* started is tested and set under client->lock: whoever sets it wakes up  *)
(* the main thread, or finds it awake.                                     *)
LEMMA OpenNext == [Next]_vars => [Open!Next]_(Open!vars)
<1> SUFFICES ASSUME [Next]_vars PROVE [Open!Next]_(Open!vars)
  OBVIOUS
<1> USE DEF clientVars, lwsVars, histVars
<1>a. ASSUME main' # "blocked" PROVE Open!Next
  BY <1>a DEF Open!Next, Open!Awake
<1>b. ASSUME UNCHANGED <<main, started>> PROVE UNCHANGED Open!vars
  BY <1>b DEF Open!vars
<1>1. CASE CreateContext \/ SetProxy \/ Connect \/ AllocSock \/ CreateThread
  BY <1>1, <1>a DEF CreateContext, SetProxy, Connect, AllocSock, CreateThread, DestroyContext
<1>2. CASE WaitStart
  <2>1. CASE started = 0
    BY <1>2, <2>1 DEF WaitStart, Open!Next, Open!Sleep
  <2>2. CASE started # 0
    BY <1>2, <1>a, <2>2 DEF WaitStart
  <2> QED
    BY <2>1, <2>2
<1>3. CASE SpuriousWakeup \/ OpenReturn \/ CloseSock
  BY <1>3, <1>a DEF SpuriousWakeup, OpenReturn, CloseSock
<1>4. CASE NotifyStart \/ NotifyError
  BY <1>4, <1>a DEF NotifyStart, NotifyError, Notify
<1>5. CASE Shutdown \/ TestStopped \/ SessionClose \/ StopSession \/ FreeSession
           \/ LeaveLoop \/ DestroyOwnContext \/ Serviced \/ ServiceFails \/ Established
           \/ ConnectionError \/ PeerCloses \/ BreakConnections \/ SigintStop
           \/ UNCHANGED vars
  BY <1>5, <1>b DEF Shutdown, TestStopped, SessionClose, StopSession, FreeSession, LeaveLoop,
     DestroyOwnContext, Serviced, ServiceFails, Established, ConnectionError, PeerCloses,
     BreakConnections, SigintStop, vars
<1> QED
  BY <1>1, <1>2, <1>3, <1>4, <1>5
     DEF Next, Running, Over, OpenStep, UseStep, ThreadStep, ServiceEvent

(* usbws_client_open sleeps only while nothing is known of the connection, *)
(* and is woken up when it is established, has failed or is over, whatever *)
(* may fail and whenever SIGINT comes.                                     *)
THEOREM SleepsAsPromisedCorrect == Spec => SleepsAsPromised
<1>1. Init => Open!Init
  BY DEF Init, Open!Init
<1> QED
  BY <1>1, OpenNext, PTL DEF Spec, SleepsAsPromised, Open!Spec
=============================================================================
