-------------------------- MODULE UsbwsServiceProofs --------------------------
(***************************************************************************)
(* Proofs about UsbwsService, for any number of connections and SIGINTs.   *)
(***************************************************************************)
EXTENDS UsbwsService, TLAPS

-----------------------------------------------------------------------------
(* Types.                                                                  *)

(* Every variable starts in its type.                                      *)
LEMMA TypeInit == Init => TypeOK
<1> SUFFICES ASSUME Init PROVE TypeOK
  OBVIOUS
<1>1. /\ queue \in [Sessions -> SUBSET Sessions]
      /\ at \in [Sessions -> Sessions \cup {None}]
      /\ todo \subseteq Sessions
  BY DEF Init
<1>2. sigints \in 0..MaxSigint
  BY ServiceConstants DEF Init
<1> QED
  BY <1>1, <1>2 DEF Init, TypeOK, Asleep

(* Ending a session and waking its worker up keep the types of what they   *)
(* change.                                                                 *)
LEMMA DiscontinueType ==
  ASSUME TypeOK, NEW s
  PROVE  /\ Discontinue(s) => cont' \in [Sessions -> BOOLEAN]
         /\ Signal(s) => worker' \in
              [Sessions -> {"none", "begin", "serve", "visit", "ended"} \cup Asleep]
<1>1. Discontinue(s) => cont' \in [Sessions -> BOOLEAN]
  BY DEF TypeOK, Discontinue
<1>2. worker \in [Sessions -> {"none", "begin", "serve", "visit", "ended"} \cup Asleep]
  BY DEF TypeOK
<1>3. Signal(s) => worker' \in
         [Sessions -> {"none", "begin", "serve", "visit", "ended"} \cup Asleep]
  BY <1>2 DEF Signal
<1> QED
  BY <1>1, <1>3

(* Every step keeps every variable in its type.                            *)
LEMMA TypeNext == TypeOK /\ [Next]_vars => TypeOK'
<1> SUFFICES ASSUME TypeOK, [Next]_vars PROVE TypeOK'
  OBVIOUS
<1> USE ServiceConstants DEF ctxVars, connVars, serviceVars, workerVars, sigVars
<1>1. ASSUME NEW s \in Sessions, WorkerStep(s) PROVE TypeOK'
  <2>1. CASE WorkerBegins(s) \/ SleepInRecv(s) \/ RecvWakes(s) \/ SendCompletes(s)
             \/ WorkerEnds(s) \/ StartSend(s)
    BY <2>1 DEF WorkerBegins, SleepInRecv, RecvWakes, SendCompletes, WorkerEnds, StartSend,
                TypeOK, Asleep
  <2>2. CASE TakeNext(s)
    BY <2>2 DEF TakeNext, TypeOK
  <2>6. CASE VisitFreed(s)
    BY <2>6 DEF VisitFreed, TypeOK
  <2>3. CASE Visit(s)
    <3>1. worker' \in [Sessions -> {"none", "begin", "serve", "visit", "ended"} \cup Asleep]
      BY <2>3 DEF Visit, TypeOK, Live
    <3>2. at' \in [Sessions -> Sessions \cup {None}]
      BY <2>3 DEF Visit, TypeOK
    <3>3. /\ UNCHANGED <<ctx_cont, context, connVars, serviceVars, queue, sigVars>>
          /\ cancelled' \in BOOLEAN
      BY <2>3 DEF Visit, TypeOK
    <3> QED
      BY <3>1, <3>2, <3>3 DEF TypeOK
  <2>4. CASE SleepInSend(s)
    BY <2>4 DEF SleepInSend, TypeOK, Asleep
  <2>5. CASE Shutdown(s)
    BY <2>5, DiscontinueType DEF Shutdown, TypeOK
  <2> QED
    BY <1>1, <2>1, <2>2, <2>3, <2>4, <2>5, <2>6 DEF WorkerStep
<1>2. CASE TestStopped \/ PollReturn \/ StartSession \/ StartFails
  <2>1. /\ conn' \in [Sessions -> {"none", "open", "over", "freed"}]
        /\ tid' \in [Sessions -> {"zero", "thread", "garbage"}]
        /\ worker' \in [Sessions -> {"none", "begin", "serve", "visit", "ended"} \cup Asleep]
    BY <1>2 DEF TestStopped, PollReturn, StartSession, StartFails, TypeOK
  <2>2. CASE TestStopped \/ PollReturn
    BY <2>1, <2>2 DEF TestStopped, PollReturn, TypeOK
  <2>3. CASE StartSession \/ StartFails
    BY <2>1, <2>3 DEF StartSession, StartFails, TypeOK
  <2> QED
    BY <1>2, <2>2, <2>3
<1>3. ASSUME NEW s \in Sessions, Established(s) \/ ConnectionOver(s) PROVE TypeOK'
  <2>1. /\ conn' \in [Sessions -> {"none", "open", "over", "freed"}]
        /\ cont' \in [Sessions -> BOOLEAN]
    <3>1. CASE Established(s)
      BY <3>1 DEF Established, TypeOK
    <3>2. CASE ConnectionOver(s)
      BY <3>2 DEF ConnectionOver, TypeOK
    <3> QED
      BY <1>3, <3>1, <3>2
  <2>2. current' = s /\ current' # None /\ pc' \in {"start", "over"}
    BY <1>3 DEF Established, ConnectionOver
  <2> QED
    BY <1>3, <2>1, <2>2 DEF Established, ConnectionOver, TypeOK
<1>4. CASE SessionClose \/ SessionCloseSignals \/ CheckSignals
  BY <1>4, DiscontinueType DEF SessionClose, SessionCloseSignals, CheckSignals, TypeOK
<1>5. CASE StopSession \/ JoinsGarbage \/ FreeSession \/ ServiceReturns \/ ServiceFails
           \/ CheckEnds \/ ContextDestroyed
  BY <1>5 DEF StopSession, JoinsGarbage, FreeSession, ServiceReturns, ServiceFails, CheckEnds,
              ContextDestroyed, TypeOK
<1>6. ASSUME NEW s \in Sessions, CheckSession(s) PROVE TypeOK'
  BY <1>6, DiscontinueType DEF CheckSession, TypeOK
<1>7. CASE BreakConnections \/ BreakSignals \/ BreakEnds
  BY <1>7, DiscontinueType DEF BreakConnections, BreakSignals, BreakEnds, TypeOK
<1>10. ASSUME NEW s \in Sessions, BreakConnection(s) PROVE TypeOK'
  BY <1>10, DiscontinueType DEF BreakConnection, TypeOK
<1>8. CASE SigintStop \/ SigintTooLate
  BY <1>8 DEF SigintStop, SigintTooLate, CtxStop, TypeOK
<1>9. CASE UNCHANGED vars
  BY <1>9 DEF vars, TypeOK
<1> QED
  BY <1>1, <1>2, <1>3, <1>4, <1>5, <1>6, <1>7, <1>8, <1>9, <1>10
     DEF Next, Running, Over, ServiceStep, ServiceEvent, HandlerStep

(* The variables of the service keep their types: the service thread has a *)
(* connection in hand exactly while a callback of it runs.                 *)
THEOREM TypeCorrect == Spec => []TypeOK
  BY TypeInit, TypeNext, PTL DEF Spec

-----------------------------------------------------------------------------
(* Workers and the sessions they work on.                                  *)

(* A worker that has begun and not ended has a session in memory and a tid *)
(* to be joined by, and has another connection in hand only while it       *)
(* visits them.                                                            *)
WorkerInv ==
  \A s \in Sessions :
    /\ worker[s] \notin {"none", "ended"} => s \in Live /\ tid[s] = "thread"
    /\ at[s] # None => worker[s] = "visit"
    /\ conn[s] = "none" => worker[s] = "none"
    /\ conn[s] = "over" => s = current

(* What the service thread has done with the connection in hand.           *)
CurrentInv ==
  /\ pc = "start" => conn[current] = "open" /\ worker[current] = "none"
  /\ pc \in {"over", "signal", "join", "free"} => conn[current] = "over"
  /\ pc \in {"signal", "join"} => ~cont[current]
  /\ pc = "expired" => conn[current] # "over"
  /\ pc = "free" => worker[current] \in {"none", "ended"}

IInv == TypeOK /\ WorkerInv /\ CurrentInv

(* There is no connection and no worker.                                   *)
LEMMA InvInit == Init => IInv
  BY TypeInit DEF Init, IInv, WorkerInv, CurrentInv, Asleep

(* What a signal does to a worker that it finds asleep, or does not.       *)
LEMMA SignalWakes ==
  ASSUME TypeOK, NEW u, Signal(u)
  PROVE  \A s \in Sessions : \/ s # u /\ worker'[s] = worker[s]
                             \/ s = u /\ worker'[s] = worker[s] /\ worker[s] \notin Asleep
                             \/ s = u /\ worker'[s] = "serve" /\ worker[s] \in Asleep
  BY DEF TypeOK, Signal

(* A worker begins on an open session and ends before the service thread   *)
(* gets past the join: one step per action.                                *)
LEMMA InvNext == IInv /\ [Next]_vars => IInv'
<1> SUFFICES ASSUME IInv, [Next]_vars PROVE IInv'
  OBVIOUS
<1> USE ServiceConstants DEF ctxVars, connVars, serviceVars, workerVars, sigVars
<1>0. TypeOK /\ TypeOK'
  BY TypeNext DEF IInv
(* A step of the workers that begins none and ends none but of its own.    *)
<1>a. ASSUME UNCHANGED <<conn, tid, pc, current, at>>,
             \A s \in Sessions : \/ worker'[s] = worker[s]
                                 \/ /\ worker[s] \notin {"none", "ended", "visit"}
                                    /\ worker'[s] # "none",
             cont' = cont \/ \E u \in Sessions : Discontinue(u)
      PROVE  IInv'
  <2>1. WorkerInv'
    BY <1>a DEF IInv, WorkerInv, Live
  <2>2. pc \in {"signal", "join"} => ~cont'[current]
    BY <1>a, <1>0 DEF IInv, CurrentInv, Discontinue, TypeOK
  <2>3. CurrentInv'
    BY <1>a, <1>0, <2>2 DEF IInv, CurrentInv, TypeOK
  <2> QED
    BY <2>1, <2>3, <1>0 DEF IInv
<1>1. ASSUME NEW s \in Sessions, WorkerStep(s) PROVE IInv'
  <2>1. CASE WorkerBegins(s) \/ SleepInRecv(s) \/ RecvWakes(s) \/ SendCompletes(s)
             \/ WorkerEnds(s)
    <3>1. UNCHANGED <<conn, cont, tid, pc, current, at>>
      BY <2>1 DEF WorkerBegins, SleepInRecv, RecvWakes, SendCompletes, WorkerEnds
    <3>2. /\ worker[s] \notin {"none", "ended", "visit"} /\ worker'[s] # "none"
          /\ \A t \in Sessions \ {s} : worker'[t] = worker[t]
      BY <2>1, <1>0 DEF WorkerBegins, SleepInRecv, RecvWakes, SendCompletes, WorkerEnds, TypeOK
    <3> QED
      BY <1>a, <3>1, <3>2
  <2>2. CASE StartSend(s) \/ SleepInSend(s) \/ TakeNext(s)
    <3>1. UNCHANGED <<conn, cont, tid, pc, current>>
      BY <2>2 DEF StartSend, SleepInSend, TakeNext
    <3>2. /\ worker[s] \notin {"none", "ended"} /\ worker'[s] \notin {"none", "ended"}
          /\ at'[s] # None => worker'[s] = "visit"
          /\ \A t \in Sessions \ {s} : worker'[t] = worker[t] /\ at'[t] = at[t]
      BY <2>2, <1>0 DEF StartSend, SleepInSend, TakeNext, IInv, WorkerInv, TypeOK
    <3>3. WorkerInv'
      BY <3>1, <3>2 DEF IInv, WorkerInv, Live
    <3>4. CurrentInv'
      BY <3>1, <3>2, <1>0 DEF IInv, CurrentInv, TypeOK
    <3> QED
      BY <3>3, <3>4, <1>0 DEF IInv
  <2>3. CASE Visit(s)
    <3>1. UNCHANGED <<connVars, pc, current>>
      BY <2>3 DEF Visit
    <3>2. \A t \in Sessions : \/ worker'[t] = worker[t]
                              \/ worker[t] = "send" /\ worker'[t] = "serve"
      BY <2>3, <1>0 DEF Visit, TypeOK, Live
    <3>3. \A t \in Sessions : at'[t] # None => at[t] # None
      BY <2>3, <1>0 DEF Visit, TypeOK
    <3>4. WorkerInv'
      BY <3>1, <3>2, <3>3 DEF IInv, WorkerInv, Live
    <3>5. CurrentInv'
      BY <3>1, <3>2, <1>0 DEF IInv, CurrentInv, TypeOK
    <3> QED
      BY <3>4, <3>5, <1>0 DEF IInv
  <2>4. CASE VisitFreed(s)
    <3>1. UNCHANGED <<connVars, current, worker>> /\ (pc' = pc \/ pc' = "crashed")
      BY <2>4 DEF VisitFreed
    <3>2. \A t \in Sessions : at'[t] # None => at[t] # None
      BY <2>4, <1>0 DEF VisitFreed, TypeOK
    <3>3. WorkerInv'
      BY <3>1, <3>2 DEF IInv, WorkerInv, Live
    <3>4. CurrentInv'
      BY <3>1 DEF IInv, CurrentInv
    <3> QED
      BY <3>3, <3>4, <1>0 DEF IInv
  <2>5. CASE Shutdown(s)
    BY <1>a, <2>5 DEF Shutdown
  <2> QED
    BY <1>1, <2>1, <2>2, <2>3, <2>4, <2>5 DEF WorkerStep
<1>2. CASE TestStopped \/ PollReturn \/ ServiceReturns \/ ServiceFails \/ CheckEnds
           \/ ContextDestroyed \/ JoinsGarbage
  BY <1>2, <1>0 DEF TestStopped, PollReturn, ServiceReturns, ServiceFails, CheckEnds,
                    ContextDestroyed, JoinsGarbage, IInv, WorkerInv, CurrentInv, Live
<1>3. ASSUME NEW s \in Sessions, Established(s) PROVE IInv'
  BY <1>3, <1>0 DEF Established, IInv, WorkerInv, CurrentInv, Live, TypeOK
<1>4. CASE StartSession
  <2>1. WorkerInv'
    BY <1>4, <1>0 DEF StartSession, IInv, WorkerInv, CurrentInv, Live, TypeOK
  <2> QED
    BY <1>4, <2>1, <1>0 DEF StartSession, IInv, CurrentInv
<1>5. CASE StartFails
  BY <1>5, <1>0 DEF StartFails, IInv, WorkerInv, CurrentInv, Live, TypeOK, Asleep
<1>6. ASSUME NEW s \in Sessions, ConnectionOver(s) PROVE IInv'
  BY <1>6, <1>0 DEF ConnectionOver, IInv, WorkerInv, CurrentInv, Live, TypeOK
<1>7. CASE SessionClose
  BY <1>7, <1>0 DEF SessionClose, Discontinue, IInv, WorkerInv, CurrentInv, Live, TypeOK
<1>8. CASE SessionCloseSignals \/ CheckSignals
  <2>1. PICK u \in Sessions : Signal(u) /\ u = current
    BY <1>8, <1>0 DEF SessionCloseSignals, CheckSignals, TypeOK
  <2>2. \A s \in Sessions : \/ worker'[s] = worker[s]
                            \/ worker[s] \in Asleep /\ worker'[s] = "serve"
    BY <2>1, <1>0, SignalWakes
  <2>3. UNCHANGED <<conn, cont, tid, at>>
    BY <1>8 DEF SessionCloseSignals, CheckSignals
  <2>4. \A s \in Sessions : conn[s] = "over" => s = current'
    BY <1>8 DEF SessionCloseSignals, CheckSignals, IInv, WorkerInv, CurrentInv
  <2>5. WorkerInv'
    BY <2>2, <2>3, <2>4 DEF IInv, WorkerInv, Live, Asleep
  <2>6. CurrentInv'
    BY <1>8, <2>3 DEF SessionCloseSignals, CheckSignals, IInv, CurrentInv
  <2> QED
    BY <2>5, <2>6, <1>0 DEF IInv
<1>9. CASE StopSession
  BY <1>9, <1>0 DEF StopSession, IInv, WorkerInv, CurrentInv, Live, TypeOK
<1>10. CASE FreeSession
  BY <1>10, <1>0 DEF FreeSession, IInv, WorkerInv, CurrentInv, Live, TypeOK
<1>11. ASSUME NEW s \in Sessions, CheckSession(s) PROVE IInv'
  <2>1. \A t \in Sessions : conn[t] # "over"
    BY <1>11, <1>0 DEF CheckSession, IInv, WorkerInv, TypeOK
  <2>2. UNCHANGED <<conn, tid, workerVars>> /\ pc' \in {"check", "expired"}
        /\ (pc' = "expired" => current' = s)
    BY <1>11 DEF CheckSession
  <2>3. WorkerInv'
    BY <2>1, <2>2 DEF IInv, WorkerInv, Live
  <2>4. CurrentInv'
    BY <2>1, <2>2 DEF CurrentInv
  <2> QED
    BY <2>3, <2>4, <1>0 DEF IInv
<1>12. CASE BreakConnections \/ BreakEnds
  BY <1>a, <1>12 DEF BreakConnections, BreakEnds
<1>13. ASSUME NEW s \in Sessions, BreakConnection(s) PROVE IInv'
  BY <1>a, <1>13 DEF BreakConnection
<1>14. CASE BreakSignals
  <2>1. \A s \in Sessions : \/ worker'[s] = worker[s]
                            \/ worker[s] \in Asleep /\ worker'[s] = "serve"
    BY <1>14, <1>0, SignalWakes DEF BreakSignals
  <2>2. UNCHANGED <<conn, cont, tid, pc, current, at>>
    BY <1>14 DEF BreakSignals
  <2> QED
    BY <1>a, <2>1, <2>2 DEF Asleep
<1>15. CASE SigintStop \/ SigintTooLate
  BY <1>15, <1>0 DEF SigintStop, SigintTooLate, CtxStop, IInv, WorkerInv, CurrentInv, Live
<1>16. CASE UNCHANGED vars
  BY <1>16, <1>0 DEF vars, IInv, WorkerInv, CurrentInv, Live
<1> QED
  BY <1>1, <1>2, <1>3, <1>4, <1>5, <1>6, <1>7, <1>8, <1>9, <1>10, <1>11, <1>12, <1>13,
     <1>14, <1>15, <1>16
     DEF Next, Running, Over, ServiceStep, ServiceEvent, HandlerStep

(* Workers, sessions and the service thread fit together in every state.   *)
THEOREM InvCorrect == Spec => []IInv
  BY InvInit, InvNext, PTL DEF Spec

(* A worker works on a session that is in memory: the session is freed     *)
(* after its worker was joined.  (What it finds when it visits the others  *)
(* is VisitFreed.)                                                         *)
OwnSessionAlive == \A s \in Sessions : worker[s] \notin {"none", "ended"} => s \in Live

(* A worker's own session is not freed while the worker runs.              *)
THEOREM OwnSessionAliveSafe == Spec => []OwnSessionAlive
<1>1. IInv => OwnSessionAlive
  BY DEF IInv, WorkerInv, OwnSessionAlive
<1> QED
  BY <1>1, InvCorrect, PTL

(* Who ends a session signals after that, and who goes to sleep finds the  *)
(* session going on: one step per action that touches either.              *)
LEMMA AsleepNext == IInv /\ NobodyLeftAsleep /\ [Next]_vars => NobodyLeftAsleep'
<1> SUFFICES ASSUME IInv, NobodyLeftAsleep, [Next]_vars, pc' # "crashed"
             PROVE  NobodyLeftAsleep'
  BY DEF NobodyLeftAsleep
<1> TypeOK /\ TypeOK' /\ CurrentInv
  BY TypeNext DEF IInv
<1> USE DEF ctxVars, connVars, serviceVars, workerVars, sigVars
<1>1. CASE UNCHANGED vars
  BY <1>1 DEF vars, NobodyLeftAsleep, SignalDue
<1> SUFFICES ASSUME Running PROVE NobodyLeftAsleep'
  BY <1>1 DEF Next, Over
<1>0. pc # "crashed"
  BY DEF Running
(* Nobody goes to sleep, no session ends and no signal is given.           *)
<1>a. ASSUME \A s \in Sessions : worker'[s] \in Asleep => worker[s] \in Asleep,
             \A s \in Sessions : cont[s] => cont'[s],
             UNCHANGED <<handler, broken>>,
             UNCHANGED <<pc, current>> \/ {pc, pc'} \cap {"signal", "expired", "join"} = {}
      PROVE  NobodyLeftAsleep'
  BY <1>0, <1>a DEF NobodyLeftAsleep, SignalDue, TypeOK
(* A signal is given.                                                      *)
<1>b. ASSUME NEW u \in Sessions, Signal(u), UNCHANGED cont,
             \A s \in Sessions \ {u} : SignalDue(s) => SignalDue(s)',
             pc' = "join" => UNCHANGED <<pc, current>> \/ current' = u
      PROVE  NobodyLeftAsleep'
  <2>1. \A s \in Sessions : worker'[s] \in Asleep => s # u /\ worker[s] \in Asleep
    BY <1>b, SignalWakes DEF Asleep
  <2> QED
    BY <1>0, <1>b, <2>1 DEF NobodyLeftAsleep, TypeOK
(* A session ends.                                                         *)
<1>c. ASSUME NEW u \in Sessions, Discontinue(u), UNCHANGED worker,
             worker[u] \in Asleep => SignalDue(u)',
             \A s \in Sessions \ {u} : SignalDue(s) => SignalDue(s)',
             pc' = "join" => UNCHANGED <<pc, current>>
      PROVE  NobodyLeftAsleep'
  <2>1. \A s \in Sessions \ {u} : cont'[s] = cont[s]
    BY <1>c DEF Discontinue, TypeOK
  <2> QED
    BY <1>0, <1>c, <2>1 DEF NobodyLeftAsleep, TypeOK
<1>2. ASSUME NEW s \in Sessions, WorkerStep(s) PROVE NobodyLeftAsleep'
  <2>1. CASE SleepInRecv(s) \/ SleepInSend(s)
    <3>1. UNCHANGED <<cont, pc, current, handler, broken>>
      BY <2>1 DEF SleepInRecv, SleepInSend
    <3>2. CASE worker'[s] \notin Asleep
      BY <1>a, <2>1, <3>1, <3>2 DEF SleepInRecv, SleepInSend, TypeOK
    <3>3. CASE worker'[s] \in Asleep
      <4>1. cont[s] /\ \A t \in Sessions \ {s} : worker'[t] = worker[t]
        BY <2>1, <3>3 DEF SleepInRecv, SleepInSend, TypeOK, Asleep
      <4>2. pc = "join" => current # s
        BY <4>1 DEF CurrentInv
      <4> QED
        BY <1>0, <3>1, <4>1, <4>2 DEF NobodyLeftAsleep, SignalDue, TypeOK
    <3> QED
      BY <3>2, <3>3
  <2>2. CASE Shutdown(s)
    <3>1. worker[s] \notin Asleep
      BY <2>2 DEF Shutdown, Asleep
    <3> QED
      BY <1>c, <2>2, <3>1 DEF Shutdown, SignalDue
  <2>3. CASE WorkerBegins(s) \/ RecvWakes(s) \/ StartSend(s) \/ TakeNext(s) \/ Visit(s)
             \/ VisitFreed(s) \/ SendCompletes(s) \/ WorkerEnds(s)
    <3>1. UNCHANGED <<cont, pc, current, handler, broken>>
      BY <2>3 DEF WorkerBegins, RecvWakes, StartSend, TakeNext, Visit, VisitFreed,
                  SendCompletes, WorkerEnds
    <3>2. \A t \in Sessions : worker'[t] \in Asleep => worker[t] \in Asleep
      BY <2>3 DEF WorkerBegins, RecvWakes, StartSend, TakeNext, Visit, VisitFreed,
                  SendCompletes, WorkerEnds, TypeOK, Asleep, Live
    <3> QED
      BY <1>a, <3>1, <3>2
  <2> QED
    BY <1>2, <2>1, <2>2, <2>3 DEF WorkerStep
<1>3. CASE TestStopped \/ PollReturn \/ StartFails \/ FreeSession \/ ServiceReturns
           \/ ServiceFails \/ CheckEnds \/ ContextDestroyed
  BY <1>a, <1>3 DEF TestStopped, PollReturn, StartFails, FreeSession, ServiceReturns,
                    ServiceFails, CheckEnds, ContextDestroyed
<1>4. ASSUME NEW s \in Sessions, Established(s) \/ ConnectionOver(s) PROVE NobodyLeftAsleep'
  <2>1. \A t \in Sessions : cont[t] => cont'[t]
    BY <1>4 DEF Established, ConnectionOver, TypeOK
  <2> QED
    BY <1>a, <1>4, <2>1 DEF Established, ConnectionOver
<1>5. CASE StartSession
  <2>1. \A t \in Sessions : worker'[t] \in Asleep => worker[t] \in Asleep
    BY <1>5 DEF StartSession, TypeOK, Asleep
  <2> QED
    BY <1>a, <1>5, <2>1 DEF StartSession
<1>6. CASE StopSession
  BY <1>0, <1>6 DEF StopSession, NobodyLeftAsleep, SignalDue
<1>7. CASE SessionClose
  <2>1. current \in Sessions
    BY <1>7 DEF SessionClose, TypeOK
  <2> QED
    BY <1>c, <1>7, <2>1 DEF SessionClose, SignalDue
<1>8. CASE SessionCloseSignals \/ CheckSignals
  <2>1. current \in Sessions
    BY <1>8 DEF SessionCloseSignals, CheckSignals, TypeOK
  <2> QED
    BY <1>b, <1>8, <2>1 DEF SessionCloseSignals, CheckSignals, SignalDue
<1>9. ASSUME NEW s \in Sessions, CheckSession(s) PROVE NobodyLeftAsleep'
  <2>1. CASE Discontinue(s) /\ pc' = "expired" /\ current' = s
    BY <1>c, <1>9, <2>1 DEF CheckSession, SignalDue
  <2>2. CASE UNCHANGED <<cont, pc, current>>
    BY <1>a, <1>9, <2>2 DEF CheckSession
  <2> QED
    BY <1>9, <2>1, <2>2 DEF CheckSession
<1>10. CASE BreakConnections \/ BreakEnds \/ SigintStop
  <2>1. UNCHANGED <<cont, worker, pc, current, broken>> /\ handler # "signal"
    BY <1>10 DEF BreakConnections, BreakEnds, SigintStop
  <2> QED
    BY <1>0, <2>1 DEF NobodyLeftAsleep, SignalDue
<1>11. ASSUME NEW s \in Sessions, BreakConnection(s) PROVE NobodyLeftAsleep'
  BY <1>c, <1>11 DEF BreakConnection, SignalDue
<1>12. CASE BreakSignals
  <2>1. broken \in Sessions
    BY <1>12 DEF BreakSignals, TypeOK
  <2> QED
    BY <1>b, <1>12, <2>1 DEF BreakSignals, SignalDue
<1>13. CASE JoinsGarbage \/ SigintTooLate
  BY <1>13 DEF JoinsGarbage, SigintTooLate
<1> QED
  BY <1>2, <1>3, <1>4, <1>5, <1>6, <1>7, <1>8, <1>9, <1>10, <1>11, <1>12, <1>13
     DEF Running, ServiceStep, ServiceEvent, HandlerStep

(* No worker is left asleep by those who end its session, and the service  *)
(* thread does not wait for a worker that sleeps.                          *)
THEOREM NobodyLeftAsleepSafe == Spec => []NobodyLeftAsleep
<1>1. Init => NobodyLeftAsleep
  BY DEF Init, NobodyLeftAsleep, Asleep
<1> QED
  BY <1>1, InvCorrect, AsleepNext, PTL DEF Spec

(* A service that comes back leaves nothing behind: every worker is joined *)
(* and every session freed.                                                *)
EndedIsClean ==
  pc = "ended" => \A s \in Sessions : /\ worker[s] \in {"none", "ended"}
                                       /\ conn[s] \in {"none", "freed"}

(* All sessions closed is more than the invariant says of a state: it is   *)
(* what usbws_ctx_destroy leaves, and nothing opens one after it.          *)
EndedInv == pc = "ended" => \A s \in Sessions : conn[s] # "open"

(* Only usbws_ctx_destroy ends the service, after the last connection, and *)
(* nothing is accepted later.                                              *)
LEMMA EndedNext == IInv /\ EndedInv /\ [Next]_vars => EndedInv'
<1> SUFFICES ASSUME IInv, EndedInv, [Next]_vars, pc' = "ended"
             PROVE  \A s \in Sessions : conn'[s] # "open"
  BY DEF EndedInv
<1> USE DEF ctxVars, connVars, serviceVars, workerVars, sigVars
<1>1. CASE ContextDestroyed
  BY <1>1 DEF ContextDestroyed
<1>2. CASE pc = "ended" /\ UNCHANGED conn
  BY <1>2 DEF EndedInv
<1>3. ASSUME NEW s \in Sessions, WorkerStep(s) PROVE pc = "ended" /\ UNCHANGED conn
  BY <1>3 DEF WorkerStep, WorkerBegins, SleepInRecv, RecvWakes, StartSend, TakeNext, Visit,
              VisitFreed, SleepInSend, SendCompletes, Shutdown, WorkerEnds
<1>4. CASE ServiceStep /\ ~ContextDestroyed
  <2>1. pc' # "ended"
    BY <1>4 DEF ServiceStep, TestStopped, StartSession, StartFails, SessionClose,
                SessionCloseSignals, StopSession, JoinsGarbage, FreeSession, ServiceReturns,
                CheckSignals, CheckEnds, CheckSession
  <2> QED
    BY <2>1
<1>5. CASE ServiceEvent
  BY <1>5 DEF ServiceEvent, PollReturn, ServiceFails, Established, ConnectionOver
<1>6. CASE BreakConnections \/ HandlerStep \/ UNCHANGED vars
  <2>1. pc = "ended" /\ UNCHANGED conn
    BY <1>6 DEF BreakConnections, HandlerStep, BreakConnection, BreakSignals, BreakEnds,
                SigintStop, SigintTooLate, vars
  <2> QED
    BY <1>2, <2>1
<1> QED
  BY <1>1, <1>2, <1>3, <1>4, <1>5, <1>6 DEF Next, Running, Over

(* When the service is over, its workers and their sessions are gone.      *)
THEOREM EndedIsCleanSafe == Spec => []EndedIsClean
<1>1. Init => EndedInv
  BY DEF Init, EndedInv
<1>2. IInv /\ EndedInv => EndedIsClean
  BY ServiceConstants DEF IInv, TypeOK, WorkerInv, EndedInv, EndedIsClean, Live
<1> QED
  BY <1>1, <1>2, InvCorrect, EndedNext, PTL DEF Spec

-----------------------------------------------------------------------------
(* The life of the context and what is in it.                              *)

(* The context is there as long as a callback or a check may run, and on   *)
(* its way out from the end of the loop on.                                *)
ContextInv ==
  /\ pc \in {"loop", "poll", "handle", "check", "expired", "start"} => context = "live"
  /\ pc \in {"over", "signal", "join", "free"} => context # "destroyed"
  /\ pc = "destroy" => context = "dying"

(* A connection that is over takes the service thread back to where it     *)
(* came from: into lws_service, or into the destruction of the context.    *)
LEMMA ContextNext == TypeOK /\ ContextInv /\ [Next]_vars => ContextInv'
<1> SUFFICES ASSUME TypeOK, ContextInv, [Next]_vars PROVE ContextInv'
  OBVIOUS
<1> USE DEF ContextInv, ctxVars, connVars, serviceVars, workerVars, sigVars
<1>1. ASSUME NEW s \in Sessions, WorkerStep(s) PROVE ContextInv'
  BY <1>1 DEF WorkerStep, WorkerBegins, SleepInRecv, RecvWakes, StartSend, TakeNext, Visit,
              VisitFreed, SleepInSend, SendCompletes, Shutdown, WorkerEnds
<1>2. CASE ServiceStep
  BY <1>2 DEF ServiceStep, TestStopped, StartSession, StartFails, SessionClose,
              SessionCloseSignals, StopSession, JoinsGarbage, FreeSession, ServiceReturns,
              CheckSignals, CheckEnds, ContextDestroyed, CheckSession, TypeOK
<1>3. CASE ServiceEvent
  BY <1>3 DEF ServiceEvent, PollReturn, ServiceFails, Established, ConnectionOver
<1>4. CASE BreakConnections \/ HandlerStep \/ UNCHANGED vars
  BY <1>4 DEF BreakConnections, HandlerStep, BreakConnection, BreakSignals, BreakEnds,
              SigintStop, SigintTooLate, CtxStop, vars
<1> QED
  BY <1>1, <1>2, <1>3, <1>4 DEF Next, Running, Over

(* Every step is one that ContextLife allows, or leaves it alone.          *)
LEMMA LifeNext == IInv /\ ContextInv /\ [Next]_vars => [Life!Next]_(Life!vars)
<1> SUFFICES ASSUME IInv, ContextInv, [Next]_vars PROVE [Life!Next]_(Life!vars)
  OBVIOUS
<1> USE DEF ctxVars, connVars, serviceVars, workerVars, sigVars
<1>0. TypeOK /\ current \in Sessions \cup {None}
  BY DEF IInv, TypeOK
(* A step that moves a worker without beginning or ending it.              *)
<1>a. ASSUME UNCHANGED <<context, conn>>,
             \A s \in Sessions : WorkerState(s)' = WorkerState(s)
      PROVE  UNCHANGED Life!vars
  BY <1>a DEF Life!vars, MemoryState, Live
<1>b. ASSUME NEW u, Signal(u), UNCHANGED <<context, conn>> PROVE UNCHANGED Life!vars
  <2>1. \A s \in Sessions : WorkerState(s)' = WorkerState(s)
    BY <1>0, <1>b, SignalWakes DEF WorkerState, Asleep
  <2> QED
    BY <1>a, <1>b, <2>1
(* A worker ends.                                                          *)
<1>c. ASSUME NEW s \in Sessions, worker[s] \in {"begin", "serve"},
             worker' = [worker EXCEPT ![s] = "ended"], UNCHANGED <<context, conn>>
      PROVE  Life!Next
  <2>1. Life!End(s)
    BY <1>0, <1>c DEF Life!End, WorkerState, MemoryState, Live, TypeOK
  <2> QED
    BY <2>1 DEF Life!Next
<1>1. ASSUME NEW s \in Sessions, WorkerStep(s) PROVE [Life!Next]_(Life!vars)
  <2>1. CASE WorkerBegins(s) \/ WorkerEnds(s)
    <3>1. CASE worker' = [worker EXCEPT ![s] = "ended"]
      BY <1>c, <2>1, <3>1 DEF WorkerBegins, WorkerEnds
    <3>2. CASE worker[s] = "begin" /\ worker' = [worker EXCEPT ![s] = "serve"]
      BY <1>0, <1>a, <2>1, <3>2 DEF WorkerBegins, WorkerEnds, WorkerState, TypeOK
    <3> QED
      BY <2>1, <3>1, <3>2 DEF WorkerBegins, WorkerEnds
  <2>2. CASE SleepInRecv(s) \/ RecvWakes(s) \/ StartSend(s) \/ SleepInSend(s)
             \/ SendCompletes(s)
    BY <1>0, <1>a, <2>2 DEF SleepInRecv, RecvWakes, StartSend, SleepInSend, SendCompletes,
                            WorkerState, TypeOK
  <2>3. CASE TakeNext(s) \/ Visit(s) \/ VisitFreed(s)
    BY <1>0, <1>a, <2>3 DEF TakeNext, Visit, VisitFreed, WorkerState, TypeOK, Live
  <2>4. CASE Shutdown(s)
    BY <1>a, <2>4 DEF Shutdown, WorkerState
  <2> QED
    BY <1>1, <2>1, <2>2, <2>3, <2>4 DEF WorkerStep
<1>2. CASE TestStopped \/ ServiceFails
  <2>1. CASE UNCHANGED context
    BY <1>2, <2>1, <1>a DEF TestStopped, ServiceFails, WorkerState
  <2>2. CASE context' = "dying"
    <3>1. Life!Leave
      BY <1>2, <2>2 DEF TestStopped, ServiceFails, ContextInv, Life!Leave, MemoryState,
                        WorkerState, Live
    <3> QED
      BY <3>1 DEF Life!Next
  <2> QED
    BY <1>2, <2>1, <2>2 DEF TestStopped, ServiceFails
<1>3. ASSUME NEW s \in Sessions, Established(s) PROVE Life!Next
  <2>1. Life!Establish(s)
    BY <1>0, <1>3 DEF Established, ContextInv, Life!Establish, MemoryState, WorkerState,
                      Live, TypeOK
  <2> QED
    BY <2>1 DEF Life!Next
<1>4. CASE StartSession
  <2>1. current \in Sessions /\ conn[current] = "open" /\ worker[current] = "none"
    BY <1>4 DEF StartSession, IInv, TypeOK, CurrentInv
  <2>2. Life!Begin(current)
    BY <1>0, <1>4, <2>1 DEF StartSession, ContextInv, Life!Begin, MemoryState, WorkerState,
                            Live, TypeOK
  <2> QED
    BY <2>1, <2>2 DEF Life!Next
<1>5. ASSUME NEW s \in Sessions, conn[s] = "open", conn' = [conn EXCEPT ![s] = "over"],
             UNCHANGED <<context, worker>>
      PROVE  UNCHANGED Life!vars
  BY <1>0, <1>5 DEF Life!vars, MemoryState, WorkerState, Live, TypeOK
<1>6. CASE StartFails
  <2>1. current \in Sessions /\ conn[current] = "open"
    BY <1>6 DEF StartFails, IInv, TypeOK, CurrentInv
  <2> QED
    BY <1>5, <1>6, <2>1 DEF StartFails
<1>7. ASSUME NEW s \in Sessions, ConnectionOver(s) PROVE UNCHANGED Life!vars
  BY <1>5, <1>7 DEF ConnectionOver
<1>8. CASE FreeSession
  <2>1. /\ current \in Sessions /\ conn[current] = "over" /\ context # "destroyed"
        /\ worker[current] \in {"none", "ended"}
    BY <1>8 DEF FreeSession, IInv, TypeOK, CurrentInv, ContextInv
  <2>2. Life!Free(current)
    BY <1>0, <1>8, <2>1 DEF FreeSession, Life!Free, MemoryState, WorkerState, Live, TypeOK
  <2> QED
    BY <2>1, <2>2 DEF Life!Next
<1>9. CASE ContextDestroyed
  <2>1. \A s \in Sessions : MemoryState(s) # "live" /\ WorkerState(s) # "running"
    BY <1>9, ServiceConstants DEF ContextDestroyed, IInv, TypeOK, WorkerInv, MemoryState,
                                  WorkerState, Live
  <2>2. Life!Destroy
    BY <1>9, <2>1 DEF ContextDestroyed, ContextInv, Life!Destroy, MemoryState, WorkerState,
                      Live
  <2> QED
    BY <2>2 DEF Life!Next
<1>10. CASE SessionCloseSignals \/ CheckSignals \/ BreakSignals
  BY <1>b, <1>10 DEF SessionCloseSignals, CheckSignals, BreakSignals
<1>11. ASSUME NEW s \in Sessions, CheckSession(s) \/ BreakConnection(s)
       PROVE  UNCHANGED Life!vars
  BY <1>a, <1>11 DEF CheckSession, BreakConnection, WorkerState
<1>12. CASE PollReturn \/ SessionClose \/ StopSession \/ JoinsGarbage \/ ServiceReturns
            \/ CheckEnds \/ BreakConnections \/ BreakEnds \/ SigintStop \/ SigintTooLate
            \/ UNCHANGED vars
  BY <1>a, <1>12 DEF PollReturn, SessionClose, StopSession, JoinsGarbage, ServiceReturns,
                     CheckEnds, BreakConnections, BreakEnds, SigintStop, SigintTooLate,
                     CtxStop, vars, WorkerState
<1> QED
  BY <1>1, <1>2, <1>3, <1>4, <1>6, <1>7, <1>8, <1>9, <1>10, <1>11, <1>12
     DEF Next, Running, Over, ServiceStep, ServiceEvent, HandlerStep

(* The daemon keeps ContextLife, for any number of connections: every      *)
(* session is freed once and after its worker, none begins late, and the   *)
(* context goes last.                                                      *)
THEOREM KeepsContextLifeCorrect == Spec => KeepsContextLife
<1>1. Init => Life!Init /\ ContextInv
  BY DEF Init, Life!Init, MemoryState, WorkerState, Live, ContextInv
<1>2. IInv => TypeOK
  BY DEF IInv
<1> QED
  BY <1>1, <1>2, InvCorrect, ContextNext, LifeNext, PTL DEF Spec, KeepsContextLife, Life!Spec

-----------------------------------------------------------------------------
(* The service within the process of the daemon.                           *)

(* What UsbwsDaemon sees of the service: where main stands while it runs   *)
(* usbws_service, and the SIGINTs whose handler has come to its end.       *)
MainPc ==
  IF pc = "crashed" THEN "exit"
  ELSE IF context = "live" THEN "service"
  ELSE IF context = "dying" THEN "destroy" ELSE "close"

Process == INSTANCE UsbwsDaemon
             WITH PidFiles <- {}, KeyFiles <- {},
                  MayFail <- {f \in {"service", "crash"} : f = "service" => ServiceMayFail},
                  pc <- MainPc, opt_daemonize <- FALSE, opt_ssl <- FALSE,
                  opt_pid_file <- None, opt_key_file <- None,
                  pid <- "first", cwd <- "start", driver <- "open", handler <- TRUE,
                  context <- IF context = "destroyed" THEN "destroyed" ELSE "live",
                  status <- IF pc = "crashed" THEN "killed" ELSE None,
                  pid_file <- None,
                  sigints <- IF handler = "ready" THEN sigints ELSE sigints - 1

ProcessStep ==
  \/ Process!ServiceEnds \/ Process!ServiceCrashes \/ Process!DestroyContext
  \/ Process!Sigint

ServesProcess ==
  /\ MainPc = "service" /\ context = "live" /\ ctx_cont /\ sigints = 0
  /\ [][ProcessStep]_(Process!vars)

(* Every step of the service is one that UsbwsDaemon takes in its place,   *)
(* or nothing that main can tell.                                          *)
LEMMA ProcessNext ==
  ASSUME IInv, ContextInv, EndedInv, [Next]_vars
  PROVE  [ProcessStep]_(Process!vars)
<1> TypeOK
  BY DEF IInv
<1> USE DEF ctxVars, connVars, serviceVars, workerVars, sigVars
<1> DEFINE taken == IF handler = "ready" THEN sigints ELSE sigints - 1
(* What main cannot tell.                                                  *)
<1>a. ASSUME UNCHANGED <<ctx_cont, context, taken>>, pc = "crashed" <=> pc' = "crashed"
      PROVE  UNCHANGED Process!vars
  BY <1>a DEF Process!vars, Process!optVars, Process!procVars, Process!ctxVars, MainPc
<1>1. CASE UNCHANGED vars
  BY <1>1, <1>a DEF vars
<1> SUFFICES ASSUME Running PROVE [ProcessStep]_(Process!vars)
  BY <1>1 DEF Next, Over
<1>b. pc # "crashed"
  BY DEF Running
<1>c. ASSUME context # "destroyed", pc' = "crashed", UNCHANGED <<ctx_cont, context, sigVars>>
      PROVE  Process!ServiceCrashes
  <2>1. context \in {"live", "dying"}
    BY <1>c DEF IInv, TypeOK
  <2> QED
    BY <1>b, <1>c, <2>1 DEF Process!ServiceCrashes, Process!Exit, Process!optVars,
                            Process!procVars, Process!ctxVars, MainPc
<1>2. ASSUME NEW s \in Sessions, WorkerStep(s) PROVE [ProcessStep]_(Process!vars)
  <2>1. CASE UNCHANGED pc
    <3>1. UNCHANGED <<ctx_cont, context, handler, sigints>>
      BY <1>2 DEF WorkerStep, WorkerBegins, SleepInRecv, RecvWakes, StartSend, TakeNext,
                  Visit, VisitFreed, SleepInSend, SendCompletes, Shutdown, WorkerEnds
    <3> QED
      BY <1>a, <2>1, <3>1
  <2>2. CASE VisitFreed(s) /\ pc' = "crashed"
    <3>1. worker[s] = "visit"
      BY <2>2 DEF VisitFreed, IInv, WorkerInv
    <3>2. s \in Live
      BY <3>1 DEF IInv, WorkerInv
    <3>3. context # "destroyed"
      BY <1>b, <3>2, ServiceConstants DEF IInv, TypeOK, WorkerInv, ContextInv, EndedInv, Live
    <3>4. Process!ServiceCrashes
      BY <1>c, <2>2, <3>3 DEF VisitFreed
    <3> QED
      BY <3>4 DEF ProcessStep
  <2> QED
    BY <1>2, <2>1, <2>2 DEF WorkerStep, WorkerBegins, SleepInRecv, RecvWakes, StartSend,
                  TakeNext, Visit, VisitFreed, SleepInSend, SendCompletes, Shutdown, WorkerEnds
<1>3. CASE PollReturn \/ StartSession \/ StartFails \/ SessionClose \/ SessionCloseSignals
           \/ StopSession \/ FreeSession \/ ServiceReturns \/ CheckSignals \/ CheckEnds
           \/ \E s \in Sessions : CheckSession(s) \/ Established(s) \/ ConnectionOver(s)
  <2>1. UNCHANGED <<ctx_cont, context, sigVars>> /\ pc' # "crashed"
    BY <1>3, <1>b DEF PollReturn, StartSession, StartFails, SessionClose,
                      SessionCloseSignals, StopSession, FreeSession, ServiceReturns,
                      CheckSignals, CheckEnds, CheckSession, Established, ConnectionOver
  <2> QED
    BY <1>a, <1>b, <2>1
<1>4. ASSUME context = "live", context' = "dying", pc' # "crashed",
             ~ctx_cont \/ ServiceMayFail, UNCHANGED <<ctx_cont, sigVars>>
      PROVE  Process!ServiceEnds
  BY <1>4, <1>b DEF Process!ServiceEnds, Process!optVars, Process!procVars,
                    Process!ctxVars, MainPc
<1>5. CASE TestStopped
  <2>1. context = "live" /\ pc' # "crashed" /\ UNCHANGED <<ctx_cont, sigVars>>
    BY <1>5 DEF TestStopped, ContextInv
  <2>2. CASE UNCHANGED context
    BY <1>a, <1>b, <2>1, <2>2
  <2>3. CASE ~ctx_cont /\ context' = "dying"
    BY <1>4, <2>1, <2>3 DEF ProcessStep
  <2> QED
    BY <1>5, <2>2, <2>3 DEF TestStopped
<1>6. CASE ServiceFails
  <2>1. Process!ServiceEnds
    BY <1>4, <1>6 DEF ServiceFails, ContextInv
  <2> QED
    BY <2>1 DEF ProcessStep
<1>7. CASE JoinsGarbage
  <2>1. /\ context # "destroyed"
        /\ pc' = "crashed" /\ UNCHANGED <<ctx_cont, context, sigVars>>
    BY <1>7 DEF JoinsGarbage, ContextInv
  <2>2. Process!ServiceCrashes
    BY <1>c, <2>1
  <2> QED
    BY <2>2 DEF ProcessStep
<1>8. CASE ContextDestroyed
  <2>1. /\ context = "dying" /\ context' = "destroyed" /\ pc' # "crashed"
        /\ UNCHANGED <<ctx_cont, sigVars>>
    BY <1>8 DEF ContextDestroyed, ContextInv
  <2>2. Process!DestroyContext
    BY <1>b, <2>1 DEF Process!DestroyContext, Process!optVars, Process!procVars,
                      Process!ctxVars, MainPc
  <2> QED
    BY <2>2 DEF ProcessStep
<1>9. CASE BreakConnections \/ BreakSignals \/ BreakEnds
           \/ \E s \in Sessions : BreakConnection(s)
  <2>1. UNCHANGED <<ctx_cont, context, pc>>
    BY <1>9 DEF BreakConnections, BreakSignals, BreakEnds, BreakConnection
  <2>2. taken' = taken
    BY <1>9, ServiceConstants DEF BreakConnections, BreakSignals, BreakEnds,
                                  BreakConnection, TypeOK
  <2> QED
    BY <1>a, <2>1, <2>2
<1>10. ASSUME handler = "stop", handler' = "ready", UNCHANGED sigints
       PROVE  taken < MaxSigint /\ taken' = taken + 1
  BY <1>10, ServiceConstants DEF TypeOK
<1>11. CASE SigintStop
  <2>1. Process!Sigint
    BY <1>10, <1>11, <1>b DEF SigintStop, CtxStop, Process!Sigint, Process!optVars,
                              Process!procVars, MainPc, TypeOK
  <2> QED
    BY <2>1 DEF ProcessStep
<1>12. CASE SigintTooLate
  <2>1. Process!Sigint
    BY <1>10, <1>12, <1>b DEF SigintTooLate, Process!Sigint, Process!Exit,
                              Process!optVars, Process!procVars, MainPc
  <2> QED
    BY <2>1 DEF ProcessStep
<1> QED
  BY <1>2, <1>3, <1>5, <1>6, <1>7, <1>8, <1>9, <1>11, <1>12
     DEF Running, ServiceStep, ServiceEvent, HandlerStep

(* What main of a daemon takes usbws_service for in UsbwsDaemon is what it *)
(* is: it starts with the context that was created, and ends when stopped  *)
(* or failing, crashes by a garbage tid or a freed session before the      *)
(* context is destroyed, destroys it or takes SIGINT, for any number of    *)
(* connections and workers.                                                *)
THEOREM ServesProcessCorrect == Spec => ServesProcess
<1>1. Init => MainPc = "service" /\ context = "live" /\ ctx_cont /\ sigints = 0
  BY DEF Init, MainPc
<1>2. Init => ContextInv
  BY DEF Init, ContextInv
<1>3. IInv => TypeOK
  BY DEF IInv
<1>4. Init => EndedInv
  BY DEF Init, EndedInv
<1> QED
  BY <1>1, <1>2, <1>3, <1>4, InvCorrect, ContextNext, EndedNext, ProcessNext, PTL
     DEF Spec, ServesProcess
=============================================================================
