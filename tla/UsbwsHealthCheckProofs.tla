------------------------ MODULE UsbwsHealthCheckProofs ------------------------
(***************************************************************************)
(* Proofs about UsbwsHealthCheck, for all values of its constants.         *)
(***************************************************************************)
EXTENDS UsbwsHealthCheck, TLAPS

-----------------------------------------------------------------------------
(* Types.                                                                  *)

(* The poll timeout of either loop fits the type of left.                  *)
LEMMA PollSecondsType == PollSeconds \in 0..PingPong
  BY HealthConstants DEF PollSeconds

(* Every variable starts in its type.                                      *)
LEMMA TypeInit == Init => TypeOK
  BY PollSecondsType, HealthConstants DEF Init, TypeOK, MaxAge, None

(* A ping leaves everything it touches in its type.                        *)
LEMMA PingType ==
  ASSUME TypeOK, NEW s \in Sessions
  PROVE  /\ PingWritten(s) \/ PingFails(s) =>
              /\ pinged' \in [Sessions -> BOOLEAN]
              /\ pong' \in [Sessions -> {None, "coming", "here"}]
              /\ since' \in [Sessions -> 0..Rtt]
              /\ missed' \in [Sessions -> {None, "failed", "displaced"}]
         /\ SendPing(s) =>
              /\ pinged' \in [Sessions -> BOOLEAN]
              /\ ping_pending' \in [Sessions -> BOOLEAN]
              /\ pong' \in [Sessions -> {None, "coming", "here"}]
              /\ since' \in [Sessions -> 0..Rtt]
              /\ missed' \in [Sessions -> {None, "failed", "displaced"}]
<1>1. PingWritten(s) => /\ pinged' \in [Sessions -> BOOLEAN]
                        /\ pong' \in [Sessions -> {None, "coming", "here"}]
  BY DEF TypeOK, PingWritten
<1>2. PingWritten(s) => since' \in [Sessions -> 0..Rtt]
  BY HealthConstants DEF TypeOK, PingWritten
<1>3. PingFails(s) \/ UNCHANGED <<pinged, pong, since>> =>
        /\ pinged' \in [Sessions -> BOOLEAN]
        /\ pong' \in [Sessions -> {None, "coming", "here"}]
        /\ since' \in [Sessions -> 0..Rtt]
  BY DEF TypeOK, PingFails
<1>4. SendPing(s) => ping_pending' \in [Sessions -> BOOLEAN]
  BY DEF TypeOK, SendPing
<1>5. PingWritten(s) \/ PingFails(s) \/ SendPing(s) =>
        missed' \in [Sessions -> {None, "failed", "displaced"}]
  BY DEF TypeOK, SendPing, PingWritten, PingFails
<1> QED
  BY <1>1, <1>2, <1>3, <1>4, <1>5 DEF SendPing

(* Every step keeps every variable in its type.                            *)
LEMMA TypeNext == TypeOK /\ [Next]_vars => TypeOK'
<1> SUFFICES ASSUME TypeOK, [Next]_vars PROVE TypeOK'
  OBVIOUS
<1> USE HealthConstants
<1>1. CASE Tick
  <2>1. left' \in 0..PingPong /\ busy' \in 0..MaxBusy
    BY <1>1 DEF Tick, TypeOK
  <2>2. age' \in [Sessions -> 0..MaxAge] /\ since' \in [Sessions -> 0..Rtt]
    BY <1>1 DEF Tick, TypeOK, MaxAge
  <2> QED
    BY <1>1, <2>1, <2>2 DEF Tick, TypeOK
<1>2. CASE PollReturn
  BY <1>2 DEF PollReturn, TypeOK, sessVars
<1>3. CASE Closed
  <2>1. pc' \in {"poll", "handle", "closing", "check"} /\ closing' \in Sessions \cup {None}
    BY <1>3 DEF Closed
  <2>2. since' \in [Sessions -> 0..Rtt]
    <3>1. 0 \in 0..Rtt
      OBVIOUS
    <3>2. since \in [Sessions -> 0..Rtt] /\ since' = [since EXCEPT ![closing] = 0]
      BY <1>3 DEF Closed, TypeOK
    <3> QED
      BY <3>1, <3>2, Zenon
  <2>3. pong' \in [Sessions -> {None, "coming", "here"}]
    BY <1>3 DEF Closed, TypeOK
  <2>4. /\ cont' \in [Sessions -> BOOLEAN] /\ pinged' \in [Sessions -> BOOLEAN]
        /\ ping_pending' \in [Sessions -> BOOLEAN] /\ expired' \in [Sessions -> BOOLEAN]
    BY <1>3 DEF Closed, TypeOK
  <2>5. missed' \in [Sessions -> {None, "failed", "displaced"}]
    BY <1>3 DEF Closed, TypeOK
  <2>6. age' \in [Sessions -> 0..MaxAge]
    <3>1. 0 \in 0..MaxAge
      BY DEF MaxAge
    <3>2. age \in [Sessions -> 0..MaxAge] /\ age' = [age EXCEPT ![closing] = 0]
      BY <1>3 DEF Closed, TypeOK
    <3> QED
      BY <3>1, <3>2, Zenon
  <2> QED
    BY <1>3, <2>1, <2>2, <2>3, <2>4, <2>5, <2>6 DEF Closed, TypeOK
<1>4. CASE ServiceReturns \/ CheckEnds
  BY <1>4, PollSecondsType DEF ServiceReturns, CheckEnds, TypeOK, sessVars
<1>5. ASSUME NEW s \in Sessions, PongArrives(s) \/ Shutdown(s) PROVE TypeOK'
  <2>1. CASE PongArrives(s)
    <3>1. since' \in [Sessions -> 0..Rtt] /\ pong' \in [Sessions -> {None, "coming", "here"}]
      BY <2>1 DEF PongArrives, TypeOK
    <3> QED
      BY <2>1, <3>1 DEF PongArrives, TypeOK, loopVars
  <2>2. CASE Shutdown(s)
    BY <2>2 DEF Shutdown, TypeOK, loopVars
  <2> QED
    BY <1>5, <2>1, <2>2
<1>6. ASSUME NEW s \in Sessions, Establish(s) PROVE TypeOK'
  BY <1>6 DEF Establish, TypeOK, loopVars, MaxAge
<1>7. ASSUME NEW s \in Sessions, Receive(s) \/ ReceivePong(s) PROVE TypeOK'
  <2>1. age' \in [Sessions -> 0..MaxAge]
    BY <1>7 DEF Receive, ReceivePong, TypeOK, MaxAge
  <2>2. pong' \in [Sessions -> {None, "coming", "here"}]
    BY <1>7 DEF Receive, ReceivePong, TypeOK
  <2>3. pinged' \in [Sessions -> BOOLEAN]
        /\ missed' \in [Sessions -> {None, "failed", "displaced"}]
        /\ pc' \in {"poll", "handle", "closing", "check"} /\ closing' \in Sessions \cup {None}
    BY <1>7 DEF Receive, ReceivePong, Handled, TypeOK
  <2> QED
    BY <1>7, <2>1, <2>2, <2>3 DEF Receive, ReceivePong, Handled, TypeOK
<1>8. ASSUME NEW s \in Sessions, PendingPingGoes(s) PROVE TypeOK'
  BY <1>8, PingType DEF PendingPingGoes, Handled, TypeOK
<1>9. ASSUME NEW s \in Sessions, DataGoes(s) \/ OtherCallback(s) \/ PeerCloses(s)
      PROVE  TypeOK'
  BY <1>9 DEF DataGoes, OtherCallback, PeerCloses, Handled, TypeOK, sessVars
<1>10. ASSUME NEW s \in Sessions, CheckOver(s) \/ Expire(s) \/ CheckSilent(s) PROVE TypeOK'
  <2>1. SendPing(s) /\ Checked(s)
    BY <1>10 DEF CheckOver, Expire, CheckSilent
  <2>2. cont' \in [Sessions -> BOOLEAN] /\ expired' \in [Sessions -> BOOLEAN]
    BY <1>10 DEF CheckOver, Expire, CheckSilent, TypeOK
  <2> QED
    BY <2>1, <2>2, PingType DEF Checked, TypeOK
<1>11. ASSUME NEW s \in Sessions, CheckHealthy(s) PROVE TypeOK'
  BY <1>11 DEF CheckHealthy, Checked, TypeOK
<1>12. CASE UNCHANGED vars
  BY <1>12 DEF vars, sessVars, loopVars, TypeOK
<1> QED
  BY <1>1, <1>2, <1>3, <1>4, <1>5, <1>6, <1>7, <1>8, <1>9, <1>10, <1>11, <1>12
     DEF Next, Callback, CheckSession

(* Every variable of the health check keeps its type: poll never sleeps    *)
(* longer than its timeout, whatever the periods.                          *)
THEOREM TypeCorrect == Spec => []TypeOK
  BY TypeInit, TypeNext, PTL DEF Spec

-----------------------------------------------------------------------------
(* Silence and the question that precedes the end.                         *)

(* What the loop works on is established, and what is being closed too.    *)
LoopInv ==
  /\ ready \subseteq open /\ todo \subseteq open
  /\ pc = "closing" => closing \in open
  /\ pc # "closing" => closing = None
  /\ pc # "check" => todo = {}
  /\ pc = "poll" \/ pc = "check" => ready = {}

(* In a session that goes on, pinged says that a ping is not answered yet, *)
(* and a ping waits only if there is none.                                 *)
PingInv(s) ==
  /\ pinged[s] <=> pong[s] # None
  /\ ping_pending[s] => ~pinged[s]

(* The longest silence of a peer that a check lets pass only below limit:  *)
(* until the next check come the poll timeout and the time spent closing   *)
(* other sessions.                                                         *)
SeenWithin(s, limit) ==
  /\ pc = "poll" => age[s] + left < limit + PingPong
  /\ pc = "handle" \/ pc = "closing" => age[s] < limit + PingPong + busy
  /\ pc = "check" => age[s] < (IF s \in todo THEN limit + PingPong + busy ELSE limit)

(* A ping was displaced by data, and no check has seen the session since.  *)
DisplacedLately(s) ==
  missed[s] = "displaced" /\ (pc \in {"handle", "closing"} \/ s \in todo)

(* A peer that no ping was tried on, or none again after data displaced    *)
(* the last, has been silent for less than ping_pong where the last check  *)
(* saw it.                                                                 *)
SilenceInv ==
  \A s \in open :
    cont[s] => /\ ~expired[s] /\ PingInv(s)
               /\ Tried(s) \/ DisplacedLately(s) \/ SeenWithin(s, PingPong)

AskInv == TypeOK /\ LoopInv /\ SilenceInv

(* Callbacks and checks are about established sessions only: a session     *)
(* leaves ready and todo before or when it is closed.                      *)
LEMMA LoopNext == TypeOK /\ LoopInv /\ [Next]_vars => LoopInv'
<1> SUFFICES ASSUME TypeOK, LoopInv, [Next]_vars PROVE LoopInv'
  OBVIOUS
<1> USE DEF LoopInv
<1>1. CASE Tick \/ PollReturn \/ Closed
  BY <1>1 DEF Tick, PollReturn, Closed, sessVars
<1>2. CASE ServiceReturns \/ CheckEnds
  BY <1>2 DEF ServiceReturns, CheckEnds, sessVars
<1>3. ASSUME NEW s \in Sessions, PongArrives(s) \/ Shutdown(s) \/ Establish(s) PROVE LoopInv'
  BY <1>3 DEF PongArrives, Shutdown, Establish, loopVars
<1>4. ASSUME NEW s \in Sessions, Callback(s) PROVE LoopInv'
  BY <1>4 DEF Callback, Receive, ReceivePong, PendingPingGoes, DataGoes, OtherCallback,
     PeerCloses, Handled, sessVars
<1>5. ASSUME NEW s \in Sessions, CheckSession(s) PROVE LoopInv'
  BY <1>5 DEF CheckSession, CheckOver, Expire, CheckSilent, CheckHealthy, Checked
<1>6. CASE UNCHANGED vars
  BY <1>6 DEF vars, sessVars, loopVars
<1> QED
  BY <1>1, <1>2, <1>3, <1>4, <1>5, <1>6 DEF Next

(* No session exists, so none was forgotten.                               *)
LEMMA AskInit == Init => AskInv
  BY TypeInit DEF AskInv, Init, LoopInv, SilenceInv

(* A session whose silence lasts is asked at the first check that sees it, *)
(* and a question stays open until the pong that ends the silence: one     *)
(* step per action.                                                        *)
LEMMA AskNext == ASSUME PingPong > 0
                 PROVE  AskInv /\ [Next]_vars => AskInv'
<1> SUFFICES ASSUME AskInv, [Next]_vars PROVE SilenceInv'
  BY TypeNext, LoopNext DEF AskInv
<1> USE HealthConstants DEF SilenceInv, Tried, DisplacedLately
<1>0. TypeOK /\ TypeOK' /\ LoopInv /\ SilenceInv
  BY TypeNext DEF AskInv
<1>1. CASE Tick
  <2>1. \A s \in Sessions : age'[s] \in Int /\ age[s] \in Int /\ age'[s] <= age[s] + 1
    BY <1>0, <1>1 DEF Tick, TypeOK, MaxAge
  <2>2. \/ pc = "poll" /\ left' = left - 1
        \/ pc = "closing" /\ busy' = busy + 1
    BY <1>1 DEF Tick
  <2>3. left \in Int /\ busy \in Int /\ PingPong \in Int
    BY <1>0 DEF TypeOK
  <2>4. \A s \in open : SeenWithin(s, PingPong) => SeenWithin(s, PingPong)'
    BY <1>0, <1>1, <2>1, <2>2, <2>3 DEF Tick, SeenWithin, TypeOK
  <2> QED
    BY <1>0, <1>1, <2>4 DEF Tick, PingInv
<1>2. CASE PollReturn
  <2>1. \A s \in open : SeenWithin(s, PingPong) => SeenWithin(s, PingPong)'
    BY <1>0, <1>2 DEF PollReturn, SeenWithin, TypeOK, sessVars
  <2> QED
    BY <1>0, <1>2, <2>1 DEF PollReturn, PingInv, sessVars
<1>3. CASE Closed
  BY <1>0, <1>3 DEF Closed, PingInv, SeenWithin, TypeOK, LoopInv
<1>4. CASE ServiceReturns
  BY <1>0, <1>4 DEF TypeOK, ServiceReturns, PingInv, SeenWithin, LoopInv, sessVars
<1>5. CASE CheckEnds
  BY <1>0, <1>5 DEF CheckEnds, PollSeconds, PingInv, SeenWithin, TypeOK, sessVars
<1>6. ASSUME NEW s \in Sessions, PongArrives(s) \/ Shutdown(s) PROVE SilenceInv'
  BY <1>0, <1>6 DEF PongArrives, Shutdown, PingInv, SeenWithin, TypeOK, loopVars, None
<1>7. ASSUME NEW s \in Sessions, Establish(s) PROVE SilenceInv'
  BY <1>0, <1>7 DEF Establish, PingInv, SeenWithin, TypeOK, loopVars
<1>8. ASSUME NEW s \in Sessions, Receive(s) PROVE SilenceInv'
  BY <1>0, <1>8 DEF Receive, Handled, PingInv, SeenWithin, TypeOK
<1>9. ASSUME NEW s \in Sessions, ReceivePong(s) PROVE SilenceInv'
  BY <1>0, <1>9 DEF ReceivePong, Handled, PingInv, SeenWithin, TypeOK, LoopInv, None
<1>10. ASSUME NEW s \in Sessions, PendingPingGoes(s) PROVE SilenceInv'
  BY <1>0, <1>10 DEF PendingPingGoes, PingWritten, PingFails, Handled, PingInv,
     SeenWithin, TypeOK, None
<1>11. ASSUME NEW s \in Sessions, DataGoes(s) \/ OtherCallback(s) \/ PeerCloses(s)
       PROVE  SilenceInv'
  BY <1>0, <1>11 DEF DataGoes, OtherCallback, PeerCloses, Handled, PingInv, SeenWithin,
     TypeOK, sessVars
<1>12. ASSUME NEW s \in Sessions, CheckOver(s) \/ Expire(s) PROVE SilenceInv'
  BY <1>0, <1>12 DEF CheckOver, Expire, SendPing, PingWritten, PingFails, Checked, PingInv,
     SeenWithin, TypeOK, None
<1>13. ASSUME NEW s \in Sessions, CheckSilent(s) PROVE SilenceInv'
  BY <1>0, <1>13 DEF CheckSilent, SendPing, PingWritten, PingFails, Checked, PingInv,
     SeenWithin, TypeOK, None
<1>14. ASSUME NEW s \in Sessions, CheckHealthy(s) PROVE SilenceInv'
  BY <1>0, <1>14 DEF CheckHealthy, Silent, Checked, PingInv, SeenWithin, TypeOK
<1>15. CASE UNCHANGED vars
  BY <1>0, <1>15 DEF vars, sessVars, loopVars, PingInv, SeenWithin
<1> QED
  BY <1>1, <1>2, <1>3, <1>4, <1>5, <1>6, <1>7, <1>8, <1>9, <1>10, <1>11, <1>12,
     <1>13, <1>14, <1>15
     DEF Next, Callback, CheckSession

(* The same for a session that goes on, asked or not: at a check it is     *)
(* over, or its silence is within both limits.                             *)
ExpiryInv ==
  \A s \in open : cont[s] => SeenWithin(s, PingPong + PongTimeout)

(* A session whose silence lasts is over at the first check that sees both *)
(* limits passed: one step per action.                                     *)
LEMMA ExpiryNext == ASSUME PingPong > 0
                    PROVE  TypeOK /\ LoopInv /\ ExpiryInv /\ [Next]_vars => ExpiryInv'
<1> SUFFICES ASSUME TypeOK, LoopInv, ExpiryInv, [Next]_vars PROVE ExpiryInv'
  OBVIOUS
<1> USE HealthConstants DEF ExpiryInv
<1> DEFINE limit == PingPong + PongTimeout
<1>1. CASE Tick
  <2>1. \A s \in Sessions : age'[s] \in Int /\ age[s] \in Int /\ age'[s] <= age[s] + 1
    BY <1>1 DEF Tick, TypeOK, MaxAge
  <2>2. \/ pc = "poll" /\ left' = left - 1
        \/ pc = "closing" /\ busy' = busy + 1
    BY <1>1 DEF Tick
  <2>3. left \in Int /\ busy \in Int /\ PingPong \in Int
    BY DEF TypeOK
  <2>4. \A s \in open : SeenWithin(s, limit) => SeenWithin(s, limit)'
    BY <1>1, <2>1, <2>2, <2>3 DEF Tick, SeenWithin, TypeOK
  <2> QED
    BY <1>1, <2>4 DEF Tick
<1>2. CASE PollReturn
  BY <1>2 DEF PollReturn, SeenWithin, TypeOK, sessVars
<1>3. CASE Closed
  BY <1>3 DEF Closed, SeenWithin, TypeOK, LoopInv
<1>4. CASE ServiceReturns
  BY <1>4 DEF ServiceReturns, SeenWithin, LoopInv, sessVars
<1>5. CASE CheckEnds
  BY <1>5 DEF CheckEnds, PollSeconds, SeenWithin, TypeOK, sessVars
<1>6. ASSUME NEW s \in Sessions, PongArrives(s) \/ Shutdown(s) \/ Establish(s)
      PROVE  ExpiryInv'
  BY <1>6 DEF PongArrives, Shutdown, Establish, SeenWithin, TypeOK, loopVars
<1>7. ASSUME NEW s \in Sessions, Callback(s) PROVE ExpiryInv'
  BY <1>7 DEF Callback, Receive, ReceivePong, PendingPingGoes, DataGoes, OtherCallback,
     PeerCloses, Handled, SeenWithin, TypeOK, sessVars
<1>8. ASSUME NEW s \in Sessions, CheckOver(s) \/ Expire(s) \/ CheckSilent(s)
      PROVE  ExpiryInv'
  BY <1>8 DEF CheckOver, Expire, CheckSilent, TimedOut, Checked, SeenWithin, TypeOK
<1>9. ASSUME NEW s \in Sessions, CheckHealthy(s) PROVE ExpiryInv'
  BY <1>9 DEF CheckHealthy, TimedOut, Checked, SeenWithin, TypeOK
<1>10. CASE UNCHANGED vars
  BY <1>10 DEF vars, sessVars, loopVars, SeenWithin
<1> QED
  BY <1>1, <1>2, <1>3, <1>4, <1>5, <1>6, <1>7, <1>8, <1>9, <1>10 DEF Next, CheckSession

(* A daemon asks every silent peer within twice the interval and gives it  *)
(* up the timeout later at most, whatever the interval and the timeout and *)
(* however long other sessions take to close.                              *)
THEOREM SilenceIsBoundedSafe ==
  ASSUME PingPong > 0
  PROVE  Spec => []SilenceIsBounded
<1>1. AskInv /\ ExpiryInv => SilenceIsBounded
  BY HealthConstants
     DEF AskInv, SilenceInv, DisplacedLately, ExpiryInv, SeenWithin, SilenceIsBounded, TypeOK,
         LoopInv
<1>2. Init => ExpiryInv
  BY DEF Init, ExpiryInv
<1>3. AskInv /\ ExpiryInv /\ [Next]_vars => ExpiryInv'
  BY ExpiryNext DEF AskInv
<1> QED
  BY <1>1, <1>2, <1>3, AskInit, AskNext, PTL DEF Spec

(* No step but the health check's ends a session for silence.              *)
LEMMA OnlyExpireExpires ==
  ASSUME TypeOK, [Next]_vars, NEW u \in Sessions, expired'[u], ~expired[u]
  PROVE  Expire(u)
<1>1. ASSUME NEW s \in Sessions, Expire(s) PROVE s = u
  BY <1>1 DEF Expire, TypeOK
<1>2. ~(Tick \/ PollReturn \/ Closed \/ ServiceReturns \/ CheckEnds \/ UNCHANGED vars)
  BY DEF Tick, PollReturn, Closed, ServiceReturns, CheckEnds, vars, sessVars, TypeOK
<1>3. ASSUME NEW s \in Sessions, PongArrives(s) \/ Shutdown(s) \/ Establish(s) PROVE FALSE
  BY <1>3 DEF PongArrives, Shutdown, Establish, TypeOK
<1>4. ASSUME NEW s \in Sessions, Callback(s) PROVE FALSE
  BY <1>4 DEF Callback, Receive, ReceivePong, PendingPingGoes, DataGoes, OtherCallback,
     PeerCloses, sessVars
<1>5. ASSUME NEW s \in Sessions, CheckOver(s) \/ CheckSilent(s) \/ CheckHealthy(s) PROVE FALSE
  BY <1>5 DEF CheckOver, CheckSilent, CheckHealthy
<1> QED
  BY <1>1, <1>2, <1>3, <1>4, <1>5 DEF Next, CheckSession

(* A session ends for silence only when its peer owes a pong or a ping has *)
(* been tried and could not be written, whatever the interval, if it and   *)
(* the time spent closing sessions fit into the timeout.                   *)
THEOREM AskedBeforeExpiredCorrect == Spec => AskedBeforeExpired
<1> DEFINE Asked == \A s \in open :
                      expired'[s] /\ ~expired[s] /\ PingPong + MaxBusy <= PongTimeout =>
                        Tried(s) \/ missed[s] = "displaced"
<1>1. ASSUME TypeOK, [Next]_vars, PingPong = 0 PROVE Asked
  BY <1>1, OnlyExpireExpires DEF Expire, TypeOK
<1>2. ASSUME AskInv, [Next]_vars, PingPong > 0 PROVE Asked
  <2> SUFFICES ASSUME NEW u \in open, expired'[u], ~expired[u],
                      PingPong + MaxBusy <= PongTimeout
               PROVE  Tried(u) \/ missed[u] = "displaced"
    OBVIOUS
  <2>1. Expire(u)
    BY <1>2, OnlyExpireExpires DEF AskInv, TypeOK
  <2>2. cont[u] /\ u \in todo /\ pc = "check" /\ age[u] >= PingPong + PongTimeout
    BY <2>1 DEF Expire, Checked, TimedOut
  <2> QED
    BY <1>2, <2>2, HealthConstants
       DEF AskInv, SilenceInv, DisplacedLately, SeenWithin, TypeOK
<1>3. CASE PingPong = 0
  BY <1>1, <1>3, TypeInit, TypeNext, PTL DEF Spec, AskedBeforeExpired
<1>4. CASE PingPong > 0
  BY <1>2, <1>4, AskInit, AskNext, PTL DEF Spec, AskedBeforeExpired
<1> QED
  BY <1>3, <1>4, HealthConstants

-----------------------------------------------------------------------------
(* The prompt peers.                                                       *)

(* The longest silence of a prompt peer that is asked, in the stages of    *)
(* the ping: it waits for the socket, goes to the peer and back, and lies  *)
(* in the socket.  No check sees a pong that poll has reported.            *)
AnswerInv(s) ==
  LET asking == 2 * PingPong + MaxBusy IN
  /\ ping_pending[s] =>
       IF s \in ready \/ pc \in {"poll", "check"}
       THEN age[s] < asking + (IF pc \in {"handle", "closing"} THEN busy ELSE 0)
       ELSE age[s] <= busy
  /\ ping_pending[s] /\ pc = "check" /\ s \in todo => age[s] <= busy
  /\ pong[s] = "coming" => age[s] < asking + MaxBusy + since[s]
  /\ pong[s] = "here" =>
       age[s] < asking + MaxBusy + Rtt + (IF s \in ready THEN MaxBusy + busy
                                          ELSE IF pc = "poll" THEN MaxBusy ELSE busy)

PromptInv ==
  /\ \A s \in Prompt : ~expired[s] /\ missed[s] = None
  /\ \A s \in open \cap Prompt :
       cont[s] /\ ~(pc = "closing" /\ closing = s) => AnswerInv(s)

(* The budget of a prompt peer, from the question to the pong, is kept by  *)
(* every step that lets time pass or uses it up.                           *)
LEMMA PromptNext ==
  ASSUME PingPong > 0, PingPong + 3 * MaxBusy + Rtt <= PongTimeout
  PROVE  AskInv /\ PromptInv /\ [Next]_vars => PromptInv'
<1> SUFFICES ASSUME AskInv, PromptInv, [Next]_vars,
                    NEW u \in Prompt
             PROVE  /\ ~expired'[u] /\ missed'[u] = None
                    /\ u \in open' /\ cont'[u] /\ ~(pc' = "closing" /\ closing' = u)
                         => AnswerInv(u)'
  BY DEF PromptInv
<1> USE HealthConstants
<1> DEFINE Goal == /\ ~expired'[u] /\ missed'[u] = None
                   /\ u \in open' /\ cont'[u] /\ ~(pc' = "closing" /\ closing' = u)
                        => AnswerInv(u)'
           Kept == u \in open /\ cont[u] /\ ~(pc = "closing" /\ closing = u)
                     => AnswerInv(u)
<1>0. TypeOK /\ TypeOK' /\ LoopInv /\ LoopInv' /\ SilenceInv
  BY TypeNext, LoopNext DEF AskInv
<1>k. ~expired[u] /\ missed[u] = None /\ Kept /\ u \in Sessions
  BY DEF PromptInv
<1> USE <1>0, <1>k
<1>1. CASE Tick
  <2>1. /\ age'[u] \in Int /\ age[u] \in Int /\ age'[u] <= age[u] + 1
        /\ since[u] \in Int /\ {left, busy} \subseteq Int
    BY <1>1 DEF Tick, TypeOK, MaxAge
  <2>2. CASE pc = "poll"
    <3>1. u \in open => ~ping_pending[u] /\ pong[u] # "here"
      BY <1>1, <2>2 DEF Tick, Due
    <3>2. pong[u] = "coming" => since'[u] = since[u] + 1
      BY <1>1, <2>2 DEF Tick, TypeOK
    <3> QED
      BY <1>1, <2>1, <2>2, <3>1, <3>2 DEF Tick, AnswerInv, LoopInv, None
  <2>3. CASE pc = "closing" /\ busy' = busy + 1
    <3>1. pong[u] = "coming" => since'[u] = since[u] + 1
      BY <1>1, <2>3 DEF Tick, TypeOK
    <3> QED
      BY <1>1, <2>1, <2>3, <3>1 DEF Tick, AnswerInv, None
  <2> QED
    BY <1>1, <2>2, <2>3 DEF Tick
<1>2. CASE PollReturn
  <2>1. u \in open /\ (ping_pending[u] \/ pong[u] = "here") => u \in ready'
    BY <1>2 DEF PollReturn, Due
  <2> QED
    BY <1>2, <2>1 DEF PollReturn, AnswerInv, TypeOK, LoopInv, sessVars, None
<1>3. CASE Closed
  BY <1>3 DEF Closed, AnswerInv, TypeOK, LoopInv, None
<1>4. CASE ServiceReturns
  BY <1>4 DEF ServiceReturns, AnswerInv, TypeOK, LoopInv, sessVars, None
<1>5. CASE CheckEnds
  BY <1>5 DEF CheckEnds, AnswerInv, TypeOK, LoopInv, sessVars, None
<1>6. ASSUME NEW s \in Sessions, PongArrives(s) PROVE Goal
  BY <1>6 DEF PongArrives, AnswerInv, TypeOK, LoopInv, loopVars, None
<1>7. ASSUME NEW s \in Sessions, Shutdown(s) \/ Establish(s) PROVE Goal
  BY <1>7 DEF Shutdown, Establish, AnswerInv, TypeOK, loopVars
<1>8. ASSUME NEW s \in Sessions, Receive(s) PROVE Goal
  BY <1>8 DEF Receive, Handled, AnswerInv, TypeOK, LoopInv, None
<1>9. ASSUME NEW s \in Sessions, ReceivePong(s) PROVE Goal
  BY <1>9 DEF ReceivePong, Handled, AnswerInv, TypeOK, LoopInv, None
<1>10. ASSUME NEW s \in Sessions, PendingPingGoes(s) PROVE Goal
  BY <1>10 DEF PendingPingGoes, PingWritten, PingFails, Handled, AnswerInv, TypeOK,
     LoopInv, SilenceInv, PingInv, None
<1>11. ASSUME NEW s \in Sessions, DataGoes(s) \/ OtherCallback(s) PROVE Goal
  BY <1>11 DEF DataGoes, OtherCallback, Due, Handled, AnswerInv, TypeOK, sessVars, None
<1>12. ASSUME NEW s \in Sessions, PeerCloses(s) PROVE Goal
  BY <1>12 DEF PeerCloses, Handled, AnswerInv, TypeOK, sessVars
<1>13. ASSUME NEW s \in Sessions, CheckOver(s) PROVE Goal
  BY <1>13 DEF CheckOver, SendPing, PingWritten, PingFails, Checked, AnswerInv, TypeOK
<1>14. ASSUME NEW s \in Sessions, Expire(s) PROVE Goal
  <2>1. CASE s = u
    <3>1. u \in open /\ cont[u] /\ u \in todo /\ pc = "check" /\ ready = {}
          /\ age[u] >= PingPong + PongTimeout
      BY <1>14, <2>1 DEF Expire, Checked, TimedOut, LoopInv
    <3>2. ping_pending[u] \/ pong[u] # None
      BY <3>1 DEF SilenceInv, Tried, DisplacedLately, SeenWithin, TypeOK, None
    <3>3. FALSE
      BY <3>1, <3>2, <2>1 DEF AnswerInv, TypeOK, None
    <3> QED
      BY <3>3
  <2>2. CASE s # u
    BY <1>14, <2>2 DEF Expire, SendPing, PingWritten, PingFails, Checked, AnswerInv, TypeOK
  <2> QED
    BY <2>1, <2>2
<1>15. ASSUME NEW s \in Sessions, CheckSilent(s) PROVE Goal
  <2>1. CASE s = u
    <3>1. u \in open /\ cont[u] /\ ~pinged[u] /\ u \in todo /\ u \notin todo'
          /\ pc = "check" /\ pc' = "check" /\ ready = {} /\ ready' = {} /\ UNCHANGED <<age, busy, expired>>
      BY <1>15, <2>1 DEF CheckSilent, Checked, LoopInv
    <3>2. pong[u] = None
      BY <3>1 DEF SilenceInv, PingInv
    <3>3. age[u] < 2 * PingPong + MaxBusy /\ age[u] \in Int
      <4>1. CASE ping_pending[u]
        BY <3>1, <4>1 DEF AnswerInv, TypeOK
      <4>2. CASE ~ping_pending[u]
        BY <3>1, <3>2, <4>2 DEF SilenceInv, Tried, DisplacedLately, SeenWithin, TypeOK, None
      <4> QED
        BY <4>1, <4>2
    <3>4. CASE PingWritten(u)
      BY <1>15, <2>1, <3>1, <3>2, <3>3, <3>4 DEF PingWritten, AnswerInv, TypeOK, None
    <3>5. CASE /\ ping_pending' = [ping_pending EXCEPT ![u] = TRUE]
               /\ missed' = [missed EXCEPT ![u] = None] /\ UNCHANGED pong
      BY <1>15, <2>1, <3>1, <3>2, <3>3, <3>5 DEF AnswerInv, TypeOK, None
    <3> QED
      BY <1>15, <2>1, <3>1, <3>4, <3>5 DEF CheckSilent, SendPing, PingFails
  <2>2. CASE s # u
    BY <1>15, <2>2 DEF CheckSilent, SendPing, PingWritten, PingFails, Checked, AnswerInv, TypeOK
  <2> QED
    BY <2>1, <2>2
<1>16. ASSUME NEW s \in Sessions, CheckHealthy(s) PROVE Goal
  BY <1>16 DEF CheckHealthy, Checked, AnswerInv, TypeOK
<1>17. CASE UNCHANGED vars
  BY <1>17 DEF vars, sessVars, loopVars, AnswerInv
<1> QED
  BY <1>1, <1>2, <1>3, <1>4, <1>5, <1>6, <1>7, <1>8, <1>9, <1>10, <1>11, <1>12,
     <1>13, <1>14, <1>15, <1>16, <1>17
     DEF Next, Callback, CheckSession

(* A prompt peer is never taken for dead, whatever the interval, the       *)
(* timeout, the round trip and what closing sessions costs, unless the     *)
(* timeout is shorter than the interval, the round trip and three times    *)
(* that cost.                                                              *)
THEOREM PromptPeerKeptSafe == Spec => []PromptPeerKept
<1> USE HealthConstants
<1>1. CASE PingPong = 0
  <2> DEFINE Inv == \A s \in Sessions : ~expired[s]
  <2>1. Init => Inv
    BY DEF Init
  <2>2. TypeOK /\ Inv /\ [Next]_vars => Inv'
    BY <1>1, OnlyExpireExpires DEF Expire
  <2>3. Inv => PromptPeerKept
    BY DEF PromptPeerKept
  <2> QED
    BY <2>1, <2>2, <2>3, TypeInit, TypeNext, PTL DEF Spec
<1>2. CASE PongTimeout < PingPong + 3 * MaxBusy + Rtt
  <2>1. PromptPeerKept
    BY <1>2 DEF PromptPeerKept
  <2> QED
    BY <2>1, PTL
<1>3. CASE PingPong > 0 /\ PingPong + 3 * MaxBusy + Rtt <= PongTimeout
  <2>1. Init => PromptInv
    BY DEF Init, PromptInv
  <2>2. PromptInv => PromptPeerKept
    BY DEF PromptInv, PromptPeerKept
  <2> QED
    BY <1>3, <2>1, <2>2, AskInit, AskNext, PromptNext, PTL DEF Spec
<1> QED
  BY <1>1, <1>2, <1>3
=============================================================================
