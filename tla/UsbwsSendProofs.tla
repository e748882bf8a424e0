--------------------------- MODULE UsbwsSendProofs ---------------------------
(***************************************************************************)
(* Proofs about UsbwsSend, for all values of its constants.                *)
(***************************************************************************)
EXTENDS UsbwsSend, TLAPS

(* The threads are all different.                                          *)
LEMMA ThreadFacts ==
  /\ Service \in Threads /\ Sender \in Threads /\ Service # Sender
  /\ Requesters \subseteq Threads /\ Service \notin Requesters
  /\ Foreign \subseteq Requesters /\ Sender \notin Foreign
  BY SendConstants DEF Threads, Requesters, Service, Sender

-----------------------------------------------------------------------------
(* Types.                                                                  *)

(* Every variable starts in its type.                                      *)
LEMMA TypeInit == Init => TypeOK
<1> SUFFICES ASSUME Init PROVE TypeOK
  OBVIOUS
<1>1. pc \in [Threads -> Pc]
  BY DEF Init, Pc
<1>2. 0 \in 0..MaxCalls /\ 0 \in 0..MaxLen /\ 0 \in 0..MaxFails /\ 0 \in -1..SendContent
  BY SendConstants
<1>3. {cont, writable, pinged, ping_pending} \subseteq BOOLEAN
      /\ {requested, armed, cancelled, raced, crashed} \subseteq BOOLEAN
  BY DEF Init
<1>4. unpublished \subseteq Fields /\ disc_send \subseteq Threads
      /\ {call_len, out_len} \subseteq 0..MaxLen /\ out \in [call : 0..MaxCalls, upto : Int]
  BY <1>2 DEF Init
<1> QED
  BY <1>1, <1>2, <1>3, <1>4 DEF Init, TypeOK

(* A move of one thread, with or without a signal, keeps the type of pc.   *)
LEMMA GotoType ==
  ASSUME TypeOK, NEW t \in Threads, NEW l \in Pc
  PROVE  /\ Goto(t, l) => pc' \in [Threads -> Pc]
         /\ SignalSendCond(t, l) => pc' \in [Threads -> Pc]
  BY ThreadFacts DEF TypeOK, Goto, SignalSendCond, Pc

(* A chunk is never longer than SEND_CONTENT.                              *)
LEMMA ChunkBytesType ==
  ASSUME TypeOK, ChunkBytes >= 0
  PROVE  ChunkBytes \in 0..SendContent
  BY SendConstants DEF TypeOK, ChunkBytes

(* Every step keeps every variable in its type.                            *)
LEMMA TypeNext == TypeOK /\ [Next]_vars => TypeOK'
<1> SUFFICES ASSUME TypeOK, [Next]_vars PROVE TypeOK'
  OBVIOUS
<1> USE ThreadFacts
<1>t. /\ pc \in [Threads -> Pc] /\ send_len \in Int /\ send_offset \in Int
      /\ sent \in Int /\ calls \in Nat /\ fails \in Nat
  BY SendConstants DEF TypeOK
<1>1. ASSUME NEW len \in 1..MaxLen, Send(len) PROVE TypeOK'
  <2>1. calls' \in 0..MaxCalls /\ call_len' \in 0..MaxLen
    BY <1>1, SendConstants DEF Send, TypeOK
  <2>2. pc' \in [Threads -> Pc]
    BY <1>1, GotoType DEF Send, Pc
  <2> QED
    BY <1>1, <2>1, <2>2 DEF Send, TypeOK, sessVars, lwsVars
<1>2. ASSUME NEW f \in Fields, Publish(f) PROVE TypeOK'
  <2>1. pc' \in [Threads -> Pc]
    BY <1>2, GotoType DEF Publish, Pc, TypeOK
  <2>2. send_buf' \in 0..MaxCalls /\ send_len' \in 0..MaxLen /\ send_offset' \in Int
        /\ unpublished' \subseteq Fields
    BY <1>2 DEF Publish, TypeOK
  <2> QED
    BY <1>2, <2>1, <2>2 DEF Publish, TypeOK, lwsVars, histVars
<1>3. ASSUME NEW t \in Threads, SendChunk(t) PROVE TypeOK'
  <2>1. CASE ChunkBytes < 0 \/ (send_buf = 0 /\ ChunkBytes > 0)
    <3>1. raced' \in BOOLEAN /\ crashed' \in BOOLEAN
      BY <1>3, <2>1, Zenon DEF SendChunk, TypeOK
    <3> QED
      BY <1>3, <2>1, <3>1 DEF SendChunk, TypeOK, sessVars, lwsVars
  <2>2. CASE ~(ChunkBytes < 0 \/ (send_buf = 0 /\ ChunkBytes > 0))
    <3>1. ChunkBytes \in 0..SendContent
      BY <1>t, <2>2, ChunkBytesType, SendConstants DEF ChunkBytes
    <3>2. sent' \in -1..SendContent /\ fails' \in 0..MaxFails
      BY <1>3, <1>t, <2>2, <3>1, SendConstants DEF SendChunk, WriteResults, TypeOK
    <3>3. out' \in [call : 0..MaxCalls, upto : Int] /\ out_len' \in 0..MaxLen
      BY <1>3, <1>t, <2>2, <3>1, SendConstants DEF SendChunk, TypeOK
    <3>4. pc' \in [Threads -> Pc]
      BY <1>3, <2>2, GotoType DEF SendChunk, Pc
    <3>5. raced' \in BOOLEAN /\ crashed' \in BOOLEAN
      BY <1>3, <2>2, Zenon DEF SendChunk, TypeOK
    <3> QED
      BY <1>3, <2>2, <3>2, <3>3, <3>4, <3>5 DEF SendChunk, TypeOK, sessVars, lwsVars
  <2> QED
    BY <2>1, <2>2
<1>4. ASSUME NEW t \in Threads, FinishChunk(t) PROVE TypeOK'
  <2>1. AfterChunk(t) \in Pc
    BY DEF AfterChunk, Pc
  <2>2. pc' \in [Threads -> Pc]
    BY <1>4, <2>1, GotoType DEF FinishChunk
  <2>3. send_offset' \in Int /\ send_buf' \in 0..MaxCalls /\ send_len' \in 0..MaxLen
    BY <1>4, <1>t, SendConstants DEF FinishChunk, Offset, TypeOK
  <2> QED
    BY <1>4, <2>2, <2>3 DEF FinishChunk, CallbackOnWritable, TypeOK, histVars
<1>5. ASSUME NEW t \in Foreign, ForeignRequest(t) PROVE TypeOK'
  BY <1>5, GotoType DEF ForeignRequest, TypeOK, Pc, sessVars, lwsVars, histVars
<1>6. ASSUME NEW t \in Requesters, RequestStep(t) PROVE TypeOK'
  <2>1. pc' \in [Threads -> Pc]
    BY <1>6, GotoType DEF RequestStep, CheckSendBuf, HandleSendRequest, CancelService, Pc
  <2> QED
    BY <1>6, <2>1 DEF RequestStep, CheckSendBuf, HandleSendRequest, CancelService, TypeOK,
       sessVars, lwsVars, histVars
<1>7. CASE TestComplete \/ SpuriousWakeup
  <2>1. pc' \in [Threads -> Pc]
    BY <1>7, GotoType DEF TestComplete, SpuriousWakeup, Pc
  <2> QED
    BY <1>7, <2>1 DEF TestComplete, SpuriousWakeup, TypeOK, sessVars, lwsVars, histVars
<1>8. CASE SendReturn
  <2>1. pc' \in [Threads -> Pc] /\ ret' \in Int
    BY <1>8, <1>t, GotoType DEF SendReturn, Pc
  <2> QED
    BY <1>8, <2>1 DEF SendReturn, TypeOK, sessVars, lwsVars, histVars
<1>9. CASE EnterPoll \/ PollCancelled \/ PollWritable \/ PollTimeout
  <2>1. pc' \in [Threads -> Pc]
    BY <1>9, GotoType DEF EnterPoll, PollCancelled, PollWritable, PollTimeout, Pc
  <2> QED
    BY <1>9, <2>1 DEF EnterPoll, PollCancelled, PollWritable, PollTimeout, TypeOK,
       sessVars, histVars
<1>10. CASE NothingDue \/ ReceivePong
  <2>1. pc' \in [Threads -> Pc]
    BY <1>10, GotoType DEF NothingDue, ReceivePong, Pc
  <2> QED
    BY <1>10, <2>1 DEF NothingDue, ReceivePong, TypeOK, sessVars, lwsVars, histVars
<1>11. CASE HandleWritable
  <2>1. pc' \in [Threads -> Pc]
    BY <1>11, GotoType DEF HandleWritable, Pc
  <2>2. fails' \in 0..MaxFails
    BY <1>11, <1>t, SendConstants DEF HandleWritable, WritePing, TypeOK
  <2> QED
    BY <1>11, <2>1, <2>2 DEF HandleWritable, WritePing, ClearPing, CallbackOnWritable, TypeOK
<1>12. CASE SendPing
  <2>1. pc' \in [Threads -> Pc]
    BY <1>12, GotoType DEF SendPing, Pc
  <2>2. fails' \in 0..MaxFails
    BY <1>12, <1>t, SendConstants DEF SendPing, WritePing, TypeOK
  <2> QED
    BY <1>12, <2>1, <2>2 DEF SendPing, WritePing, CallbackOnWritable, TypeOK
<1>13. ASSUME NEW t \in Threads, Discontinue(t) PROVE TypeOK'
  BY <1>13 DEF Discontinue, TypeOK, lwsVars, histVars
<1>14. ASSUME NEW t \in Threads, SignalSend(t) PROVE TypeOK'
  <2>1. pc' \in [Threads -> Pc]
    BY <1>14, <1>t, GotoType DEF SignalSend
  <2> QED
    BY <1>14, <2>1 DEF SignalSend, TypeOK, sessVars, lwsVars, histVars
<1>15. CASE UNCHANGED vars
  BY <1>15 DEF vars, sessVars, lwsVars, histVars, TypeOK
<1> QED
  BY <1>1, <1>2, <1>3, <1>4, <1>5, <1>6, <1>7, <1>8, <1>9, <1>10, <1>11, <1>12,
     <1>13, <1>14, <1>15
     DEF Next, Running, Crashed, SenderStep, ServiceStep, ChunkStep

(* Every variable of the send side keeps its type; no lws_write is given   *)
(* more bytes than the buffer on the stack holds.                          *)
THEOREM TypeCorrect == Spec => []TypeOK
  BY TypeInit, TypeNext, PTL DEF Spec

-----------------------------------------------------------------------------
(* The permission to write.                                                *)

(* At most one thread is between the two steps of __send_data, and only    *)
(* when the session has the permission to write.                           *)
InChunk(t) == pc[t] \in {"chunk", "finish"}

LockInv ==
  /\ \A t, u \in Threads : InChunk(t) /\ InChunk(u) => t = u
  /\ (\E t \in Threads : InChunk(t)) => writable

(* A poll that ends with a writable callback has a request behind it.      *)
ArmedIsRequested == armed => requested

TokenInv == TypeOK /\ LockInv /\ WritableToken /\ ArmedIsRequested

(* The first permission is the callback that usbws_handle_session asks for *)
(* when the connection is established.                                     *)
LEMMA TokenInit == Init => TokenInv
<1> SUFFICES ASSUME Init PROVE LockInv /\ WritableToken /\ ArmedIsRequested
  BY TypeInit DEF TokenInv
<1>1. \A t \in Threads : ~InChunk(t)
  BY DEF Init, InChunk
<1> QED
  BY <1>1, ThreadFacts DEF Init, LockInv, WritableToken, ArmedIsRequested

(* How a thread moves: to l, with nobody else moving except a sender that  *)
(* is woken up.                                                            *)
LEMMA Moves ==
  ASSUME TypeOK, NEW t \in Threads, NEW l \in Pc, Goto(t, l) \/ SignalSendCond(t, l)
  PROVE  /\ pc'[t] = l
         /\ \A u \in Threads \ {t} :
              pc'[u] = pc[u] \/ (u = Sender /\ pc[u] = "blocked" /\ pc'[u] = "test")
  BY ThreadFacts DEF TypeOK, Goto, SignalSendCond

(* poll waits for writable only on behalf of a request that was made.      *)
LEMMA ArmedNext == ArmedIsRequested /\ [Next]_vars => ArmedIsRequested'
<1> SUFFICES ASSUME ArmedIsRequested, [Next]_vars PROVE ArmedIsRequested'
  OBVIOUS
<1> USE DEF ArmedIsRequested
<1>1. ASSUME requested => requested', armed' => armed PROVE ArmedIsRequested'
  BY <1>1
<1>2. CASE SenderStep \/ SpuriousWakeup \/ \E len \in 1..MaxLen : Send(len)
  BY <1>2 DEF SenderStep, Publish, TestComplete, SendReturn, SpuriousWakeup, Send, lwsVars
<1>3. ASSUME NEW t \in Threads, ForeignRequest(t) \/ RequestStep(t)
      PROVE  ArmedIsRequested'
  BY <1>3 DEF ForeignRequest, RequestStep, CheckSendBuf, HandleSendRequest, CancelService,
     lwsVars
<1>4. ASSUME NEW t \in Threads, SendChunk(t) \/ FinishChunk(t) \/ Discontinue(t) \/ SignalSend(t)
      PROVE  ArmedIsRequested'
  BY <1>1, <1>4 DEF SendChunk, FinishChunk, Discontinue, SignalSend, lwsVars,
     CallbackOnWritable
<1>5. CASE EnterPoll \/ PollCancelled \/ PollTimeout \/ PollWritable \/ NothingDue
           \/ ReceivePong
  BY <1>5 DEF EnterPoll, PollCancelled, PollTimeout, PollWritable, NothingDue, ReceivePong,
     lwsVars
<1>6. CASE HandleWritable \/ SendPing
  BY <1>1, <1>6 DEF HandleWritable, SendPing, WritePing, CallbackOnWritable
<1>7. CASE UNCHANGED vars
  BY <1>7 DEF vars, lwsVars
<1> QED
  BY <1>2, <1>3, <1>4, <1>5, <1>6, <1>7, ThreadFacts
     DEF Next, Running, Crashed, ServiceStep, ChunkStep

(* Whoever clears writable asks for the next callback before it lets go of *)
(* writable_lock, and nobody else touches either.                          *)
LEMMA TokenNext == TokenInv /\ [Next]_vars => TokenInv'
<1> SUFFICES ASSUME TokenInv, [Next]_vars PROVE LockInv' /\ WritableToken'
  BY TypeNext, ArmedNext DEF TokenInv
<1> USE ThreadFacts
<1>0. TypeOK /\ LockInv /\ WritableToken /\ ArmedIsRequested
  BY DEF TokenInv
<1>t. {writable, requested} \subseteq BOOLEAN /\ pc \in [Threads -> Pc]
  BY <1>0 DEF TypeOK
(* Steps of one thread that neither send nor touch the permission.         *)
<1>1. ASSUME NEW t \in Threads, NEW l \in Pc \ {"chunk", "finish", "writable"},
             Goto(t, l) \/ SignalSendCond(t, l),
             UNCHANGED <<writable, requested>>,
             pc[t] \notin {"chunk", "finish", "writable"}
      PROVE  LockInv' /\ WritableToken'
  <2>1. \A u \in Threads : InChunk(u)' <=> InChunk(u)
    BY <1>0, <1>1, Moves DEF InChunk
  <2>2. (pc'[Service] = "writable") <=> (pc[Service] = "writable")
    BY <1>0, <1>1, Moves
  <2>3. LockInv'
    BY <1>0, <1>1, <2>1 DEF LockInv
  <2> QED
    BY <1>0, <1>1, <2>2, <2>3 DEF WritableToken
<1>2. ASSUME NEW len \in 1..MaxLen, Send(len) PROVE LockInv' /\ WritableToken'
  BY <1>1, <1>2 DEF Send, sessVars, lwsVars, Pc
<1>3. ASSUME NEW f \in Fields, Publish(f) PROVE LockInv' /\ WritableToken'
  <2>1. CASE Goto(Sender, "check")
    BY <1>1, <1>3, <2>1 DEF Publish, lwsVars, Pc
  <2>2. CASE UNCHANGED pc
    BY <1>0, <1>3, <2>2 DEF Publish, lwsVars, LockInv, InChunk, WritableToken
  <2> QED
    BY <1>3, <2>1, <2>2 DEF Publish
<1>4. ASSUME NEW t \in Threads, SendChunk(t) PROVE LockInv' /\ WritableToken'
  <2>1. UNCHANGED <<writable, requested>>
    BY <1>4 DEF SendChunk, sessVars, lwsVars
  <2>2. CASE UNCHANGED pc
    BY <1>0, <2>1, <2>2 DEF LockInv, InChunk, WritableToken
  <2>3. CASE Goto(t, "finish")
    <3>1. \A u \in Threads : InChunk(u)' <=> InChunk(u)
      BY <1>0, <1>4, <2>3, Moves DEF SendChunk, InChunk, Pc
    <3>2. (pc'[Service] = "writable") <=> (pc[Service] = "writable")
      BY <1>0, <1>4, <2>3, Moves DEF SendChunk, Pc
    <3>3. LockInv'
      BY <1>0, <2>1, <3>1 DEF LockInv
    <3> QED
      BY <1>0, <2>1, <3>2, <3>3 DEF WritableToken
  <2> QED
    BY <1>4, <2>2, <2>3 DEF SendChunk
<1>5. ASSUME NEW t \in Threads, FinishChunk(t) PROVE LockInv' /\ WritableToken'
  <2>1. AfterChunk(t) \in Pc \ {"chunk", "finish", "writable"}
    BY DEF AfterChunk, Pc
  <2>2. \A u \in Threads : ~InChunk(u)'
    BY <1>0, <1>5, <2>1, Moves DEF FinishChunk, InChunk, LockInv
  <2>3. pc[Service] # "writable"
    BY <1>0, <1>5 DEF FinishChunk, InChunk, LockInv, WritableToken
  <2>4. pc'[Service] # "writable"
    BY <1>0, <1>5, <2>1, <2>3, Moves DEF FinishChunk
  <2>5. writable' = FALSE /\ requested' = TRUE
    BY <1>5 DEF FinishChunk, CallbackOnWritable
  <2> QED
    BY <2>2, <2>4, <2>5 DEF LockInv, WritableToken
<1>6. ASSUME NEW t \in Foreign, ForeignRequest(t) PROVE LockInv' /\ WritableToken'
  BY <1>1, <1>6 DEF ForeignRequest, sessVars, lwsVars, Pc
<1>7. ASSUME NEW t \in Requesters, CheckSendBuf(t) \/ CancelService(t)
      PROVE  LockInv' /\ WritableToken'
  BY <1>1, <1>7 DEF CheckSendBuf, CancelService, sessVars, lwsVars, Pc
<1>8. ASSUME NEW t \in Requesters, HandleSendRequest(t) PROVE LockInv' /\ WritableToken'
  <2>1. UNCHANGED <<writable, requested>> /\ WritableLockFree /\ pc[t] = "lock"
    BY <1>8 DEF HandleSendRequest, sessVars, lwsVars
  <2>2. CASE writable
    <3>1. Goto(t, "chunk")
      BY <1>8, <2>2 DEF HandleSendRequest
    <3>2. pc'[t] = "chunk" /\ \A u \in Threads \ {t} : ~InChunk(u)'
      BY <1>0, <2>1, <3>1, Moves DEF Pc, InChunk, WritableLockFree
    <3>3. pc'[Service] = pc[Service]
      BY <1>0, <3>1, Moves DEF Pc
    <3> QED
      BY <1>0, <2>1, <2>2, <3>2, <3>3 DEF LockInv, WritableToken
  <2>3. CASE ~writable
    BY <1>1, <1>8, <2>1, <2>3 DEF HandleSendRequest, Pc
  <2> QED
    BY <2>2, <2>3
<1>9. CASE TestComplete \/ SpuriousWakeup \/ SendReturn
  BY <1>1, <1>9 DEF TestComplete, SpuriousWakeup, SendReturn, sessVars, lwsVars, Pc
<1>10. CASE EnterPoll \/ PollCancelled \/ PollTimeout
  BY <1>1, <1>10 DEF EnterPoll, PollCancelled, PollTimeout, sessVars, Pc
<1>11. CASE NothingDue \/ ReceivePong
  BY <1>1, <1>11 DEF NothingDue, ReceivePong, sessVars, lwsVars, Pc
<1>12. CASE PollWritable
  <2>1. Goto(Service, "writable") /\ pc[Service] = "poll" /\ requested' = FALSE
        /\ UNCHANGED writable
    BY <1>12 DEF PollWritable, sessVars
  <2>2. (\A u \in Threads : InChunk(u)' <=> InChunk(u)) /\ pc'[Service] = "writable"
    BY <1>0, <2>1, Moves DEF InChunk, Pc
  <2>3. ~writable
    BY <1>0, <1>12 DEF PollWritable, ArmedIsRequested, WritableToken
  <2> QED
    BY <1>0, <2>1, <2>2, <2>3 DEF LockInv, WritableToken
<1>13. CASE HandleWritable
  <2>1. WritableLockFree /\ pc[Service] = "writable" /\ ~requested
    BY <1>0, <1>13 DEF HandleWritable, WritableToken
  <2>2. CASE writable' = TRUE /\ UNCHANGED requested
             /\ (Goto(Service, "chunk") \/ Goto(Service, "awake"))
    <3>1. pc'[Service] \in {"chunk", "awake"} /\ \A u \in Threads \ {Service} : ~InChunk(u)'
      BY <1>0, <2>1, <2>2, Moves DEF Pc, InChunk, WritableLockFree
    <3> QED
      BY <2>1, <2>2, <3>1 DEF LockInv, WritableToken
  <2>3. CASE WritePing /\ Goto(Service, "awake")
    <3>1. pc'[Service] = "awake" /\ \A u \in Threads : ~InChunk(u)'
      BY <1>0, <2>1, <2>3, Moves DEF Pc, InChunk, WritableLockFree
    <3> QED
      BY <2>3, <3>1 DEF WritePing, CallbackOnWritable, LockInv, WritableToken
  <2> QED
    BY <1>13, <2>2, <2>3 DEF HandleWritable
<1>14. CASE SendPing
  <2>1. WritableLockFree /\ pc[Service] = "awake" /\ Goto(Service, "enter")
    BY <1>14 DEF SendPing
  <2>2. pc'[Service] = "enter" /\ \A u \in Threads : ~InChunk(u)'
    BY <1>0, <2>1, Moves DEF Pc, InChunk, WritableLockFree
  <2>3. CASE writable
    BY <1>14, <2>2, <2>3 DEF SendPing, WritePing, CallbackOnWritable, LockInv, WritableToken
  <2>4. CASE ~writable
    BY <1>0, <1>14, <2>1, <2>2, <2>4 DEF SendPing, LockInv, WritableToken
  <2> QED
    BY <2>3, <2>4
<1>15. ASSUME NEW t \in Threads, Discontinue(t) PROVE LockInv' /\ WritableToken'
  BY <1>0, <1>15 DEF Discontinue, lwsVars, LockInv, InChunk, WritableToken
<1>16. ASSUME NEW t \in Threads, SignalSend(t) PROVE LockInv' /\ WritableToken'
  <2>1. SignalSendCond(t, pc[t]) /\ pc[t] \in Pc /\ UNCHANGED <<writable, requested>>
    BY <1>16, <1>t DEF SignalSend, sessVars, lwsVars
  <2>2. \A u \in Threads : InChunk(u)' <=> InChunk(u)
    BY <1>0, <2>1, Moves DEF InChunk
  <2>3. (pc'[Service] = "writable") <=> (pc[Service] = "writable")
    BY <1>0, <2>1, Moves
  <2>4. LockInv'
    BY <1>0, <2>1, <2>2 DEF LockInv
  <2> QED
    BY <1>0, <2>1, <2>3, <2>4 DEF WritableToken
<1>17. CASE UNCHANGED vars
  BY <1>0, <1>17 DEF vars, sessVars, lwsVars, LockInv, InChunk, WritableToken
<1> QED
  BY <1>2, <1>3, <1>4, <1>5, <1>6, <1>7, <1>8, <1>9, <1>10, <1>11, <1>12, <1>13,
     <1>14, <1>15, <1>16, <1>17
     DEF Next, Running, Crashed, SenderStep, ServiceStep, RequestStep, ChunkStep

(* writable, the lock and the request for a callback hold the one          *)
(* permission to write between them, in every state.                       *)
THEOREM TokenInvCorrect == Spec => []TokenInv
  BY TokenInit, TokenNext, PTL DEF Spec

(* However requests, writable callbacks and pings fall, the permission to  *)
(* write is in exactly one place.                                          *)
THEOREM WritableTokenSafe == Spec => []WritableToken
<1>1. TokenInv => WritableToken
  BY DEF TokenInv
<1> QED
  BY TokenInvCorrect, <1>1, PTL

-----------------------------------------------------------------------------
(* Pings and the sleeping sender.                                          *)

(* A ping is left waiting by usbws_send_ping only, and taken up by the     *)
(* next writable callback.                                                 *)
LEMMA PingNext == TypeOK /\ PingWaits /\ [Next]_vars => PingWaits'
<1> SUFFICES ASSUME TypeOK, PingWaits, [Next]_vars PROVE PingWaits'
  OBVIOUS
<1> USE DEF PingWaits
<1>1. ASSUME UNCHANGED <<ping_pending, pinged>>, cont' => cont, writable' => writable
      PROVE  PingWaits'
  BY <1>1
<1>2. ASSUME NEW len \in 1..MaxLen, Send(len) PROVE PingWaits'
  BY <1>2 DEF Send, sessVars
<1>3. ASSUME NEW f \in Fields, Publish(f) PROVE PingWaits'
  BY <1>3 DEF Publish
<1>4. ASSUME NEW t \in Threads, SendChunk(t) \/ FinishChunk(t) \/ Discontinue(t) \/ SignalSend(t)
      PROVE  PingWaits'
  BY <1>1, <1>4 DEF SendChunk, FinishChunk, Discontinue, SignalSend, sessVars
<1>5. ASSUME NEW t \in Threads, ForeignRequest(t) \/ RequestStep(t) PROVE PingWaits'
  BY <1>5 DEF ForeignRequest, RequestStep, CheckSendBuf, HandleSendRequest, CancelService,
     sessVars
<1>6. CASE TestComplete \/ SpuriousWakeup \/ SendReturn
  BY <1>6 DEF TestComplete, SpuriousWakeup, SendReturn, sessVars
<1>7. CASE EnterPoll \/ PollCancelled \/ PollWritable \/ PollTimeout \/ NothingDue
  BY <1>7 DEF EnterPoll, PollCancelled, PollWritable, PollTimeout, NothingDue, sessVars
<1>8. CASE HandleWritable
  BY <1>8 DEF HandleWritable, ClearPing
<1>9. CASE SendPing
  BY <1>9 DEF SendPing, WritePing
<1>10. CASE ReceivePong
  BY <1>10 DEF ReceivePong
<1>11. CASE UNCHANGED vars
  BY <1>11 DEF vars, sessVars
<1> QED
  BY <1>2, <1>3, <1>4, <1>5, <1>6, <1>7, <1>8, <1>9, <1>10, <1>11, ThreadFacts
     DEF Next, Running, Crashed, SenderStep, ServiceStep, ChunkStep

(* A ping never waits on a writable socket, nor for the answer to an       *)
(* earlier one while the session goes on.                                  *)
THEOREM PingWaitsSafe == Spec => []PingWaits
<1>1. Init => PingWaits
  BY DEF Init, PingWaits
<1> QED
  BY <1>1, TypeCorrect, PingNext, PTL DEF Spec

(* Whoever makes the wait condition of usbws_send false signals after      *)
(* that, and the sender looks at it under the lock of the signal.          *)
LEMMA SenderNext == TypeOK /\ SenderNotAbandoned /\ [Next]_vars => SenderNotAbandoned'
<1> SUFFICES ASSUME TypeOK, SenderNotAbandoned, [Next]_vars PROVE SenderNotAbandoned'
  OBVIOUS
<1> USE ThreadFacts DEF SenderNotAbandoned
(* Steps that do not put the sender to sleep and take nothing away from it. *)
<1>1. ASSUME NEW t \in Threads, NEW l \in Pc \ {"blocked"}, Goto(t, l),
             UNCHANGED <<cont, send_buf, disc_send>>
      PROVE  SenderNotAbandoned'
  <2>1. pc'[Sender] = "blocked" => pc[Sender] = "blocked"
    BY <1>1, Moves
  <2> QED
    BY <1>1, <2>1
<1>2. ASSUME NEW t \in Threads, NEW l \in Pc, SignalSendCond(t, l), t = Sender => l # "blocked"
      PROVE  pc'[Sender] # "blocked"
  BY <1>2 DEF SignalSendCond, TypeOK
<1>3. ASSUME NEW len \in 1..MaxLen, Send(len) PROVE SenderNotAbandoned'
  BY <1>1, <1>3 DEF Send, sessVars, Pc
<1>4. ASSUME NEW f \in Fields, Publish(f) PROVE SenderNotAbandoned'
  <2>1. pc'[Sender] # "blocked"
    BY <1>4 DEF Publish, Goto, TypeOK
  <2> QED
    BY <2>1
<1>5. ASSUME NEW t \in Threads, SendChunk(t) PROVE SenderNotAbandoned'
  <2>1. CASE UNCHANGED pc
    BY <1>5, <2>1 DEF SendChunk, sessVars
  <2>2. CASE Goto(t, "finish")
    BY <1>1, <1>5, <2>2 DEF SendChunk, sessVars, Pc
  <2> QED
    BY <1>5, <2>1, <2>2 DEF SendChunk
<1>6. ASSUME NEW t \in Threads, FinishChunk(t) PROVE SenderNotAbandoned'
  <2>1. AfterChunk(t) \in Pc \ {"blocked"}
    BY DEF AfterChunk, Pc
  <2>2. CASE AllSent
    BY <1>2, <1>6, <2>1, <2>2 DEF FinishChunk
  <2>3. CASE ~AllSent
    BY <1>1, <1>6, <2>1, <2>3 DEF FinishChunk
  <2> QED
    BY <2>2, <2>3
<1>7. ASSUME NEW t \in Threads, ForeignRequest(t) \/ RequestStep(t) PROVE SenderNotAbandoned'
  BY <1>1, <1>7 DEF ForeignRequest, RequestStep, CheckSendBuf, HandleSendRequest,
     CancelService, sessVars, Pc
<1>8. CASE TestComplete
  BY <1>8 DEF TestComplete, Goto, TypeOK, sessVars
<1>9. CASE SpuriousWakeup \/ SendReturn
  BY <1>1, <1>9 DEF SpuriousWakeup, SendReturn, sessVars, Pc
<1>10. CASE EnterPoll \/ PollCancelled \/ PollWritable \/ PollTimeout \/ NothingDue
            \/ SendPing \/ ReceivePong
  BY <1>1, <1>10 DEF EnterPoll, PollCancelled, PollWritable, PollTimeout, NothingDue,
     SendPing, ReceivePong, sessVars, Pc
<1>11. CASE HandleWritable
  BY <1>1, <1>11 DEF HandleWritable, Pc
<1>12. ASSUME NEW t \in Threads, Discontinue(t) PROVE SenderNotAbandoned'
  BY <1>12 DEF Discontinue
<1>13. ASSUME NEW t \in Threads, SignalSend(t) PROVE SenderNotAbandoned'
  <2>1. SignalSendCond(t, pc[t]) /\ pc[t] \in Pc /\ UNCHANGED send_buf
    BY <1>13 DEF SignalSend, sessVars, TypeOK
  <2>2. pc[t] # "blocked"
    BY <1>13 DEF SignalSend
  <2> QED
    BY <1>2, <2>1, <2>2
<1>14. CASE UNCHANGED vars
  BY <1>14 DEF vars, sessVars
<1> QED
  BY <1>3, <1>4, <1>5, <1>6, <1>7, <1>8, <1>9, <1>10, <1>11, <1>12, <1>13, <1>14
     DEF Next, Running, Crashed, SenderStep, ServiceStep, ChunkStep

(* Whoever ends the session and whenever, a sender asleep still has its    *)
(* buffer in the session and, once the session is over, a signal coming.   *)
THEOREM SenderSafe == Spec => []SenderNotAbandoned
<1>1. Init => SenderNotAbandoned
  BY ThreadFacts DEF Init, SenderNotAbandoned
<1> QED
  BY <1>1, TypeCorrect, SenderNext, PTL DEF Spec

(* Every step is one that SleepingCall allows, or leaves the sleep alone:  *)
(* send_buf is not cleared in front of a sleeping sender.                  *)
LEMMA CallNext == TypeOK /\ SenderNotAbandoned /\ [Next]_vars => [Call!Next]_(Call!vars)
<1> SUFFICES ASSUME TypeOK, SenderNotAbandoned, [Next]_vars
             PROVE  [Call!Next]_(Call!vars)
  OBVIOUS
<1> USE ThreadFacts
<1> DEFINE asleep == pc[Sender] = "blocked"
(* The steps of SleepingCall, under the mapping.                           *)
<1>a. ASSUME ~asleep', UNCHANGED <<cont, disc_send>> PROVE Call!Next
  BY <1>a DEF Call!Next, Call!Awake
<1>b. ASSUME asleep' => asleep, UNCHANGED <<send_buf, cont, disc_send>>
      PROVE  [Call!Next]_(Call!vars)
  <2>1. CASE asleep'
    BY <1>b, <2>1 DEF Call!vars
  <2>2. CASE ~asleep'
    BY <1>a, <1>b, <2>2
  <2> QED
    BY <2>1, <2>2
(* A move of a thread that does not put the sender to sleep.               *)
<1>c. ASSUME NEW t \in Threads, NEW l \in Pc \ {"blocked"}, Goto(t, l),
             UNCHANGED <<send_buf, cont, disc_send>>
      PROVE  [Call!Next]_(Call!vars)
  <2>1. asleep' => asleep
    BY <1>c, Moves
  <2> QED
    BY <1>b, <1>c, <2>1
<1>1. ASSUME NEW len \in 1..MaxLen, Send(len) PROVE [Call!Next]_(Call!vars)
  BY <1>1, <1>c DEF Send, sessVars, Pc
<1>2. ASSUME NEW f \in Fields, Publish(f) PROVE Call!Next
  <2>1. ~asleep' /\ UNCHANGED <<cont, disc_send>>
    BY <1>2 DEF Publish, Goto, TypeOK
  <2> QED
    BY <2>1, <1>a
<1>3. ASSUME NEW t \in Threads, SendChunk(t) PROVE [Call!Next]_(Call!vars)
  <2>1. CASE UNCHANGED pc
    BY <1>b, <1>3, <2>1 DEF SendChunk, sessVars
  <2>2. CASE Goto(t, "finish")
    BY <1>c, <1>3, <2>2 DEF SendChunk, sessVars, Pc
  <2> QED
    BY <1>3, <2>1, <2>2 DEF SendChunk
<1>4. ASSUME NEW t \in Threads, FinishChunk(t) PROVE [Call!Next]_(Call!vars)
  <2>1. AfterChunk(t) \in Pc \ {"blocked"} /\ UNCHANGED <<cont, disc_send>>
    BY <1>4 DEF AfterChunk, Pc, FinishChunk
  <2>2. CASE AllSent
    <3>1. ~asleep'
      BY <1>4, <2>1, <2>2 DEF FinishChunk, SignalSendCond, TypeOK
    <3> QED
      BY <1>a, <2>1, <3>1
  <2>3. CASE ~AllSent
    BY <1>c, <1>4, <2>1, <2>3 DEF FinishChunk
  <2> QED
    BY <2>2, <2>3
<1>5. ASSUME NEW t \in Threads, ForeignRequest(t) \/ RequestStep(t)
      PROVE  [Call!Next]_(Call!vars)
  BY <1>c, <1>5 DEF ForeignRequest, RequestStep, CheckSendBuf, HandleSendRequest,
     CancelService, sessVars, Pc
<1>6. CASE TestComplete
  <2>1. UNCHANGED <<send_buf, cont, disc_send>>
    BY <1>6 DEF TestComplete, sessVars
  <2>2. CASE cont /\ send_buf # 0 /\ asleep'
    BY <2>1, <2>2 DEF Call!Next, Call!Sleep
  <2>3. CASE ~asleep'
    BY <1>a, <2>1, <2>3
  <2> QED
    BY <1>6, <2>2, <2>3 DEF TestComplete, Goto, TypeOK
<1>7. CASE SpuriousWakeup \/ SendReturn
  BY <1>c, <1>7 DEF SpuriousWakeup, SendReturn, sessVars, Pc
<1>8. CASE EnterPoll \/ PollCancelled \/ PollWritable \/ PollTimeout \/ NothingDue
           \/ SendPing \/ ReceivePong
  BY <1>c, <1>8 DEF EnterPoll, PollCancelled, PollWritable, PollTimeout, NothingDue,
     SendPing, ReceivePong, sessVars, Pc
<1>9. CASE HandleWritable
  BY <1>c, <1>9 DEF HandleWritable, Pc
<1>10. ASSUME NEW t \in Threads, Discontinue(t) PROVE Call!Next
  <2>1. ~cont' /\ disc_send' # {} /\ UNCHANGED <<pc, send_buf>>
    BY <1>10 DEF Discontinue
  <2> QED
    BY <2>1 DEF Call!Next, Call!End
<1>11. ASSUME NEW t \in Threads, SignalSend(t) PROVE Call!Next
  <2>1. disc_send # {} /\ UNCHANGED <<cont, send_buf>>
    BY <1>11 DEF SignalSend, sessVars
  <2>2. ~asleep'
    BY <1>11 DEF SignalSend, SignalSendCond, TypeOK
  <2> QED
    BY <2>1, <2>2 DEF Call!Next, Call!Signal
<1>12. CASE UNCHANGED vars
  BY <1>12 DEF vars, sessVars, Call!vars
<1> QED
  BY <1>1, <1>2, <1>3, <1>4, <1>5, <1>6, <1>7, <1>8, <1>9, <1>10, <1>11, <1>12
     DEF Next, Running, Crashed, SenderStep, ServiceStep, ChunkStep

(* usbws_send keeps the promise that the service of a daemon takes it at,  *)
(* for any number of threads that send or end the session.                 *)
THEOREM SleepsAsPromisedCorrect == Spec => SleepsAsPromised
<1>1. Init => Call!Init
  BY ThreadFacts DEF Init, Call!Init
<1> QED
  BY <1>1, TypeCorrect, SenderSafe, CallNext, PTL DEF Spec, SleepsAsPromised, Call!Spec

(* The promise is enough: a call that keeps it never sleeps in front of    *)
(* what it waits for, nor on a session that is over without a thread that  *)
(* is going to signal.                                                     *)
THEOREM PromiseSuffices == SleepsAsPromised => []Call!NotAbandoned
<1>1. Call!Init => Call!NotAbandoned
  BY DEF Call!Init, Call!NotAbandoned
<1>2. Call!NotAbandoned /\ [Call!Next]_(Call!vars) => Call!NotAbandoned'
  BY DEF Call!NotAbandoned, Call!Next, Call!Sleep, Call!Awake, Call!End, Call!Signal, Call!vars
<1> QED
  BY <1>1, <1>2, PTL DEF SleepsAsPromised, Call!Spec

-----------------------------------------------------------------------------
(* The bytes of a send.                                                    *)

InsidePc == {"check", "lock", "chunk", "finish", "cancel", "test", "blocked"}
Inside == pc[Sender] \in InsidePc

Writing == \E t \in Threads : pc[t] = "finish"

(* The last call is all written and the session is ready for the next one. *)
Finished ==
  /\ calls > 0 /\ ~Writing
  /\ send_buf = 0 /\ send_len = 0 /\ send_offset = call_len
  /\ out = [call |-> calls, upto |-> call_len] /\ out_len = call_len

(* What was written of the calls before the last one.                      *)
EarlierWritten == out.call < calls /\ out.upto = out_len

(* The last call is published and not all written; the chunk a thread has  *)
(* given to lws_write comes on top of send_offset or, if that fails, takes *)
(* one byte back.  As long as no write fails send_offset says what is      *)
(* written.                                                                *)
Unfinished ==
  /\ calls > 0 /\ send_buf = calls /\ send_len = call_len
  /\ send_offset < send_len
  /\ Writing =>
       /\ sent \in {ChunkBytes, -1} /\ out_len = call_len
       /\ out = [call |-> calls, upto |-> send_offset + ChunkBytes]
  /\ fails = 0 =>
       /\ 0 <= send_offset
       /\ IF Writing THEN sent = ChunkBytes
          ELSE \/ send_offset = 0 /\ EarlierWritten
               \/ out = [call |-> calls, upto |-> send_offset] /\ out_len = call_len

Untouched ==
  /\ calls = 0 /\ ~Writing /\ send_buf = 0 /\ send_len = 0
  /\ out.call = 0 /\ out.upto = 0 /\ out_len = 0

Publishing ==
  /\ calls > 0 /\ ~Writing /\ EarlierWritten /\ call_len > 0 /\ unpublished # {}
  /\ send_buf = IF "buf" \in unpublished THEN 0 ELSE calls
  /\ "len" \notin unpublished => send_len = call_len
  /\ "offset" \notin unpublished => send_offset = 0

(* Where the bytes of a send are while none was cut that was not pending.  *)
SendInv ==
  cont /\ ~raced =>
    \/ pc[Sender] = "idle" /\ (Untouched \/ (Finished /\ ret = call_len))
    \/ pc[Sender] = "publish" /\ Publishing
    \/ pc[Sender] = "done" /\ Finished
    \/ Inside /\ (Unfinished \/ Finished) /\ unpublished = {}

sendData == <<send_buf, send_len, send_offset, unpublished, sent, ret, calls, call_len,
              out, out_len>>

(* A step that cuts no chunk.                                              *)
Undisturbing == UNCHANGED raced /\ (fails' = 0 => fails = 0)

(* No send has begun.                                                      *)
LEMMA SendInit == Init => SendInv
<1> SUFFICES ASSUME Init PROVE SendInv
  OBVIOUS
<1>1. pc[Sender] = "idle" /\ ~Writing
  BY ThreadFacts DEF Init, Writing
<1> QED
  BY <1>1 DEF Init, SendInv, Untouched

(* A step that moves a thread and leaves the data of the send alone.       *)
LEMMA QuietStep ==
  ASSUME SendInv, UNCHANGED sendData, cont' => cont, Undisturbing,
         Writing' = Writing, pc'[Sender] = pc[Sender] \/ (Inside /\ pc'[Sender] \in InsidePc)
  PROVE  SendInv'
<1>1. (Untouched' = Untouched) /\ (Finished' = Finished) /\ (Publishing' = Publishing)
  BY DEF sendData, Untouched, Finished, Publishing, EarlierWritten
<1>2. Unfinished => Unfinished'
  BY DEF sendData, Unfinished, EarlierWritten, ChunkBytes, Undisturbing
<1> SUFFICES ASSUME cont', ~raced' PROVE SendInv'
  BY DEF SendInv
<1>5. cont /\ ~raced
  BY DEF Undisturbing
<1>3. CASE pc'[Sender] = pc[Sender]
  BY <1>1, <1>2, <1>3, <1>5 DEF SendInv, Inside, sendData
<1>4. CASE Inside /\ pc'[Sender] \in InsidePc
  <2>1. (Unfinished \/ Finished) /\ unpublished = {}
    BY <1>4, <1>5 DEF SendInv, Inside, InsidePc
  <2> QED
    BY <1>1, <1>2, <1>4, <2>1 DEF SendInv, Inside, sendData
<1> QED
  BY <1>3, <1>4

(* A step that only moves the control of a thread leaves the progress of a *)
(* send as it is.                                                          *)
LEMMA QuietMove ==
  ASSUME TypeOK, SendInv, NEW t \in Threads, NEW l \in Pc \ {"finish"},
         Goto(t, l) \/ SignalSendCond(t, l), pc[t] # "finish",
         t = Sender => l = pc[t] \/ (Inside /\ l \in InsidePc),
         UNCHANGED sendData, cont' => cont, Undisturbing
  PROVE  SendInv'
<1>1. Writing' = Writing
  BY Moves, ThreadFacts DEF Writing
<1>2. pc'[Sender] = pc[Sender] \/ (Inside /\ pc'[Sender] \in InsidePc)
  BY Moves, ThreadFacts DEF Inside, InsidePc
<1> QED
  BY <1>1, <1>2, QuietStep

(* A chunk cut from a pending send is the next part of its buffer.         *)
LEMMA ChunkStarts ==
  ASSUME TokenInv, SendInv, NEW t \in Threads, SendChunk(t), cont, ~raced'
  PROVE  /\ Inside /\ Unfinished /\ ~Writing /\ unpublished = {}
         /\ ChunkBytes \in 1..SendContent /\ ChunkBytes <= send_len - send_offset
         /\ sent' \in {ChunkBytes, -1} /\ out_len' = call_len
         /\ fails' = 0 => fails = 0 /\ sent' = ChunkBytes
         /\ out' = [call |-> calls, upto |-> send_offset + ChunkBytes]
         /\ Goto(t, "finish") /\ ~raced /\ UNCHANGED crashed
<1>1. fails \in Nat /\ send_len \in Int /\ send_offset \in Int /\ TypeOK /\ LockInv
      /\ SendContent \in Nat \ {0}
  BY SendConstants DEF TokenInv, TypeOK
<1>2. SendPending /\ ~raced
  BY DEF SendChunk
<1>5. Inside /\ Unfinished /\ unpublished = {}
  BY <1>2 DEF SendInv, SendPending, Finished, Unfinished, Inside
<1>6. ~Writing
  BY <1>1 DEF SendChunk, LockInv, InChunk, Writing
<1>7. ChunkBytes \in 1..SendContent /\ ChunkBytes <= send_len - send_offset
  BY <1>1, <1>5 DEF Unfinished, ChunkBytes
<1>8. ~(ChunkBytes < 0 \/ (send_buf = 0 /\ ChunkBytes > 0))
  BY <1>1, <1>5, <1>7 DEF Unfinished
<1>9. sent' \in {ChunkBytes, -1} /\ (fails' = 0 => fails = 0 /\ sent' = ChunkBytes)
  <2>1. sent' \in WriteResults /\ fails' = IF sent' = -1 THEN fails + 1 ELSE fails
    BY <1>8 DEF SendChunk
  <2>2. sent' \in {ChunkBytes, -1}
    BY <2>1 DEF WriteResults
  <2> QED
    BY <1>1, <2>1, <2>2
<1> QED
  BY <1>2, <1>5, <1>6, <1>7, <1>8, <1>9 DEF SendChunk, Unfinished

(* A send that nobody disturbs goes from published over partly written to  *)
(* finished: one step per action.                                          *)
LEMMA SendNext == TokenInv /\ SendInv /\ [Next]_vars => SendInv'
<1> SUFFICES ASSUME TokenInv, SendInv, [Next]_vars PROVE SendInv'
  OBVIOUS
<1> USE ThreadFacts
<1>0. TypeOK /\ LockInv
  BY DEF TokenInv
<1>t. /\ pc \in [Threads -> Pc] /\ calls \in Nat /\ fails \in Nat
      /\ {send_len, send_offset, sent, call_len, out_len} \subseteq Int
      /\ out \in [call : 0..MaxCalls, upto : Int] /\ out.call \in Nat
  BY <1>0, SendConstants DEF TypeOK
<1>1. ASSUME NEW len \in 1..MaxLen, Send(len) PROVE SendInv'
  <2>1. pc[Sender] = "idle" /\ pc'[Sender] = "publish" /\ ~Writing' = ~Writing
    BY <1>0, <1>1, Moves DEF Send, Pc, Writing
  <2>2. calls' = calls + 1 /\ call_len' = len /\ unpublished' = Fields /\ len > 0
        /\ UNCHANGED <<cont, send_buf, send_len, send_offset, out, out_len, fails, raced>>
    BY <1>1, SendConstants DEF Send, sessVars
  <2> SUFFICES ASSUME cont, ~raced PROVE Publishing'
    BY <2>1, <2>2 DEF SendInv, Undisturbing
  <2>3. Untouched \/ Finished
    BY <2>1 DEF SendInv, Inside, InsidePc
  <2>4. ~Writing' /\ send_buf = 0
    BY <2>1, <2>3 DEF Untouched, Finished
  <2>5. EarlierWritten'
    BY <1>t, <2>2, <2>3 DEF Untouched, Finished, EarlierWritten
  <2> QED
    BY <1>t, <2>2, <2>4, <2>5 DEF Publishing, Fields
<1>2. ASSUME NEW f \in Fields, Publish(f) PROVE SendInv'
  <2>1. /\ unpublished' = unpublished \ {f} /\ f \in unpublished /\ pc[Sender] = "publish"
        /\ UNCHANGED <<cont, calls, call_len, out, out_len, fails, raced>>
    BY <1>2 DEF Publish, histVars
  <2> SUFFICES ASSUME cont, ~raced PROVE SendInv'
    BY <2>1 DEF SendInv, Undisturbing
  <2>2. Publishing
    BY <2>1 DEF SendInv, Inside, InsidePc
  <2>3. /\ send_buf' = IF "buf" \in unpublished' THEN 0 ELSE calls
        /\ "len" \notin unpublished' => send_len' = call_len
        /\ "offset" \notin unpublished' => send_offset' = 0
    BY <1>2, <2>1, <2>2 DEF Publish, Publishing, Fields
  <2>4. Writing' = Writing
    BY <1>0, <1>2, <2>1, Moves DEF Publish, Writing, Pc
  <2>5. CASE unpublished' # {}
    BY <1>2, <2>1, <2>2, <2>3, <2>4, <2>5 DEF Publish, Publishing, EarlierWritten, SendInv
  <2>6. CASE unpublished' = {}
    <3>1. pc'[Sender] = "check"
      BY <1>0, <1>2, <2>6, Moves DEF Publish, Pc
    <3>2. send_buf' = calls /\ send_len' = call_len /\ send_offset' = 0
      BY <2>3, <2>6
    <3>3. Unfinished'
      BY <1>t, <2>1, <2>2, <2>4, <3>2 DEF Publishing, Unfinished, EarlierWritten
    <3> QED
      BY <2>6, <3>1, <3>3 DEF SendInv, Inside, InsidePc
  <2> QED
    BY <2>5, <2>6
<1>3. ASSUME NEW t \in Threads, SendChunk(t) PROVE SendInv'
  <2>1. UNCHANGED <<cont, send_buf, send_len, send_offset, unpublished, calls, call_len, ret>>
    BY <1>3 DEF SendChunk, sessVars
  <2> SUFFICES ASSUME cont, ~raced' PROVE Inside' /\ Unfinished' /\ unpublished' = {}
    BY <2>1 DEF SendInv
  <2>2. /\ Inside /\ Unfinished /\ unpublished = {} /\ ChunkBytes \in 1..SendContent
        /\ sent' \in {ChunkBytes, -1} /\ out_len' = call_len
        /\ fails' = 0 => fails = 0 /\ sent' = ChunkBytes
        /\ out' = [call |-> calls, upto |-> send_offset + ChunkBytes]
        /\ Goto(t, "finish")
    BY <1>3, ChunkStarts
  <2>3. Writing' /\ Inside'
    BY <1>0, <2>2, Moves DEF Writing, Inside, InsidePc, Pc
  <2>4. ChunkBytes' = ChunkBytes
    BY <2>1 DEF ChunkBytes
  <2> QED
    BY <2>1, <2>2, <2>3, <2>4 DEF Unfinished
<1>4. ASSUME NEW t \in Threads, FinishChunk(t) PROVE SendInv'
  <2>1. /\ pc[t] = "finish" /\ send_offset' = send_offset + sent /\ Writing
        /\ UNCHANGED <<cont, unpublished, calls, call_len, ret, out, out_len, fails, raced>>
    BY <1>4 DEF FinishChunk, Offset, histVars, Writing
  <2> SUFFICES ASSUME cont, ~raced
               PROVE  Inside' /\ (Unfinished' \/ Finished') /\ unpublished' = {}
    BY <2>1 DEF SendInv, Undisturbing
  <2>2. Inside /\ Unfinished /\ unpublished = {}
    BY <2>1 DEF SendInv, Untouched, Finished, Publishing
  <2>3. /\ sent = -1 \/ (sent > 0 /\ sent <= send_len - send_offset /\ sent = ChunkBytes)
        /\ sent # -1 => out = [call |-> calls, upto |-> send_offset + sent]
        /\ out_len = call_len /\ (fails = 0 => sent = ChunkBytes)
        /\ ChunkBytes > 0
    BY <1>t, <2>1, <2>2, SendConstants DEF Unfinished, ChunkBytes
  <2>4. AfterChunk(t) \in Pc \ {"finish"} /\ (t = Sender => AfterChunk(t) = "test")
    BY <2>3 DEF AfterChunk, Pc
  <2>5. ~Writing'
    BY <1>0, <1>4, <2>1, <2>4, Moves DEF FinishChunk, LockInv, InChunk, Writing
  <2>6. Inside'
    BY <1>0, <1>4, <2>2, <2>4, Moves DEF FinishChunk, Inside, InsidePc
  <2>7. CASE AllSent
    <3>1. send_buf' = 0 /\ send_len' = 0
      BY <1>4, <2>7 DEF FinishChunk
    <3>4. sent # -1
      BY <1>t, <2>2, <2>7 DEF AllSent, Offset, Unfinished
    <3>2. send_offset' = call_len /\ out = [call |-> calls, upto |-> call_len]
      BY <1>t, <2>1, <2>2, <2>3, <2>7, <3>4 DEF AllSent, Offset, Unfinished
    <3>3. Finished'
      BY <2>1, <2>2, <2>3, <2>5, <3>1, <3>2 DEF Finished, Unfinished
    <3> QED
      BY <2>1, <2>2, <2>6, <3>3
  <2>8. CASE ~AllSent
    <3>1. send_buf' = send_buf /\ send_len' = send_len
      BY <1>4, <2>8 DEF FinishChunk
    <3>2. send_offset' < send_len' /\ (fails = 0 => 0 <= send_offset' /\ sent # -1)
      BY <1>t, <2>1, <2>2, <2>3, <2>8, <3>1 DEF AllSent, Offset, Unfinished
    <3>3. Unfinished'
      BY <2>1, <2>2, <2>3, <2>5, <3>1, <3>2 DEF Unfinished
    <3> QED
      BY <2>1, <2>2, <2>6, <3>3
  <2> QED
    BY <2>7, <2>8
<1>5. ASSUME NEW t \in Foreign, ForeignRequest(t) PROVE SendInv'
  <2>1. Goto(t, "check") /\ pc[t] # "finish" /\ t # Sender /\ t \in Threads
    BY <1>5 DEF ForeignRequest
  <2>2. UNCHANGED sendData /\ (cont' => cont) /\ Undisturbing
    BY <1>5 DEF ForeignRequest, sendData, sessVars, histVars, Undisturbing
  <2>3. "check" \in Pc \ {"finish"}
    BY DEF Pc
  <2> QED
    BY <1>0, <2>1, <2>2, <2>3, QuietMove
<1>6. ASSUME NEW t \in Requesters, RequestStep(t) PROVE SendInv'
  <2>1. t = Sender => Inside
    BY <1>6 DEF RequestStep, CheckSendBuf, HandleSendRequest, CancelService, Inside, InsidePc
  <2>2. UNCHANGED sendData /\ (cont' => cont) /\ Undisturbing
        /\ pc[t] # "finish"
    BY <1>6 DEF RequestStep, CheckSendBuf, HandleSendRequest, CancelService, sendData,
       sessVars, histVars, Undisturbing
  <2>3. \E l \in Pc \ {"finish"} : Goto(t, l) /\ (t = Sender => l \in InsidePc)
    BY <1>6 DEF RequestStep, CheckSendBuf, HandleSendRequest, CancelService, Pc, InsidePc
  <2> QED
    BY <1>0, <2>1, <2>2, <2>3, QuietMove
<1>7. CASE TestComplete
  <2>1. UNCHANGED sendData /\ (cont' => cont) /\ Undisturbing
        /\ pc[Sender] = "test"
    BY <1>7 DEF TestComplete, sendData, sessVars, histVars, Undisturbing
  <2>2. CASE cont /\ send_buf # 0
    BY <1>0, <1>7, <2>1, <2>2, QuietMove DEF TestComplete, Pc, Inside, InsidePc
  <2>3. CASE cont /\ send_buf = 0
    <3>1. pc'[Sender] = "done" /\ Writing' = Writing
      BY <1>0, <1>7, <2>1, <2>3, Moves DEF TestComplete, Pc, Writing
    <3>2. ~raced => Finished
      BY <1>t, <2>1, <2>3 DEF SendInv, Unfinished, Inside, InsidePc
    <3>3. Finished => Finished'
      BY <2>1, <3>1 DEF Finished, sendData
    <3> QED
      BY <2>1, <3>1, <3>2, <3>3 DEF SendInv, Undisturbing
  <2>4. CASE ~cont
    BY <2>1, <2>4 DEF SendInv
  <2> QED
    BY <2>2, <2>3, <2>4
<1>8. CASE SpuriousWakeup
  BY <1>0, <1>8, QuietMove DEF SpuriousWakeup, sendData, sessVars, histVars, Pc,
     Undisturbing, Inside, InsidePc
<1>9. CASE SendReturn
  <2>1. /\ pc[Sender] = "done" /\ pc'[Sender] = "idle" /\ Writing' = Writing
        /\ (cont => ret' = send_offset)
        /\ UNCHANGED <<cont, send_buf, send_len, send_offset, calls, call_len, out, out_len,
                      fails, raced>>
    BY <1>0, <1>9, Moves DEF SendReturn, Pc, Writing, sessVars, histVars
  <2> SUFFICES ASSUME cont, ~raced PROVE Finished' /\ ret' = call_len'
    BY <2>1 DEF SendInv, Undisturbing
  <2>2. Finished
    BY <2>1 DEF SendInv, Inside, InsidePc
  <2> QED
    BY <2>1, <2>2 DEF Finished
<1>10. CASE EnterPoll \/ PollCancelled \/ PollWritable \/ PollTimeout \/ NothingDue
            \/ ReceivePong
  BY <1>0, <1>10, QuietMove DEF EnterPoll, PollCancelled, PollWritable, PollTimeout,
     NothingDue, ReceivePong, sendData, sessVars, histVars, Pc, Undisturbing
<1>11. CASE HandleWritable \/ SendPing
  <2>1. UNCHANGED sendData /\ (cont' => cont) /\ pc[Service] # "finish"
    BY <1>11 DEF HandleWritable, SendPing, sendData
  <2>2. Undisturbing
    BY <1>11, <1>t DEF HandleWritable, SendPing, WritePing, Undisturbing
  <2>3. \E l \in Pc \ {"finish"} : Goto(Service, l)
    BY <1>11 DEF HandleWritable, SendPing, Pc
  <2> QED
    BY <1>0, <2>1, <2>2, <2>3, QuietMove
<1>12. ASSUME NEW t \in Threads, Discontinue(t) PROVE SendInv'
  BY <1>12 DEF Discontinue, SendInv
<1>13. ASSUME NEW t \in Threads, SignalSend(t) PROVE SendInv'
  BY <1>0, <1>13, <1>t, QuietMove DEF SignalSend, sendData, sessVars, histVars, Undisturbing
<1>14. CASE UNCHANGED vars
  BY <1>14, QuietStep DEF vars, sessVars, histVars, sendData, Undisturbing, Writing
<1> QED
  BY <1>1, <1>2, <1>3, <1>4, <1>5, <1>6, <1>7, <1>8, <1>9, <1>10, <1>11, <1>12,
     <1>13, <1>14
     DEF Next, Running, Crashed, SenderStep, ServiceStep, ChunkStep

(* In every state an undisturbed send is in exactly one stage between the  *)
(* call and the return of usbws_send.                                      *)
THEOREM SendInvCorrect == Spec => []SendInv
  BY SendInit, SendNext, TokenInvCorrect, PTL DEF Spec

(* usbws_send returns success only out of the stage in which its buffer is *)
(* written.                                                                *)
LEMMA SuccessNext ==
  TokenInv /\ SendInv /\ SuccessMeansWritten /\ [Next]_vars => SuccessMeansWritten'
<1> SUFFICES ASSUME TokenInv, SendInv, SuccessMeansWritten, [Next]_vars
             PROVE  SuccessMeansWritten'
  OBVIOUS
<1> USE ThreadFacts
<1>0. TypeOK /\ fails \in Nat
  BY SendConstants DEF TokenInv, TypeOK
(* A step that keeps the sender out of an idle state it was not in.        *)
<1>1. ASSUME UNCHANGED <<ret, calls, call_len, out>>, Undisturbing,
             pc'[Sender] = "idle" => pc[Sender] = "idle"
      PROVE  SuccessMeansWritten'
  BY <1>1 DEF SuccessMeansWritten, Undisturbing
<1>2. ASSUME NEW t \in Threads, NEW l \in Pc \ {"idle"},
             Goto(t, l) \/ SignalSendCond(t, l)
      PROVE  pc'[Sender] = "idle" => pc[Sender] = "idle"
  BY <1>0, <1>2, Moves
<1>3. ASSUME NEW len \in 1..MaxLen, Send(len) PROVE SuccessMeansWritten'
  BY <1>0, <1>3, Moves DEF Send, SuccessMeansWritten, Pc
<1>4. ASSUME NEW f \in Fields, Publish(f) PROVE SuccessMeansWritten'
  <2>1. pc'[Sender] # "idle"
    BY <1>0, <1>4 DEF Publish, Goto, TypeOK
  <2> QED
    BY <2>1 DEF SuccessMeansWritten
<1>5. ASSUME NEW t \in Threads, SendChunk(t) PROVE SuccessMeansWritten'
  <2>1. CASE pc[Sender] = "idle"
    BY <1>0, <1>5, <2>1 DEF SendChunk, SendPending, SuccessMeansWritten, Undisturbing
  <2>2. CASE pc[Sender] # "idle"
    <3>1. UNCHANGED pc \/ Goto(t, "finish")
      BY <1>5 DEF SendChunk
    <3>2. pc'[Sender] # "idle"
      BY <1>2, <2>2, <3>1 DEF Pc
    <3> QED
      BY <3>2 DEF SuccessMeansWritten
  <2> QED
    BY <2>1, <2>2
<1>6. ASSUME NEW t \in Threads, FinishChunk(t) PROVE SuccessMeansWritten'
  <2>1. /\ UNCHANGED <<ret, calls, call_len, out>> /\ Undisturbing
        /\ Goto(t, AfterChunk(t)) \/ SignalSendCond(t, AfterChunk(t))
    BY <1>6 DEF FinishChunk, histVars, Undisturbing
  <2>2. AfterChunk(t) \in Pc /\ (t = Sender => AfterChunk(t) # "idle")
    BY DEF AfterChunk, Pc
  <2>3. pc'[Sender] = "idle" => pc[Sender] = "idle"
    BY <1>0, <2>1, <2>2, Moves
  <2> QED
    BY <1>1, <2>1, <2>3
<1>7. ASSUME NEW t \in Threads, ForeignRequest(t) \/ RequestStep(t)
      PROVE  SuccessMeansWritten'
  <2>1. UNCHANGED <<ret, calls, call_len, out>> /\ Undisturbing
    BY <1>7 DEF ForeignRequest, RequestStep, CheckSendBuf, HandleSendRequest, CancelService,
       histVars, Undisturbing
  <2>2. \E l \in Pc : Goto(t, l) /\ (t = Sender => l # "idle" \/ pc[t] = "idle")
    BY <1>7 DEF ForeignRequest, RequestStep, CheckSendBuf, HandleSendRequest, CancelService, Pc
  <2>3. pc'[Sender] = "idle" => pc[Sender] = "idle"
    BY <1>0, <2>2, Moves
  <2> QED
    BY <1>1, <2>1, <2>3
<1>8. CASE TestComplete \/ SpuriousWakeup
  BY <1>1, <1>2, <1>8 DEF TestComplete, SpuriousWakeup, histVars, Undisturbing, Pc
<1>9. CASE SendReturn
  <2>1. UNCHANGED <<calls, call_len, out, out_len, fails, raced, send_offset>>
        /\ pc[Sender] = "done"
    BY <1>9 DEF SendReturn, histVars, sessVars
  <2>2. CASE cont
    <3>1. ret' = send_offset
      BY <1>9, <2>2 DEF SendReturn
    <3>2. ~raced => Finished
      BY <2>1, <2>2 DEF SendInv, Inside, InsidePc
    <3> QED
      BY <2>1, <3>1, <3>2 DEF SuccessMeansWritten, Undisturbing, Finished
  <2>3. CASE ~cont
    BY <1>9, <2>3 DEF SendReturn, SuccessMeansWritten
  <2> QED
    BY <2>2, <2>3
<1>10. CASE EnterPoll \/ PollCancelled \/ PollWritable \/ PollTimeout \/ NothingDue
            \/ ReceivePong
  BY <1>1, <1>2, <1>10 DEF EnterPoll, PollCancelled, PollWritable, PollTimeout,
     NothingDue, ReceivePong, histVars, Undisturbing, Pc
<1>11. CASE HandleWritable \/ SendPing
  <2>1. UNCHANGED <<ret, calls, call_len, out>> /\ Undisturbing
    BY <1>0, <1>11 DEF HandleWritable, SendPing, WritePing, Undisturbing
  <2>2. \E l \in Pc \ {"idle"} : Goto(Service, l)
    BY <1>11 DEF HandleWritable, SendPing, Pc
  <2> QED
    BY <1>1, <1>2, <2>1, <2>2
<1>12. ASSUME NEW t \in Threads, Discontinue(t) PROVE SuccessMeansWritten'
  BY <1>1, <1>12 DEF Discontinue, histVars, Undisturbing
<1>13. ASSUME NEW t \in Threads, SignalSend(t) PROVE SuccessMeansWritten'
  <2>1. SignalSendCond(t, pc[t]) /\ pc[t] \in Pc
        /\ UNCHANGED <<ret, calls, call_len, out>> /\ Undisturbing
    BY <1>0, <1>13 DEF SignalSend, histVars, Undisturbing, TypeOK
  <2>2. pc'[Sender] = "idle" => pc[Sender] = "idle"
    BY <1>0, <2>1, Moves
  <2> QED
    BY <1>1, <2>1, <2>2
<1>14. CASE UNCHANGED vars
  BY <1>1, <1>14 DEF vars, histVars, Undisturbing
<1> QED
  BY <1>3, <1>4, <1>5, <1>6, <1>7, <1>8, <1>9, <1>10, <1>11, <1>12, <1>13, <1>14
     DEF Next, Running, Crashed, SenderStep, ServiceStep, ChunkStep

(* A send that was not met half published or by a late request reports     *)
(* exactly what was written, everything, whichever writes fail.            *)
THEOREM SuccessSafe == Spec => []SuccessMeansWritten
<1>1. Init => SuccessMeansWritten
  BY DEF Init, SuccessMeansWritten
<1> QED
  BY <1>1, TokenInvCorrect, SendInvCorrect, SuccessNext, PTL DEF Spec

(* Whoever cuts them, the chunks of undisturbed sends are the buffers in   *)
(* the order of the calls, every byte once and none beyond the end.        *)
THEOREM ChunksInOrderSafe == Spec => ChunksInOrder
<1> DEFINE InOrder ==
      Undisturbed' /\ cont /\ out' # out =>
        /\ out'.upto <= out_len'
        /\ \/ out'.call = out.call /\ out'.upto > out.upto
              /\ out'.upto - out.upto <= SendContent
           \/ out'.call > out.call /\ out'.upto \in 1..SendContent
              /\ out.upto = out_len
<1>1. TokenInv /\ SendInv /\ [Next]_vars => InOrder
  <2> SUFFICES ASSUME TokenInv, SendInv, [Next]_vars, Undisturbed', cont, out' # out
               PROVE  InOrder
    OBVIOUS
  <2>1. \E t \in Threads : SendChunk(t)
    BY ThreadFacts DEF Next, Running, Crashed, vars, histVars, Send, SenderStep, Publish,
       TestComplete, SendReturn, SpuriousWakeup, ForeignRequest, RequestStep, CheckSendBuf,
       HandleSendRequest, CancelService, ChunkStep, FinishChunk, Discontinue, SignalSend,
       ServiceStep, EnterPoll, PollCancelled, HandleWritable, NothingDue, PollWritable,
       PollTimeout, SendPing, ReceivePong
  <2>2. /\ Unfinished /\ ~Writing /\ ChunkBytes \in 1..SendContent /\ fails = 0
        /\ ChunkBytes <= send_len - send_offset /\ out_len' = call_len
        /\ out' = [call |-> calls, upto |-> send_offset + ChunkBytes]
    BY <2>1, ChunkStarts DEF Undisturbed
  <2>3. send_offset \in Int /\ out.call \in Int /\ calls \in Int /\ SendContent \in Int
        /\ ChunkBytes \in Int /\ send_len \in Int
    BY <2>2, SendConstants DEF TokenInv, TypeOK
  <2>4. out'.upto <= out_len'
    BY <2>2, <2>3 DEF Unfinished
  <2>5. CASE send_offset = 0 /\ EarlierWritten
    BY <2>2, <2>3, <2>4, <2>5 DEF EarlierWritten
  <2>6. CASE out = [call |-> calls, upto |-> send_offset]
    BY <2>2, <2>3, <2>4, <2>6
  <2> QED
    BY <2>2, <2>5, <2>6 DEF Unfinished
<1>2. TokenInv /\ SendInv /\ [Next]_vars => [InOrder]_vars
  BY <1>1
<1> QED
  BY <1>2, TokenInvCorrect, SendInvCorrect, PTL DEF Spec, ChunksInOrder

(* While the session goes on, memcpy is given a buffer that is NULL or a   *)
(* negative length only after a chunk was cut that was not pending: from a *)
(* buffer half published, with the length or the offset of another send,   *)
(* or from one that was finished already.  Failing writes alone do not     *)
(* come to it.  Once the session is over this is not so: usbws_send        *)
(* returns before its buffer is gone, and the next one is published over   *)
(* it.                                                                     *)
WildCopyIsRaced == cont /\ crashed => raced

(* Only a cut that is not pending is wild, the first one of all included.  *)
THEOREM WildCopyIsRacedSafe == Spec => []WildCopyIsRaced
<1>1. Init => WildCopyIsRaced
  BY DEF Init, WildCopyIsRaced
<1>2. TokenInv /\ SendInv /\ WildCopyIsRaced /\ [Next]_vars => WildCopyIsRaced'
  <2> SUFFICES ASSUME TokenInv, SendInv, WildCopyIsRaced, [Next]_vars, cont', ~raced'
               PROVE  ~crashed'
    BY DEF WildCopyIsRaced
  <2>1. CASE \E t \in Threads : SendChunk(t)
    <3>1. cont
      BY <2>1 DEF SendChunk, sessVars
    <3>2. ~raced /\ UNCHANGED crashed
      BY <2>1, <3>1, ChunkStarts
    <3> QED
      BY <3>1, <3>2 DEF WildCopyIsRaced
  <2>2. CASE ~\E t \in Threads : SendChunk(t)
    <3>1. UNCHANGED <<crashed, raced>> /\ (cont' => cont)
      BY <2>2, ThreadFacts DEF Next, Running, Crashed, vars, histVars, sessVars, Send,
         SenderStep, Publish, TestComplete, SendReturn, SpuriousWakeup, ForeignRequest,
         RequestStep, CheckSendBuf, HandleSendRequest, CancelService, ChunkStep,
         FinishChunk, Discontinue, SignalSend, ServiceStep, EnterPoll, PollCancelled,
         HandleWritable, NothingDue, PollWritable, PollTimeout, SendPing, ReceivePong
    <3> QED
      BY <3>1 DEF WildCopyIsRaced
  <2> QED
    BY <2>1, <2>2
<1> QED
  BY <1>1, <1>2, TokenInvCorrect, SendInvCorrect, PTL DEF Spec
=============================================================================
