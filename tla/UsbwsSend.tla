------------------------------ MODULE UsbwsSend ------------------------------
(***************************************************************************)
(* The send side of one USB/IP WebSocket session (usbws_session.c).        *)
(*                                                                         *)
(* usbws_send publishes a buffer in the session, asks for it to be sent    *)
(* and sleeps until it is gone.  The request is a callback that            *)
(* libwebsockets runs in the thread that asks, for every session of the    *)
(* context; so three kinds of threads may send a chunk of the buffer: the  *)
(* sender, a sender of another session, and the service thread when the    *)
(* socket is writable.  writable_lock keeps them apart, the test of        *)
(* send_buf and the publication are outside of it.                         *)
(*                                                                         *)
(* The service thread sleeps in poll(2).  What lws_callback_on_writable    *)
(* asks for reaches a poll entered later, not the one going on, unless     *)
(* lws_cancel_service ends it.                                             *)
(***************************************************************************)
EXTENDS Integers

CONSTANTS
  Foreign,       (* threads of other sessions of the same context          *)
  SendContent,   (* SEND_CONTENT: the most bytes one lws_write is given    *)
  MaxLen,        (* bound: bytes of one usbws_send                         *)
  MaxCalls,      (* bound: calls of usbws_send                             *)
  MaxFails,      (* bound: calls of lws_write that fail                    *)
  HealthChecks   (* TRUE in the daemons; the client runs no health check   *)

Service == "service"   \* runs lws_service
Sender == "sender"     \* is in usbws_send

ASSUME SendConstants ==
  /\ Foreign \cap {Service, Sender} = {}
  /\ SendContent \in Nat \ {0}
  /\ MaxLen \in Nat /\ MaxCalls \in Nat /\ MaxFails \in Nat
  /\ HealthChecks \in BOOLEAN

Requesters == Foreign \cup {Sender}
Threads == Requesters \cup {Service}

VARIABLES
  (* the session *)
  cont, writable, pinged, ping_pending,
  send_buf,      \* 0: NULL, otherwise the number of the call that owns it
  send_len, send_offset,
  (* libwebsockets *)
  requested,     \* writable callback asked for: POLLOUT in the pollfd
  armed,         \* the poll going on was entered with POLLOUT
  cancelled,     \* lws_cancel_service, not yet seen by poll
  (* the threads *)
  pc,
  unpublished,   \* fields the sender has still to store
  sent,          \* what the last lws_write of a chunk returned
  disc_send,     \* threads in usbws_session_discontinue, send signal due
  ret,           \* what the last usbws_send returned
  (* history *)
  calls, call_len,  \* calls of usbws_send so far, length of the last one
  out,           \* last chunk given to lws_write: call, end of the chunk
  out_len,       \* length of the call out.call
  fails,         \* failed calls of lws_write
  raced,         \* a chunk was cut from a session without a pending send
  crashed        \* memcpy of a negative length or from NULL

sessVars == <<cont, writable, pinged, ping_pending, send_buf, send_len, send_offset>>
lwsVars == <<requested, armed, cancelled>>
histVars == <<calls, call_len, out, out_len, fails, raced, crashed>>
vars == <<sessVars, lwsVars, pc, unpublished, sent, disc_send, ret, histVars>>

Fields == {"buf", "len", "offset"}
Pc == {"idle", "publish", "check", "lock", "chunk", "finish", "cancel",
       "test", "blocked", "done", "awake", "enter", "poll", "writable"}

TypeOK ==
  /\ {cont, writable, pinged, ping_pending} \subseteq BOOLEAN
  /\ send_buf \in 0..MaxCalls
  /\ send_len \in 0..MaxLen
  /\ send_offset \in Int
  /\ {requested, armed, cancelled, raced, crashed} \subseteq BOOLEAN
  /\ pc \in [Threads -> Pc]
  /\ unpublished \subseteq Fields
  /\ sent \in -1..SendContent
  /\ disc_send \subseteq Threads
  /\ ret \in Int
  /\ calls \in 0..MaxCalls
  /\ {call_len, out_len} \subseteq 0..MaxLen
  /\ out \in [call : 0..MaxCalls, upto : Int]
  /\ fails \in 0..MaxFails

(* usbws_session_init and the lws_callback_on_writable that follows it.    *)
Init ==
  /\ cont = TRUE /\ writable = FALSE /\ pinged = FALSE /\ ping_pending = FALSE
  /\ send_buf = 0 /\ send_len = 0 /\ send_offset = 0
  /\ requested = TRUE /\ armed = FALSE /\ cancelled = FALSE
  /\ pc = [t \in Threads |-> IF t = Service THEN "enter" ELSE "idle"]
  /\ unpublished = {} /\ sent = 0 /\ disc_send = {} /\ ret = 0
  /\ calls = 0 /\ call_len = 0
  /\ out = [call |-> 0, upto |-> 0] /\ out_len = 0
  /\ fails = 0 /\ raced = FALSE /\ crashed = FALSE

(* writable_lock is held from one action to the next only while a chunk is *)
(* sent.                                                                   *)
WritableLockFree == \A t \in Threads : pc[t] \notin {"chunk", "finish"}

Goto(t, l) == pc' = [pc EXCEPT ![t] = l]

(* pc of t after a step that also signals send_complete_cond.              *)
SignalSendCondMutant(t, l) == Goto(t, l)   \* mutant: nobody is woken up

SignalSendCond(t, l) ==
  pc' = [pc EXCEPT ![t] = l,
                   ![Sender] = IF t = Sender THEN l
                               ELSE IF @ = "blocked" THEN "test" ELSE @]

CallbackOnWritableMutant == UNCHANGED requested  \* mutant: not asked for
CallbackOnWritable == requested' = TRUE

-----------------------------------------------------------------------------
(* __send_data, by a thread that holds writable_lock.                      *)

ChunkBytesMutant == send_len - send_offset  \* mutant: more than the buffer
ChunkBytes == IF send_len - send_offset > SendContent
              THEN SendContent ELSE send_len - send_offset

(* A send is pending: published completely, not finished, and its caller   *)
(* is still inside usbws_send.                                             *)
SendPending ==
  /\ send_buf = calls /\ unpublished = {}
  /\ pc[Sender] \notin {"idle", "publish", "done"}

WriteResults == IF fails < MaxFails THEN {ChunkBytes, -1} ELSE {ChunkBytes}

(* The chunk is cut from the buffer and given to lws_write.                *)
SendChunk(t) ==
  /\ pc[t] = "chunk"
  /\ raced' = (raced \/ ~SendPending)
  /\ IF ChunkBytes < 0 \/ (send_buf = 0 /\ ChunkBytes > 0)
     THEN crashed' = TRUE /\ UNCHANGED <<pc, sent, out, out_len, fails>>
     ELSE /\ sent' \in WriteResults
          /\ fails' = IF sent' = -1 THEN fails + 1 ELSE fails
          /\ out' = [call |-> send_buf, upto |-> send_offset + ChunkBytes]
          /\ out_len' = call_len
          /\ Goto(t, "finish")
          /\ UNCHANGED crashed
  /\ UNCHANGED <<sessVars, lwsVars, unpublished, disc_send, ret, calls, call_len>>

(* Where t goes with the result of __send_data: the service thread ignores *)
(* it, a requester cancels the service if nothing was sent.                *)
AfterChunk(t) ==
  IF t = Service THEN "awake"
  ELSE IF sent = 0 THEN "cancel"
  ELSE IF t = Sender THEN "test" ELSE "idle"

Offset == send_offset + sent

AllSentMutant == Offset + 1 >= send_len     \* mutant: off by one
AllSent == Offset >= send_len

(* The result is added to the offset, a failure too; the end of the buffer *)
(* is signalled; the next writable callback is asked for.                  *)
FinishChunk(t) ==
  /\ pc[t] = "finish"
  /\ send_offset' = Offset
  /\ IF AllSent
     THEN /\ send_buf' = 0 /\ send_len' = 0
          /\ SignalSendCond(t, AfterChunk(t))
     ELSE Goto(t, AfterChunk(t)) /\ UNCHANGED <<send_buf, send_len>>
  /\ writable' = FALSE
  /\ CallbackOnWritable
  /\ UNCHANGED <<cont, pinged, ping_pending, armed, cancelled, unpublished,
                 sent, disc_send, ret, histVars>>

-----------------------------------------------------------------------------
(* usbws_send and the send request it makes of all sessions.               *)

Send(len) ==
  /\ pc[Sender] = "idle" /\ Sender \notin disc_send
  /\ calls < MaxCalls
  /\ calls' = calls + 1 /\ call_len' = len
  /\ unpublished' = Fields
  /\ Goto(Sender, "publish")
  /\ UNCHANGED <<sessVars, lwsVars, sent, disc_send, ret, out, out_len, fails,
                 raced, crashed>>

(* Plain stores, made without a lock: other threads may see them in any    *)
(* order.                                                                  *)
Publish(f) ==
  /\ pc[Sender] = "publish" /\ f \in unpublished
  /\ unpublished' = unpublished \ {f}
  /\ send_buf' = IF f = "buf" THEN calls ELSE send_buf
  /\ send_len' = IF f = "len" THEN call_len ELSE send_len
  /\ send_offset' = IF f = "offset" THEN 0 ELSE send_offset
  /\ IF unpublished' = {} THEN Goto(Sender, "check") ELSE UNCHANGED pc
  /\ UNCHANGED <<cont, writable, pinged, ping_pending, lwsVars, sent,
                 disc_send, ret, histVars>>

(* A thread of another session makes a send request and comes by.          *)
ForeignRequest(t) ==
  /\ t \in Foreign /\ t \notin disc_send
  /\ pc[t] = "idle"
  /\ Goto(t, "check")
  /\ UNCHANGED <<sessVars, lwsVars, unpublished, sent, disc_send, ret, histVars>>

(* usbws_handle_send_request looks at send_buf without a lock.             *)
CheckSendBuf(t) ==
  /\ pc[t] = "check"
  /\ Goto(t, IF send_buf # 0 THEN "lock"
             ELSE IF t = Sender THEN "test" ELSE "idle")
  /\ UNCHANGED <<sessVars, lwsVars, unpublished, sent, disc_send, ret, histVars>>

(* With the lock: send if the socket is writable, otherwise let go and     *)
(* cancel the service.                                                     *)
HandleSendRequestMutant(t) ==              \* mutant: without the lock
  /\ pc[t] = "lock"
  /\ Goto(t, IF writable THEN "chunk" ELSE "cancel")
  /\ UNCHANGED <<sessVars, lwsVars, unpublished, sent, disc_send, ret, histVars>>

HandleSendRequest(t) ==
  /\ pc[t] = "lock"
  /\ WritableLockFree
  /\ Goto(t, IF writable THEN "chunk" ELSE "cancel")
  /\ UNCHANGED <<sessVars, lwsVars, unpublished, sent, disc_send, ret, histVars>>

CancelServiceMutant(t) ==                  \* mutant: no WORKAROUND
  /\ pc[t] = "cancel"
  /\ Goto(t, IF t = Sender THEN "test" ELSE "idle")
  /\ UNCHANGED <<sessVars, lwsVars, unpublished, sent, disc_send, ret, histVars>>

CancelService(t) ==
  /\ pc[t] = "cancel"
  /\ cancelled' = TRUE
  /\ Goto(t, IF t = Sender THEN "test" ELSE "idle")
  /\ UNCHANGED <<sessVars, requested, armed, unpublished, sent, disc_send, ret,
                 histVars>>

(* send_complete_lock is taken: sleep while there is something to wait for. *)
TestComplete ==
  /\ pc[Sender] = "test"
  /\ Goto(Sender, IF cont /\ send_buf # 0 THEN "blocked" ELSE "done")
  /\ UNCHANGED <<sessVars, lwsVars, unpublished, sent, disc_send, ret, histVars>>

SpuriousWakeup ==
  /\ pc[Sender] = "blocked"
  /\ Goto(Sender, "test")
  /\ UNCHANGED <<sessVars, lwsVars, unpublished, sent, disc_send, ret, histVars>>

(* cont is read again after the lock is released.                          *)
SendReturn ==
  /\ pc[Sender] = "done"
  /\ ret' = IF cont THEN send_offset ELSE -1
  /\ Goto(Sender, "idle")
  /\ UNCHANGED <<sessVars, lwsVars, unpublished, sent, disc_send, histVars>>

-----------------------------------------------------------------------------
(* The service thread.                                                     *)

EnterPoll ==
  /\ pc[Service] = "enter"
  /\ armed' = requested
  /\ Goto(Service, "poll")
  /\ UNCHANGED <<sessVars, requested, cancelled, unpublished, sent, disc_send,
                 ret, histVars>>

(* The socket takes data again: lws drops the request and calls back.      *)
PollWritable ==
  /\ pc[Service] = "poll" /\ armed
  /\ requested' = FALSE /\ armed' = FALSE
  /\ Goto(Service, "writable")
  /\ UNCHANGED <<sessVars, cancelled, unpublished, sent, disc_send, ret, histVars>>

PollCancelled ==
  /\ pc[Service] = "poll" /\ cancelled
  /\ cancelled' = FALSE /\ armed' = FALSE
  /\ Goto(Service, "awake")
  /\ UNCHANGED <<sessVars, requested, unpublished, sent, disc_send, ret, histVars>>

(* The time given to lws_service is over, or another connection is ready.  *)
PollTimeout ==
  /\ pc[Service] = "poll"
  /\ armed' = FALSE
  /\ Goto(Service, "awake")
  /\ UNCHANGED <<sessVars, requested, cancelled, unpublished, sent, disc_send,
                 ret, histVars>>

(* __send_ping: pinged unless the write fails.                             *)
WritePing ==
  /\ \/ pinged' = TRUE /\ UNCHANGED fails
     \/ fails < MaxFails /\ fails' = fails + 1 /\ UNCHANGED pinged
  /\ writable' = FALSE
  /\ CallbackOnWritable

(* Both branches of usbws_handle_writable that send clear ping_pending.    *)
ClearPingMutant == UNCHANGED ping_pending  \* mutant: it stays
ClearPing == ping_pending' = FALSE

(* usbws_handle_writable: data goes before a pending ping, and cancels it. *)
HandleWritable ==
  /\ pc[Service] = "writable"
  /\ WritableLockFree
  /\ ClearPing
  /\ \/ send_buf # 0 /\ writable' = TRUE /\ Goto(Service, "chunk")
        /\ UNCHANGED <<pinged, requested, fails>>
     \/ send_buf = 0 /\ ping_pending /\ WritePing /\ Goto(Service, "awake")
     \/ send_buf = 0 /\ ~ping_pending /\ writable' = TRUE /\ Goto(Service, "awake")
        /\ UNCHANGED <<pinged, requested, fails>>
  /\ UNCHANGED <<cont, send_buf, send_len, send_offset, armed, cancelled,
                 unpublished, sent, disc_send, ret, calls, call_len, out,
                 out_len, raced, crashed>>

(* The service loop goes round without a ping to send.                     *)
NothingDue ==
  /\ pc[Service] = "awake" /\ Service \notin disc_send
  /\ Goto(Service, "enter")
  /\ UNCHANGED <<sessVars, lwsVars, unpublished, sent, disc_send, ret, histVars>>

(* usbws_send_ping, out of the health check: when the session is over, or  *)
(* when the peer has been silent and no ping is out.                       *)
SendPing ==
  /\ HealthChecks
  /\ pc[Service] = "awake" /\ Service \notin disc_send
  /\ ~cont \/ ~pinged
  /\ WritableLockFree
  /\ IF writable
     THEN WritePing /\ UNCHANGED ping_pending
     ELSE ping_pending' = TRUE /\ UNCHANGED <<pinged, writable, requested, fails>>
  /\ Goto(Service, "enter")
  /\ UNCHANGED <<cont, send_buf, send_len, send_offset, armed, cancelled,
                 unpublished, sent, disc_send, ret, calls, call_len, out,
                 out_len, raced, crashed>>

(* LWS_CALLBACK_RECEIVE_PONG while the session goes on.                    *)
ReceivePong ==
  /\ pc[Service] = "poll" /\ cont /\ pinged
  /\ pinged' = FALSE
  /\ armed' = FALSE
  /\ Goto(Service, "awake")
  /\ UNCHANGED <<cont, writable, ping_pending, send_buf, send_len, send_offset,
                 requested, cancelled, unpublished, sent, disc_send, ret, histVars>>

-----------------------------------------------------------------------------
(* usbws_session_discontinue, by the service thread, in the close callback *)
(* or in the health check, or by any other: from sock->shutdown, or from   *)
(* the SIGINT handler.                                                     *)

Discontinue(t) ==
  /\ t \notin disc_send
  /\ pc[t] = IF t = Service THEN "awake" ELSE "idle"
  /\ cont' = FALSE
  /\ disc_send' = disc_send \cup {t}
  /\ UNCHANGED <<writable, pinged, ping_pending, send_buf, send_len,
                 send_offset, lwsVars, pc, unpublished, sent, ret, histVars>>

SignalSend(t) ==
  /\ t \in disc_send /\ pc[t] \in {"idle", "awake"}
  /\ disc_send' = disc_send \ {t}
  /\ SignalSendCond(t, pc[t])
  /\ UNCHANGED <<sessVars, lwsVars, unpublished, sent, ret, histVars>>

-----------------------------------------------------------------------------
RequestStep(t) ==
  CheckSendBuf(t) \/ HandleSendRequest(t) \/ CancelService(t)

ChunkStep(t) == SendChunk(t) \/ FinishChunk(t)

SenderStep ==
  (\E f \in Fields : Publish(f)) \/ TestComplete \/ SendReturn

ServiceStep ==
  EnterPoll \/ PollCancelled \/ HandleWritable \/ NothingDue

Running ==
  /\ ~crashed
  /\ \/ \E len \in 1..MaxLen : Send(len)
     \/ SenderStep
     \/ SpuriousWakeup
     \/ \E t \in Foreign : ForeignRequest(t)
     \/ \E t \in Requesters : RequestStep(t)
     \/ \E t \in Threads : ChunkStep(t) \/ Discontinue(t) \/ SignalSend(t)
     \/ ServiceStep
     \/ PollWritable \/ PollTimeout \/ SendPing \/ ReceivePong

(* The process is dead.                                                    *)
Crashed == crashed /\ UNCHANGED vars

Next == Running \/ Crashed

Spec == Init /\ [][Next]_vars

(* Every thread runs while it can, and the peer takes data: a poll that    *)
(* asks for POLLOUT again and again gets it, since poll reports every      *)
(* descriptor that is ready, whatever else woke it up.  Nobody is forced   *)
(* to send, to ping or to end the session, and poll need not time out.     *)
Fairness ==
  /\ WF_vars(~crashed /\ SenderStep)
  /\ WF_vars(~crashed /\ ServiceStep)
  /\ SF_vars(~crashed /\ PollWritable)
  /\ \A t \in Requesters : WF_vars(~crashed /\ RequestStep(t))
  /\ \A t \in Threads : WF_vars(~crashed /\ (ChunkStep(t) \/ SignalSend(t)))

FairSpec == Spec /\ Fairness

-----------------------------------------------------------------------------
(* Safety.                                                                 *)

(* The permission to write is in exactly one place: with the session, with *)
(* libwebsockets as a request for the next callback, or on its way in a    *)
(* callback that waits for writable_lock.  None is lost, or the session    *)
(* falls silent; none is doubled, or a thread writes to a full socket.     *)
WritableToken ==
  LET callback == pc[Service] = "writable" IN
  /\ writable \/ requested \/ callback
  /\ ~(writable /\ requested) /\ ~(writable /\ callback) /\ ~(requested /\ callback)

(* A ping waits only while the socket is not writable, and while the       *)
(* session goes on only if none is out already.                            *)
PingWaits == ping_pending => ~writable /\ (cont => ~pinged)

(* A sender asleep on send_complete_cond is never left behind: its buffer  *)
(* is still to be sent, and if the session is over a thread inside         *)
(* usbws_session_discontinue is still going to signal.                     *)
SenderNotAbandoned ==
  pc[Sender] = "blocked" => send_buf # 0 /\ (~cont => disc_send # {})

(* The whole course of the sleeping: the sender waits for send_buf to be   *)
(* gone, and threads inside usbws_session_discontinue have still to signal.*)
Call == INSTANCE SleepingCall
          WITH asleep <- pc[Sender] = "blocked", ready <- send_buf = 0,
               over <- ~cont, due <- disc_send # {}

SleepsAsPromised == Call!Spec

(* Unless a chunk was cut from a session without a pending send, half      *)
(* published or finished (raced: the code does not guard against it, and   *)
(* this does not hold then), usbws_send returns its full length only when  *)
(* the end of its buffer was written, and returns nothing else but -1,     *)
(* even if writes fail, the last one among them.                           *)
SuccessMeansWritten ==
  ~raced /\ pc[Sender] = "idle" /\ calls > 0 /\ ret >= 0 =>
    ret = call_len /\ out = [call |-> calls, upto |-> call_len]

(* No chunk was cut like that, and no write failed, which takes the offset *)
(* one byte back.                                                          *)
Undisturbed == ~raced /\ fails = 0

(* As long as the session goes on undisturbed, the chunks of a buffer are  *)
(* written in order, without gap or overlap and to its end at most,        *)
(* whichever threads write them, and a buffer only after the one before it *)
(* is finished.  So no frame holds parts of two messages, which is what    *)
(* FrameFits of UsbwsRecvQueue expects of the peer.                        *)
ChunksInOrder ==
  [][Undisturbed' /\ cont /\ out' # out =>
       /\ out'.upto <= out_len'
       /\ \/ out'.call = out.call /\ out'.upto > out.upto
             /\ out'.upto - out.upto <= SendContent
          \/ out'.call > out.call /\ out'.upto \in 1..SendContent
             /\ out.upto = out_len]_vars

(* Liveness.                                                               *)

(* usbws_send of a buffer of one chunk returns even where poll never times *)
(* out: whoever leaves the chunk to the service thread cancels its poll.   *)
ShortSendReturns ==
  (pc[Sender] # "idle" /\ call_len <= SendContent)
    ~> (pc[Sender] = "idle" \/ crashed)

(* usbws_send returns, however long its buffer, if poll times out.         *)
SendReturnsInTime ==
  WF_vars(~crashed /\ PollTimeout) =>
    ((pc[Sender] # "idle") ~> (pc[Sender] = "idle" \/ crashed))
=============================================================================
