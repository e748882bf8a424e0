--------------------------- MODULE UsbwsRecvQueue ---------------------------
(***************************************************************************)
(* The receive side of one USB/IP WebSocket session (usbws_session.c).     *)
(*                                                                         *)
(* The libwebsockets service thread appends the frames it gets from the    *)
(* peer to recv_queue (usbws_handle_recv); the thread that runs the USB/IP *)
(* library takes bytes out of it (usbws_recv) and sleeps on                *)
(* recv_queue_cond while it is empty.  The session ends when any thread    *)
(* calls usbws_session_discontinue; the service thread ends it too when    *)
(* the connection is closed, after waiting a moment for the queue to be    *)
(* drained (usbws_wait_recv) and dropping what is left of it.              *)
(*                                                                         *)
(* A byte is its position among those that were queued, which is its       *)
(* position in the peer's stream unless malloc has failed: a frame is the  *)
(* interval start .. start+len-1.  A critical section under                *)
(* recv_queue_lock is one action, except the loop that copies out of the   *)
(* queue, which is one action per round and holds the lock while rpc is    *)
(* "drain".                                                                *)
(***************************************************************************)
EXTENDS Integers, Sequences

CONSTANTS
  Callers,    (* threads that may call usbws_session_discontinue, besides  *)
              (* the service thread: sock->shutdown, the SIGINT handler    *)
  PduEnds,    (* positions of the stream at which a message of the peer    *)
              (* ends, one message per usbws_send at the peer              *)
  MaxPos,     (* bound: bytes the peer sends                               *)
  MaxFrame,   (* the largest frame a peer sends, SEND_CONTENT there        *)
  MaxQueue,   (* bound: frames in the queue                                *)
  MaxLen,     (* bound: bytes one usbws_recv asks for                      *)
  Aligned     (* TRUE: every usbws_recv asks for bytes up to the end of a  *)
              (* message of the peer, and no frame holds parts of two      *)

Service == "service"  \* the thread that runs lws_service

ASSUME RecvConstants ==
  /\ Service \notin Callers
  /\ MaxPos \in Nat /\ MaxQueue \in Nat /\ MaxFrame \in Nat /\ MaxLen \in Nat
  /\ PduEnds \subseteq 1..MaxPos
  /\ Aligned \in BOOLEAN

Threads == Callers \cup {Service}

VARIABLES
  cont,         \* session->cont: the session goes on
  recv_queue,   \* session->recv_queue: frames, oldest first
  recv_offset,  \* session->recv_offset: bytes already taken from the head
  disc_recv,    \* threads in usbws_session_discontinue, recv signal due
  spc,          \* where the service thread is in the life of the session
  rpc,          \* where the receiving thread is in usbws_recv
  req,          \* arguments of the current or last usbws_recv
  total,        \* local variable total of usbws_recv
  ret           \* what the last usbws_recv returned

(* History: positions of the stream and what became of the bytes.          *)
VARIABLES
  arrived,      \* bytes the peer has sent so far
  read_pos,     \* bytes counted as handed to the callers of usbws_recv
  copied,       \* the last interval of the stream that memcpy copied out
  kept          \* those of them that were queued: malloc did not fail

recvVars == <<rpc, req, total, ret>>
histVars == <<arrived, read_pos, copied, kept>>
vars == <<cont, recv_queue, recv_offset, disc_recv, spc, recvVars, histVars>>

Frame == [start : 0..MaxPos, len : 0..MaxFrame]

TypeOK ==
  /\ cont \in BOOLEAN
  /\ recv_queue \in Seq(Frame)
  /\ recv_offset \in Nat
  /\ disc_recv \subseteq Threads
  /\ spc \in {"serving", "wait_recv", "slept", "drop", "discontinue", "closed"}
  /\ rpc \in {"idle", "loop", "lock", "wait", "drain"}
  /\ req \in [len : 0..MaxLen, all : BOOLEAN]
  /\ total \in Nat
  /\ ret \in Int
  /\ arrived \in 0..MaxPos
  /\ read_pos \in Nat
  /\ copied \in [from : Nat, upto : Nat]
  /\ kept \in 0..MaxPos

(* usbws_session_init, then the first instruction of usbws_session_start.  *)
Init ==
  /\ cont = TRUE
  /\ recv_queue = <<>>
  /\ recv_offset = 0
  /\ disc_recv = {}
  /\ spc = "serving"
  /\ rpc = "idle"
  /\ req = [len |-> 0, all |-> FALSE]
  /\ total = 0
  /\ ret = 0
  /\ arrived = 0
  /\ read_pos = 0
  /\ copied = [from |-> 0, upto |-> 0]
  /\ kept = 0

(* recv_queue_lock is held between actions only by the copying loop.       *)
RecvQueueLockFree == rpc # "drain"

(* pthread_cond_signal(&session->recv_queue_cond): a blocked receiver goes *)
(* back to take the lock and test its condition; nobody else waits.        *)
SignalRecvCondMutant == UNCHANGED rpc   \* mutant: the signal is forgotten
SignalRecvCond == rpc' = IF rpc = "wait" THEN "lock" ELSE rpc

-----------------------------------------------------------------------------
(* The service thread.                                                     *)

(* In this module the service thread runs callbacks of this session only,  *)
(* so it is free for one unless it is inside another.                      *)
Serving == spc = "serving" /\ Service \notin disc_recv

(* A frame as the peer cuts it: never longer than MaxFrame and, from a     *)
(* peer that sends one message per usbws_send, never part of two messages. *)
FrameFits(n) ==
  /\ n <= MaxFrame
  /\ arrived + n <= MaxPos
  /\ Aligned => \A e \in PduEnds : ~(arrived < e /\ e < arrived + n)

(* LWS_CALLBACK_RECEIVE with a binary frame of n bytes: queue and signal.  *)
HandleRecv(n) ==
  /\ Serving /\ FrameFits(n)
  /\ RecvQueueLockFree
  /\ Len(recv_queue) < MaxQueue
  /\ recv_queue' = Append(recv_queue, [start |-> kept, len |-> n])
  /\ arrived' = arrived + n
  /\ kept' = kept + n
  /\ SignalRecvCond
  /\ UNCHANGED <<cont, recv_offset, disc_recv, spc, req, total, ret,
                 read_pos, copied>>

(* The same callback when malloc fails: usbws_handle_recv returns -1 and   *)
(* usbws_handle_session drops that result, so the session goes on without  *)
(* the frame.                                                              *)
HandleRecvNoMemory(n) ==
  /\ Serving /\ FrameFits(n)
  /\ arrived' = arrived + n
  /\ UNCHANGED <<cont, recv_queue, recv_offset, disc_recv, spc, recvVars,
                 read_pos, copied, kept>>

(* LWS_CALLBACK_CLOSED: the service thread enters usbws_wait_recv.         *)
Closed ==
  /\ Serving
  /\ spc' = "wait_recv"
  /\ UNCHANGED <<cont, recv_queue, recv_offset, disc_recv, recvVars, histVars>>

(* usbws_wait_recv finds the session discontinued or the queue empty and   *)
(* returns.                                                                *)
WaitRecvDone ==
  /\ spc = "wait_recv"
  /\ ~cont \/ (RecvQueueLockFree /\ recv_queue = <<>>)
  /\ spc' = "drop"
  /\ UNCHANGED <<cont, recv_queue, recv_offset, disc_recv, recvVars, histVars>>

(* usbws_wait_recv finds frames in the queue and sleeps for a second.      *)
WaitRecvSleepNoRetry ==  \* mutant: retry is never decremented
  /\ spc = "wait_recv"
  /\ cont /\ RecvQueueLockFree /\ recv_queue # <<>>
  /\ UNCHANGED vars

WaitRecvSleep ==
  /\ spc = "wait_recv"
  /\ cont /\ RecvQueueLockFree /\ recv_queue # <<>>
  /\ spc' = "slept"
  /\ UNCHANGED <<cont, recv_queue, recv_offset, disc_recv, recvVars, histVars>>

(* Awake again, retry is 0 and queued still 1: usbws_wait_recv warns and   *)
(* returns without a second look at the queue.                             *)
WaitRecvWarn ==
  /\ spc = "slept"
  /\ spc' = "drop"
  /\ UNCHANGED <<cont, recv_queue, recv_offset, disc_recv, recvVars, histVars>>

(* usbws_session_close unlinks every frame that is left, under the lock.   *)
DropQueue ==
  /\ spc = "drop"
  /\ RecvQueueLockFree
  /\ recv_queue' = <<>>
  /\ spc' = "discontinue"
  /\ UNCHANGED <<cont, recv_offset, disc_recv, recvVars, histVars>>

-----------------------------------------------------------------------------
(* usbws_session_discontinue, called by the service thread to end the      *)
(* close or out of the health check, or by another thread at any time.     *)

Discontinue(t) ==
  /\ t \notin disc_recv
  /\ t = Service => spc \in {"serving", "discontinue"}
  /\ cont' = FALSE
  /\ disc_recv' = disc_recv \cup {t}
  /\ UNCHANGED <<recv_queue, recv_offset, spc, recvVars, histVars>>

SignalRecv(t) ==
  /\ t \in disc_recv
  /\ RecvQueueLockFree
  /\ SignalRecvCond
  /\ disc_recv' = disc_recv \ {t}
  /\ spc' = IF t = Service /\ spc = "discontinue" THEN "closed" ELSE spc
  /\ UNCHANGED <<cont, recv_queue, recv_offset, req, total, ret, histVars>>

-----------------------------------------------------------------------------
(* usbws_recv, called by the USB/IP library through sock->recv.            *)

(* An aligned caller asks for bytes up to the end of a message of the      *)
(* peer, from wherever the last call left it, with all or without; any     *)
(* other caller may ask for any length but zero.                           *)
Recv(len, all) ==
  /\ rpc = "idle"
  /\ Aligned => read_pos + len \in PduEnds
  /\ req' = [len |-> len, all |-> all]
  /\ total' = 0
  /\ rpc' = "loop"
  /\ UNCHANGED <<cont, recv_queue, recv_offset, disc_recv, spc, ret, histVars>>

Return(n) == rpc' = "idle" /\ ret' = n

(* The test of the outer loop: when the session is over the bytes copied   *)
(* so far are returned, 0 if there are none.                               *)
RecvLoop ==
  /\ rpc = "loop"
  /\ IF cont THEN rpc' = "lock" /\ UNCHANGED ret ELSE Return(total)
  /\ UNCHANGED <<cont, recv_queue, recv_offset, disc_recv, spc, req, total,
                 histVars>>

(* recv_queue_lock is taken.  While the queue is empty the thread waits;   *)
(* when the session is over it returns -1; otherwise it copies, keeping    *)
(* the lock.                                                               *)
RecvLock ==
  /\ rpc = "lock"
  /\ \/ cont /\ recv_queue = <<>> /\ rpc' = "wait" /\ UNCHANGED ret
     \/ cont /\ recv_queue # <<>> /\ rpc' = "drain" /\ UNCHANGED ret
     \/ ~cont /\ Return(-1)
  /\ UNCHANGED <<cont, recv_queue, recv_offset, disc_recv, spc, req, total,
                 histVars>>

(* pthread_cond_wait may return without a signal.                          *)
SpuriousWakeup ==
  /\ rpc = "wait"
  /\ rpc' = "lock"
  /\ UNCHANGED <<cont, recv_queue, recv_offset, disc_recv, spc, req, total,
                 ret, histVars>>

(* As many bytes as the caller asked for.                                  *)
EnoughMutant(n) == n > req.len          \* mutant: off by one
Enough(n) == n >= req.len

(* After the last round the lock is released and the result tested.        *)
LeaveDrainMutant(n) ==                  \* mutant: the argument all is ignored
  IF n > 0 \/ Enough(n)
  THEN Return(n)
  ELSE rpc' = "loop" /\ UNCHANGED ret

LeaveDrain(n) ==
  IF (~req.all /\ n > 0) \/ Enough(n)
  THEN Return(n)
  ELSE rpc' = "loop" /\ UNCHANGED ret

(* A round that finds the head used up (an empty frame): unlink it.        *)
DrainSkip ==
  /\ rpc = "drain"
  /\ recv_offset >= Head(recv_queue).len
  /\ recv_queue' = Tail(recv_queue)
  /\ recv_offset' = 0
  /\ IF recv_queue' = <<>> THEN LeaveDrain(total)
                           ELSE UNCHANGED <<rpc, ret>>
  /\ UNCHANGED <<cont, disc_recv, spc, req, total, histVars>>

(* How many bytes of frame f a round copies, recv_offset being off: as     *)
(* many as the frame has left, at most the caller's len.                   *)
CopyBytesMutant(f, off) ==              \* mutant: total counted twice
  f.len - off - total
CopyBytesNoClamp(f, off) == f.len - off \* mutant: not clamped at all
CopyBytes(f, off) ==
  IF f.len - off > req.len THEN req.len ELSE f.len - off

(* Where in the stream the bytes it copies begin: at recv_buf->buf.        *)
CopyFromMutant(f, off) == f.start + total  \* mutant: source moved on as well
CopyFrom(f, off) == f.start

(* recv_offset after a round that ends n bytes into frame f.               *)
OffsetAfterMutant(f, n) == n            \* mutant: no reset for the next frame
OffsetAfter(f, n) == IF n >= f.len THEN 0 ELSE n

(* A round that copies, and unlinks the head once it is used up.           *)
DrainCopy ==
  LET f == Head(recv_queue)
      bytes == CopyBytes(f, recv_offset)
      from == CopyFrom(f, recv_offset)
      usedUp == recv_offset + bytes >= f.len
  IN
  /\ rpc = "drain"
  /\ recv_offset < f.len
  /\ copied' = IF bytes = 0 THEN copied
                            ELSE [from |-> from, upto |-> from + bytes]
  /\ total' = total + bytes
  /\ read_pos' = read_pos + bytes
  /\ recv_offset' = OffsetAfter(f, recv_offset + bytes)
  /\ recv_queue' = IF usedUp THEN Tail(recv_queue) ELSE recv_queue
  /\ IF Enough(total') \/ recv_queue' = <<>>
     THEN LeaveDrain(total')
     ELSE UNCHANGED <<rpc, ret>>
  /\ UNCHANGED <<cont, disc_recv, spc, req, arrived, kept>>

-----------------------------------------------------------------------------
ServiceStep ==
  \/ \E n \in 0..MaxFrame : HandleRecv(n) \/ HandleRecvNoMemory(n)
  \/ Closed
  \/ WaitRecvDone \/ WaitRecvSleep \/ WaitRecvWarn
  \/ DropQueue

ReceiverStep == RecvLoop \/ RecvLock \/ DrainSkip \/ DrainCopy

Next ==
  \/ ServiceStep
  \/ \E t \in Threads : Discontinue(t) \/ SignalRecv(t)
  \/ \E len \in 1..MaxLen, all \in BOOLEAN : Recv(len, all)
  \/ ReceiverStep
  \/ SpuriousWakeup

Spec == Init /\ [][Next]_vars

(* Threads that have something to do run: the receiving thread inside      *)
(* usbws_recv, the service thread once it has begun to close, and a thread *)
(* inside usbws_session_discontinue.  Nobody is forced to send, to call    *)
(* usbws_recv or to end the session.                                       *)
Fairness ==
  /\ WF_vars(ReceiverStep)
  /\ WF_vars(WaitRecvDone \/ WaitRecvSleep \/ WaitRecvWarn \/ DropQueue)
  /\ WF_vars(spc = "discontinue" /\ Discontinue(Service))
  /\ \A t \in Threads : WF_vars(SignalRecv(t))

FairSpec == Spec /\ Fairness

-----------------------------------------------------------------------------
(* Safety.                                                                 *)

(* A frame is missing.                                                     *)
Lost == kept # arrived

(* Frames of the queue follow each other, the last one ends where the last *)
(* byte was queued, and the reader's position, counted over all calls of   *)
(* usbws_recv, is recv_offset bytes into the oldest one: between the queue *)
(* and the caller no byte is counted twice, skipped or reordered, also     *)
(* after a malloc failed and the session went on without a frame.  The     *)
(* drop at close is the only exception.                                    *)
Contiguous ==
  \A i \in 1..Len(recv_queue) :
    recv_queue[i].start + recv_queue[i].len =
      IF i = Len(recv_queue) THEN kept ELSE recv_queue[i + 1].start

Dropped == spc \in {"discontinue", "closed"}

Accounting ==
  /\ Contiguous
  /\ ~Dropped => IF recv_queue = <<>>
                 THEN recv_offset = 0 /\ read_pos = kept
                 ELSE read_pos = recv_queue[1].start + recv_offset

(* A receiver asleep on recv_queue_cond is never left behind: the queue is *)
(* empty, and if the session is over a thread inside                       *)
(* usbws_session_discontinue is still going to signal.  cont is cleared    *)
(* without the lock, so this rests on the order of the two.                *)
WaiterNotAbandoned ==
  rpc = "wait" => recv_queue = <<>> /\ (~cont => disc_recv # {})

(* The whole course of the sleeping: the receiver waits for a packet, and  *)
(* threads inside usbws_session_discontinue have still to signal.          *)
Call == INSTANCE SleepingCall
          WITH asleep <- rpc = "wait", ready <- recv_queue # <<>>,
               over <- ~cont, due <- disc_recv # {}

SleepsAsPromised == Call!Spec

(* usbws_recv gives back less than it was asked for only because the       *)
(* session is over, or because the caller did not insist on all of it and  *)
(* got something.  The USB/IP library takes a short count for the end.     *)
ShortReadMeansClosed ==
  rpc = "idle" /\ ret < req.len /\ (req.all \/ ret <= 0) => ~cont

(* usbws_recv clamps each copy to len and not to len - total: a call that  *)
(* comes to a second packet may write behind the caller's buffer.  How far *)
(* it can get, whatever callers ask for and peers send: less than a packet *)
(* and less than the buffer's length again, and then the call is over.     *)
OverrunIsBounded ==
  total > req.len => /\ rpc = "idle"
                     /\ total - req.len < MaxFrame /\ total < 2 * req.len

(* It does not write behind the buffer of an Aligned caller.  This holds   *)
(* until a frame is lost: then the stream has a hole, and what the callers *)
(* take for a message ends anywhere.                                       *)
NoOverrun == ~Lost => total <= req.len

(* Aligned callers read the peer's bytes in order, each once, and nothing  *)
(* once usbws_recv can have told them of the end, until a frame is lost.   *)
(* recv_offset is not applied to the source of the copy, so callers that   *)
(* take a frame in parts do not get this.                                  *)
Stream == INSTANCE ByteStream
            WITH written <- arrived, last <- copied,
                 ended <- ~cont /\ rpc # "drain", broken <- Lost

ReadsStream == Stream!Spec

(* Liveness.                                                               *)

(* When the session is over a call of usbws_recv comes back, whatever it   *)
(* was doing: usbws_session_discontinue wakes it up.                       *)
RecvReturns == (rpc # "idle" /\ ~cont) ~> (rpc = "idle")

(* The close callback comes to its end: it waits for the reader once.      *)
CloseEnds == (spc = "wait_recv") ~> (spc = "closed")
=============================================================================
