------------------------ MODULE UsbwsRecvQueueProofs ------------------------
(***************************************************************************)
(* Proofs about UsbwsRecvQueue, for all values of its constants.           *)
(***************************************************************************)
EXTENDS UsbwsRecvQueue, SequenceTheorems, TLAPS

(* The copying loop holds the lock, so its queue has frames in it, and a   *)
(* queue dropped at close stays empty.                                     *)
DrainHasFrames == rpc = "drain" => recv_queue # <<>>

(* The type invariant is inductive only together with it, since the loop   *)
(* looks at the head of the queue, and with: what was queued had arrived.  *)
TypeInv == TypeOK /\ DrainHasFrames /\ kept <= arrived

(* The position and the length of a packet are natural numbers.            *)
LEMMA FrameInts ==
  ASSUME NEW f \in Frame
  PROVE  f.start \in Nat /\ f.len \in Nat
  BY RecvConstants DEF Frame

(* What one round of the copying loop takes is a natural number, and no    *)
(* more than the packet has left.                                          *)
LEMMA CopyBytesBounds ==
  ASSUME NEW f \in Frame, NEW off \in Nat, off < f.len, req.len \in Nat
  PROVE  CopyBytes(f, off) \in Nat /\ CopyBytes(f, off) <= f.len - off
  BY FrameInts DEF CopyBytes

(* Taking the head off a queue that is not empty leaves a queue of         *)
(* packets.                                                                *)
LEMMA HeadTail ==
  ASSUME TypeOK, recv_queue # <<>>
  PROVE  /\ Head(recv_queue) \in Frame
         /\ Tail(recv_queue) \in Seq(Frame)
         /\ Head(recv_queue) = recv_queue[1]
  BY DEF TypeOK

(* Every variable starts in its type.                                      *)
LEMMA TypeInit == Init => TypeInv
<1> SUFFICES ASSUME Init PROVE TypeInv
  OBVIOUS
<1>1. recv_queue \in Seq(Frame)
  BY EmptySeq DEF Init
<1>2. 0 \in 0..MaxLen /\ 0 \in 0..MaxPos
  BY RecvConstants
<1>3. req \in [len : 0..MaxLen, all : BOOLEAN] /\ arrived \in 0..MaxPos
      /\ kept \in 0..MaxPos /\ kept <= arrived
  BY <1>2 DEF Init
<1>4. copied \in [from : Nat, upto : Nat] /\ disc_recv \subseteq Threads
  BY DEF Init
<1>5. spc = "serving" /\ rpc = "idle" /\ rpc # "drain"
  BY DEF Init
<1>6. cont \in BOOLEAN
  BY DEF Init
<1>7. recv_offset \in Nat /\ total \in Nat /\ ret \in Int /\ read_pos \in Nat
  BY DEF Init
<1> QED
  BY <1>1, <1>3, <1>4, <1>5, <1>6, <1>7 DEF TypeInv, TypeOK, DrainHasFrames

(* The types of what a round of the copying loop changes are enough.       *)
LEMMA RoundType ==
  ASSUME TypeOK, UNCHANGED <<cont, disc_recv, spc, req, arrived, kept>>, kept <= arrived,
         recv_queue' \in Seq(Frame), recv_offset' \in Nat, total' \in Nat,
         read_pos' \in Nat, copied' \in [from : Nat, upto : Nat],
         rpc' \in {"idle", "loop", "drain"}, rpc' = "drain" => recv_queue' # <<>>,
         ret' \in Int
  PROVE  TypeInv'
  BY DEF TypeInv, TypeOK, DrainHasFrames

(* Every step keeps the types, and the copying loop has a packet whenever  *)
(* it copies.                                                              *)
LEMMA TypeNext == TypeInv /\ [Next]_vars => TypeInv'
<1> SUFFICES ASSUME TypeInv, [Next]_vars PROVE TypeInv'
  OBVIOUS
<1> USE DEF TypeInv, DrainHasFrames
<1>0. req.len \in Nat /\ RecvQueueLockFree = (rpc # "drain")
  BY RecvConstants DEF TypeOK, RecvQueueLockFree
<1>1. ASSUME NEW n \in 0..MaxFrame, HandleRecv(n) PROVE TypeInv'
  <2>1. /\ [start |-> kept, len |-> n] \in Frame
        /\ arrived + n \in 0..MaxPos /\ kept + n \in 0..MaxPos /\ kept + n <= arrived + n
    BY <1>1, RecvConstants DEF HandleRecv, FrameFits, Frame, TypeOK
  <2> QED
    BY <1>1, <2>1 DEF HandleRecv, TypeOK, SignalRecvCond, RecvQueueLockFree
<1>2. ASSUME NEW n \in 0..MaxFrame, HandleRecvNoMemory(n) PROVE TypeInv'
  BY <1>2, RecvConstants DEF HandleRecvNoMemory, FrameFits, TypeOK, recvVars
<1>3. CASE Closed
  BY <1>3 DEF Closed, TypeOK, recvVars, histVars
<1>4. CASE WaitRecvDone
  BY <1>4 DEF WaitRecvDone, TypeOK, recvVars, histVars
<1>5. CASE WaitRecvSleep
  BY <1>5 DEF WaitRecvSleep, TypeOK, recvVars, histVars
<1>6. CASE WaitRecvWarn
  BY <1>6 DEF WaitRecvWarn, TypeOK, recvVars, histVars
<1>7. CASE DropQueue
  BY <1>7 DEF DropQueue, TypeOK, recvVars, histVars, RecvQueueLockFree
<1>8. ASSUME NEW t \in Threads, Discontinue(t) PROVE TypeInv'
  BY <1>8 DEF Discontinue, TypeOK, recvVars, histVars
<1>9. ASSUME NEW t \in Threads, SignalRecv(t) PROVE TypeInv'
  BY <1>9 DEF SignalRecv, TypeOK, histVars, SignalRecvCond, RecvQueueLockFree
<1>10. ASSUME NEW len \in 1..MaxLen, NEW all \in BOOLEAN, Recv(len, all)
       PROVE  TypeInv'
  BY <1>10, RecvConstants DEF Recv, TypeOK, histVars
<1>11. CASE RecvLoop
  BY <1>11 DEF RecvLoop, Return, TypeOK, histVars
<1>12. CASE RecvLock
  BY <1>12 DEF RecvLock, Return, TypeOK, histVars
<1>13. CASE DrainSkip
  <2>1. recv_queue' \in Seq(Frame) /\ recv_offset' = 0 /\ UNCHANGED total
    BY <1>13, HeadTail DEF DrainSkip
  <2>2. rpc' \in {"idle", "loop", "drain"} /\ (rpc' = "drain" => recv_queue' # <<>>)
        /\ ret' \in Int
    <3>1. CASE LeaveDrain(total)
      BY <3>1 DEF LeaveDrain, Return, TypeOK
    <3>2. CASE recv_queue' # <<>> /\ UNCHANGED <<rpc, ret>>
      BY <1>13, <3>2 DEF DrainSkip, TypeOK
    <3> QED
      BY <1>13, <3>1, <3>2 DEF DrainSkip
  <2>3. UNCHANGED <<cont, disc_recv, spc, req, arrived, kept, read_pos, copied, total>>
    BY <1>13 DEF DrainSkip, histVars
  <2>4. /\ total' \in Nat /\ read_pos' \in Nat /\ recv_offset' \in Nat
        /\ copied' \in [from : Nat, upto : Nat]
    BY <2>1, <2>3 DEF TypeOK
  <2> QED
    BY <2>1, <2>2, <2>3, <2>4, RoundType
<1>14. CASE DrainCopy
  <2> DEFINE f == Head(recv_queue)
             bytes == CopyBytes(f, recv_offset)
  <2>1. f \in Frame /\ Tail(recv_queue) \in Seq(Frame) /\ f.start \in Nat /\ f.len \in Nat
    BY <1>14, HeadTail, FrameInts DEF DrainCopy
  <2>2. bytes \in Nat
    BY <1>14, <1>0, <2>1, CopyBytesBounds DEF DrainCopy, TypeOK
  <2>3. recv_queue' \in Seq(Frame)
    BY <1>14, <2>1 DEF DrainCopy, TypeOK
  <2>4. total' \in Nat /\ read_pos' \in Nat /\ recv_offset' \in Nat
    <3>1. total \in Nat /\ read_pos \in Nat /\ recv_offset \in Nat
      BY DEF TypeOK
    <3>2. /\ total' = total + bytes /\ read_pos' = read_pos + bytes
          /\ recv_offset' = 0 \/ recv_offset' = recv_offset + bytes
      BY <1>14 DEF DrainCopy, OffsetAfter
    <3> QED
      BY <2>2, <3>1, <3>2
  <2>5. copied' \in [from : Nat, upto : Nat]
    <3>1. copied' = copied \/ copied' = [from |-> f.start, upto |-> f.start + bytes]
      BY <1>14 DEF DrainCopy, CopyFrom
    <3>2. copied \in [from : Nat, upto : Nat]
      BY DEF TypeOK
    <3>3. f.start \in Nat /\ f.start + bytes \in Nat
      BY <2>1, <2>2
    <3> QED
      BY <3>1, <3>2, <3>3
  <2>6. rpc' \in {"idle", "loop", "drain"} /\ (rpc' = "drain" => recv_queue' # <<>>)
        /\ ret' \in Int
    <3>1. CASE LeaveDrain(total')
      BY <2>4, <3>1 DEF LeaveDrain, Return, TypeOK
    <3>2. CASE recv_queue' # <<>> /\ UNCHANGED <<rpc, ret>>
      BY <1>14, <3>2 DEF DrainCopy, TypeOK
    <3> QED
      BY <1>14, <3>1, <3>2 DEF DrainCopy
  <2>7. UNCHANGED <<cont, disc_recv, spc, req, arrived, kept>>
    BY <1>14 DEF DrainCopy
  <2> QED
    BY <2>3, <2>4, <2>5, <2>6, <2>7, RoundType
<1>15. CASE SpuriousWakeup
  BY <1>15 DEF SpuriousWakeup, TypeOK, histVars
<1>16. CASE UNCHANGED vars
  BY <1>16 DEF vars, recvVars, histVars, TypeOK
<1> QED
  BY <1>1, <1>2, <1>3, <1>4, <1>5, <1>6, <1>7, <1>8, <1>9, <1>10, <1>11,
     <1>12, <1>13, <1>14, <1>15, <1>16 DEF Next, ServiceStep, ReceiverStep

(* Every variable of the receive side keeps its type, in particular no     *)
(* copy has a negative length and no caller gets a total below zero.       *)
THEOREM TypeCorrect == Spec => []TypeOK
<1>1. TypeInv => TypeOK
  BY DEF TypeInv
<1> QED
  BY TypeInit, TypeNext, <1>1, PTL DEF Spec

(* usbws_recv copies only while there is a packet to copy from.            *)
THEOREM TypeInvCorrect == Spec => []TypeInv
  BY TypeInit, TypeNext, PTL DEF Spec

-----------------------------------------------------------------------------
(* The sleeping receiver.                                                  *)

(* Every step that appends a packet or clears cont wakes the waiting       *)
(* reader, or has the signal still to come.                                *)
LEMMA WaiterNext == WaiterNotAbandoned /\ [Next]_vars => WaiterNotAbandoned'
<1> SUFFICES ASSUME WaiterNotAbandoned, [Next]_vars PROVE WaiterNotAbandoned'
  OBVIOUS
<1> USE DEF WaiterNotAbandoned
<1>1. ASSUME NEW n \in 0..MaxFrame, HandleRecv(n) PROVE WaiterNotAbandoned'
  BY <1>1 DEF HandleRecv, SignalRecvCond
<1>2. ASSUME NEW t \in Threads, Discontinue(t) PROVE WaiterNotAbandoned'
  BY <1>2 DEF Discontinue, recvVars
<1>3. ASSUME NEW t \in Threads, SignalRecv(t) PROVE WaiterNotAbandoned'
  BY <1>3 DEF SignalRecv, SignalRecvCond
<1>4. CASE DropQueue
  BY <1>4 DEF DropQueue, recvVars
<1>5. CASE RecvLock
  BY <1>5 DEF RecvLock, Return
<1>6. CASE DrainSkip
  BY <1>6 DEF DrainSkip, LeaveDrain, Return
<1>7. CASE DrainCopy
  BY <1>7 DEF DrainCopy, LeaveDrain, Return
<1>8. CASE RecvLoop
  BY <1>8 DEF RecvLoop, Return
<1>9. ASSUME NEW n \in 0..MaxFrame, HandleRecvNoMemory(n) PROVE WaiterNotAbandoned'
  BY <1>9 DEF HandleRecvNoMemory, recvVars
<1>10. CASE Closed \/ WaitRecvDone \/ WaitRecvSleep \/ WaitRecvWarn
  BY <1>10 DEF Closed, WaitRecvDone, WaitRecvSleep, WaitRecvWarn, recvVars
<1>11. ASSUME NEW len \in 1..MaxLen, NEW all \in BOOLEAN, Recv(len, all)
       PROVE  WaiterNotAbandoned'
  BY <1>11 DEF Recv
<1>12. CASE SpuriousWakeup
  BY <1>12 DEF SpuriousWakeup
<1>13. CASE UNCHANGED vars
  BY <1>13 DEF vars, recvVars
<1> QED
  BY <1>1, <1>2, <1>3, <1>4, <1>5, <1>6, <1>7, <1>8, <1>9, <1>10, <1>11,
     <1>12, <1>13 DEF Next, ServiceStep, ReceiverStep

(* However many threads end the session and in whatever order their steps  *)
(* fall, a receiver asleep has an empty queue in front of it and, once     *)
(* the session is over, a signal on its way.                               *)
THEOREM WaiterSafe == Spec => []WaiterNotAbandoned
<1>1. Init => WaiterNotAbandoned
  BY DEF Init, WaiterNotAbandoned
<1> QED
  BY <1>1, WaiterNext, PTL DEF Spec

(* Every step is one that SleepingCall allows, or leaves the sleep alone:  *)
(* the queue is not filled or emptied in front of a sleeping receiver.     *)
LEMMA CallNext == WaiterNotAbandoned /\ [Next]_vars => [Call!Next]_(Call!vars)
<1> SUFFICES ASSUME WaiterNotAbandoned, [Next]_vars PROVE [Call!Next]_(Call!vars)
  OBVIOUS
<1> DEFINE asleep == rpc = "wait"
(* The steps of SleepingCall, under the mapping.                           *)
<1>a. ASSUME ~asleep', UNCHANGED <<cont, disc_recv>> PROVE Call!Next
  BY <1>a DEF Call!Next, Call!Awake
<1>b. ASSUME UNCHANGED <<rpc, recv_queue, cont, disc_recv>> PROVE UNCHANGED Call!vars
  BY <1>b DEF Call!vars
<1>1. ASSUME NEW n \in 0..MaxFrame, HandleRecv(n) PROVE Call!Next
  BY <1>1, <1>a DEF HandleRecv, SignalRecvCond
<1>2. ASSUME NEW t \in Threads, Discontinue(t) PROVE Call!Next
  <2>1. ~cont' /\ disc_recv' # {} /\ UNCHANGED <<rpc, recv_queue>>
    BY <1>2 DEF Discontinue, recvVars
  <2> QED
    BY <2>1 DEF Call!Next, Call!End
<1>3. ASSUME NEW t \in Threads, SignalRecv(t) PROVE Call!Next
  <2>1. disc_recv # {} /\ ~asleep' /\ UNCHANGED <<cont, recv_queue>>
    BY <1>3 DEF SignalRecv, SignalRecvCond
  <2> QED
    BY <2>1 DEF Call!Next, Call!Signal
<1>4. CASE DropQueue
  <2>1. UNCHANGED <<cont, disc_recv, rpc>> /\ recv_queue' = <<>>
    BY <1>4 DEF DropQueue, recvVars
  <2>2. CASE asleep
    BY <2>1, <2>2, <1>b DEF WaiterNotAbandoned
  <2>3. CASE ~asleep
    BY <2>1, <2>3, <1>a
  <2> QED
    BY <2>2, <2>3
<1>5. CASE RecvLock
  <2>1. UNCHANGED <<cont, disc_recv, recv_queue>>
    BY <1>5 DEF RecvLock
  <2>2. CASE cont /\ recv_queue = <<>> /\ rpc' = "wait"
    BY <2>1, <2>2 DEF Call!Next, Call!Sleep
  <2>3. CASE ~asleep'
    BY <2>1, <2>3, <1>a
  <2> QED
    BY <1>5, <2>2, <2>3 DEF RecvLock, Return
<1>6. CASE RecvLoop \/ SpuriousWakeup \/ DrainSkip \/ DrainCopy
  <2>1. ~asleep' /\ UNCHANGED <<cont, disc_recv>>
    BY <1>6 DEF RecvLoop, SpuriousWakeup, DrainSkip, DrainCopy, LeaveDrain, Return
  <2> QED
    BY <2>1, <1>a
<1>7. ASSUME NEW len \in 1..MaxLen, NEW all \in BOOLEAN, Recv(len, all) PROVE Call!Next
  BY <1>7, <1>a DEF Recv
<1>8. ASSUME NEW n \in 0..MaxFrame, HandleRecvNoMemory(n) PROVE UNCHANGED Call!vars
  BY <1>8, <1>b DEF HandleRecvNoMemory, recvVars
<1>9. CASE Closed \/ WaitRecvDone \/ WaitRecvSleep \/ WaitRecvWarn \/ UNCHANGED vars
  BY <1>9, <1>b DEF Closed, WaitRecvDone, WaitRecvSleep, WaitRecvWarn, vars, recvVars
<1> QED
  BY <1>1, <1>2, <1>3, <1>4, <1>5, <1>6, <1>7, <1>8, <1>9 DEF Next, ServiceStep, ReceiverStep

(* usbws_recv keeps the promise that the service of a daemon takes it at,  *)
(* for any number of threads that end the session.                         *)
THEOREM SleepsAsPromisedCorrect == Spec => SleepsAsPromised
<1>1. Init => Call!Init
  BY DEF Init, Call!Init
<1> QED
  BY <1>1, WaiterSafe, CallNext, PTL DEF Spec, SleepsAsPromised, Call!Spec

-----------------------------------------------------------------------------
(* Short reads.                                                            *)

(* A read of the whole length leaves its loops only with enough bytes or   *)
(* when cont is clear.                                                     *)
LEMMA ShortReadNext ==
  TypeInv /\ ShortReadMeansClosed /\ [Next]_vars => ShortReadMeansClosed'
<1> SUFFICES ASSUME TypeInv, ShortReadMeansClosed, [Next]_vars
             PROVE  ShortReadMeansClosed'
  OBVIOUS
<1> USE DEF ShortReadMeansClosed
<1>0. req.len \in Nat /\ req.all \in BOOLEAN /\ total \in Nat
      /\ rpc \in {"idle", "loop", "lock", "wait", "drain"}
  BY RecvConstants DEF TypeInv, TypeOK
<1>1. ASSUME NEW n \in Int, LeaveDrain(n), UNCHANGED req PROVE ShortReadMeansClosed'
  <2>1. CASE rpc' = "loop"
    BY <2>1
  <2>2. CASE rpc' = "idle" /\ ret' = n /\ ((~req.all /\ n > 0) \/ n >= req.len)
    BY <1>0, <1>1, <2>2
  <2> QED
    BY <1>1, <2>1, <2>2 DEF LeaveDrain, Enough, Return
<1>2. CASE DrainSkip
  BY <1>0, <1>1, <1>2 DEF DrainSkip
<1>3. CASE DrainCopy
  <2>1. total' \in Int
    BY <1>3, TypeNext DEF TypeInv, TypeOK
  <2> QED
    BY <1>0, <1>1, <1>3, <2>1 DEF DrainCopy
<1>4. CASE RecvLoop \/ RecvLock
  BY <1>4 DEF RecvLoop, RecvLock, Return
<1>5. CASE ServiceStep
  BY <1>0, <1>5 DEF ServiceStep, HandleRecv, HandleRecvNoMemory, Closed, WaitRecvDone,
     WaitRecvSleep, WaitRecvWarn, DropQueue, SignalRecvCond, recvVars
<1>6. ASSUME NEW t \in Threads, Discontinue(t) \/ SignalRecv(t)
      PROVE  ShortReadMeansClosed'
  BY <1>0, <1>6 DEF Discontinue, SignalRecv, SignalRecvCond, recvVars
<1>7. ASSUME NEW len \in 1..MaxLen, NEW all \in BOOLEAN, Recv(len, all)
      PROVE  ShortReadMeansClosed'
  BY <1>7 DEF Recv
<1>8. CASE SpuriousWakeup \/ UNCHANGED vars
  BY <1>8 DEF SpuriousWakeup, vars, recvVars
<1> QED
  BY <1>2, <1>3, <1>4, <1>5, <1>6, <1>7, <1>8 DEF Next, ReceiverStep

(* A caller that insists on all its bytes gets fewer only from a session   *)
(* that is over.                                                           *)
THEOREM ShortReadSafe == Spec => []ShortReadMeansClosed
<1>1. Init => ShortReadMeansClosed
  BY DEF Init, ShortReadMeansClosed
<1> QED
  BY <1>1, TypeInvCorrect, ShortReadNext, PTL DEF Spec

-----------------------------------------------------------------------------
(* Where the bytes are.                                                    *)

(* Accounting is inductive together with: recv_offset lies inside the      *)
(* oldest frame, and a dropped queue is empty and nobody copies from it.   *)
OffsetInHead ==
  ~Dropped => recv_offset = 0 \/ (recv_queue # <<>> /\ recv_offset < recv_queue[1].len)

DroppedIsEmpty == Dropped => recv_queue = <<>> /\ rpc # "drain"

QueueInv == TypeInv /\ Accounting /\ OffsetInHead /\ DroppedIsEmpty

(* Before the first packet everything adds up to nothing.                  *)
LEMMA QueueInit == Init => QueueInv
<1> SUFFICES ASSUME Init PROVE QueueInv
  OBVIOUS
<1>1. Contiguous /\ OffsetInHead /\ DroppedIsEmpty /\ ~Dropped
  BY DEF Init, Contiguous, OffsetInHead, DroppedIsEmpty, Dropped
<1> QED
  BY <1>1, TypeInit DEF Init, QueueInv, Accounting

(* A new frame at the end of the queue continues it.                       *)
LEMMA AppendContiguous ==
  ASSUME TypeOK, Contiguous, NEW n \in 0..MaxFrame, kept + n \in 0..MaxPos,
         recv_queue' = Append(recv_queue, [start |-> kept, len |-> n]),
         kept' = kept + n
  PROVE  Contiguous'
<1> DEFINE fr == [start |-> kept, len |-> n]
<1>1. fr \in Frame /\ recv_queue \in Seq(Frame) /\ Len(recv_queue) \in Nat
  BY RecvConstants DEF TypeOK, Frame
<1>2. Len(recv_queue') = Len(recv_queue) + 1 /\ recv_queue'[Len(recv_queue) + 1] = fr
  BY <1>1
<1>3. \A i \in 1..Len(recv_queue) : recv_queue'[i] = recv_queue[i]
  BY <1>1
<1> SUFFICES ASSUME NEW i \in 1..Len(recv_queue')
             PROVE  recv_queue'[i].start + recv_queue'[i].len =
                      IF i = Len(recv_queue') THEN kept' ELSE recv_queue'[i + 1].start
  BY DEF Contiguous
<1>4. CASE i = Len(recv_queue) + 1
  BY <1>2, <1>4
<1>5. CASE i = Len(recv_queue)
  BY <1>1, <1>2, <1>3, <1>5 DEF Contiguous
<1>6. CASE i < Len(recv_queue)
  BY <1>1, <1>2, <1>3, <1>6 DEF Contiguous
<1> QED
  BY <1>1, <1>2, <1>4, <1>5, <1>6

(* Without its oldest frame the queue is still contiguous, and the next    *)
(* frame begins where the oldest one ended.                                *)
LEMMA TailContiguous ==
  ASSUME TypeOK, Contiguous, recv_queue # <<>>
  PROVE  LET q == Tail(recv_queue)
             end == recv_queue[1].start + recv_queue[1].len
         IN  /\ \A i \in 1..Len(q) :
                  q[i].start + q[i].len = IF i = Len(q) THEN kept ELSE q[i + 1].start
             /\ IF q = <<>> THEN end = kept ELSE end = q[1].start
<1> DEFINE q == Tail(recv_queue)
<1>1. recv_queue \in Seq(Frame) /\ Len(recv_queue) \in Nat \ {0}
  BY EmptySeq DEF TypeOK
<1>2. q \in Seq(Frame) /\ Len(q) = Len(recv_queue) - 1
      /\ \A i \in 1..Len(q) : q[i] = recv_queue[i + 1]
  BY <1>1
<1>3. q = <<>> <=> Len(recv_queue) = 1
  BY <1>1, <1>2, EmptySeq
<1> HIDE DEF q
<1>4. ASSUME NEW i \in 1..Len(q)
      PROVE  q[i].start + q[i].len = IF i = Len(q) THEN kept ELSE q[i + 1].start
  <2>1. i + 1 \in 1..Len(recv_queue) /\ q[i] = recv_queue[i + 1]
    BY <1>1, <1>2
  <2>2. q[i].start + q[i].len =
          IF i + 1 = Len(recv_queue) THEN kept ELSE recv_queue[(i + 1) + 1].start
    BY <2>1 DEF Contiguous
  <2>3. CASE i = Len(q)
    BY <1>1, <1>2, <2>2, <2>3
  <2>4. CASE i # Len(q)
    <3>1. i + 1 \in 1..Len(q)
      BY <1>1, <1>2, <2>4
    <3>2. q[i + 1] = recv_queue[(i + 1) + 1]
      BY <1>2, <3>1
    <3> QED
      BY <1>1, <1>2, <2>2, <2>4, <3>2
  <2> QED
    BY <2>3, <2>4
<1>5. IF q = <<>> THEN recv_queue[1].start + recv_queue[1].len = kept
                  ELSE recv_queue[1].start + recv_queue[1].len = q[1].start
  <2>1. recv_queue[1].start + recv_queue[1].len =
          IF 1 = Len(recv_queue) THEN kept ELSE recv_queue[1 + 1].start
    <3>1. 1 \in 1..Len(recv_queue)
      BY <1>1
    <3> QED
      BY <3>1, Zenon DEF Contiguous
  <2>2. q # <<>> => q[1] = recv_queue[1 + 1]
    BY <1>1, <1>2, <1>3
  <2> QED
    BY <1>3, <2>1, <2>2
<1> QED
  BY <1>4, <1>5 DEF q

(* Each arriving packet continues the queue and each round of the copying  *)
(* loop moves bytes from its head: the sums stay equal.                    *)
LEMMA QueueNext == QueueInv /\ [Next]_vars => QueueInv'
<1> SUFFICES ASSUME QueueInv, [Next]_vars PROVE QueueInv'
  OBVIOUS
<1>0. TypeInv /\ TypeInv' /\ TypeOK /\ Accounting /\ OffsetInHead /\ DroppedIsEmpty
  BY TypeNext DEF QueueInv, TypeInv
<1> SUFFICES (Accounting /\ OffsetInHead /\ DroppedIsEmpty)'
  BY <1>0 DEF QueueInv
<1>t. /\ recv_queue \in Seq(Frame) /\ recv_offset \in Nat /\ read_pos \in Nat
      /\ req.len \in Nat /\ kept \in Nat
      /\ RecvQueueLockFree = (rpc # "drain")
  BY <1>0, RecvConstants DEF TypeOK, RecvQueueLockFree
(* Steps that leave the queue and the position alone.                      *)
<1> DEFINE Same == UNCHANGED <<recv_queue, recv_offset, kept, read_pos>>
<1>1. ASSUME Same, Dropped' = Dropped, rpc' = "drain" => ~Dropped
      PROVE  (Accounting /\ OffsetInHead /\ DroppedIsEmpty)'
  BY <1>0, <1>1, <1>t DEF Accounting, Contiguous, OffsetInHead, DroppedIsEmpty
<1>2. ASSUME NEW n \in 0..MaxFrame, HandleRecv(n)
      PROVE  (Accounting /\ OffsetInHead /\ DroppedIsEmpty)'
  <2>0. kept + n \in 0..MaxPos /\ ~Dropped /\ ~Dropped' /\ kept' = kept + n
        /\ recv_queue' = Append(recv_queue, [start |-> kept, len |-> n])
        /\ UNCHANGED <<recv_offset, read_pos>>
    BY <1>0, <1>2, <1>t, RecvConstants
       DEF HandleRecv, FrameFits, Serving, Dropped, TypeInv, TypeOK
  <2>1. Contiguous => Contiguous'
    BY <1>0, <2>0, AppendContiguous
  <2>2. recv_queue' # <<>>
        /\ recv_queue'[1] = IF recv_queue = <<>> THEN [start |-> kept, len |-> n]
                                                ELSE recv_queue[1]
    BY <1>t, <2>0, EmptySeq, RecvConstants DEF Frame
  <2> QED
    BY <1>0, <1>t, <2>0, <2>1, <2>2 DEF Accounting, OffsetInHead, DroppedIsEmpty
<1>3. ASSUME NEW n \in 0..MaxFrame, HandleRecvNoMemory(n)
      PROVE  (Accounting /\ OffsetInHead /\ DroppedIsEmpty)'
  BY <1>0, <1>1, <1>3 DEF HandleRecvNoMemory, recvVars, Dropped, DroppedIsEmpty
<1>4. CASE DropQueue
  <2>1. recv_queue' = <<>> /\ Dropped' /\ rpc' # "drain"
    BY <1>4, <1>t DEF DropQueue, recvVars, Dropped
  <2>2. Len(recv_queue') = 0
    BY <2>1
  <2>3. Contiguous'
    BY <2>2 DEF Contiguous
  <2> QED
    BY <2>1, <2>3 DEF Accounting, OffsetInHead, DroppedIsEmpty
<1>5. CASE DrainSkip
  <2>1. ~Dropped /\ ~Dropped' /\ recv_queue # <<>>
        /\ Head(recv_queue) = recv_queue[1] /\ recv_queue[1] \in Frame
    BY <1>0, <1>5, HeadTail DEF DrainSkip, DroppedIsEmpty, Dropped, TypeInv, DrainHasFrames
  <2>2. recv_queue[1].len \in Nat /\ recv_queue[1].start \in Nat
    BY <2>1, FrameInts
  <2>3. recv_offset = 0 /\ recv_queue[1].len = 0
    BY <1>0, <1>5, <1>t, <2>1, <2>2 DEF DrainSkip, OffsetInHead
  <2>4. recv_queue' = Tail(recv_queue) /\ recv_offset' = 0
        /\ UNCHANGED <<kept, read_pos>>
    BY <1>5 DEF DrainSkip, histVars
  <2>5. Accounting'
    <3>0. read_pos = recv_queue[1].start + recv_offset /\ Contiguous
      BY <1>0, <2>1 DEF Accounting
    <3>1. read_pos = recv_queue[1].start + recv_queue[1].len /\ Contiguous
      BY <2>3, <3>0
    <3>2. Contiguous'
      BY <1>0, <2>1, <2>4, <3>1, TailContiguous DEF Contiguous
    <3>3. IF recv_queue' = <<>> THEN read_pos = kept ELSE read_pos = recv_queue'[1].start
      BY <1>0, <2>1, <2>4, <3>1, TailContiguous
    <3>4. read_pos' = read_pos /\ read_pos' + 0 = read_pos'
      BY <1>t, <2>4
    <3>5. recv_queue' # <<>> => read_pos' = recv_queue'[1].start + recv_offset'
      BY <2>4, <3>3, <3>4
    <3> QED
      BY <2>4, <3>2, <3>3, <3>4, <3>5 DEF Accounting
  <2> QED
    BY <2>1, <2>4, <2>5 DEF Accounting, OffsetInHead, DroppedIsEmpty
<1>6. CASE DrainCopy
  <2> DEFINE f == Head(recv_queue)
             bytes == CopyBytes(f, recv_offset)
  <2>1. ~Dropped /\ ~Dropped' /\ recv_queue # <<>>
        /\ f = recv_queue[1] /\ recv_queue[1] \in Frame
    BY <1>0, <1>6, HeadTail DEF DrainCopy, DroppedIsEmpty, Dropped, TypeInv, DrainHasFrames
  <2>2. f.len \in Nat /\ f.start \in Nat /\ bytes \in Nat /\ bytes <= f.len - recv_offset
    <3>1. recv_offset \in Nat /\ req.len \in Nat /\ recv_offset < f.len /\ f \in Frame
      BY <1>6, <1>t, <2>1 DEF DrainCopy
    <3> HIDE DEF f
    <3> QED
      BY <3>1, FrameInts, CopyBytesBounds
  <2>3. /\ read_pos' = read_pos + bytes
        /\ recv_queue' = IF recv_offset + bytes >= f.len THEN Tail(recv_queue) ELSE recv_queue
        /\ recv_offset' = IF recv_offset + bytes >= f.len THEN 0 ELSE recv_offset + bytes
        /\ UNCHANGED <<arrived, kept>>
    BY <1>6 DEF DrainCopy, OffsetAfter
  <2>4. OffsetInHead' /\ DroppedIsEmpty'
    BY <1>t, <2>1, <2>2, <2>3 DEF OffsetInHead, DroppedIsEmpty
  <2>5. CASE recv_offset + bytes >= f.len
    <3>1. read_pos' = read_pos + (f.len - recv_offset) /\ recv_queue' = Tail(recv_queue)
          /\ recv_offset' = 0
      BY <1>t, <2>2, <2>3, <2>5
    <3>2. Accounting'
      <4>1. read_pos = f.start + recv_offset /\ Contiguous
        BY <1>0, <2>1 DEF Accounting
      <4>2. read_pos' = f.start + f.len
        BY <1>t, <2>2, <3>1, <4>1
      <4>3. Contiguous'
        BY <1>0, <2>1, <2>3, <3>1, <4>1, TailContiguous DEF Contiguous
      <4>4. IF recv_queue' = <<>> THEN f.start + f.len = kept'
                                  ELSE f.start + f.len = recv_queue'[1].start
        BY <1>0, <2>1, <2>3, <3>1, <4>1, TailContiguous
      <4>5. recv_queue' # <<>> => recv_queue'[1].start \in Nat
        BY <1>0, <1>t, <2>2, <4>4
      <4> QED
        BY <1>0, <3>1, <4>2, <4>3, <4>4, <4>5 DEF Accounting
    <3> QED
      BY <2>3, <2>4, <3>2 DEF Accounting
  <2>6. CASE ~(recv_offset + bytes >= f.len)
    BY <1>0, <1>t, <2>1, <2>2, <2>3, <2>4, <2>6 DEF Accounting, Contiguous
  <2> QED
    BY <2>5, <2>6
<1>7. CASE Closed \/ WaitRecvDone \/ WaitRecvSleep \/ WaitRecvWarn
  BY <1>0, <1>1, <1>7 DEF Closed, WaitRecvDone, WaitRecvSleep, WaitRecvWarn, recvVars,
     histVars, Dropped, DroppedIsEmpty, Serving
<1>8. ASSUME NEW t \in Threads, Discontinue(t) \/ SignalRecv(t)
      PROVE  (Accounting /\ OffsetInHead /\ DroppedIsEmpty)'
  BY <1>0, <1>1, <1>8, <1>t DEF Discontinue, SignalRecv, SignalRecvCond, recvVars,
     histVars, Dropped, DroppedIsEmpty
<1>9. ASSUME NEW len \in 1..MaxLen, NEW all \in BOOLEAN, Recv(len, all)
      PROVE  (Accounting /\ OffsetInHead /\ DroppedIsEmpty)'
  BY <1>1, <1>9 DEF Recv, histVars, Dropped
<1>10. CASE RecvLoop \/ RecvLock \/ SpuriousWakeup
  BY <1>0, <1>1, <1>10 DEF RecvLoop, RecvLock, SpuriousWakeup, Return, histVars,
     Dropped, DroppedIsEmpty
<1>11. CASE UNCHANGED vars
  BY <1>0, <1>1, <1>11 DEF vars, recvVars, histVars, Dropped, DroppedIsEmpty
<1> QED
  BY <1>2, <1>3, <1>4, <1>5, <1>6, <1>7, <1>8, <1>9, <1>10, <1>11
     DEF Next, ServiceStep, ReceiverStep

(* The queue, the offset into its head and the counts of usbws_handle_recv *)
(* and usbws_recv agree in every state.                                    *)
THEOREM QueueInvCorrect == Spec => []QueueInv
  BY QueueInit, QueueNext, PTL DEF Spec

(* Whatever frames come and whatever callers ask for, the queue and the    *)
(* reader's position account for every byte that was queued, also after a  *)
(* malloc failed, until the rest is dropped at close.                      *)
THEOREM AccountingSafe == Spec => []Accounting
<1>1. QueueInv => Accounting
  BY DEF QueueInv
<1> QED
  BY QueueInvCorrect, <1>1, PTL

-----------------------------------------------------------------------------
(* What is written behind a caller's buffer.                               *)

(* A call goes on only while it has less than it was asked for.            *)
OverrunInv == (rpc # "idle" => total < req.len) /\ OverrunIsBounded

(* The round that comes to the caller's length ends the call.              *)
LEMMA OverrunNext == TypeInv /\ OverrunInv /\ [Next]_vars => OverrunInv'
<1> SUFFICES ASSUME TypeInv, OverrunInv, [Next]_vars PROVE OverrunInv'
  OBVIOUS
<1> USE DEF OverrunInv, OverrunIsBounded
<1>0. req.len \in Nat /\ total \in Nat /\ MaxFrame \in Nat
  BY RecvConstants DEF TypeInv, TypeOK
<1>1. ASSUME UNCHANGED <<req, total>>, rpc' = "idle" \/ rpc # "idle" PROVE OverrunInv'
  BY <1>0, <1>1
<1>2. CASE DrainCopy
  <2> DEFINE f == Head(recv_queue)
             bytes == CopyBytes(f, recv_offset)
  <2>1. f \in Frame /\ recv_offset \in Nat /\ recv_offset < f.len /\ rpc = "drain"
    BY <1>2, HeadTail DEF DrainCopy, TypeInv, TypeOK, DrainHasFrames
  <2>2. f.len \in 0..MaxFrame
    BY <2>1 DEF Frame
  <2>3. bytes \in Nat /\ bytes <= req.len /\ bytes <= MaxFrame
    BY <1>0, <2>1, <2>2 DEF CopyBytes
  <2>4. total' = total + bytes /\ UNCHANGED req
    BY <1>2 DEF DrainCopy
  <2>5. total' >= req.len => rpc' = "idle"
    BY <1>0, <1>2, <2>3, <2>4 DEF DrainCopy, LeaveDrain, Enough, Return
  <2> QED
    BY <1>0, <2>1, <2>3, <2>4, <2>5
<1>3. CASE DrainSkip
  BY <1>1, <1>3 DEF DrainSkip, histVars
<1>4. ASSUME NEW len \in 1..MaxLen, NEW all \in BOOLEAN, Recv(len, all) PROVE OverrunInv'
  BY <1>4, RecvConstants DEF Recv
<1>5. CASE RecvLoop \/ RecvLock \/ SpuriousWakeup
  BY <1>1, <1>5 DEF RecvLoop, RecvLock, SpuriousWakeup, Return
<1>6. CASE ServiceStep
  BY <1>1, <1>6 DEF ServiceStep, HandleRecv, HandleRecvNoMemory, Closed, WaitRecvDone,
     WaitRecvSleep, WaitRecvWarn, DropQueue, SignalRecvCond, recvVars
<1>7. ASSUME NEW t \in Threads, Discontinue(t) \/ SignalRecv(t) PROVE OverrunInv'
  BY <1>1, <1>7 DEF Discontinue, SignalRecv, SignalRecvCond, recvVars
<1>8. CASE UNCHANGED vars
  BY <1>1, <1>8 DEF vars, recvVars
<1> QED
  BY <1>2, <1>3, <1>4, <1>5, <1>6, <1>7, <1>8 DEF Next, ReceiverStep

(* Whatever callers ask for and peers send, usbws_recv writes less than a  *)
(* packet and less than the buffer's length behind the buffer.             *)
THEOREM OverrunIsBoundedSafe == Spec => []OverrunIsBounded
<1>1. Init => OverrunInv
  BY DEF Init, OverrunInv, OverrunIsBounded
<1>2. OverrunInv => OverrunIsBounded
  BY DEF OverrunInv
<1> QED
  BY <1>1, <1>2, TypeInvCorrect, OverrunNext, PTL DEF Spec

-----------------------------------------------------------------------------
(* Callers that read message by message.                                   *)

(* A frame that has arrived and belongs to one message.                    *)
WholeFrame(f) ==
  /\ f.start + f.len <= arrived
  /\ \A e \in PduEnds : ~(f.start < e /\ e < f.start + f.len)

FramesAreWhole == \A i \in 1..Len(recv_queue) : WholeFrame(recv_queue[i])

(* Inside usbws_recv the caller stands in the message it asked for.        *)
InMessage ==
  rpc # "idle" =>
    total < req.len /\ read_pos - total + req.len \in PduEnds

(* Then no frame is left half read from one call to the next, so recv_buf  *)
(* is where the next byte is and len is never too much to copy.            *)
MessageInv ==
  /\ ~Lost /\ recv_offset = 0 /\ copied.upto = read_pos
  /\ FramesAreWhole
  /\ InMessage
  /\ NoOverrun

(* Nothing was read, at a message boundary.                                *)
LEMMA MessageInit == Init => MessageInv
  BY DEF Init, MessageInv, FramesAreWhole, InMessage, NoOverrun, Lost

(* The round that copies takes the whole frame, and the frame lies in the  *)
(* message the caller asked for.                                           *)
LEMMA CopyWholeFrame ==
  ASSUME QueueInv, MessageInv, DrainCopy
  PROVE  LET f == recv_queue[1] IN
         /\ Head(recv_queue) = f /\ f.len \in Nat \ {0} /\ f.start = read_pos
         /\ read_pos + f.len <= arrived
         /\ total + f.len <= req.len
         /\ CopyBytes(f, recv_offset) = f.len
<1> DEFINE f == recv_queue[1]
<1>1. rpc = "drain" /\ recv_queue # <<>> /\ recv_queue \in Seq(Frame)
      /\ recv_offset = 0 /\ total \in Nat /\ read_pos \in Nat /\ req.len \in Nat
  BY RecvConstants DEF DrainCopy, QueueInv, MessageInv, TypeInv, TypeOK, DrainHasFrames
<1>2. Head(recv_queue) = f /\ f \in Frame
  BY <1>1, HeadTail DEF QueueInv, TypeInv
<1>3. f.len \in Nat \ {0} /\ f.start \in Nat
  BY <1>1, <1>2, FrameInts DEF DrainCopy
<1>4. f.start = read_pos
  BY <1>1, <1>3 DEF QueueInv, DroppedIsEmpty, Accounting, MessageInv
<1>5. 1 \in 1..Len(recv_queue)
  BY <1>1, EmptySeq
<1>6. f.start + f.len <= arrived
      /\ \A e \in PduEnds : ~(f.start < e /\ e < f.start + f.len)
  BY <1>5 DEF MessageInv, FramesAreWhole, WholeFrame
<1>7. total < req.len /\ read_pos - total + req.len \in PduEnds
  BY <1>1 DEF MessageInv, InMessage
<1>8. total + f.len <= req.len
  BY <1>1, <1>3, <1>4, <1>6, <1>7
<1>9. CopyBytes(f, recv_offset) = f.len
  BY <1>1, <1>3, <1>8 DEF CopyBytes
<1> QED
  BY <1>2, <1>3, <1>4, <1>6, <1>8, <1>9

(* With whole messages, and until a frame is lost, a read begins and ends  *)
(* at a message boundary and copies the bytes of one message in between.   *)
LEMMA MessageNext ==
  ASSUME Aligned, QueueInv, MessageInv, [Next]_vars, ~Lost'
  PROVE  MessageInv'
<1>0. TypeOK /\ TypeOK' /\ ~Lost /\ recv_offset = 0 /\ copied.upto = read_pos
      /\ FramesAreWhole /\ InMessage /\ NoOverrun
  BY QueueNext DEF QueueInv, TypeInv, MessageInv
<1>t. /\ recv_queue \in Seq(Frame) /\ Len(recv_queue) \in Nat
      /\ read_pos \in Nat /\ total \in Nat
      /\ req.len \in Nat /\ arrived \in Nat /\ kept = arrived
  BY <1>0, RecvConstants DEF TypeOK, Lost
<1> USE DEF Lost
(* Steps that leave the queue, the position and the message alone.         *)
<1>1. ASSUME UNCHANGED <<recv_queue, recv_offset, arrived, read_pos, kept, copied, req, total>>,
             rpc' = "idle" \/ rpc # "idle"
      PROVE  MessageInv'
  BY <1>0, <1>1 DEF MessageInv, FramesAreWhole, WholeFrame, InMessage, NoOverrun
<1>2. ASSUME NEW n \in 0..MaxFrame, HandleRecv(n) PROVE MessageInv'
  <2> DEFINE fr == [start |-> arrived, len |-> n]
  <2>1. n \in Nat /\ fr \in Frame /\ arrived' = arrived + n /\ kept' = arrived'
        /\ recv_queue' = Append(recv_queue, fr)
    BY <1>0, <1>t, <1>2, RecvConstants DEF HandleRecv, Frame, TypeOK
  <2>2. UNCHANGED <<recv_offset, read_pos, copied, req, total>>
        /\ (rpc' = "idle" \/ rpc # "idle")
    BY <1>2 DEF HandleRecv, SignalRecvCond
  <2>3. \A e \in PduEnds : ~(arrived < e /\ e < arrived + n)
    BY <1>2 DEF HandleRecv, FrameFits
  <2>4. FramesAreWhole'
    <3> SUFFICES ASSUME NEW i \in 1..Len(recv_queue') PROVE WholeFrame(recv_queue[i])'
      BY DEF FramesAreWhole
    <3>1. CASE i = Len(recv_queue) + 1
      <4>1. recv_queue'[i] = fr
        BY <1>t, <2>1, <3>1
      <4> QED
        BY <1>t, <2>1, <2>3, <4>1 DEF WholeFrame
    <3>2. CASE i # Len(recv_queue) + 1
      <4>1. i \in 1..Len(recv_queue) /\ recv_queue'[i] = recv_queue[i]
        BY <1>t, <2>1, <3>2
      <4>2. WholeFrame(recv_queue[i]) /\ recv_queue[i] \in Frame
        BY <1>0, <1>t, <4>1 DEF FramesAreWhole
      <4>3. recv_queue[i].start \in Nat /\ recv_queue[i].len \in Nat
        BY <4>2, FrameInts
      <4> QED
        BY <1>t, <2>1, <4>1, <4>2, <4>3 DEF WholeFrame
    <3> QED
      BY <3>1, <3>2
  <2>5. InMessage' /\ NoOverrun'
    BY <1>0, <2>2 DEF InMessage, NoOverrun
  <2> QED
    BY <1>0, <2>1, <2>2, <2>4, <2>5 DEF MessageInv
<1>3. ASSUME NEW n \in 0..MaxFrame, HandleRecvNoMemory(n) PROVE MessageInv'
  <2>1. n = 0 /\ UNCHANGED <<arrived, kept, recvVars, recv_queue, recv_offset, read_pos, copied>>
    BY <1>3, <1>t, RecvConstants DEF HandleRecvNoMemory
  <2> QED
    BY <1>1, <2>1 DEF recvVars
<1>4. CASE DropQueue
  <2>1. FramesAreWhole'
    BY <1>4 DEF DropQueue, FramesAreWhole
  <2>2. UNCHANGED <<recv_offset, read_pos, kept, copied, req, total, rpc>>
    BY <1>4 DEF DropQueue, recvVars, histVars
  <2> QED
    BY <1>0, <2>1, <2>2 DEF MessageInv, InMessage, NoOverrun
(* The rest of the queue is whole too.                                     *)
<1>5. ASSUME recv_queue' = Tail(recv_queue), recv_queue # <<>>, UNCHANGED arrived
      PROVE  FramesAreWhole'
  <2> SUFFICES ASSUME NEW i \in 1..Len(recv_queue') PROVE WholeFrame(recv_queue[i])'
    BY DEF FramesAreWhole
  <2>1. i + 1 \in 1..Len(recv_queue) /\ recv_queue'[i] = recv_queue[i + 1]
    BY <1>5, <1>t
  <2> QED
    BY <1>0, <1>5, <2>1 DEF FramesAreWhole, WholeFrame
<1>6. CASE DrainSkip
  <2>1. recv_queue # <<>> /\ rpc = "drain"
    BY <1>6 DEF DrainSkip, QueueInv, TypeInv, DrainHasFrames
  <2>2. recv_queue' = Tail(recv_queue) /\ recv_offset' = 0
        /\ UNCHANGED <<arrived, read_pos, kept, copied, req, total>>
    BY <1>6 DEF DrainSkip, histVars
  <2>3. InMessage' /\ NoOverrun'
    BY <1>0, <2>1, <2>2 DEF InMessage, NoOverrun
  <2> QED
    BY <1>0, <1>5, <2>1, <2>2, <2>3 DEF MessageInv
<1>7. CASE DrainCopy
  <2> DEFINE f == recv_queue[1]
  <2>1. /\ Head(recv_queue) = f /\ f.len \in Nat \ {0} /\ f.start = read_pos
        /\ total + f.len <= req.len /\ CopyBytes(f, recv_offset) = f.len
    BY <1>7, CopyWholeFrame
  <2>2. rpc = "drain" /\ recv_queue # <<>>
    BY <1>7 DEF DrainCopy, QueueInv, TypeInv, DrainHasFrames
  <2>3. /\ recv_queue' = Tail(recv_queue) /\ recv_offset' = 0
        /\ total' = total + f.len /\ read_pos' = read_pos + f.len
        /\ copied' = [from |-> read_pos, upto |-> read_pos + f.len]
        /\ UNCHANGED <<arrived, kept, req>>
    BY <1>0, <1>7, <2>1 DEF DrainCopy, CopyFrom, OffsetAfter
  <2>4. FramesAreWhole'
    BY <1>5, <2>2, <2>3
  <2>5. read_pos' - total' = read_pos - total
    BY <1>t, <2>1, <2>3
  <2>6. rpc' # "idle" => total' < req.len
    BY <1>7, <1>t, <2>1, <2>3 DEF DrainCopy, LeaveDrain, Enough, Return
  <2>7. InMessage'
    BY <1>0, <2>2, <2>3, <2>5, <2>6 DEF InMessage
  <2> QED
    BY <1>0, <2>1, <2>3, <2>4, <2>7 DEF MessageInv, NoOverrun
<1>8. ASSUME NEW len \in 1..MaxLen, NEW all \in BOOLEAN, Recv(len, all) PROVE MessageInv'
  <2>1. len \in Nat \ {0} /\ total' = 0 /\ req'.len = len
        /\ UNCHANGED <<recv_queue, recv_offset, arrived, read_pos, kept, copied>>
    BY <1>8, RecvConstants DEF Recv, histVars
  <2>2. read_pos + len \in PduEnds
    BY <1>8 DEF Recv
  <2>3. read_pos' - total' = read_pos
    BY <1>t, <2>1
  <2>4. InMessage' /\ NoOverrun'
    BY <2>1, <2>2, <2>3 DEF InMessage, NoOverrun
  <2> QED
    BY <1>0, <2>1, <2>4 DEF MessageInv, FramesAreWhole, WholeFrame
<1>9. CASE Closed \/ WaitRecvDone \/ WaitRecvSleep \/ WaitRecvWarn
  BY <1>1, <1>9 DEF Closed, WaitRecvDone, WaitRecvSleep, WaitRecvWarn, recvVars, histVars
<1>10. ASSUME NEW t \in Threads, Discontinue(t) \/ SignalRecv(t) PROVE MessageInv'
  BY <1>1, <1>10 DEF Discontinue, SignalRecv, SignalRecvCond, recvVars, histVars
<1>11. CASE RecvLoop \/ RecvLock \/ SpuriousWakeup
  BY <1>1, <1>11 DEF RecvLoop, RecvLock, SpuriousWakeup, Return, histVars
<1>12. CASE UNCHANGED vars
  BY <1>1, <1>12 DEF vars, recvVars, histVars
<1> QED
  BY <1>2, <1>3, <1>4, <1>6, <1>7, <1>8, <1>9, <1>10, <1>11, <1>12
     DEF Next, ServiceStep, ReceiverStep

(* What was lost stays lost: no frame is queued that has not arrived.      *)
LEMMA LostStays ==
  ASSUME TypeInv, [Next]_vars, Lost PROVE Lost'
<1> USE DEF Lost
<1>0. kept \in Nat /\ arrived \in Nat /\ kept < arrived
  BY RecvConstants DEF TypeInv, TypeOK
<1>1. ASSUME NEW n \in 0..MaxFrame, HandleRecv(n) \/ HandleRecvNoMemory(n) PROVE Lost'
  BY <1>0, <1>1, RecvConstants DEF HandleRecv, HandleRecvNoMemory
<1>2. CASE \/ Closed \/ WaitRecvDone \/ WaitRecvSleep \/ WaitRecvWarn \/ DropQueue
           \/ \E t \in Threads : Discontinue(t) \/ SignalRecv(t)
  BY <1>2 DEF Closed, WaitRecvDone, WaitRecvSleep, WaitRecvWarn, DropQueue, Discontinue,
     SignalRecv, histVars
<1>3. CASE \E len \in 1..MaxLen, all \in BOOLEAN : Recv(len, all)
  BY <1>3 DEF Recv, histVars
<1>4. CASE RecvLoop \/ RecvLock \/ SpuriousWakeup \/ DrainSkip \/ DrainCopy
  BY <1>4 DEF RecvLoop, RecvLock, SpuriousWakeup, DrainSkip, DrainCopy, histVars
<1>5. CASE UNCHANGED vars
  BY <1>5 DEF vars, histVars
<1> QED
  BY <1>1, <1>2, <1>3, <1>4, <1>5 DEF Next, ServiceStep, ReceiverStep

LEMMA MessageInvCorrect ==
  ASSUME Aligned
  PROVE  Spec => [](~Lost => MessageInv)
<1>1. QueueInv /\ (~Lost => MessageInv) /\ [Next]_vars => (~Lost => MessageInv)'
  BY MessageNext, LostStays DEF QueueInv
<1> QED
  BY <1>1, MessageInit, QueueInvCorrect, PTL DEF Spec

(* Callers that ask for exactly the next message, of a peer whose frames   *)
(* lie in one message each: until malloc fails, nothing is written behind  *)
(* the caller's buffer.                                                    *)
THEOREM NoOverrunSafe ==
  ASSUME Aligned
  PROVE  Spec => []NoOverrun
<1>1. (~Lost => MessageInv) => NoOverrun
  BY DEF MessageInv, NoOverrun
<1> QED
  BY <1>1, MessageInvCorrect, PTL

(* Every step of the receive side is a step of the stream, or none.        *)
LEMMA StreamStep ==
  ASSUME QueueInv, MessageInv, [Next]_vars, ~Lost'
  PROVE  [Stream!Next]_(Stream!vars)
<1> DEFINE ended == ~cont /\ rpc # "drain"
<1>t. arrived \in Nat /\ read_pos \in Nat /\ copied.upto = read_pos /\ cont \in BOOLEAN
  BY RecvConstants DEF QueueInv, TypeInv, TypeOK, MessageInv
<1>b. UNCHANGED Lost
  BY DEF MessageInv, Lost
<1>1. ASSUME UNCHANGED <<arrived, copied>>, ended => ended' PROVE [Stream!Next]_(Stream!vars)
  BY <1>1, <1>b DEF Stream!Next, Stream!End, Stream!vars
<1>2. ASSUME NEW n \in 0..MaxFrame, HandleRecv(n) PROVE [Stream!Next]_(Stream!vars)
  <2>1. arrived' = arrived + n /\ UNCHANGED <<copied, ended>> /\ n \in Nat
    BY <1>2, RecvConstants DEF HandleRecv, SignalRecvCond, RecvQueueLockFree
  <2> QED
    BY <1>t, <1>b, <2>1 DEF Stream!Next, Stream!Write, Stream!vars
<1>3. ASSUME NEW n \in 0..MaxFrame, HandleRecvNoMemory(n) PROVE [Stream!Next]_(Stream!vars)
  <2>1. n = 0 /\ UNCHANGED <<arrived, copied, ended>>
    BY <1>3, <1>t, <1>b, RecvConstants DEF HandleRecvNoMemory, MessageInv, Lost, recvVars
  <2> QED
    BY <1>1, <2>1
<1>4. CASE DrainCopy
  <2>1. /\ copied' = [from |-> read_pos, upto |-> read_pos + recv_queue[1].len]
        /\ recv_queue[1].len \in Nat \ {0} /\ read_pos + recv_queue[1].len <= arrived
    BY <1>4, CopyWholeFrame DEF DrainCopy, CopyFrom
  <2>2. ~ended /\ UNCHANGED arrived
    BY <1>4 DEF DrainCopy
  <2> QED
    BY <1>t, <1>b, <2>1, <2>2 DEF Stream!Next, Stream!Take
<1>5. CASE DrainSkip
  BY <1>1, <1>5 DEF DrainSkip, histVars
<1>6. CASE Closed \/ WaitRecvDone \/ WaitRecvSleep \/ WaitRecvWarn \/ DropQueue
  BY <1>1, <1>6 DEF Closed, WaitRecvDone, WaitRecvSleep, WaitRecvWarn, DropQueue,
     recvVars, histVars
<1>7. ASSUME NEW t \in Threads, Discontinue(t) \/ SignalRecv(t)
      PROVE  [Stream!Next]_(Stream!vars)
  BY <1>1, <1>7 DEF Discontinue, SignalRecv, SignalRecvCond, RecvQueueLockFree,
     recvVars, histVars
<1>8. ASSUME NEW len \in 1..MaxLen, NEW all \in BOOLEAN, Recv(len, all)
      PROVE  [Stream!Next]_(Stream!vars)
  BY <1>1, <1>8 DEF Recv, histVars
<1>9. CASE RecvLoop \/ RecvLock \/ SpuriousWakeup
  BY <1>1, <1>9 DEF RecvLoop, RecvLock, SpuriousWakeup, Return, histVars
<1>10. CASE UNCHANGED vars
  BY <1>1, <1>10 DEF vars, recvVars, histVars
<1> QED
  BY <1>2, <1>3, <1>4, <1>5, <1>6, <1>7, <1>8, <1>9, <1>10
     DEF Next, ServiceStep, ReceiverStep

(* Under the same assumption the receive side implements the byte stream:  *)
(* what usbws_recv copies out is the peer's stream, in order, each byte    *)
(* once, none before it has arrived and none after the end.                *)
THEOREM ReadsStreamCorrect ==
  ASSUME Aligned
  PROVE  Spec => ReadsStream
<1>1. Init => Stream!Init
  BY DEF Init, Stream!Init, Lost
<1>2. QueueInv /\ (~Lost => MessageInv) /\ [Next]_vars => [Stream!Next]_(Stream!vars)
  <2>1. Lost' => Stream!Break
    BY DEF Stream!Break
  <2> QED
    BY <2>1, LostStays, StreamStep DEF Stream!Next, QueueInv
<1> QED
  BY <1>1, <1>2, MessageInvCorrect, QueueInvCorrect, PTL
     DEF Spec, ReadsStream, Stream!Spec
=============================================================================
