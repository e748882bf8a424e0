------------------------ MODULE UsbwsRecvListProofs ------------------------
(***************************************************************************)
(* Proofs about UsbwsRecvList, for any number of blocks and frames: the    *)
(* doubly linked list is the queue of UsbwsRecvQueue.                      *)
(***************************************************************************)
EXTENDS UsbwsRecvList, UsbwsRecvQueueProofs

-----------------------------------------------------------------------------
(* The functions of usbws_util.h on any ring.                              *)

(* The blocks of an order, each once.                                      *)
Once(o) == \A j, k \in 1..Len(o) : o[j] = o[k] => j = k

(* Blocks are not the head, and every cell of an order is a cell.          *)
LEMMA CellIsCell ==
  ASSUME NEW o \in Seq(Blocks), NEW k \in Int
  PROVE  /\ Cell(o, k) \in Cells
         /\ Cell(o, k) = ListHead <=> k \notin 1..Len(o)
  BY ListConstants DEF Cell, Cells

(* Cells with different numbers of an order without repetition differ.     *)
LEMMA CellOnce ==
  ASSUME NEW o \in Seq(Blocks), Once(o),
         NEW j \in 1..Len(o), NEW k \in Int, Cell(o, j) = Cell(o, k)
  PROVE  j = k
  BY ListConstants DEF Cell, Once

(* list_add_tail puts a new block behind the last one.                     *)
LEMMA AddTailRing ==
  ASSUME NEW r \in Links, NEW o \in Seq(Blocks), RingIs(r, o), Once(o),
         NEW b \in Blocks, \A k \in 1..Len(o) : o[k] # b
  PROVE  /\ ListAddTail(r, b, ListHead) \in Links
         /\ RingIs(ListAddTail(r, b, ListHead), Append(o, b))
<1> DEFINE l == Len(o)
           s == ListAddTail(r, b, ListHead)
           q == Append(o, b)
           tail == Cell(o, l)
<1>1. /\ l \in Nat /\ q \in Seq(Blocks) /\ Len(q) = l + 1
      /\ \A k \in 1..l : q[k] = o[k]
      /\ q[l + 1] = b
  OBVIOUS
<1>2. /\ \A k \in 0..l : Cell(q, k) = Cell(o, k)
      /\ Cell(q, l + 1) = b /\ Cell(q, l + 2) = ListHead /\ Cell(o, l + 1) = ListHead
  BY <1>1 DEF Cell
<1>3. r.prev[ListHead] = tail /\ tail \in Cells /\ b \in Cells /\ ListHead \in Cells
  BY <1>1, <1>2, CellIsCell DEF RingIs, Cells
<1>4. /\ r.next \in [Cells -> Cells \cup {None}] /\ r.prev \in [Cells -> Cells \cup {None}]
      /\ b # ListHead
  BY ListConstants DEF Links
<1>5. tail # b
  BY <1>1, <1>4 DEF Cell
<1>6. /\ s.next = [r.next EXCEPT ![b] = ListHead, ![tail] = b]
      /\ s.prev = [r.prev EXCEPT ![ListHead] = b, ![b] = tail]
  BY <1>3 DEF ListAddTail, ListAdd
<1>7. s \in Links
  <2>1. s = [next |-> s.next, prev |-> s.prev]
    BY DEF ListAddTail, ListAdd
  <2>2. s.next \in [Cells -> Cells \cup {None}] /\ s.prev \in [Cells -> Cells \cup {None}]
    BY <1>3, <1>4, <1>6
  <2> QED
    BY <2>1, <2>2 DEF Links
<1>8. ASSUME NEW k \in 0..l + 1
      PROVE  s.next[Cell(q, k)] = Cell(q, k + 1) /\ s.prev[Cell(q, k + 1)] = Cell(q, k)
  <2>1. CASE k = l + 1
    BY <2>1, <1>2, <1>3, <1>4, <1>5, <1>6
  <2>2. CASE k = l
    <3>1. Cell(q, k) = tail /\ Cell(q, k + 1) = b
      BY <2>2, <1>1, <1>2
    <3> QED
      BY <3>1, <1>3, <1>4, <1>5, <1>6
  <2>3. CASE k \in 0..l - 1
    <3>1. /\ k \in 0..l /\ k + 1 \in 0..l /\ k + 1 \in 1..l
          /\ Cell(q, k) = Cell(o, k) /\ Cell(q, k + 1) = Cell(o, k + 1)
      BY <2>3, <1>1, <1>2
    <3>2. r.next[Cell(o, k)] = Cell(o, k + 1) /\ r.prev[Cell(o, k + 1)] = Cell(o, k)
      BY <3>1 DEF RingIs
    <3>3. Cell(o, k) # b /\ Cell(o, k + 1) # b /\ Cell(o, k + 1) # ListHead
      BY <3>1, <1>4, CellIsCell DEF Cell
    <3>4. Cell(o, k) # tail
      <4>1. CASE k = 0
        <5>1. Cell(o, k) = ListHead /\ l \in 1..l
          BY <4>1, <2>3, <1>1 DEF Cell
        <5> QED
          BY <5>1, <1>1, CellIsCell
      <4>2. CASE k # 0
        <5>1. k \in 1..l /\ l # k /\ l \in Int
          BY <4>2, <2>3, <1>1
        <5> QED
          BY <5>1, CellOnce
      <4> QED
        BY <4>1, <4>2
    <3>5. Cell(o, k) \in Cells /\ Cell(o, k + 1) \in Cells
      BY <3>1, CellIsCell
    <3>6. s.next[Cell(o, k)] = r.next[Cell(o, k)]
      BY <3>3, <3>4, <3>5, <1>4, <1>6
    <3>7. s.prev[Cell(o, k + 1)] = r.prev[Cell(o, k + 1)]
      BY <3>3, <3>5, <1>4, <1>6
    <3> QED
      BY <3>1, <3>2, <3>6, <3>7
  <2> QED
    BY <1>1, <2>1, <2>2, <2>3
<1> HIDE DEF s, q
<1>9. RingIs(s, q)
  BY <1>1, <1>8 DEF RingIs
<1> QED
  BY <1>7, <1>9 DEF s, q

(* list_del of the oldest block leaves the ring of the others.             *)
LEMMA DelOldestRing ==
  ASSUME NEW r \in Links, NEW o \in Seq(Blocks), RingIs(r, o), Once(o), o # <<>>
  PROVE  /\ ListDel(r, o[1]) \in Links
         /\ RingIs(ListDel(r, o[1]), Tail(o))
<1> DEFINE l == Len(o)
           s == ListDel(r, o[1])
           q == Tail(o)
           second == Cell(o, 2)
<1>1. /\ l \in Nat \ {0} /\ q \in Seq(Blocks) /\ Len(q) = l - 1
      /\ \A k \in 1..l - 1 : q[k] = o[k + 1]
  OBVIOUS
<1>2. /\ \A k \in 1..l : Cell(q, k) = Cell(o, k + 1)
      /\ Cell(q, 0) = ListHead /\ Cell(o, 0) = ListHead /\ Cell(o, 1) = o[1]
  BY <1>1 DEF Cell
<1>3. r.prev[o[1]] = ListHead /\ r.next[o[1]] = second
  <2>1. 0 \in 0..l /\ 1 \in 0..l /\ 0 + 1 = 1 /\ 1 + 1 = 2
    BY <1>1
  <2> QED
    BY <2>1, <1>2 DEF RingIs
<1>4. /\ r.next \in [Cells -> Cells \cup {None}] /\ r.prev \in [Cells -> Cells \cup {None}]
      /\ second \in Cells /\ ListHead \in Cells
  BY CellIsCell DEF Links, Cells
<1>5. /\ s.next = [r.next EXCEPT ![ListHead] = second]
      /\ s.prev = [r.prev EXCEPT ![second] = ListHead]
  BY <1>3 DEF ListDel
<1>6. s \in Links
  <2>1. s = [next |-> s.next, prev |-> s.prev]
    BY DEF ListDel
  <2>2. s.next \in [Cells -> Cells \cup {None}] /\ s.prev \in [Cells -> Cells \cup {None}]
    BY <1>4, <1>5
  <2> QED
    BY <2>1, <2>2 DEF Links
<1>7. ASSUME NEW k \in 0..l - 1
      PROVE  s.next[Cell(q, k)] = Cell(q, k + 1) /\ s.prev[Cell(q, k + 1)] = Cell(q, k)
  <2>1. CASE k = 0
    <3>1. Cell(q, k) = ListHead /\ Cell(q, k + 1) = second
      BY <2>1, <1>1, <1>2
    <3> QED
      BY <3>1, <1>4, <1>5
  <2>2. CASE k # 0
    <3>1. /\ k + 1 \in 0..l /\ k + 1 \in 1..l /\ k + 2 \in Int /\ k + 2 # 2 /\ k + 2 # 1
          /\ Cell(q, k) = Cell(o, k + 1) /\ Cell(q, k + 1) = Cell(o, k + 2)
      BY <2>2, <1>1, <1>2
    <3>2. r.next[Cell(o, k + 1)] = Cell(o, k + 2) /\ r.prev[Cell(o, k + 2)] = Cell(o, k + 1)
      <4>1. (k + 1) + 1 = k + 2
        OBVIOUS
      <4> QED
        BY <3>1, <4>1 DEF RingIs
    <3>3. Cell(o, k + 1) # ListHead /\ Cell(o, k + 1) \in Cells /\ Cell(o, k + 2) \in Cells
      BY <3>1, CellIsCell
    <3>4. Cell(o, k + 2) # second
      <4>1. 2 \in 1..l /\ 2 \in Int
        BY <3>1, <2>2
      <4> QED
        BY <4>1, <3>1, CellOnce
    <3>5. s.next[Cell(o, k + 1)] = r.next[Cell(o, k + 1)]
      BY <3>3, <1>4, <1>5
    <3>6. s.prev[Cell(o, k + 2)] = r.prev[Cell(o, k + 2)]
      BY <3>3, <3>4, <1>4, <1>5
    <3> QED
      BY <3>1, <3>2, <3>5, <3>6
  <2> QED
    BY <2>1, <2>2
<1> HIDE DEF s, q
<1>8. RingIs(s, q)
  BY <1>1, <1>7 DEF RingIs
<1> QED
  BY <1>6, <1>8 DEF s, q

(* Freeing a block that is not in the ring does not disturb it.            *)
LEMMA FreedRing ==
  ASSUME NEW r \in Links, NEW o \in Seq(Blocks), RingIs(r, o),
         NEW b \in Blocks, \A k \in 1..Len(o) : o[k] # b
  PROVE  Freed(r, b) \in Links /\ RingIs(Freed(r, b), o)
<1>1. /\ r.next \in [Cells -> Cells \cup {None}] /\ r.prev \in [Cells -> Cells \cup {None}]
      /\ Freed(r, b).next = [r.next EXCEPT ![b] = None]
      /\ Freed(r, b).prev = [r.prev EXCEPT ![b] = None]
  BY DEF Links, Freed
<1>2. \A k \in Int : Cell(o, k) # b /\ Cell(o, k) \in Cells
  BY ListConstants, CellIsCell DEF Cell
<1>3. Freed(r, b) \in Links
  BY <1>1 DEF Links, Freed
<1>4. RingIs(Freed(r, b), o)
  BY <1>1, <1>2 DEF RingIs
<1> QED
  BY <1>3, <1>4

-----------------------------------------------------------------------------
(* The list of the session.                                                *)

(* The loop of usbws_recv holds a position, that of usbws_session_close    *)
(* runs in the close callback only.                                        *)
LoopInv ==
  /\ rpc = "drain" => pos # None
  /\ Dropping => spc = "drop"

ListInv == TypeInv /\ DroppedIsEmpty /\ ListTypeOK /\ LoopInv /\ ListHoldsQueue

(* The session starts with a head that is linked to itself.                *)
LEMMA ListInitInv == Init /\ ListInit => ListInv
<1> SUFFICES ASSUME Init, ListInit PROVE ListInv
  OBVIOUS
<1>1. TypeInv /\ DroppedIsEmpty /\ recv_queue = <<>> /\ rpc = "idle"
  BY TypeInit DEF Init, DroppedIsEmpty
<1>2. order = <<>> /\ Len(order) = 0 /\ order \in Seq(Blocks) /\ Len(recv_queue) = 0
  BY <1>1, EmptySeq DEF ListInit
<1>3. /\ ring.next \in [Cells -> Cells \cup {None}] /\ ring.prev \in [Cells -> Cells \cup {None}]
      /\ ring \in Links
      /\ ring.next[ListHead] = ListHead /\ ring.prev[ListHead] = ListHead
  BY DEF ListInit, Links, Cells
<1>4. RingIs(ring, order)
  BY <1>2, <1>3 DEF RingIs, Cell
<1>5. ListTypeOK
  BY <1>2, <1>3 DEF ListInit, ListTypeOK
<1>6. LoopInv /\ LoopAtOldest /\ ~Dropping
  BY <1>1 DEF ListInit, LoopInv, LoopAtOldest, Dropping
<1>7. ListIsQueue
  BY <1>1, <1>2, <1>4 DEF ListIsQueue
<1>8. OnlyCloseLeaks
  BY <1>2 DEF ListInit, OnlyCloseLeaks
<1> QED
  BY <1>1, <1>5, <1>6, <1>7, <1>8 DEF ListInv, ListHoldsQueue

(* What the invariant says where the list is read or changed.              *)
LEMMA ListFacts ==
  ASSUME ListInv
  PROVE  /\ order \in Seq(Blocks) /\ Once(order) /\ ring \in Links
         /\ RingIs(ring, order) /\ ring.next[ListHead] = Cell(order, 1)
         /\ order # <<>> => /\ order[1] \in used /\ order[1] \in Blocks
                            /\ Cell(order, 1) = order[1]
                            /\ ring.next[order[1]] = Cell(Tail(order), 1)
         /\ order = <<>> => Cell(order, 1) = ListHead
         /\ pos # None => pos = Cell(order, 1)
<1>1. /\ order \in Seq(Blocks) /\ Once(order) /\ ring \in Links /\ RingIs(ring, order)
      /\ pos # None => pos = Cell(order, 1)
  BY DEF ListInv, ListTypeOK, ListHoldsQueue, ListIsQueue, OnlyCloseLeaks, Once, LoopAtOldest
<1>2. Len(order) \in Nat /\ Cell(order, 0) = ListHead
  BY <1>1 DEF Cell
<1>3. ring.next[ListHead] = Cell(order, 1)
  <2>1. 0 \in 0..Len(order) /\ 0 + 1 = 1
    BY <1>2
  <2> QED
    BY <1>1, <1>2, <2>1 DEF RingIs
<1>4. ASSUME order # <<>>
      PROVE  /\ order[1] \in used /\ order[1] \in Blocks /\ Cell(order, 1) = order[1]
             /\ ring.next[order[1]] = Cell(Tail(order), 1)
  <2>1. 1 \in 1..Len(order) /\ 1 \in 0..Len(order) /\ 1 + 1 = 2 /\ order[1] \in Blocks
    BY <1>1, <1>4
  <2>2. order[1] \in used
    BY <2>1 DEF ListInv, ListHoldsQueue, OnlyCloseLeaks
  <2>3. Cell(order, 1) = order[1]
    BY <2>1 DEF Cell
  <2>4. Cell(Tail(order), 1) = Cell(order, 2)
    BY <1>1, <1>4 DEF Cell
  <2> QED
    BY <1>1, <2>1, <2>2, <2>3, <2>4 DEF RingIs
<1>5. order = <<>> => Cell(order, 1) = ListHead
  BY DEF Cell
<1> QED
  BY <1>1, <1>3, <1>4, <1>5

(* The steps of the queue that the list does not take part in.             *)
LEMMA QueueOnlyKeeps ==
  ASSUME ListInv, QueueOnly
  PROVE  /\ [Next]_vars /\ UNCHANGED recv_queue
         /\ (rpc' # "drain" /\ rpc # "drain") \/ UNCHANGED rpc
         /\ Dropping => spc' = spc
         /\ Dropped => Dropped'
<1>1. CASE \E n \in 0..MaxFrame : HandleRecvNoMemory(n)
  BY <1>1 DEF HandleRecvNoMemory, Next, ServiceStep, Dropped, recvVars
<1>2. CASE Closed \/ WaitRecvDone \/ WaitRecvSleep \/ WaitRecvWarn
  BY <1>2 DEF Closed, WaitRecvDone, WaitRecvSleep, WaitRecvWarn, Serving, Next, ServiceStep,
     Dropped, recvVars, ListInv, LoopInv
<1>3. CASE \E t \in Threads : Discontinue(t)
  BY <1>3 DEF Discontinue, Next, Dropped, recvVars
<1>4. CASE \E t \in Threads : SignalRecv(t) /\ ~Dropping
  BY <1>4 DEF SignalRecv, SignalRecvCond, RecvQueueLockFree, Next, Dropped
<1>5. CASE \E len \in 1..MaxLen, all \in BOOLEAN : Recv(len, all)
  BY <1>5 DEF Recv, Next, Dropped
<1>6. CASE RecvLoop
  BY <1>6 DEF RecvLoop, Return, Next, ReceiverStep, Dropped
<1>7. CASE SpuriousWakeup
  BY <1>7 DEF SpuriousWakeup, Next, Dropped
<1> QED
  BY <1>1, <1>2, <1>3, <1>4, <1>5, <1>6, <1>7 DEF QueueOnly

(* The oldest frame goes: what is left of the list holds what is left of   *)
(* the queue.                                                              *)
LEMMA TailHolds ==
  ASSUME ListInv, order # <<>>, Len(recv_queue) = Len(order)
  PROVE  /\ recv_queue # <<>> /\ Len(Tail(order)) = Len(Tail(recv_queue))
         /\ \A k \in 1..Len(Tail(order)) :
              /\ Tail(order)[k] = order[k + 1] /\ k + 1 \in 1..Len(order)
              /\ frame[Tail(order)[k]] = Tail(recv_queue)[k]
<1>1. order \in Seq(Blocks) /\ recv_queue \in Seq(Frame) /\ recv_queue # <<>>
  BY ListFacts DEF ListInv, TypeInv, TypeOK
<1>2. \A k \in 1..Len(order) : frame[order[k]] = recv_queue[k]
  <2>1. \A k \in 1..Len(order) : frame[order[k]] = recv_queue[Len(recv_queue) - Len(order) + k]
    BY DEF ListInv, ListHoldsQueue, ListIsQueue
  <2> QED
    BY <1>1, <2>1
<1>3. /\ Len(Tail(order)) = Len(order) - 1 /\ Len(Tail(recv_queue)) = Len(recv_queue) - 1
      /\ \A k \in 1..Len(order) - 1 : /\ Tail(order)[k] = order[k + 1]
                                      /\ Tail(recv_queue)[k] = recv_queue[k + 1]
                                      /\ k + 1 \in 1..Len(order)
  BY <1>1
<1> QED
  BY <1>1, <1>2, <1>3

(* Every step of the list is a step of the queue, or none.                 *)
LEMMA ListStepIsQueueStep == [ListNext]_allVars => [Next]_vars
<1> SUFFICES ASSUME [ListNext]_allVars PROVE [Next]_vars
  OBVIOUS
<1>1. ASSUME NEW n \in 0..MaxFrame, Enqueue(n) PROVE Next
  BY <1>1 DEF Enqueue, Next, ServiceStep
<1>2. CASE TakeLock \/ Drain
  BY <1>2 DEF TakeLock, Drain, Next, ReceiverStep
<1>3. CASE DropBegin \/ DropOne
  BY <1>3 DEF DropBegin, DropOne
<1>4. CASE DropEnd
  BY <1>4 DEF DropEnd, Next, ServiceStep
<1>5. CASE QueueOnly
  BY <1>5 DEF QueueOnly, Next, ServiceStep, ReceiverStep
<1>6. CASE UNCHANGED allVars
  BY <1>6 DEF allVars
<1> QED
  BY <1>1, <1>2, <1>3, <1>4, <1>5, <1>6 DEF ListNext

(* A frame is appended: its block goes behind the newest.                  *)
LEMMA EnqueueStep ==
  ASSUME ListInv, TypeInv', DroppedIsEmpty', NEW n \in 0..MaxFrame, Enqueue(n)
  PROVE  ListInv'
<1> PICK b \in Blocks \ used :
      /\ used' = used \cup {b}
      /\ frame' = [frame EXCEPT ![b] = [start |-> kept, len |-> n]]
      /\ ring' = ListAddTail(ring, b, ListHead)
      /\ order' = Append(order, b)
  BY DEF Enqueue
<1> DEFINE fr == [start |-> kept, len |-> n]
<1>1. /\ HandleRecv(n) /\ spc = "serving" /\ UNCHANGED <<spc, pos>>
      /\ rpc # "drain" /\ rpc' # "drain" /\ recv_queue' = Append(recv_queue, fr)
  BY DEF Enqueue, HandleRecv, Serving, RecvQueueLockFree, SignalRecvCond
<1>2. pos = None /\ ~Dropping /\ ~Dropping' /\ ~Dropped
  BY <1>1 DEF ListInv, LoopInv, Dropping, Dropped
<1>3. /\ order \in Seq(Blocks) /\ Once(order) /\ ring \in Links /\ RingIs(ring, order)
      /\ recv_queue \in Seq(Frame) /\ frame \in [Blocks -> Frame \cup {None}] /\ used \subseteq Blocks
  BY ListFacts DEF ListInv, ListTypeOK, TypeInv, TypeOK
<1>4. {order[k] : k \in 1..Len(order)} = used
  BY <1>2 DEF ListInv, ListHoldsQueue, OnlyCloseLeaks
<1>5. \A k \in 1..Len(order) : order[k] # b
  BY <1>4
<1>6. ring' \in Links /\ RingIs(ring', order')
  BY <1>3, <1>5, AddTailRing
<1>7. fr \in Frame
  BY <1>1, RecvConstants DEF HandleRecv, FrameFits, Frame, ListInv, TypeInv, TypeOK
<1>8. ListTypeOK'
  BY <1>1, <1>3, <1>6, <1>7 DEF ListTypeOK, ListInv
<1>9. LoopInv' /\ LoopAtOldest'
  BY <1>1, <1>2 DEF LoopInv, LoopAtOldest, Dropping
<1>10. /\ Len(order) \in Nat /\ Len(recv_queue) = Len(order)
       /\ Len(order') = Len(order) + 1 /\ Len(recv_queue') = Len(order) + 1
       /\ \A k \in 1..Len(order) : order'[k] = order[k] /\ recv_queue'[k] = recv_queue[k]
       /\ order'[Len(order) + 1] = b /\ recv_queue'[Len(order) + 1] = fr
  <2>1. Len(recv_queue) - Len(order) = 0
    BY <1>2 DEF ListInv, ListHoldsQueue, ListIsQueue
  <2> QED
    BY <1>1, <1>3, <2>1
<1>11. \A k \in 1..Len(order') : frame'[order'[k]] = recv_queue'[k]
  <2>1. \A k \in 1..Len(order) : frame[order[k]] = recv_queue[k]
    <3>1. \A k \in 1..Len(order) : frame[order[k]] = recv_queue[Len(recv_queue) - Len(order) + k]
      BY DEF ListInv, ListHoldsQueue, ListIsQueue
    <3> QED
      BY <1>10, <3>1
  <2>2. frame'[b] = fr /\ \A k \in 1..Len(order) : frame'[order[k]] = frame[order[k]]
    BY <1>3, <1>5
  <2>3. \A k \in 1..Len(order') : k \in 1..Len(order) \/ k = Len(order) + 1
    BY <1>10
  <2> QED
    BY <1>10, <2>1, <2>2, <2>3
<1>12. ListIsQueue'
  <2>1. Len(recv_queue') - Len(order') = 0 /\ \A k \in 1..Len(order') : 0 + k = k
    BY <1>10
  <2> QED
    BY <1>6, <1>11, <2>1 DEF ListIsQueue
<1>13. OnlyCloseLeaks'
  <2>1. \A k \in 1..Len(order') : k \in 1..Len(order) \/ k = Len(order) + 1
    BY <1>10
  <2>2. {order'[k] : k \in 1..Len(order')} = used'
    BY <1>4, <1>10, <2>1
  <2>3. \A j, k \in 1..Len(order') : order'[j] = order'[k] => j = k
    BY <1>3, <1>5, <1>10, <2>1 DEF Once
  <2> QED
    BY <2>2, <2>3 DEF OnlyCloseLeaks
<1> QED
  BY <1>8, <1>9, <1>12, <1>13 DEF ListInv, ListHoldsQueue

(* usbws_recv takes the lock.                                              *)
LEMMA TakeLockStep ==
  ASSUME ListInv, TypeInv', DroppedIsEmpty', TakeLock
  PROVE  ListInv'
<1>1. /\ RecvLock /\ ~Dropping /\ rpc = "lock" /\ pos = None
      /\ UNCHANGED <<ring, frame, used, order, recv_queue, spc>>
      /\ pos' = IF rpc' = "drain" THEN ring.next[ListHead] ELSE None
      /\ rpc' = "drain" => recv_queue # <<>>
  BY DEF TakeLock, RecvLock, Dropping, Return
<1>2. pos' = IF rpc' = "drain" THEN Cell(order, 1) ELSE None
  BY <1>1, ListFacts
<1>3. ~Dropping' /\ Dropped' = Dropped
  BY <1>1 DEF Dropping, Dropped
<1>4. rpc' = "drain" => order # <<>> /\ Cell(order, 1) \in used /\ Cell(order, 1) \in Blocks
  <2>1. Len(recv_queue) - Len(order) = 0
    BY <1>1 DEF ListInv, ListHoldsQueue, ListIsQueue
  <2>2. recv_queue \in Seq(Frame) /\ order \in Seq(Blocks)
    BY DEF ListInv, TypeInv, TypeOK, ListTypeOK
  <2>3. recv_queue # <<>> => order # <<>>
    BY <2>1, <2>2
  <2> QED
    BY <1>1, <2>3, ListFacts
<1>5. ListTypeOK' /\ LoopInv'
  BY <1>1, <1>2, <1>3, <1>4, ListConstants DEF ListInv, ListTypeOK, LoopInv, Cells
<1>6. ListIsQueue' /\ OnlyCloseLeaks'
  BY <1>1, <1>3 DEF ListInv, ListHoldsQueue, ListIsQueue, OnlyCloseLeaks, RingIs, Cell
<1>7. LoopAtOldest'
  BY <1>1, <1>2, <1>4 DEF LoopAtOldest, Cell
<1> QED
  BY <1>5, <1>6, <1>7 DEF ListInv, ListHoldsQueue

(* A round of the copying loop takes the oldest frame out of the queue, or *)
(* it was the last round.                                                  *)
LEMMA DrainRound ==
  ASSUME TypeInv, DrainSkip \/ DrainCopy
  PROVE  /\ rpc = "drain" /\ UNCHANGED spc /\ recv_queue # <<>>
         /\ recv_queue' = Tail(recv_queue) \/ (UNCHANGED recv_queue /\ rpc' # "drain")
<1>1. rpc = "drain" /\ UNCHANGED spc /\ recv_queue # <<>>
  BY DEF DrainSkip, DrainCopy, TypeInv, DrainHasFrames
<1>2. CASE DrainSkip
  BY <1>1, <1>2 DEF DrainSkip
<1>3. CASE DrainCopy
  <2> DEFINE f == Head(recv_queue)
             bytes == CopyBytes(f, recv_offset)
  <2>1. f.len \in Nat /\ recv_offset \in Nat /\ total \in Nat /\ req.len \in Nat
    BY <1>1, HeadTail, FrameInts, RecvConstants DEF TypeInv, TypeOK
  <2>2. recv_queue' = IF recv_offset + bytes >= f.len THEN Tail(recv_queue) ELSE recv_queue
    BY <1>3 DEF DrainCopy
  <2>3. CASE recv_offset + bytes >= f.len
    BY <1>1, <2>2, <2>3
  <2>4. CASE ~(recv_offset + bytes >= f.len)
    <3>1. bytes = req.len /\ total' = total + bytes
      BY <1>3, <2>1, <2>4 DEF CopyBytes, DrainCopy
    <3>2. Enough(total')
      BY <2>1, <3>1 DEF Enough
    <3>3. LeaveDrain(total')
      BY <1>3, <3>2 DEF DrainCopy
    <3>4. rpc' = "idle"
      BY <3>2, <3>3 DEF LeaveDrain, Return
    <3> QED
      BY <1>1, <2>2, <2>4, <3>4
  <2> QED
    BY <2>3, <2>4
<1> QED
  BY <1>2, <1>3

(* A round of the loop of usbws_recv on the list.                          *)
LEMMA DrainStep ==
  ASSUME ListInv, TypeInv', DroppedIsEmpty', Drain
  PROVE  ListInv'
<1>1. /\ rpc = "drain" /\ UNCHANGED spc /\ recv_queue # <<>> /\ pos # None
      /\ recv_queue' = Tail(recv_queue) \/ (UNCHANGED recv_queue /\ rpc' # "drain")
      /\ pos' = IF rpc' = "drain" THEN ring.next[pos] ELSE None
      /\ rpc' = "drain" => recv_queue' # <<>>
  BY DrainRound DEF Drain, ListInv, LoopInv, TypeInv, DrainHasFrames
<1>2. ~Dropping /\ ~Dropping' /\ Dropped' = Dropped
  BY <1>1 DEF Dropping, Dropped
<1>3. /\ recv_queue \in Seq(Frame) /\ recv_queue' \in Seq(Frame) /\ order \in Seq(Blocks)
      /\ frame \in [Blocks -> Frame \cup {None}] /\ used \subseteq Blocks /\ ring \in Links
      /\ RingIs(ring, order) /\ Once(order)
  BY ListFacts DEF ListInv, TypeInv, TypeOK, ListTypeOK
<1>4. Len(recv_queue) = Len(order) /\ order # <<>> /\ Len(order) \in Nat
  <2>1. Len(recv_queue) - Len(order) = 0
    BY <1>2 DEF ListInv, ListHoldsQueue, ListIsQueue
  <2> QED
    BY <1>1, <1>3, <2>1
<1>5. pos = order[1] /\ order[1] \in Blocks /\ ring.next[pos] = Cell(Tail(order), 1)
  BY <1>1, <1>4, ListFacts
<1>6. \A k \in 1..Len(order) : frame[order[k]] = recv_queue[k]
  <2>1. \A k \in 1..Len(order) : frame[order[k]] = recv_queue[Len(recv_queue) - Len(order) + k]
    BY DEF ListInv, ListHoldsQueue, ListIsQueue
  <2> QED
    BY <1>4, <2>1
<1>7. CASE UNCHANGED recv_queue /\ rpc' # "drain"
  <2>1. UNCHANGED <<ring, used, frame, order>> /\ pos' = None
    BY <1>1, <1>3, <1>7 DEF Drain
  <2>2. ListTypeOK' /\ LoopInv' /\ LoopAtOldest'
    BY <1>2, <1>7, <2>1 DEF ListInv, ListTypeOK, LoopInv, LoopAtOldest
  <2>3. ListIsQueue'
    BY <1>2, <1>7, <2>1 DEF ListInv, ListHoldsQueue, ListIsQueue, RingIs, Cell
  <2>4. OnlyCloseLeaks'
    BY <1>2, <1>7, <2>1 DEF ListInv, ListHoldsQueue, OnlyCloseLeaks
  <2> QED
    BY <2>2, <2>3, <2>4 DEF ListInv, ListHoldsQueue
<1>8. CASE recv_queue' = Tail(recv_queue)
  <2>1. Len(recv_queue') < Len(recv_queue)
    BY <1>1, <1>3, <1>8
  <2>2. /\ ring' = Freed(ListDel(ring, pos), pos) /\ used' = used \ {pos}
        /\ frame' = [frame EXCEPT ![pos] = None] /\ order' = Tail(order)
    BY <2>1 DEF Drain
  <2>3. /\ Len(order') = Len(recv_queue') /\ Len(order') \in Nat /\ order' \in Seq(Blocks)
        /\ \A k \in 1..Len(order') : /\ order'[k] = order[k + 1] /\ k + 1 \in 1..Len(order)
                                     /\ frame[order'[k]] = recv_queue'[k]
    BY <1>3, <1>4, <1>8, <2>2, TailHolds
  <2>4. \A k \in 1..Len(order') : order'[k] # pos
    <3> SUFFICES ASSUME NEW k \in 1..Len(order'), order'[k] = pos PROVE FALSE
      OBVIOUS
    <3>1. order[k + 1] = order[1] /\ k + 1 \in 1..Len(order) /\ 1 \in 1..Len(order)
      BY <1>4, <1>5, <2>3
    <3>2. k + 1 = 1
      BY <1>3, <3>1 DEF Once
    <3> QED
      BY <3>2
  <2>5. ring' \in Links /\ RingIs(ring', order')
    <3>1. ListDel(ring, pos) \in Links /\ RingIs(ListDel(ring, pos), order')
      BY <1>3, <1>4, <1>5, <2>2, DelOldestRing
    <3> QED
      BY <1>5, <2>2, <2>3, <2>4, <3>1, FreedRing
  <2>6. \A k \in 1..Len(order') : frame'[order'[k]] = recv_queue'[k]
    BY <1>3, <1>5, <2>2, <2>3, <2>4
  <2>7. ListIsQueue'
    <3>1. Len(recv_queue') - Len(order') = 0 /\ \A k \in 1..Len(order') : 0 + k = k
      BY <2>3
    <3> QED
      BY <2>5, <2>6, <3>1 DEF ListIsQueue
  <2>8. rpc' = "drain" => order' # <<>> /\ pos' = order'[1] /\ 1 \in 1..Len(order')
    <3>1. rpc' = "drain" => 1 \in 1..Len(order')
      BY <1>1, <1>3, <2>3
    <3> QED
      BY <1>1, <1>5, <2>2, <2>3, <3>1 DEF Cell
  <2>9. {order'[k] : k \in 1..Len(order')} = used'
    <3>1. {order[k] : k \in 1..Len(order)} = used
      BY <1>1, <1>2 DEF ListInv, ListHoldsQueue, OnlyCloseLeaks, DroppedIsEmpty
    <3>2. \A k \in 1..Len(order) : k = 1 \/ (k - 1 \in 1..Len(order') /\ order'[k - 1] = order[k])
      BY <1>4, <2>3, <1>3, <2>2
    <3>3. \A x \in used' : x \in {order'[k] : k \in 1..Len(order')}
      BY <1>5, <2>2, <3>1, <3>2
    <3>4. \A k \in 1..Len(order') : order'[k] \in used'
      BY <2>2, <2>3, <2>4, <3>1
    <3> QED
      BY <3>3, <3>4
  <2>10. OnlyCloseLeaks'
    <3>1. \A j, k \in 1..Len(order') : order'[j] = order'[k] => j = k
      <4> SUFFICES ASSUME NEW j \in 1..Len(order'), NEW k \in 1..Len(order'),
                          order'[j] = order'[k]
                   PROVE  j = k
        OBVIOUS
      <4>1. j + 1 = k + 1
        BY <1>3, <2>3 DEF Once
      <4> QED
        BY <4>1
    <3> QED
      BY <2>9, <3>1 DEF OnlyCloseLeaks
  <2>11. LoopAtOldest' /\ LoopInv'
    <3>1. rpc' # "drain" => pos' = None
      BY <1>1
    <3>2. rpc' = "drain" => pos' \in used' /\ pos' = Cell(order', 1) /\ pos' \in Blocks
      BY <2>3, <2>8, <2>9 DEF Cell
    <3> QED
      BY <1>2, <3>1, <3>2, ListConstants DEF LoopAtOldest, LoopInv
  <2>12. ListTypeOK'
    <3>1. pos' \in Cells \cup {None}
      BY <1>1, <2>3, <2>8 DEF Cells
    <3>2. frame' \in [Blocks -> Frame \cup {None}] /\ used' \subseteq Blocks
      BY <1>3, <1>5, <2>2
    <3> QED
      BY <2>3, <2>5, <3>1, <3>2 DEF ListTypeOK
  <2> QED
    BY <2>7, <2>10, <2>11, <2>12 DEF ListInv, ListHoldsQueue
<1> QED
  BY <1>1, <1>7, <1>8

(* usbws_session_close takes the lock and looks at the first cell.         *)
LEMMA DropBeginStep ==
  ASSUME ListInv, TypeInv', DroppedIsEmpty', DropBegin
  PROVE  ListInv'
<1>1. /\ spc = "drop" /\ rpc # "drain" /\ pos = None /\ pos' = Cell(order, 1)
      /\ UNCHANGED <<vars, ring, frame, used, order>>
  BY ListFacts DEF DropBegin, RecvQueueLockFree
<1>2. UNCHANGED <<recv_queue, rpc, spc, ring, frame, used, order>>
  BY <1>1 DEF vars, recvVars
<1>3. Dropped' = Dropped /\ ~Dropping /\ Cell(order, 1) \in Cells
  BY <1>1, <1>2, CellIsCell DEF Dropped, Dropping, ListInv, ListTypeOK
<1>4. ListTypeOK' /\ LoopInv'
  BY <1>1, <1>2, <1>3 DEF ListInv, ListTypeOK, LoopInv, Dropping
<1>5. ListIsQueue' /\ OnlyCloseLeaks'
  BY <1>2, <1>3 DEF ListInv, ListHoldsQueue, ListIsQueue, OnlyCloseLeaks, RingIs, Cell
<1>6. LoopAtOldest'
  BY <1>1, <1>2 DEF LoopAtOldest, Cell
<1> QED
  BY <1>4, <1>5, <1>6 DEF ListInv, ListHoldsQueue

(* It unlinks the oldest block and goes on with the next.                  *)
LEMMA DropOneStep ==
  ASSUME ListInv, TypeInv', DroppedIsEmpty', DropOne
  PROVE  ListInv'
<1>1. /\ Dropping /\ rpc # "drain" /\ pos # None /\ pos # ListHead /\ spc = "drop"
      /\ pos' = ring.next[pos] /\ ring' = ListDel(ring, pos) /\ order' = Tail(order)
      /\ UNCHANGED <<vars, frame, used>>
  BY DEF DropOne, Dropping, ListInv, LoopInv
<1>2. UNCHANGED <<recv_queue, rpc, spc, frame, used>> /\ rpc' # "drain" /\ spc' = "drop"
  BY <1>1 DEF vars, recvVars
<1>3. /\ recv_queue \in Seq(Frame) /\ order \in Seq(Blocks) /\ ring \in Links
      /\ RingIs(ring, order) /\ Once(order)
  BY ListFacts DEF ListInv, TypeInv, TypeOK
<1>4. order # <<>> /\ pos = order[1] /\ pos' = Cell(order', 1)
  BY <1>1, ListFacts
<1>5. /\ Len(order) \in Nat \ {0} /\ order' \in Seq(Blocks) /\ Len(order') = Len(order) - 1
      /\ \A k \in 1..Len(order') : order'[k] = order[k + 1] /\ k + 1 \in 1..Len(order)
  BY <1>1, <1>3, <1>4
<1>6. ring' \in Links /\ RingIs(ring', order')
  BY <1>1, <1>3, <1>4, DelOldestRing
<1>7. ListTypeOK' /\ LoopInv' /\ LoopAtOldest'
  <2>1. Cell(order', 1) \in Cells /\ ListTypeOK
    BY <1>5, CellIsCell DEF ListInv
  <2> QED
    BY <1>2, <1>4, <1>5, <1>6, <2>1 DEF ListTypeOK, LoopInv, LoopAtOldest
<1>8. ListIsQueue'
  <2> DEFINE gone == Len(recv_queue) - Len(order)
  <2>1. gone >= 0 /\ \A k \in 1..Len(order) : frame[order[k]] = recv_queue[gone + k]
    BY DEF ListInv, ListHoldsQueue, ListIsQueue
  <2>2. Len(recv_queue) \in Nat /\ gone \in Int
    BY <1>3, <1>5
  <2>3. Len(recv_queue') - Len(order') = gone + 1 /\ Len(recv_queue') - Len(order') >= 0
    BY <1>2, <1>5, <2>1, <2>2
  <2>4. ASSUME NEW k \in 1..Len(order')
        PROVE  frame'[order'[k]] = recv_queue'[Len(recv_queue') - Len(order') + k]
    <3>1. frame[order[k + 1]] = recv_queue[gone + (k + 1)] /\ order'[k] = order[k + 1]
      BY <1>5, <2>1
    <3>2. gone + (k + 1) = (gone + 1) + k
      BY <2>2
    <3> QED
      BY <1>2, <2>3, <3>1, <3>2
  <2>5. Dropping'
    <3>1. Cell(order', 1) \in Cells
      BY <1>5, CellIsCell
    <3> QED
      BY <1>2, <1>4, <3>1, ListConstants DEF Dropping, Cells
  <2> QED
    BY <1>6, <2>3, <2>4, <2>5 DEF ListIsQueue
<1>9. OnlyCloseLeaks'
  <2>1. \A k \in 1..Len(order) : order[k] \in used
    BY DEF ListInv, ListHoldsQueue, OnlyCloseLeaks
  <2>2. \A k \in 1..Len(order') : order'[k] \in used'
    BY <1>2, <1>5, <2>1
  <2>3. \A j, k \in 1..Len(order') : order'[j] = order'[k] => j = k
    <3> SUFFICES ASSUME NEW j \in 1..Len(order'), NEW k \in 1..Len(order'),
                        order'[j] = order'[k]
                 PROVE  j = k
      OBVIOUS
    <3>1. j + 1 = k + 1
      BY <1>3, <1>5 DEF Once
    <3> QED
      BY <3>1
  <2>4. Dropping'
    <3>1. Cell(order', 1) \in Cells
      BY <1>5, CellIsCell
    <3> QED
      BY <1>2, <1>4, <3>1, ListConstants DEF Dropping, Cells
  <2> QED
    BY <2>2, <2>3, <2>4 DEF OnlyCloseLeaks
<1> QED
  BY <1>7, <1>8, <1>9 DEF ListInv, ListHoldsQueue

(* Back at the head it has unlinked all there was.                         *)
LEMMA DropEndStep ==
  ASSUME ListInv, TypeInv', DroppedIsEmpty', DropEnd
  PROVE  ListInv'
<1>1. /\ pos = ListHead /\ rpc # "drain" /\ UNCHANGED rpc /\ pos' = None
      /\ recv_queue' = <<>> /\ spc' = "discontinue" /\ UNCHANGED <<ring, frame, used, order>>
  BY DEF DropEnd, Dropping, DropQueue, recvVars
<1>2. order = <<>> /\ RingIs(ring, order)
  <2>1. order # <<>> => pos \in Blocks
    BY <1>1, ListConstants, ListFacts DEF Cells
  <2> QED
    BY <1>1, <2>1, ListConstants, ListFacts
<1>3. Dropped' /\ ~Dropping' /\ Len(order') = 0 /\ Len(recv_queue') = 0
  BY <1>1, <1>2 DEF Dropped, Dropping
<1>4. ListTypeOK' /\ LoopInv' /\ LoopAtOldest'
  BY <1>1, <1>3 DEF ListInv, ListTypeOK, LoopInv, LoopAtOldest
<1>5. RingIs(ring', order')
  BY <1>1, <1>2 DEF RingIs, Cell
<1>6. ListIsQueue' /\ OnlyCloseLeaks'
  BY <1>3, <1>5 DEF ListIsQueue, OnlyCloseLeaks
<1> QED
  BY <1>4, <1>6 DEF ListInv, ListHoldsQueue

(* Steps beside the list.                                                  *)
LEMMA QueueOnlyStep ==
  ASSUME ListInv, TypeInv', DroppedIsEmpty', QueueOnly
  PROVE  ListInv'
<1>1. /\ UNCHANGED <<recv_queue, ring, frame, used, pos, order>>
      /\ (rpc' # "drain" /\ rpc # "drain") \/ UNCHANGED rpc
      /\ Dropping => spc' = spc
      /\ Dropped => Dropped'
  BY QueueOnlyKeeps DEF QueueOnly, listVars
<1>2. Dropping' = Dropping /\ (rpc' = "drain") = (rpc = "drain")
  BY <1>1 DEF Dropping
<1>3. ListTypeOK' /\ LoopInv' /\ LoopAtOldest'
  BY <1>1, <1>2 DEF ListInv, ListTypeOK, LoopInv, ListHoldsQueue, LoopAtOldest, Cell
<1>4. ListIsQueue' /\ OnlyCloseLeaks'
  BY <1>1, <1>2 DEF ListInv, ListHoldsQueue, ListIsQueue, OnlyCloseLeaks, RingIs, Cell
<1> QED
  BY <1>3, <1>4 DEF ListInv, ListHoldsQueue

(* No step of the list leaves the invariant.                               *)
LEMMA ListNextInv == QueueInv /\ ListInv /\ [ListNext]_allVars => ListInv'
<1> SUFFICES ASSUME QueueInv, ListInv, [ListNext]_allVars PROVE ListInv'
  OBVIOUS
<1>1. TypeInv' /\ DroppedIsEmpty'
  BY ListStepIsQueueStep, QueueNext DEF QueueInv
<1>2. ASSUME NEW n \in 0..MaxFrame, Enqueue(n) PROVE ListInv'
  BY <1>1, <1>2, EnqueueStep
<1>3. CASE TakeLock
  BY <1>1, <1>3, TakeLockStep
<1>4. CASE Drain
  BY <1>1, <1>4, DrainStep
<1>5. CASE DropBegin
  BY <1>1, <1>5, DropBeginStep
<1>6. CASE DropOne
  BY <1>1, <1>6, DropOneStep
<1>7. CASE DropEnd
  BY <1>1, <1>7, DropEndStep
<1>8. CASE QueueOnly
  BY <1>1, <1>8, QueueOnlyStep
<1>9. CASE UNCHANGED allVars
  <2>1. /\ UNCHANGED <<recv_queue, rpc, spc, ring, frame, used, pos, order>>
        /\ Dropping' = Dropping /\ Dropped' = Dropped
    BY <1>9 DEF allVars, vars, recvVars, listVars, Dropping, Dropped
  <2>2. ListTypeOK' /\ LoopInv' /\ LoopAtOldest'
    BY <2>1 DEF ListInv, ListTypeOK, LoopInv, ListHoldsQueue, LoopAtOldest, Cell
  <2>3. ListIsQueue' /\ OnlyCloseLeaks'
    BY <2>1 DEF ListInv, ListHoldsQueue, ListIsQueue, OnlyCloseLeaks, RingIs, Cell
  <2> QED
    BY <1>1, <2>2, <2>3 DEF ListInv, ListHoldsQueue
<1> QED
  BY <1>2, <1>3, <1>4, <1>5, <1>6, <1>7, <1>8, <1>9 DEF ListNext

(* The queue with its list in memory behaves like the queue: whatever is   *)
(* proved of UsbwsRecvQueue holds for it.                                  *)
THEOREM ListImplementsQueue == ListSpec => Spec
<1>1. Init /\ ListInit => Init
  OBVIOUS
<1> QED
  BY <1>1, ListStepIsQueueStep, PTL DEF ListSpec, Spec

(* For any number of blocks and frames, whatever is received, read and     *)
(* closed when: the doubly linked list is the queue, its loops never stand *)
(* at freed memory, and only the close of the session loses memory.        *)
THEOREM ListHoldsQueueSafe == ListSpec => []ListHoldsQueue
<1>1. ListInv => ListHoldsQueue
  BY DEF ListInv
<1>2. ListSpec => []QueueInv
  BY ListImplementsQueue, QueueInvCorrect, PTL
<1> QED
  BY <1>1, <1>2, ListInitInv, ListNextInv, PTL DEF ListSpec
=============================================================================
