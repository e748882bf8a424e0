---------------------------- MODULE UsbwsRecvList ----------------------------
(***************************************************************************)
(* recv_queue of UsbwsRecvQueue in memory: struct usbws_recv_buf blocks    *)
(* from malloc, linked by the doubly linked list of usbws_util.h whose     *)
(* head is in the session.  Every step of the queue that appends or takes  *)
(* out a frame does to the list what the code does to it, and the loop     *)
(* that drops the queue at close is one step per block under the lock.  A  *)
(* block that was freed has the links None until malloc returns it again.  *)
(***************************************************************************)
EXTENDS UsbwsRecvQueue

CONSTANTS
  Blocks,   (* what malloc may return: one block per frame in the queue    *)
  ListHead, (* &session->recv_queue                                        *)
  None      (* no block                                                    *)

ASSUME ListConstants == ListHead \notin Blocks /\ None \notin Blocks \cup {ListHead}

Cells == Blocks \cup {ListHead}

VARIABLES
  ring,   \* the links next and prev of every cell
  frame,  \* what a block holds
  used,   \* blocks that were allocated and not freed
  pos,    \* where the list_for_each_safe stands that runs, None if none does
  order   \* history: the blocks in the order they were appended in

listVars == <<ring, frame, used, pos, order>>
allVars == <<vars, listVars>>

Links == [next : [Cells -> Cells \cup {None}], prev : [Cells -> Cells \cup {None}]]

ListTypeOK ==
  /\ ring \in Links
  /\ frame \in [Blocks -> Frame \cup {None}]
  /\ used \subseteq Blocks
  /\ pos \in Cells \cup {None}
  /\ order \in Seq(Blocks)

-----------------------------------------------------------------------------
(* usbws_util.h, on a ring r.                                              *)

ListAdd(r, neo, prev, next) ==
  [next |-> [r.next EXCEPT ![neo] = next, ![prev] = neo],
   prev |-> [r.prev EXCEPT ![next] = neo, ![neo] = prev]]

ListAddTailMutant(r, neo, head) == ListAdd(r, neo, head, r.next[head])  \* mutant: in front
ListAddTail(r, neo, head) == ListAdd(r, neo, r.prev[head], head)

ListDel(r, entry) ==
  [next |-> [r.next EXCEPT ![r.prev[entry]] = r.next[entry]],
   prev |-> [r.prev EXCEPT ![r.next[entry]] = r.prev[entry]]]

(* What becomes of the links of a block that is freed.                     *)
Freed(r, b) == [next |-> [r.next EXCEPT ![b] = None],
                prev |-> [r.prev EXCEPT ![b] = None]]

-----------------------------------------------------------------------------
(* INIT_LIST_HEAD.                                                         *)
ListInit ==
  /\ ring = LET alone == [c \in Cells |-> IF c = ListHead THEN ListHead ELSE None]
            IN [next |-> alone, prev |-> alone]
  /\ frame = [b \in Blocks |-> None]
  /\ used = {}
  /\ pos = None
  /\ order = <<>>

(* usbws_session_close is in its loop and holds the lock; the loop of      *)
(* usbws_recv holds it while rpc = "drain".                                *)
Dropping == rpc # "drain" /\ pos # None

(* usbws_handle_recv: malloc, fill, link.                                  *)
Enqueue(n) ==
  /\ HandleRecv(n)
  /\ \E b \in Blocks \ used :
       /\ used' = used \cup {b}
       /\ frame' = [frame EXCEPT ![b] = [start |-> kept, len |-> n]]
       /\ ring' = ListAddTail(ring, b, ListHead)
       /\ order' = Append(order, b)
  /\ UNCHANGED pos

(* usbws_recv takes the lock, and maybe enters its loop over the list.     *)
TakeLock ==
  /\ RecvLock /\ ~Dropping
  /\ pos' = IF rpc' = "drain" THEN ring.next[ListHead] ELSE None
  /\ UNCHANGED <<ring, frame, used, order>>

(* A round of that loop: when the block is used up it is unlinked and      *)
(* freed; the loop goes on with the cell that was read before.             *)
Drain ==
  /\ DrainSkip \/ DrainCopy
  /\ pos' = IF rpc' = "drain" THEN ring.next[pos] ELSE None
  /\ IF Len(recv_queue') < Len(recv_queue)
     THEN /\ ring' = Freed(ListDel(ring, pos), pos)
          /\ used' = used \ {pos}
          /\ frame' = [frame EXCEPT ![pos] = None]
          /\ order' = Tail(order)
     ELSE UNCHANGED <<ring, used, frame, order>>

(* usbws_session_close: the lock and the first cell,                       *)
DropBegin ==
  /\ spc = "drop" /\ RecvQueueLockFree /\ pos = None
  /\ pos' = ring.next[ListHead]
  /\ UNCHANGED <<vars, ring, frame, used, order>>

(* a block that is unlinked and not freed,                                 *)
DropOne ==
  /\ Dropping /\ pos # ListHead
  /\ pos' = ring.next[pos]
  /\ ring' = ListDel(ring, pos)
  /\ order' = Tail(order)
  /\ UNCHANGED <<vars, frame, used>>

(* and the end of the loop: the queue is gone.                             *)
DropEnd ==
  /\ Dropping /\ pos = ListHead
  /\ DropQueue
  /\ pos' = None
  /\ UNCHANGED <<ring, frame, used, order>>

(* The steps that leave the list alone.                                    *)
QueueOnly ==
  /\ \/ \E n \in 0..MaxFrame : HandleRecvNoMemory(n)
     \/ Closed \/ WaitRecvDone \/ WaitRecvSleep \/ WaitRecvWarn
     \/ \E t \in Threads : Discontinue(t) \/ (SignalRecv(t) /\ ~Dropping)
     \/ \E len \in 1..MaxLen, all \in BOOLEAN : Recv(len, all)
     \/ RecvLoop \/ SpuriousWakeup
  /\ UNCHANGED listVars

ListNext ==
  \/ \E n \in 0..MaxFrame : Enqueue(n)
  \/ TakeLock \/ Drain
  \/ DropBegin \/ DropOne \/ DropEnd
  \/ QueueOnly

ListSpec == Init /\ ListInit /\ [][ListNext]_allVars

-----------------------------------------------------------------------------
(* Cell k of the ring that goes through the blocks of o: the head before   *)
(* the first and behind the last.                                          *)
Cell(o, k) == IF k \in 1..Len(o) THEN o[k] ELSE ListHead

RingIs(r, o) ==
  \A k \in 0..Len(o) : /\ r.next[Cell(o, k)] = Cell(o, k + 1)
                       /\ r.prev[Cell(o, k + 1)] = Cell(o, k)

(* Forwards and backwards the ring goes through the blocks that were       *)
(* appended and not taken out, oldest first; they hold the frames of the   *)
(* queue, or the newer ones of them while the others are being dropped.    *)
ListIsQueue ==
  LET gone == Len(recv_queue) - Len(order) IN
  /\ RingIs(ring, order)
  /\ gone >= 0 /\ (~Dropping => gone = 0)
  /\ \A k \in 1..Len(order) : frame[order[k]] = recv_queue[gone + k]

(* A loop over the list stands at the oldest block, the one recv_offset    *)
(* counts in, or is through with all of them; never at a freed block.      *)
LoopAtOldest ==
  pos # None => pos = Cell(order, 1) /\ (rpc = "drain" => pos \in used)

(* A block that is allocated is in the list, once, or was left behind by   *)
(* the close of the session.                                               *)
OnlyCloseLeaks ==
  LET linked == {order[k] : k \in 1..Len(order)} IN
  /\ linked \subseteq used
  /\ ~Dropping /\ ~Dropped => linked = used
  /\ \A j, k \in 1..Len(order) : order[j] = order[k] => j = k

(* The list in memory is the queue the other properties speak of, no step  *)
(* on it uses memory that was freed, and memory is lost nowhere but in     *)
(* usbws_session_close.                                                    *)
ListHoldsQueue == ListIsQueue /\ LoopAtOldest /\ OnlyCloseLeaks
=============================================================================
