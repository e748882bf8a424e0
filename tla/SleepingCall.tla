----------------------------- MODULE SleepingCall -----------------------------
(***************************************************************************)
(* What usbws_send and usbws_recv promise the thread that calls them, and  *)
(* usbws_session_discontinue the thread that waits for that one: a call    *)
(* goes to sleep only while the session goes on and what it waits for is   *)
(* not there, and is woken up by whatever changes either.  The session may *)
(* be over a moment before the caller is woken up.                         *)
(***************************************************************************)
VARIABLES
  asleep,  \* the caller sleeps on its condition variable
  ready,   \* what it waits for is there: a packet, the end of its buffer
  over,    \* the session is over
  due      \* a thread that ended the session has still to signal

vars == <<asleep, ready, over, due>>

Init == asleep = FALSE /\ ready \in BOOLEAN /\ over = FALSE /\ due = FALSE

Sleep ==
  /\ ~over /\ ~ready
  /\ asleep' = TRUE
  /\ UNCHANGED <<ready, over, due>>

(* The caller wakes up, or is awake and takes what is there; packets and   *)
(* the end of a buffer come with a signal.                                 *)
Awake ==
  /\ asleep' = FALSE
  /\ ready' \in BOOLEAN
  /\ UNCHANGED <<over, due>>

(* usbws_session_discontinue, in two steps or in one.                      *)
End ==
  /\ over' = TRUE
  /\ \/ due' = TRUE /\ UNCHANGED asleep
     \/ asleep' = FALSE /\ UNCHANGED due
  /\ UNCHANGED ready

Signal ==
  /\ due
  /\ asleep' = FALSE
  /\ due' \in BOOLEAN
  /\ UNCHANGED <<ready, over>>

Next == Sleep \/ Awake \/ End \/ Signal

Spec == Init /\ [][Next]_vars

(* Nobody sleeps who has nothing to wait for, or nobody to be woken up by  *)
(* once the session is over.                                               *)
NotAbandoned == asleep => ~ready /\ (over => due)
=============================================================================
