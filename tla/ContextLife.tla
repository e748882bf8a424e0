----------------------------- MODULE ContextLife -----------------------------
(***************************************************************************)
(* What a daemon promises about everything that lives in its context: a    *)
(* session is in memory from the establishment of its connection until it  *)
(* is freed, once; its worker begins at most once, while the session is    *)
(* there and new ones are accepted, and has ended when it is freed; the    *)
(* context is destroyed when nothing of this is left.                      *)
(***************************************************************************)
CONSTANT Sessions

VARIABLES
  context,  \* "live", "dying" in usbws_ctx_destroy, "destroyed"
  memory,   \* each session: "none", "live", "freed"
  worker    \* each session: "none", "running", "ended"

vars == <<context, memory, worker>>

Init ==
  /\ context = "live"
  /\ memory = [s \in Sessions |-> "none"]
  /\ worker = [s \in Sessions |-> "none"]

Establish(s) ==
  /\ context = "live"
  /\ memory[s] = "none"
  /\ memory' = [memory EXCEPT ![s] = "live"]
  /\ UNCHANGED <<context, worker>>

Begin(s) ==
  /\ context = "live"
  /\ memory[s] = "live" /\ worker[s] = "none"
  /\ worker' = [worker EXCEPT ![s] = "running"]
  /\ UNCHANGED <<context, memory>>

End(s) ==
  /\ worker[s] = "running"
  /\ worker' = [worker EXCEPT ![s] = "ended"]
  /\ UNCHANGED <<context, memory>>

Free(s) ==
  /\ context # "destroyed"
  /\ memory[s] = "live" /\ worker[s] # "running"
  /\ memory' = [memory EXCEPT ![s] = "freed"]
  /\ UNCHANGED <<context, worker>>

Leave == context = "live" /\ context' = "dying" /\ UNCHANGED <<memory, worker>>

Destroy ==
  /\ context = "dying"
  /\ \A s \in Sessions : memory[s] # "live" /\ worker[s] # "running"
  /\ context' = "destroyed"
  /\ UNCHANGED <<memory, worker>>

Next ==
  \/ Leave \/ Destroy
  \/ \E s \in Sessions : Establish(s) \/ Begin(s) \/ End(s) \/ Free(s)

Spec == Init /\ [][Next]_vars
=============================================================================
