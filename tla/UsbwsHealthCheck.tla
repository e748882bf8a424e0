--------------------------- MODULE UsbwsHealthCheck ---------------------------
(***************************************************************************)
(* The health check of the sessions of one context, with time.             *)
(*                                                                         *)
(* The loop of a daemon (usbws_service) calls lws_service, which sleeps in *)
(* poll(2) for at most ping_pong seconds and runs the callbacks of the     *)
(* connections that are ready, and then checks every session: one that has *)
(* been silent for ping_pong seconds gets a ping, one that has been silent *)
(* for USBWS_PING_PONG_TIMEOUT seconds more is over.  All of this is one   *)
(* thread: while it sleeps in usbws_wait_recv or joins the thread of a     *)
(* session that closes, nobody reads the other connections.                *)
(*                                                                         *)
(* The loop of the client (usbws_client) calls no health check: its        *)
(* interval only lengthens its poll, and nothing of this concerns it.      *)
(*                                                                         *)
(* One unit of time is a second, as in stamp and difftime.                 *)
(***************************************************************************)
EXTENDS Integers

CONSTANTS
  Sessions,      (* connections of the context                             *)
  Answering,     (* those whose peer answers a ping some day               *)
  Prompt,        (* those whose peer takes every byte at once and answers  *)
                 (* a ping within Rtt, and that have no data to send: data *)
                 (* goes before a ping and may make its write fail         *)
  PingPong,      (* ctx->ping_pong: option -i                              *)
  PongTimeout,   (* USBWS_PING_PONG_TIMEOUT                                *)
  Rtt,           (* bound: seconds until a prompt peer's pong arrives      *)
  MaxBusy        (* bound: seconds of closing sessions in one lws_service  *)

ASSUME HealthConstants ==
  /\ Prompt \subseteq Answering /\ Answering \subseteq Sessions
  /\ PingPong \in Nat /\ PongTimeout \in Nat
  /\ Rtt \in Nat /\ MaxBusy \in Nat

None == "none"

VARIABLES
  (* each session *)
  open,          \* the sessions that are established
  cont, pinged, ping_pending,
  age,           \* time(NULL) - stamp
  pong,          \* "coming", then "here": in the socket, not read
  since,         \* seconds the pong has been coming
  (* the service thread *)
  pc,
  left,          \* seconds until poll times out
  ready,         \* connections poll reported, not yet handled
  closing,       \* the session being closed
  busy,          \* seconds this lws_service has spent closing sessions
  todo,          \* sessions the health check has still to look at
  (* history *)
  missed,        \* what became of the last ping since the last sign of life,
                 \* if it was not written: "failed", "displaced" by data
  expired        \* the health check ended the session

sessVars == <<open, cont, pinged, ping_pending, age, pong, since, missed, expired>>
loopVars == <<pc, left, ready, closing, busy, todo>>
vars == <<sessVars, loopVars>>

(* Bound: more than a session that goes on can be silent for               *)
(* (SilenceIsBounded), so that the property says something.                *)
MaxAge == 2 * PingPong + PongTimeout + MaxBusy

PollSecondsMutant == 1000 * PingPong        \* mutant: milliseconds
PollSeconds == PingPong

TypeOK ==
  /\ open \subseteq Sessions
  /\ cont \in [Sessions -> BOOLEAN] /\ pinged \in [Sessions -> BOOLEAN]
  /\ ping_pending \in [Sessions -> BOOLEAN]
  /\ age \in [Sessions -> 0..MaxAge]
  /\ pong \in [Sessions -> {None, "coming", "here"}]
  /\ since \in [Sessions -> 0..Rtt]
  /\ pc \in {"poll", "handle", "closing", "check"}
  /\ left \in 0..PingPong
  /\ ready \subseteq Sessions /\ todo \subseteq Sessions
  /\ closing \in Sessions \cup {None}
  /\ busy \in 0..MaxBusy
  /\ missed \in [Sessions -> {None, "failed", "displaced"}]
  /\ expired \in [Sessions -> BOOLEAN]

Init ==
  /\ open = {}
  /\ cont = [s \in Sessions |-> FALSE]
  /\ pinged = [s \in Sessions |-> FALSE]
  /\ ping_pending = [s \in Sessions |-> FALSE]
  /\ age = [s \in Sessions |-> 0]
  /\ pong = [s \in Sessions |-> None]
  /\ since = [s \in Sessions |-> 0]
  /\ pc = "poll" /\ left = PollSeconds
  /\ ready = {} /\ closing = None /\ busy = 0 /\ todo = {}
  /\ missed = [s \in Sessions |-> None]
  /\ expired = [s \in Sessions |-> FALSE]

-----------------------------------------------------------------------------
(* Time and the peers.                                                     *)

(* What ends poll: a pong to read, a ping that waits for a socket a prompt *)
(* peer keeps writable.                                                    *)
Due == {s \in open : pong[s] = "here" \/ (s \in Prompt /\ ping_pending[s])}

(* Time passes in poll, until it is over or something is due, and while    *)
(* the service thread waits for the thread of a session to end.            *)
Tick ==
  /\ \A s \in Prompt : pong[s] = "coming" => since[s] < Rtt
  /\ \/ pc = "poll" /\ (left > 0 \/ PingPong = 0) /\ Due = {}
        /\ left' = (IF left > 0 THEN left - 1 ELSE 0) /\ UNCHANGED busy
     \/ pc = "closing" /\ busy < MaxBusy
        /\ busy' = busy + 1 /\ UNCHANGED left
  /\ age' = [s \in Sessions |-> IF s \in open /\ age[s] < MaxAge THEN age[s] + 1
                                ELSE age[s]]
  /\ since' = [s \in Sessions |-> IF pong[s] = "coming" /\ since[s] < Rtt
                                  THEN since[s] + 1 ELSE since[s]]
  /\ UNCHANGED <<open, cont, pinged, ping_pending, pong, pc, ready, closing,
                 todo, missed, expired>>

(* The peer's answer to a ping arrives.                                    *)
PongArrives(s) ==
  /\ pong[s] = "coming"
  /\ pong' = [pong EXCEPT ![s] = "here"]
  /\ since' = [since EXCEPT ![s] = 0]
  /\ UNCHANGED <<open, cont, pinged, ping_pending, age, missed, expired, loopVars>>

(* sock->shutdown, by the thread of the session or by the SIGINT handler.  *)
Shutdown(s) ==
  /\ s \in open /\ cont[s]
  /\ cont' = [cont EXCEPT ![s] = FALSE]
  /\ UNCHANGED <<open, pinged, ping_pending, age, pong, since, missed, expired,
                 loopVars>>

-----------------------------------------------------------------------------
(* Pings.                                                                  *)

(* What becomes of a ping given to lws_write: it is written, and a peer    *)
(* that is not prompt may never answer, or the write fails.                *)
PingWritten(s) ==
  /\ pinged' = [pinged EXCEPT ![s] = TRUE]
  /\ pong' = [pong EXCEPT ![s] = IF @ = None THEN "coming" ELSE @]
  /\ since' = [since EXCEPT ![s] = IF pong[s] = None THEN 0 ELSE @]
  /\ missed' = [missed EXCEPT ![s] = None]

PingFails(s) ==
  /\ s \notin Prompt
  /\ missed' = [missed EXCEPT ![s] = "failed"]
  /\ UNCHANGED <<pinged, pong, since>>

(* usbws_send_ping: at once if the socket is writable, otherwise later.    *)
(* It is not writable as long as a ping waits (PingWaits of UsbwsSend).    *)
SendPing(s) ==
  \/ ~ping_pending[s] /\ (PingWritten(s) \/ PingFails(s)) /\ UNCHANGED ping_pending
  \/ /\ ping_pending' = [ping_pending EXCEPT ![s] = TRUE]
     /\ missed' = [missed EXCEPT ![s] = None]
     /\ UNCHANGED <<pinged, pong, since>>

-----------------------------------------------------------------------------
(* lws_service.                                                            *)

(* poll reports what is due and any other connection, or none: a timeout,  *)
(* a cancelled service, a new connection.                                  *)
PollReturn ==
  /\ pc = "poll"
  /\ pc' = "handle" /\ busy' = 0
  /\ \E r \in SUBSET open : Due \subseteq r /\ ready' = r
  /\ UNCHANGED <<sessVars, left, closing, todo>>

(* LWS_CALLBACK_ESTABLISHED: usbws_session_init.                           *)
Establish(s) ==
  /\ pc = "handle" /\ s \notin open
  /\ open' = open \cup {s}
  /\ cont' = [cont EXCEPT ![s] = TRUE]
  /\ pinged' = [pinged EXCEPT ![s] = FALSE]
  /\ ping_pending' = [ping_pending EXCEPT ![s] = FALSE]
  /\ age' = [age EXCEPT ![s] = 0]
  /\ pong' = [pong EXCEPT ![s] = None]
  /\ since' = [since EXCEPT ![s] = 0]
  /\ missed' = [missed EXCEPT ![s] = None]
  /\ expired' = [expired EXCEPT ![s] = FALSE]
  /\ UNCHANGED loopVars

Handled(s) ==
  /\ pc = "handle" /\ s \in ready
  /\ ready' = ready \ {s}

(* LWS_CALLBACK_RECEIVE: a frame, whatever its type, is a sign of life.    *)
Receive(s) ==
  /\ Handled(s)
  /\ age' = [age EXCEPT ![s] = 0]
  /\ missed' = [missed EXCEPT ![s] = None]
  /\ UNCHANGED <<open, cont, pinged, ping_pending, pong, since, expired,
                 pc, left, closing, busy, todo>>

(* LWS_CALLBACK_RECEIVE_PONG: a sign of life, or the end of a session that *)
(* is over.                                                                *)
ReceivePongMutant(s) ==                    \* mutant: pinged is not reset
  /\ Handled(s) /\ pong[s] = "here"
  /\ pong' = [pong EXCEPT ![s] = None]
  /\ IF cont[s]
     THEN /\ age' = [age EXCEPT ![s] = 0]
          /\ missed' = [missed EXCEPT ![s] = None]
          /\ UNCHANGED <<pinged, pc, closing>>
     ELSE /\ pc' = "closing" /\ closing' = s
          /\ UNCHANGED <<pinged, age, missed>>
  /\ UNCHANGED <<open, cont, ping_pending, since, expired, left, busy, todo>>

ReceivePong(s) ==
  /\ Handled(s) /\ pong[s] = "here"
  /\ pong' = [pong EXCEPT ![s] = None]
  /\ IF cont[s]
     THEN /\ age' = [age EXCEPT ![s] = 0]
          /\ pinged' = [pinged EXCEPT ![s] = FALSE]
          /\ missed' = [missed EXCEPT ![s] = None]
          /\ UNCHANGED <<pc, closing>>
     ELSE /\ pc' = "closing" /\ closing' = s
          /\ UNCHANGED <<pinged, age, missed>>
  /\ UNCHANGED <<open, cont, ping_pending, since, expired, left, busy, todo>>

(* A writable callback with a ping that waits: the ping goes out ...       *)
PendingPingGoes(s) ==
  /\ Handled(s) /\ ping_pending[s]
  /\ ping_pending' = [ping_pending EXCEPT ![s] = FALSE]
  /\ PingWritten(s) \/ PingFails(s)
  /\ UNCHANGED <<open, cont, age, expired, pc, left, closing, busy, todo>>

(* ... or data does, in its place.                                         *)
DataGoesMutant(s) ==                       \* mutant: data counts as the ping
  /\ s \notin Prompt
  /\ Handled(s) /\ ping_pending[s]
  /\ ping_pending' = [ping_pending EXCEPT ![s] = FALSE]
  /\ pinged' = [pinged EXCEPT ![s] = TRUE]
  /\ missed' = [missed EXCEPT ![s] = "displaced"]
  /\ UNCHANGED <<open, cont, age, pong, since, expired, pc, left, closing, busy, todo>>

DataGoes(s) ==
  /\ s \notin Prompt
  /\ Handled(s) /\ ping_pending[s]
  /\ ping_pending' = [ping_pending EXCEPT ![s] = FALSE]
  /\ missed' = [missed EXCEPT ![s] = "displaced"]
  /\ UNCHANGED <<open, cont, pinged, age, pong, since, expired, pc, left,
                 closing, busy, todo>>

(* A callback that is nothing to the health check.                         *)
OtherCallback(s) ==
  /\ Handled(s) /\ s \notin Due
  /\ UNCHANGED <<sessVars, pc, left, closing, busy, todo>>

(* The peer closes the connection, or TCP gives it up.                     *)
PeerCloses(s) ==
  /\ Handled(s)
  /\ pc' = "closing" /\ closing' = s
  /\ UNCHANGED <<sessVars, left, busy, todo>>

(* LWS_CALLBACK_CLOSED: usbws_wait_recv, usbws_session_close and           *)
(* usbws_session_stop, which take time.  lws frees the session.            *)
Closed ==
  /\ pc = "closing"
  /\ pc' = "handle" /\ closing' = None
  /\ open' = open \ {closing}
  /\ ready' = ready \ {closing}
  /\ cont' = [cont EXCEPT ![closing] = FALSE]
  /\ pong' = [pong EXCEPT ![closing] = None]
  /\ since' = [since EXCEPT ![closing] = 0]
  /\ pinged' = [pinged EXCEPT ![closing] = FALSE]
  /\ ping_pending' = [ping_pending EXCEPT ![closing] = FALSE]
  /\ age' = [age EXCEPT ![closing] = 0]
  /\ missed' = [missed EXCEPT ![closing] = None]
  /\ expired' = [expired EXCEPT ![closing] = FALSE]
  /\ UNCHANGED <<left, busy, todo>>

ServiceReturns ==
  /\ pc = "handle" /\ ready = {}
  /\ pc' = "check" /\ todo' = open
  /\ UNCHANGED <<sessVars, left, ready, closing, busy>>

-----------------------------------------------------------------------------
(* usbws_check_session.  Its result and the close reason it sets change    *)
(* nothing: lws closes no connection for them.                             *)

Checked(s) ==
  /\ pc = "check" /\ s \in todo
  /\ todo' = todo \ {s}
  /\ UNCHANGED <<open, age, pc, left, ready, closing, busy>>

(* The session is over: a ping, to get the answer that closes it.          *)
CheckOverMutant(s) ==                      \* mutant: no WORKAROUND
  /\ Checked(s) /\ ~cont[s]
  /\ UNCHANGED <<cont, pinged, ping_pending, pong, since, missed, expired>>

CheckOver(s) ==
  /\ Checked(s) /\ ~cont[s]
  /\ SendPing(s)
  /\ UNCHANGED <<cont, expired>>

TimedOutMutant(s) == age[s] > PingPong     \* mutant: no time to answer
TimedOut(s) == age[s] >= PingPong + PongTimeout

Expire(s) ==
  /\ Checked(s) /\ cont[s]
  /\ PingPong # 0 /\ TimedOut(s)
  /\ cont' = [cont EXCEPT ![s] = FALSE]
  /\ expired' = [expired EXCEPT ![s] = TRUE]
  /\ SendPing(s)

SilentMutant(s) == age[s] > PingPong       \* mutant: one second late
Silent(s) == age[s] >= PingPong

CheckSilent(s) ==
  /\ Checked(s) /\ cont[s]
  /\ PingPong # 0 /\ Silent(s) /\ ~TimedOut(s)
  /\ ~pinged[s]
  /\ SendPing(s)
  /\ UNCHANGED <<cont, expired>>

CheckHealthy(s) ==
  /\ Checked(s) /\ cont[s]
  /\ PingPong = 0 \/ (~TimedOut(s) /\ (~Silent(s) \/ pinged[s]))
  /\ UNCHANGED <<cont, pinged, ping_pending, pong, since, missed, expired>>

CheckEnds ==
  /\ pc = "check" /\ todo = {}
  /\ pc' = "poll" /\ left' = PollSeconds
  /\ UNCHANGED <<sessVars, ready, closing, busy, todo>>

-----------------------------------------------------------------------------
Callback(s) ==
  \/ Receive(s) \/ ReceivePong(s) \/ PendingPingGoes(s) \/ DataGoes(s)
  \/ OtherCallback(s) \/ PeerCloses(s)

CheckSession(s) ==
  CheckOver(s) \/ Expire(s) \/ CheckSilent(s) \/ CheckHealthy(s)

Next ==
  \/ Tick \/ PollReturn \/ Closed \/ ServiceReturns \/ CheckEnds
  \/ \E s \in Sessions : PongArrives(s) \/ Shutdown(s) \/ Establish(s)
                         \/ Callback(s) \/ CheckSession(s)

Spec == Init /\ [][Next]_vars

(* The service thread runs: poll ends when its time is over or something   *)
(* is due, callbacks and checks come to an end.  Time passes, the pong of  *)
(* an answering peer arrives and is read after the frames before it, its   *)
(* socket takes bytes, data does not always go in place of a ping, and     *)
(* lws_write does not refuse every ping.                                   *)
PollEnds == PollReturn /\ (left = 0 \/ Due # {})

Fairness ==
  /\ WF_vars(Tick)
  /\ WF_vars(PollEnds) /\ WF_vars(Closed) /\ WF_vars(ServiceReturns) /\ WF_vars(CheckEnds)
  /\ \A s \in Sessions : WF_vars(Callback(s)) /\ WF_vars(CheckSession(s))
  /\ \A s \in Answering : /\ WF_vars(PongArrives(s)) /\ SF_vars(ReceivePong(s))
                         /\ SF_vars(PendingPingGoes(s) /\ missed'[s] # "failed")
  /\ \A s \in Answering \ Prompt : /\ SF_vars(PollReturn /\ s \in ready')
                                  /\ SF_vars(CheckOver(s) /\ missed'[s] # "failed")

FairSpec == Spec /\ Fairness

-----------------------------------------------------------------------------
(* Safety.                                                                 *)

(* A ping was written and is not answered yet, or waits for its socket, or *)
(* was refused by lws_write when it was tried last.                        *)
Tried(s) == pong[s] # None \/ ping_pending[s] \/ missed[s] = "failed"

(* When the service thread is in poll, a peer that has been silent for     *)
(* twice the period has a ping to answer, or one that waits for its        *)
(* socket, or one that lws_write refused at the last check: a ping that    *)
(* data displaced (usbws_handle_writable) has been repeated by then.  And  *)
(* a peer that has been silent for the timeout more is given up: each by a *)
(* period late, since the poll timeout counts from the last check and not  *)
(* from the last sign of life of a session, and neither ever left out,     *)
(* however long sessions take to close.                                    *)
SilenceIsBounded ==
  \A s \in open :
    pc = "poll" /\ cont[s] =>
      /\ age[s] >= 2 * PingPong => Tried(s)
      /\ age[s] < 2 * PingPong + PongTimeout

(* The check gives up no peer that it has not tried to reach before: when  *)
(* it ends a session, the peer owes it a pong, or takes no bytes so that   *)
(* the ping still waits, or its last ping since the last sign of life was  *)
(* displaced by data or refused by lws_write.  (In the last three cases    *)
(* the peer may never have received a ping.)  With a timeout shorter than  *)
(* the period and the time spent closing sessions, the first check to see  *)
(* the silence may be the one that ends it.                                *)
AskedBeforeExpired ==
  [][\A s \in open :
       expired'[s] /\ ~expired[s] /\ PingPong + MaxBusy <= PongTimeout =>
         Tried(s) \/ missed[s] = "displaced"]_vars

(* A prompt peer is taken for dead only if the timeout is shorter than a   *)
(* ping interval, a round trip and three times what closing sessions costs *)
(* in one lws_service.  (The defaults, 60 and 60 seconds, are that short   *)
(* as soon as a session takes a second to close or a pong to arrive.)      *)
PromptPeerKept ==
  \A s \in Prompt :
    expired[s] => PongTimeout < PingPong + 3 * MaxBusy + Rtt

(* Liveness.                                                               *)

(* A session that is over is closed, if its peer still answers: by the     *)
(* pong to the pings the check keeps sending.                              *)
OverIsClosed == \A s \in Answering : (s \in open /\ ~cont[s]) ~> s \notin open
=============================================================================
