--------------------------- MODULE UsbwsDaemonProofs ---------------------------
(***************************************************************************)
(* Proofs about the process of a daemon, whichever calls fail and however  *)
(* many SIGINTs come.  What main has done is known from where it stands;   *)
(* what it takes back at the end, the pid file among it, also needs to be  *)
(* found from the directory it stands in.                                  *)
(***************************************************************************)
EXTENDS UsbwsDaemon, TLAPS

(* The driver is open from usbip_open_driver to usbip_close_driver, the    *)
(* context is there while main serves, a pid file has its option, and only *)
(* a daemon in the background has left the directory it began in.          *)
PlaceInv ==
  /\ pc \in {"options", "pid file", "driver", "remove"} => driver = "closed"
  /\ pc = "pid file" => opt_pid_file # None
  /\ pc \in {"daemonize", "context", "service", "destroy"} => driver = "open"
  /\ context = "live" => pc \in {"service", "destroy", "exit"} /\ driver = "open"
  /\ pc \in {"options", "pid file"} \/ opt_pid_file = None => pid_file = None
  /\ pc = "daemonize" => opt_daemonize
  /\ cwd = "root" => opt_daemonize /\ pc \notin {"options", "pid file", "driver", "daemonize"}

(* TypeOK in two parts: the provers treat truth values apart.              *)
Flags ==
  opt_daemonize \in BOOLEAN /\ opt_ssl \in BOOLEAN /\ handler \in BOOLEAN
    /\ ctx_cont \in BOOLEAN

Values ==
  /\ pc \in {"options", "pid file", "driver", "daemonize", "context", "service",
             "destroy", "close", "remove", "exit"}
  /\ opt_pid_file \in PidFiles \cup {None} /\ opt_key_file \in KeyFiles \cup {None}
  /\ pid \in {"first", "second"} /\ cwd \in {"start", "root"}
  /\ driver \in {"closed", "open"} /\ context \in {None, "live", "destroyed"}
  /\ status \in Status /\ (pc = "exit" <=> status # None)
  /\ pid_file \in {None, "empty", "first", "second"}
  /\ sigints \in 0..MaxSigint

LEMMA TypeInit == Init => TypeOK
<1> SUFFICES ASSUME Init PROVE TypeOK
  OBVIOUS
<1>1. Flags
  BY DEF Init, Flags
<1>2. Values
  BY DaemonConstants DEF Init, Values, Status, None
<1> QED
  BY <1>1, <1>2 DEF TypeOK, Flags, Values

(* A flag is set, cleared or left alone.                                   *)
LEMMA FlagsNext == TypeOK /\ [Next]_vars => Flags'
<1> SUFFICES ASSUME TypeOK, [Next]_vars PROVE Flags'
  OBVIOUS
<1> USE DEF TypeOK, Flags, optVars, procVars, ctxVars
<1>1. CASE Help
  BY <1>1 DEF Help, Exit
<1>2. CASE Options
  BY <1>2 DEF Options
<1>3. CASE CreatePidFile
  BY <1>3 DEF CreatePidFile, Exit
<1>4. CASE OpenDriver
  BY <1>4 DEF OpenDriver, RemovePidFile, Exit
<1>5. CASE Daemonize
  BY <1>5 DEF Daemonize, RemovePidFile, Exit
<1>6. CASE CreateContext
  BY <1>6 DEF CreateContext
<1>7. CASE ServiceEnds \/ ServiceCrashes \/ DestroyContext \/ CloseDriver
  BY <1>7 DEF ServiceEnds, ServiceCrashes, DestroyContext, CloseDriver, Exit
<1>8. CASE Return
  BY <1>8 DEF Return, RemovePidFile, Exit
<1>9. CASE Sigint
  BY <1>9 DEF Sigint, Exit
<1>10. CASE Idle \/ UNCHANGED vars
  BY <1>10 DEF Idle, vars
<1> QED
  BY <1>1, <1>2, <1>3, <1>4, <1>5, <1>6, <1>7, <1>8, <1>9, <1>10
     DEF Next, MainStep

(* The status is known when main is at its end, and then only.             *)
LEMMA ValuesNext == TypeOK /\ [Next]_vars => Values'
<1> SUFFICES ASSUME TypeOK, [Next]_vars PROVE Values'
  OBVIOUS
<1>9. CASE Sigint
  <2>1. Values
    BY DEF TypeOK, Values
  <2>2. /\ UNCHANGED <<pc, status>> \/ (pc # "exit" /\ pc' = "exit" /\ status' = "killed")
        /\ UNCHANGED <<opt_pid_file, opt_key_file, pid, cwd, driver, context, pid_file>>
    BY <1>9 DEF Sigint, Exit, optVars, procVars
  <2>3. sigints \in 0..MaxSigint /\ MaxSigint \in Nat
    BY <2>1, DaemonConstants DEF Values
  <2>4. sigints < MaxSigint /\ sigints' = sigints + 1
    BY <1>9 DEF Sigint
  <2>5. sigints' \in 0..MaxSigint
    BY <2>3, <2>4
  <2>6. status' \in Status /\ (pc = "exit" <=> status # None)'
    BY <2>1, <2>2 DEF Values, Status, None
  <2> QED
    BY <2>1, <2>2, <2>5, <2>6 DEF Values
<1> USE DEF TypeOK, Values, Status, None, optVars, procVars, ctxVars
<1>1. CASE Help
  BY <1>1 DEF Help, Exit
<1>2. CASE Options
  BY <1>2 DEF Options
<1>3. CASE CreatePidFile
  BY <1>3 DEF CreatePidFile, Exit
<1>4. CASE OpenDriver
  BY <1>4 DEF OpenDriver, RemovePidFile, Exit
<1>5. CASE Daemonize
  BY <1>5 DEF Daemonize, RemovePidFile, Exit
<1>6. CASE CreateContext
  BY <1>6 DEF CreateContext
<1>7. CASE ServiceEnds \/ ServiceCrashes \/ DestroyContext \/ CloseDriver
  BY <1>7 DEF ServiceEnds, ServiceCrashes, DestroyContext, CloseDriver, Exit
<1>8. CASE Return
  BY <1>8 DEF Return, RemovePidFile, Exit
<1>10. CASE Idle \/ UNCHANGED vars
  BY <1>10 DEF Idle, vars
<1> QED
  BY <1>1, <1>2, <1>3, <1>4, <1>5, <1>6, <1>7, <1>8, <1>9, <1>10
     DEF Next, MainStep

LEMMA TypeNext == TypeOK /\ [Next]_vars => TypeOK'
  BY FlagsNext, ValuesNext DEF TypeOK, Flags, Values

(* Every variable of the process has a value of its type, and the process  *)
(* has a status when it has ended.                                         *)
THEOREM TypeCorrect == Spec => []TypeOK
  BY TypeInit, TypeNext, PTL DEF Spec

(* Every step leads from one place of main to another.                     *)
LEMMA PlaceNext == TypeOK /\ PlaceInv /\ [Next]_vars => PlaceInv'
<1> SUFFICES ASSUME TypeOK /\ PlaceInv, [Next]_vars PROVE PlaceInv'
  OBVIOUS
<1> USE DEF TypeOK, PlaceInv, Status, None, optVars, procVars, ctxVars
<1>1. CASE Help
  BY <1>1 DEF Help, Exit
<1>2. CASE Options
  BY <1>2 DEF Options
<1>3. CASE CreatePidFile
  BY <1>3 DEF CreatePidFile, Exit
<1>4. CASE OpenDriver
  BY <1>4 DEF OpenDriver, RemovePidFile, Exit
<1>5. CASE Daemonize
  BY <1>5 DEF Daemonize, RemovePidFile, Exit
<1>6. CASE CreateContext
  BY <1>6 DEF CreateContext
<1>7. CASE ServiceEnds \/ ServiceCrashes \/ DestroyContext \/ CloseDriver
  BY <1>7 DEF ServiceEnds, ServiceCrashes, DestroyContext, CloseDriver, Exit
<1>8. CASE Return
  BY <1>8 DEF Return, RemovePidFile, Exit
<1>9. CASE Sigint
  BY <1>9 DEF Sigint, Exit
<1>10. CASE Idle \/ UNCHANGED vars
  BY <1>10 DEF Idle, vars
<1> QED
  BY <1>1, <1>2, <1>3, <1>4, <1>5, <1>6, <1>7, <1>8, <1>9, <1>10
     DEF Next, MainStep

(* What a return leaves: the pid file is removed where it is found.        *)
LEMMA ReturnNext ==
  ASSUME TypeOK, PlaceInv, ReturnTakesBack, [Next]_vars
  PROVE  ReturnTakesBack'
<1> USE DaemonConstants DEF TypeOK, PlaceInv, ReturnTakesBack, Status, None, Found, optVars,
                            procVars, ctxVars
<1>1. CASE Help
  BY <1>1 DEF Help, Exit
<1>2. CASE Options
  BY <1>2 DEF Options
<1>3. CASE CreatePidFile
  BY <1>3 DEF CreatePidFile, Exit
<1>4. CASE OpenDriver
  BY <1>4 DEF OpenDriver, RemovePidFile, Exit
<1>5. CASE Daemonize
  BY <1>5 DEF Daemonize, RemovePidFile, Exit
<1>6. CASE CreateContext
  BY <1>6 DEF CreateContext
<1>7. CASE ServiceEnds \/ ServiceCrashes \/ DestroyContext \/ CloseDriver
  BY <1>7 DEF ServiceEnds, ServiceCrashes, DestroyContext, CloseDriver, Exit
<1>8. CASE Return
  BY <1>8 DEF Return, RemovePidFile, Exit
<1>9. CASE Sigint
  BY <1>9 DEF Sigint, Exit
<1>10. CASE Idle \/ UNCHANGED vars
  BY <1>10 DEF Idle, vars
<1> QED
  BY <1>1, <1>2, <1>3, <1>4, <1>5, <1>6, <1>7, <1>8, <1>9, <1>10
     DEF Next, MainStep

(* Main takes back what it did whichever call failed: after every return   *)
(* of main the driver is closed, and no pid file names a process unless it *)
(* was named by a relative path and the daemon went into the background;   *)
(* and it serves only with the driver open.                                *)
THEOREM ReturnTakesBackSafe == Spec => []ReturnTakesBack
<1>1. Init => PlaceInv /\ ReturnTakesBack
  BY DEF Init, PlaceInv, ReturnTakesBack, None
<1>2. TypeOK /\ PlaceInv /\ ReturnTakesBack /\ [Next]_vars => (PlaceInv /\ ReturnTakesBack)'
  BY PlaceNext, ReturnNext
<1> QED
  BY <1>1, <1>2, TypeCorrect, PTL DEF Spec
=============================================================================
