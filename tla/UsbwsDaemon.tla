------------------------------ MODULE UsbwsDaemon ------------------------------
(***************************************************************************)
(* The process of a daemon (main of usbwsd.c), from its options to its     *)
(* exit: the pid file, the USB/IP driver, the fork into the background and *)
(* SIGINT around the service, which UsbwsService models.                   *)
(***************************************************************************)
EXTENDS Integers

None == "none"

CONSTANTS
  PidFiles,     (* how a pid file may be named: {"absolute", "relative"}   *)
  KeyFiles,     (* how key and certificate are: the same; they are there   *)
  MayFail,      (* calls that may fail; "crash": usbws_service comes to one *)
  MaxSigint     (* bound: SIGINTs                                          *)

ASSUME DaemonConstants ==
  /\ PidFiles \subseteq {"absolute", "relative"}
  /\ KeyFiles \subseteq {"absolute", "relative"}
  /\ MayFail \subseteq {"fopen", "fprintf", "driver", "daemon", "context", "service", "crash"}
  /\ MaxSigint \in Nat

VARIABLES
  pc,
  (* options *)
  opt_daemonize, opt_ssl, opt_pid_file, opt_key_file,
  (* the process *)
  pid, cwd, driver,
  handler,     \* SIGINT is handled by usbws_sighandler
  context,
  ctx_cont,
  status,      \* how the process ended
  (* the file system *)
  pid_file,    \* content of the pid file
  (* history *)
  sigints

optVars == <<opt_daemonize, opt_ssl, opt_pid_file, opt_key_file>>
procVars == <<pid, cwd, driver>>
ctxVars == <<handler, context, ctx_cont>>
vars == <<pc, optVars, procVars, ctxVars, status, pid_file, sigints>>

Status == {None, "success", "failure", "killed"}

TypeOK ==
  /\ pc \in {"options", "pid file", "driver", "daemonize", "context", "service",
             "destroy", "close", "remove", "exit"}
  /\ opt_daemonize \in BOOLEAN /\ opt_ssl \in BOOLEAN
  /\ handler \in BOOLEAN /\ ctx_cont \in BOOLEAN
  /\ opt_pid_file \in PidFiles \cup {None} /\ opt_key_file \in KeyFiles \cup {None}
  /\ pid \in {"first", "second"} /\ cwd \in {"start", "root"}
  /\ driver \in {"closed", "open"} /\ context \in {None, "live", "destroyed"}
  /\ status \in Status /\ (pc = "exit" <=> status # None)
  /\ pid_file \in {None, "empty", "first", "second"}
  /\ sigints \in 0..MaxSigint

Init ==
  /\ pc = "options"
  /\ opt_daemonize = FALSE /\ opt_ssl = FALSE
  /\ opt_pid_file = None /\ opt_key_file = None
  /\ pid = "first" /\ cwd = "start" /\ driver = "closed"
  /\ handler = FALSE /\ context = None /\ ctx_cont = TRUE
  /\ status = None /\ pid_file = None
  /\ sigints = 0

Exit(s) == pc' = "exit" /\ status' = s

(* A file is found where it was named from.                                *)
Found(name) == name = "absolute" \/ cwd = "start"

-----------------------------------------------------------------------------
(* usbws_handle_options: help, version and an option of no use end the     *)
(* program with success.                                                   *)
Help ==
  /\ pc = "options"
  /\ Exit("success")
  /\ UNCHANGED <<optVars, procVars, ctxVars, pid_file, sigints>>

Options ==
  /\ pc = "options"
  /\ opt_daemonize' \in BOOLEAN
  /\ opt_pid_file' \in PidFiles \cup {None}
  /\ \/ opt_ssl' = TRUE /\ opt_key_file' \in KeyFiles
     \/ opt_ssl' = FALSE /\ opt_key_file' = None
  /\ pc' = IF opt_pid_file' = None THEN "driver" ELSE "pid file"
  /\ UNCHANGED <<procVars, ctxVars, status, pid_file, sigints>>

(* usbws_create_pid_file: a file that cannot be written is left behind.    *)
CreatePidFile ==
  /\ pc = "pid file"
  /\ \/ pid_file' = pid /\ pc' = "driver" /\ UNCHANGED status
     \/ "fprintf" \in MayFail /\ pid_file' = "empty" /\ Exit("failure")
     \/ "fopen" \in MayFail /\ UNCHANGED pid_file /\ Exit("failure")
  /\ UNCHANGED <<optVars, procVars, ctxVars, sigints>>

(* usbws_remove_pid_file, if there is one.                                 *)
RemovePidFile ==
  pid_file' = IF opt_pid_file # None /\ Found(opt_pid_file) THEN None ELSE pid_file

OpenDriver ==
  /\ pc = "driver"
  /\ \/ driver' = "open" /\ UNCHANGED <<status, pid_file>>
        /\ pc' = IF opt_daemonize THEN "daemonize" ELSE "context"
     \/ "driver" \in MayFail /\ RemovePidFile /\ Exit("failure") /\ UNCHANGED driver
  /\ UNCHANGED <<optVars, pid, cwd, ctxVars, sigints>>

(* daemon(0, 0): the process goes on as its own child, in "/", and the     *)
(* parent is gone.                                                         *)
DaemonizeMutant ==                         \* mutant: goto err_rm_pid_file
  /\ pc = "daemonize"
  /\ \/ pid' = "second" /\ cwd' = "root" /\ pc' = "context"
        /\ UNCHANGED <<driver, status, pid_file>>
     \/ "daemon" \in MayFail /\ RemovePidFile /\ Exit("failure")
        /\ UNCHANGED <<pid, cwd, driver>>
  /\ UNCHANGED <<optVars, ctxVars, sigints>>

Daemonize ==
  /\ pc = "daemonize"
  /\ \/ pid' = "second" /\ cwd' = "root" /\ pc' = "context"
        /\ UNCHANGED <<driver, status, pid_file>>
     \/ "daemon" \in MayFail /\ driver' = "closed" /\ RemovePidFile /\ Exit("failure")
        /\ UNCHANGED <<pid, cwd>>
  /\ UNCHANGED <<optVars, ctxVars, sigints>>

(* usbws_service: main does not look at its result.                        *)
CreateContext ==
  /\ pc = "context"
  /\ \/ /\ opt_ssl => Found(opt_key_file)
        /\ context' = "live" /\ handler' = TRUE
        /\ pc' = "service"
     \/ /\ "context" \in MayFail \/ (opt_ssl /\ ~Found(opt_key_file))
        /\ pc' = "close"
        /\ UNCHANGED <<context, handler>>
  /\ UNCHANGED <<optVars, procVars, ctx_cont, status, pid_file, sigints>>

(* The loop ends: stopped, or because lws_service fails.                   *)
ServiceEnds ==
  /\ pc = "service"
  /\ ~ctx_cont \/ "service" \in MayFail
  /\ pc' = "destroy"
  /\ UNCHANGED <<optVars, procVars, ctxVars, status, pid_file, sigints>>

(* While the service serves or the context is destroyed: pthread_join of   *)
(* something that is no thread, a visit of a freed session.                *)
ServiceCrashes ==
  /\ pc \in {"service", "destroy"} /\ "crash" \in MayFail
  /\ Exit("killed")
  /\ UNCHANGED <<optVars, procVars, ctxVars, pid_file, sigints>>

DestroyContext ==
  /\ pc = "destroy"
  /\ context' = "destroyed" /\ pc' = "close"
  /\ UNCHANGED <<optVars, procVars, handler, ctx_cont, status, pid_file, sigints>>

CloseDriver ==
  /\ pc = "close"
  /\ driver' = "closed" /\ pc' = "remove"
  /\ UNCHANGED <<optVars, pid, cwd, ctxVars, status, pid_file, sigints>>

ReturnMutant ==                            \* mutant: on to err_driver_close
  /\ pc = "remove"
  /\ RemovePidFile /\ status' = "success" /\ pc' = "close"
  /\ UNCHANGED <<optVars, procVars, ctxVars, sigints>>

Return ==
  /\ pc = "remove"
  /\ RemovePidFile /\ Exit("success")
  /\ UNCHANGED <<optVars, procVars, ctxVars, sigints>>

(* SIGINT kills a process that does not handle it yet, stops one that has  *)
(* a context and lets one that has lost it call lws_cancel_service(NULL).  *)
Sigint ==
  /\ sigints < MaxSigint /\ pc # "exit"
  /\ sigints' = sigints + 1
  /\ \/ handler /\ context = "live" /\ ctx_cont' = FALSE /\ UNCHANGED <<pc, status>>
     \/ ~(handler /\ context = "live") /\ Exit("killed") /\ UNCHANGED ctx_cont
  /\ UNCHANGED <<optVars, procVars, handler, context, pid_file>>

-----------------------------------------------------------------------------
MainStep ==
  \/ Options \/ CreatePidFile \/ OpenDriver \/ Daemonize \/ CreateContext
  \/ ServiceEnds \/ ServiceCrashes \/ DestroyContext \/ CloseDriver \/ Return

(* Serving, or gone.                                                       *)
Idle == pc \in {"service", "exit"} /\ UNCHANGED vars

Next == Help \/ MainStep \/ Sigint \/ Idle

Spec == Init /\ [][Next]_vars

-----------------------------------------------------------------------------
(* Safety.                                                                 *)

(* A process that comes to a return of main has taken back what it did,    *)
(* whichever call failed: the driver it opened is closed, and no pid file  *)
(* names a process, but for the relative one of a daemon in the            *)
(* background, which main looks for in "/" and leaves behind.  It serves   *)
(* only with the driver open.                                              *)
ReturnTakesBack ==
  /\ status \in {"success", "failure"} =>
       /\ driver = "closed"
       /\ pid_file \in {"first", "second"} =>
            opt_daemonize /\ opt_pid_file = "relative" /\ status = "success"
  /\ context = "live" => driver = "open"

(* The pid file names the process that serves.                             *)
PidFileNamesDaemon == context = "live" /\ opt_pid_file # None => pid_file = pid

=============================================================================
