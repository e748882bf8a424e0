---------------------------- MODULE UsbwsCommand ----------------------------
(***************************************************************************)
(* The usbws program (usbws.c, usbws_connect_kind.c, usbws_list.c,         *)
(* usbws_bind_kind.c, usbws_detach.c, usbws_port.c) with the target of a   *)
(* client (usbws_client.c): one command, its options, the target it        *)
(* parses, the one call of the USB/IP library it makes and the memory it   *)
(* gives back.                                                             *)
(*                                                                         *)
(* An option is the letter getopt_long returns for it, "?" standing for    *)
(* everything it does not know and for an option without the argument it   *)
(* needs.  Only the letters whose argument decides something later are     *)
(* remembered, and of a URL only how it parses.                            *)
(***************************************************************************)
EXTENDS Naturals

CONSTANTS
  Libusb,     (* built with USBIP_WITH_LIBUSB: the device side programs    *)
  MaxOptions  (* bound: options on one command line                        *)

ASSUME CommandConstants == Libusb \in BOOLEAN /\ MaxOptions \in Nat

Connectors == {"connect", "disconnect"} \cup (IF Libusb THEN {} ELSE {"attach"})
Binders == {"bind", "unbind"}
Importers == IF Libusb THEN {} ELSE {"detach", "port"}

(* usbws_commands; the commands that do not use the USB/IP library.        *)
Printers == {"help", "version"}
UsbwsCommands == Connectors \cup Binders \cup Importers \cup {"list"} \cup Printers

(* Commands that hold a struct usbws_client.                               *)
ClientCommands == Connectors \cup {"list"}

-----------------------------------------------------------------------------
(* The options of a command: known to getopt_long as a letter, known to it *)
(* by name, handled by the switch, and needed: one of each set.            *)
Letters == {"d", "f", "u", "x", "b", "i", "k", "c", "V", "l", "p", "h", "?"}

Flags == IF Libusb THEN {"f"} ELSE {}

Plain(letters, needs) ==
  [short |-> letters \cup Flags, long |-> letters \cup Flags,
   handled |-> letters \cup Flags, needs |-> needs]

ConnectKindOptions ==
  Plain({"d", "u", "x", "i", "b", "k", "c", "V", "h"}, {{"u"}, {"b"}})

(* With libusb the letters of a remote list are known and not handled; the *)
(* name bus-id is known and never handled.                                 *)
ListOptions ==
  LET local == {"d", "l", "p", "h"} \cup Flags
      remote == {"u", "x", "k", "c", "V"}
  IN [short   |-> local \cup remote,
      long    |-> local \cup (IF Libusb THEN {} ELSE remote \cup {"b"}),
      handled |-> local \cup (IF Libusb THEN {} ELSE remote),
      needs   |-> {IF Libusb THEN {"l"} ELSE {"l", "u"}}]

BindKindOptions == Plain({"d", "b", "h"}, {{"b"}})
DetachOptions == Plain({"d", "p", "h"}, {{"p"}})
PortOptions == Plain({"d", "h"}, {})

OptionsOf(c) ==
  CASE c \in Connectors -> ConnectKindOptions
    [] c = "list"       -> ListOptions
    [] c \in Binders    -> BindKindOptions
    [] c = "detach"     -> DetachOptions
    [] c = "port"       -> PortOptions

(* What may stand behind an option: a target URL that parses and names ws  *)
(* or wss, one of another scheme, one that does not parse; and so on.      *)
Arguments(o) ==
  CASE o = "u" -> {"good", "scheme", "syntax"}
    [] o = "x" -> {"good", "syntax"}
    [] o = "V" -> {"good", "unknown"}
    [] OTHER   -> {"good"}

Absent == "absent"

-----------------------------------------------------------------------------
VARIABLES
  cmd,      \* argv[1], Absent if there is none
  pc,       \* where the program is
  options,  \* how many options getopt_long has returned
  opts,     \* opt_url, opt_proxy, opt_busid, opt_local, port: the last one
  mem,      \* client->url_work, client->proxy and tmp of set_proxy
  ret       \* what the command's function is going to return

(* History.                                                                *)
VARIABLES
  aside,    \* what ended the options or the command before it acted: "text" was
            \* asked for, an option was "mistaken" or it was "refused"
  acted,    \* the call of the USB/IP library
  overrun,  \* strcpy wrote behind the memory malloc returned
  status    \* how the process ended

vars == <<cmd, pc, options, opts, mem, ret, aside, acted, overrun, status>>

Kept == {"u", "x", "b", "l", "p"}
Blocks == {"url_work", "proxy", "tmp"}

TypeOK ==
  /\ cmd \in UsbwsCommands \cup {"unknown", Absent}
  /\ pc \in {"main", "options", "parsed", "target", "call", "free", "exit", "end"}
  /\ pc \in {"options", "parsed"} => cmd \in UsbwsCommands \ Printers
  /\ pc \in {"target", "call", "free"} => cmd \in ClientCommands
  /\ options \in 0..MaxOptions
  /\ opts \in [Kept -> {Absent, "good", "scheme", "syntax"}]
  /\ mem \in [Blocks -> {"null", "allocated", "freed", "freed twice"}]
  /\ ret \in {"success", "failure"}
  /\ aside \in {"none", "text", "mistaken", "refused"} /\ overrun \in BOOLEAN
  /\ acted \in {"none", "done", "failed"}
  /\ status \in {"running", "success", "failure", "abort"}

Init ==
  /\ cmd \in UsbwsCommands \cup {"unknown", Absent}
  /\ pc = "main"
  /\ options = 0
  /\ opts = [o \in Kept |-> Absent]
  /\ mem = [b \in Blocks |-> "null"]
  /\ ret = "failure"
  /\ aside = "none" /\ overrun = FALSE
  /\ acted = "none"
  /\ status = "running"

(* The command's function goes to its end with result r; those with a      *)
(* client have a label that frees it first.                                *)
Finish(r) ==
  /\ ret' = r
  /\ pc' = IF cmd \in ClientCommands THEN "free" ELSE "exit"

MainMutant ==  \* mutant: the end of the table is not noticed
  /\ pc = "main"
  /\ \/ /\ cmd \in Printers
        /\ Finish("success") /\ aside' = "text"
     \/ /\ cmd \notin Printers
        /\ pc' = "options" /\ UNCHANGED <<ret, aside>>
  /\ UNCHANGED <<cmd, options, opts, mem, acted, overrun, status>>

(* main: without a command, with an unknown one, with one that only        *)
(* prints, or with one that has options.                                   *)
Main ==
  /\ pc = "main"
  /\ \/ /\ cmd \notin UsbwsCommands
        /\ Finish("failure") /\ UNCHANGED aside
     \/ /\ cmd \in Printers
        /\ Finish("success") /\ aside' = "text"
     \/ /\ cmd \in UsbwsCommands \ Printers
        /\ pc' = "options" /\ UNCHANGED <<ret, aside>>
  /\ UNCHANGED <<cmd, options, opts, mem, acted, overrun, status>>

-----------------------------------------------------------------------------
(* handle_options: one round of its loop per option.                       *)

(* The next option is o, given by its letter or by its name.               *)
NextOption(o, form) ==
  /\ pc = "options" /\ options < MaxOptions
  /\ options' = options + 1
  /\ UNCHANGED <<cmd, mem, acted, overrun, status>>

Known(o, form) == o \in OptionsOf(cmd)[form]

(* The one case of the switch for -h and for what getopt_long does not     *)
(* know: the help, and success.  The code keeps no difference between the  *)
(* two, the history does.                                                  *)
OptionAside(o, form, why) ==
  /\ NextOption(o, form)
  /\ aside' = why
  /\ Finish("success")
  /\ UNCHANGED opts

OptionHelpMutant(o, form) ==  \* mutant: the help leads to the exit of errors
  /\ NextOption(o, form)
  /\ Known(o, form) /\ o = "h"
  /\ aside' = "text"
  /\ Finish("failure")
  /\ UNCHANGED opts

OptionHelp(o, form) == OptionAside(o, form, "text") /\ Known(o, form) /\ o = "h"
OptionMistaken(o, form) == OptionAside(o, form, "mistaken") /\ ~Known(o, form)

OptionRefusedMutant(o, form, v) ==  \* mutant: the default case goes on
  /\ NextOption(o, form)
  /\ Known(o, form)
  /\ o \notin OptionsOf(cmd).handled \/ v = "unknown"
  /\ aside' = "refused"
  /\ UNCHANGED <<pc, ret, opts>>

(* Known to getopt_long and not to the switch, or with a bad argument.     *)
OptionRefused(o, form, v) ==
  /\ NextOption(o, form)
  /\ Known(o, form)
  /\ o \notin OptionsOf(cmd).handled \/ v = "unknown"
  /\ aside' = "refused"
  /\ Finish("failure")
  /\ UNCHANGED opts

OptionTaken(o, form, v) ==
  /\ NextOption(o, form)
  /\ Known(o, form) /\ o \in OptionsOf(cmd).handled \ {"h"} /\ v # "unknown"
  /\ opts' = IF o \in Kept THEN [opts EXCEPT ![o] = v] ELSE opts
  /\ UNCHANGED <<pc, ret, aside>>

Complete == \A alternatives \in OptionsOf(cmd).needs :
              \E o \in alternatives : opts[o] # Absent

(* getopt_long returns -1: every option the command needs must be there.   *)
OptionsEnd ==
  /\ pc = "options"
  /\ IF Complete THEN pc' = "parsed" /\ UNCHANGED ret ELSE Finish("failure")
  /\ UNCHANGED <<cmd, options, opts, mem, aside, acted, overrun, status>>

-----------------------------------------------------------------------------
(* usbws_client_set_target and usbws_client_set_proxy: what they leave     *)
(* behind, any malloc may fail.                                            *)

Alloc(m, b) == [m EXCEPT ![b] = "allocated"]
Free(m, b) == [m EXCEPT ![b] = CASE @ = "null"      -> "null"
                                 [] @ = "allocated" -> "freed"
                                 [] OTHER           -> "freed twice"]

Outcome(m, ok, over) == [mem |-> m, ok |-> ok, overrun |-> over]

(* tmp is not freed when the proxy is set, and two bytes too short for the *)
(* copy of the URL whenever there is one.                                  *)
SetProxy(m) ==
  LET tmp == Alloc(m, "tmp") IN
  IF opts["x"] = Absent THEN {Outcome(m, TRUE, FALSE)}
  ELSE {Outcome(m, FALSE, FALSE), Outcome(Free(tmp, "tmp"), FALSE, TRUE)}
         \cup IF opts["x"] = "good" THEN {Outcome(Alloc(tmp, "proxy"), TRUE, TRUE)}
                                    ELSE {}

(* On an error url_work is freed and the pointer to it kept.               *)
SetTargetMutant(m) ==  \* mutant: url_work is freed in any case
  LET url == Alloc(m, "url_work")
      failed(out) == [out EXCEPT !.mem = Free(@, "url_work")]
  IN {Outcome(m, FALSE, FALSE)}
       \cup IF opts["u"] # "good"
            THEN {failed(Outcome(url, FALSE, FALSE))}
            ELSE {failed(out) : out \in SetProxy(url)}

SetTarget(m) ==
  LET url == Alloc(m, "url_work")
      failed(out) == [out EXCEPT !.mem = Free(@, "url_work")]
  IN {Outcome(m, FALSE, FALSE)}
       \cup IF opts["u"] # "good"
            THEN {failed(Outcome(url, FALSE, FALSE))}
            ELSE {IF out.ok THEN out ELSE failed(out) : out \in SetProxy(url)}

ClientSetTarget ==
  /\ pc = "target"
  /\ \E out \in SetTarget(mem) :
       /\ mem' = out.mem
       /\ overrun' = out.overrun
       /\ IF out.ok THEN pc' = "call" /\ UNCHANGED ret ELSE Finish("failure")
  /\ UNCHANGED <<cmd, options, opts, aside, acted, status>>

-----------------------------------------------------------------------------
(* The functions of the commands behind their options.                     *)

(* The one function of the USB/IP library the command is for; external.    *)
LibraryCall ==
  /\ \/ acted' = "done" /\ Finish("success")
     \/ acted' = "failed" /\ Finish("failure")
  /\ UNCHANGED <<cmd, options, opts, mem, aside, overrun, status>>

GoTo(label) ==
  /\ pc' = label
  /\ UNCHANGED <<cmd, options, opts, mem, ret, aside, acted, overrun, status>>

ConnectKind ==
  /\ cmd \in Connectors
  /\ \/ pc = "parsed" /\ GoTo("target")
     \/ pc = "call" /\ LibraryCall

List ==
  /\ cmd = "list"
  /\ \/ pc = "parsed" /\ opts["l"] = Absent /\ GoTo("target")
     \/ pc = "parsed" /\ opts["l"] # Absent /\ LibraryCall
     \/ pc = "call" /\ LibraryCall

BindKind == cmd \in Binders /\ pc = "parsed" /\ LibraryCall
Detach == cmd = "detach" /\ pc = "parsed" /\ LibraryCall
Port == cmd = "port" /\ pc = "parsed" /\ LibraryCall

(* Label out or err_out: usbws_client_free.                                *)
ClientFreeMutant ==  \* mutant: the proxy is forgotten
  /\ pc = "free"
  /\ mem' = Free(mem, "url_work")
  /\ pc' = "exit"
  /\ UNCHANGED <<cmd, options, opts, ret, aside, acted, overrun, status>>

ClientFree ==
  /\ pc = "free"
  /\ mem' = Free(Free(mem, "url_work"), "proxy")
  /\ pc' = "exit"
  /\ UNCHANGED <<cmd, options, opts, ret, aside, acted, overrun, status>>

(* main returns.                                                           *)
ExitMutant ==  \* mutant: what the command's function returns is ignored
  /\ pc = "exit"
  /\ pc' = "end"
  /\ status' = "success"
  /\ UNCHANGED <<cmd, options, opts, mem, ret, aside, acted, overrun>>

Exit ==
  /\ pc = "exit"
  /\ pc' = "end"
  /\ status' = ret
  /\ UNCHANGED <<cmd, options, opts, mem, ret, aside, acted, overrun>>

(* A heap written or freed against its rules: the C library may notice in  *)
(* one of its next functions and abort, or not.                            *)
HeapCorrupt == overrun \/ \E b \in Blocks : mem[b] = "freed twice"

Abort ==
  /\ HeapCorrupt /\ pc # "end"
  /\ pc' = "end"
  /\ status' = "abort"
  /\ UNCHANGED <<cmd, options, opts, mem, ret, aside, acted, overrun>>

Next ==
  \/ Main
  \/ \E o \in Letters, form \in {"short", "long"} :
       \/ OptionHelp(o, form) \/ OptionMistaken(o, form)
       \/ \E v \in Arguments(o) : OptionRefused(o, form, v) \/ OptionTaken(o, form, v)
  \/ OptionsEnd
  \/ ConnectKind \/ List \/ BindKind \/ Detach \/ Port
  \/ ClientSetTarget
  \/ ClientFree
  \/ Exit \/ Abort

Spec == Init /\ [][Next]_vars

-----------------------------------------------------------------------------
(* The URL is one that set_target refuses, or there is a proxy.            *)
RefusedOrProxy == opts["u"] \in {"scheme", "syntax"} \/ opts["x"] # Absent

(* The USB/IP library is called only by a command that has all it needs,   *)
(* and only if every option it was given was taken: one that getopt_long   *)
(* knows and the switch does not ends the command before.  A remote        *)
(* command calls it with a target that was parsed whole and whose memory   *)
(* is there: host points into url_work.                                    *)
ActsOnTarget ==
  /\ acted # "none" => Complete /\ aside = "none"
  /\ pc = "call" => /\ acted = "none"
                    /\ opts["u"] = "good" /\ mem["url_work"] = "allocated"
                    /\ opts["x"] # Absent => mem["proxy"] = "allocated"

(* What the exit status tells.  Success: the library did what the command  *)
(* is for, or text was asked for, or an option was mistaken, and then      *)
(* nothing was done at all: the status alone does not tell a command that  *)
(* acted from one with an option it does not know.  Failure: nothing was   *)
(* done that was asked for, and neither of the other two.  Only a refused  *)
(* URL or a proxy can end the command any other way.                       *)
ExitTellsOutcome ==
  /\ status = "success" => IF aside = "none" THEN acted = "done"
                           ELSE aside \in {"text", "mistaken"} /\ acted = "none"
  /\ status = "failure" => acted # "done" /\ aside \notin {"text", "mistaken"}
  /\ status = "abort" => RefusedOrProxy

(* When a command ends by itself the target is given back, and nothing is  *)
(* given back twice unless set_target failed after it had its memory.      *)
TargetReturned ==
  /\ status \in {"success", "failure"} =>
       mem["url_work"] # "allocated" /\ mem["proxy"] # "allocated"
  /\ \A b \in Blocks : mem[b] = "freed twice" =>
       b = "url_work" /\ RefusedOrProxy /\ acted = "none" /\ status # "success"
=============================================================================
