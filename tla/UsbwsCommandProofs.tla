-------------------------- MODULE UsbwsCommandProofs --------------------------
(***************************************************************************)
(* Proofs about UsbwsCommand, for both builds and any number of options.   *)
(***************************************************************************)
EXTENDS UsbwsCommand, TLAPS

(* Nothing was done before the library call, nothing is undone after it.   *)
Before == {"main", "options", "parsed", "target", "call"}
After == {"free", "exit", "end"}

Course ==
  /\ status = "running" <=> pc # "end"
  /\ pc \in Before => acted = "none" /\ aside = "none" /\ ret = "failure"
  /\ pc \in Before \ {"call"} => overrun = FALSE /\ mem = [b \in Blocks |-> "null"]
  /\ pc \in {"parsed", "target", "call"} \/ acted # "none" => Complete
  /\ acted # "none" => aside = "none"

(* What the command is going to return, once that is decided.              *)
Decided ==
  pc \in After =>
    /\ ret = "success" => IF aside = "none" THEN acted = "done"
                          ELSE aside \in {"text", "mistaken"} /\ acted = "none"
    /\ ret = "failure" => acted # "done" /\ aside \notin {"text", "mistaken"}
    /\ status \in {"success", "failure"} => status = ret
    /\ status = "abort" => RefusedOrProxy

(* The target: there while it is used, and in the one case that goes wrong *)
(* freed before usbws_client_free.                                         *)
Target ==
  /\ overrun => opts["x"] # Absent
  /\ mem["tmp"] # "freed twice" /\ mem["proxy"] # "freed twice"
  /\ pc = "target" => opts["u"] # Absent
  /\ pc = "call" => /\ opts["u"] = "good" /\ mem["url_work"] = "allocated"
                    /\ mem["proxy"] # "freed"
                    /\ opts["x"] # Absent => mem["proxy"] = "allocated"
  /\ pc = "call" \/ acted # "none" => mem["url_work"] \notin {"freed twice"}
  /\ pc = "free" => /\ mem["proxy"] # "freed" /\ mem["url_work"] # "freed twice"
                    /\ mem["url_work"] = "freed" =>
                         RefusedOrProxy /\ acted = "none" /\ ret = "failure"
  /\ pc = "exit" => mem["url_work"] # "allocated" /\ mem["proxy"] # "allocated"
  /\ mem["url_work"] = "freed twice" =>
       RefusedOrProxy /\ acted = "none" /\ ret = "failure" /\ pc \in After
  /\ status \in {"success", "failure"} =>
       mem["url_work"] # "allocated" /\ mem["proxy"] # "allocated"

CommandInv == TypeOK /\ Course /\ Decided /\ Target

(* What Free does to each block.                                           *)
LEMMA FreeBlock ==
  ASSUME NEW m \in [Blocks -> {"null", "allocated", "freed", "freed twice"}],
         NEW b \in Blocks
  PROVE  /\ Free(m, b) \in [Blocks -> {"null", "allocated", "freed", "freed twice"}]
         /\ \A c \in Blocks \ {b} : Free(m, b)[c] = m[c]
         /\ m[b] = "null" => Free(m, b)[b] = "null"
         /\ m[b] = "allocated" => Free(m, b)[b] = "freed"
         /\ m[b] \in {"freed", "freed twice"} => Free(m, b)[b] = "freed twice"
  BY DEF Free

(* The outcomes of usbws_client_set_target from a client without memory.   *)
LEMMA SetTargetOutcomes ==
  ASSUME NEW m \in [Blocks -> {"null", "allocated", "freed", "freed twice"}],
         m = [b \in Blocks |-> "null"], NEW out \in SetTarget(m)
  PROVE  /\ out.mem \in [Blocks -> {"null", "allocated", "freed"}]
         /\ out.overrun \in BOOLEAN /\ out.ok \in BOOLEAN
         /\ out.overrun => opts["x"] # Absent
         /\ out.ok => /\ opts["u"] = "good" /\ out.mem["url_work"] = "allocated"
                      /\ out.mem["proxy"] # "freed"
                      /\ opts["x"] # Absent => out.mem["proxy"] = "allocated"
         /\ ~out.ok => /\ out.mem["proxy"] = "null" /\ out.mem["url_work"] # "allocated"
                       /\ out.mem["url_work"] = "freed" =>
                            opts["u"] # "good" \/ opts["x"] # Absent
<1> DEFINE url == Alloc(m, "url_work")
           tmp == Alloc(url, "tmp")
           failed(o) == [o EXCEPT !.mem = Free(@, "url_work")]
<1>1. /\ url \in [Blocks -> {"null", "allocated", "freed"}]
      /\ url["url_work"] = "allocated" /\ url["proxy"] = "null" /\ url["tmp"] = "null"
      /\ tmp \in [Blocks -> {"null", "allocated", "freed"}]
      /\ tmp["url_work"] = "allocated" /\ tmp["proxy"] = "null" /\ tmp["tmp"] = "allocated"
  BY DEF Alloc, Blocks
<1>2. ASSUME NEW o \in SetProxy(url)
      PROVE  /\ o.mem \in [Blocks -> {"null", "allocated", "freed"}]
             /\ o.overrun \in BOOLEAN /\ o.ok \in BOOLEAN
             /\ o.overrun => opts["x"] # Absent
             /\ o.mem["url_work"] = "allocated"
             /\ o.ok => o.mem["proxy"] # "freed"
             /\ o.ok /\ opts["x"] # Absent => o.mem["proxy"] = "allocated"
             /\ ~o.ok => o.mem["proxy"] = "null" /\ opts["x"] # Absent
             /\ failed(o).mem = Free(o.mem, "url_work") /\ failed(o).ok = o.ok
             /\ failed(o).overrun = o.overrun
  <2>1. \/ o = Outcome(url, TRUE, FALSE) /\ opts["x"] = Absent
        \/ o = Outcome(url, FALSE, FALSE) /\ opts["x"] # Absent
        \/ o = Outcome(Free(tmp, "tmp"), FALSE, TRUE) /\ opts["x"] # Absent
        \/ o = Outcome(Alloc(tmp, "proxy"), TRUE, TRUE) /\ opts["x"] # Absent
    BY <1>2 DEF SetProxy
  <2>2. /\ Free(tmp, "tmp") \in [Blocks -> {"null", "allocated", "freed"}]
        /\ Free(tmp, "tmp")["url_work"] = "allocated" /\ Free(tmp, "tmp")["proxy"] = "null"
    BY <1>1 DEF Free, Blocks
  <2>3. /\ Alloc(tmp, "proxy") \in [Blocks -> {"null", "allocated", "freed"}]
        /\ Alloc(tmp, "proxy")["url_work"] = "allocated"
        /\ Alloc(tmp, "proxy")["proxy"] = "allocated"
    BY <1>1 DEF Alloc, Blocks
  <2>4. /\ failed(o).mem = Free(o.mem, "url_work") /\ failed(o).ok = o.ok
        /\ failed(o).overrun = o.overrun
    BY <2>1 DEF Outcome
  <2>5. CASE o = Outcome(url, TRUE, FALSE) /\ opts["x"] = Absent
    <3>1. o.mem = url /\ o.ok = TRUE /\ o.overrun = FALSE
      BY <2>5 DEF Outcome
    <3> QED
      BY <1>1, <2>4, <2>5, <3>1
  <2>6. CASE o = Outcome(url, FALSE, FALSE) /\ opts["x"] # Absent
    <3>1. o.mem = url /\ o.ok = FALSE /\ o.overrun = FALSE
      BY <2>6 DEF Outcome
    <3> QED
      BY <1>1, <2>4, <2>6, <3>1
  <2>7. CASE o = Outcome(Free(tmp, "tmp"), FALSE, TRUE) /\ opts["x"] # Absent
    <3>1. o.mem = Free(tmp, "tmp") /\ o.ok = FALSE /\ o.overrun = TRUE
      BY <2>7 DEF Outcome
    <3> QED
      BY <2>2, <2>4, <2>7, <3>1
  <2>8. CASE o = Outcome(Alloc(tmp, "proxy"), TRUE, TRUE) /\ opts["x"] # Absent
    <3>1. o.mem = Alloc(tmp, "proxy") /\ o.ok = TRUE /\ o.overrun = TRUE
      BY <2>8 DEF Outcome
    <3> QED
      BY <2>3, <2>4, <2>8, <3>1
  <2> QED
    BY <2>1, <2>5, <2>6, <2>7, <2>8
<1>3. CASE out = Outcome(m, FALSE, FALSE)
  BY <1>3 DEF Outcome, Blocks
<1>4. CASE opts["u"] # "good" /\ out = failed(Outcome(url, FALSE, FALSE))
  <2>1. /\ out.mem = Free(url, "url_work") /\ out.ok = FALSE /\ out.overrun = FALSE
    BY <1>4 DEF Outcome
  <2>2. /\ Free(url, "url_work") \in [Blocks -> {"null", "allocated", "freed"}]
        /\ Free(url, "url_work")["url_work"] = "freed"
        /\ Free(url, "url_work")["proxy"] = "null"
    BY <1>1 DEF Free, Blocks
  <2> QED
    BY <1>4, <2>1, <2>2
<1>5. ASSUME opts["u"] = "good", NEW o \in SetProxy(url),
             out = IF o.ok THEN o ELSE failed(o)
      PROVE  /\ out.mem \in [Blocks -> {"null", "allocated", "freed"}]
             /\ out.overrun \in BOOLEAN /\ out.ok \in BOOLEAN
             /\ out.overrun => opts["x"] # Absent
             /\ out.ok => /\ opts["u"] = "good" /\ out.mem["url_work"] = "allocated"
                          /\ out.mem["proxy"] # "freed"
                          /\ opts["x"] # Absent => out.mem["proxy"] = "allocated"
             /\ ~out.ok => /\ out.mem["proxy"] = "null" /\ out.mem["url_work"] # "allocated"
                           /\ out.mem["url_work"] = "freed" =>
                                opts["u"] # "good" \/ opts["x"] # Absent
  <2>1. CASE o.ok
    BY <1>2, <1>5, <2>1
  <2>2. CASE ~o.ok
    <3>1. /\ out.mem = Free(o.mem, "url_work") /\ out.ok = FALSE /\ out.overrun = o.overrun
      BY <1>2, <1>5, <2>2
    <3>2. /\ Free(o.mem, "url_work") \in [Blocks -> {"null", "allocated", "freed"}]
          /\ Free(o.mem, "url_work")["url_work"] = "freed"
          /\ Free(o.mem, "url_work")["proxy"] = o.mem["proxy"]
      <4>1. o.mem \in [Blocks -> {"null", "allocated", "freed"}] /\ o.mem["url_work"] = "allocated"
        BY <1>2
      <4> QED
        BY <4>1 DEF Free, Blocks
    <3> QED
      BY <1>2, <2>2, <3>1, <3>2
  <2> QED
    BY <2>1, <2>2
<1> QED
  BY <1>3, <1>4, <1>5 DEF SetTarget

-----------------------------------------------------------------------------
LEMMA CommandInit ==
  ASSUME Init PROVE CommandInv
<1>1. TypeOK
  <2>1. options \in 0..MaxOptions
    BY CommandConstants DEF Init
  <2>2. opts \in [Kept -> {Absent, "good", "scheme", "syntax"}]
    BY DEF Init
  <2>3. mem \in [Blocks -> {"null", "allocated", "freed", "freed twice"}]
    BY DEF Init
  <2>4. aside \in {"none", "text", "mistaken", "refused"} /\ overrun \in BOOLEAN
    BY DEF Init
  <2> QED
    BY <2>1, <2>2, <2>3, <2>4 DEF Init, TypeOK
<1>2. Course
  BY DEF Init, Course, Before
<1>3. Decided
  BY DEF Init, Decided, After
<1>4. Target
  BY DEF Init, Target, Blocks
<1> QED
  BY <1>1, <1>2, <1>3, <1>4 DEF CommandInv

(* What the end of a command's function decides.                           *)
LEMMA FinishedKeeps ==
  ASSUME CommandInv, NEW r \in {"success", "failure"}, Finish(r),
         pc \in {"main", "options", "parsed", "target", "call"},
         cmd' = cmd, opts' = opts, status' = status, options' \in 0..MaxOptions,
         aside' \in {"none", "text", "mistaken", "refused"}, overrun' \in BOOLEAN,
         acted' \in {"none", "done", "failed"}, acted' # "none" => aside' = "none",
         r = "success" => IF aside' = "none" THEN acted' = "done"
                          ELSE aside' \in {"text", "mistaken"} /\ acted' = "none",
         r = "failure" => acted' # "done" /\ aside' \notin {"text", "mistaken"},
         acted' # "none" => Complete,
         mem' \in [Blocks -> {"null", "allocated", "freed"}],
         overrun' => opts["x"] # Absent,
         pc \notin {"target", "call"} => mem' = mem,
         mem'["proxy"] # "freed",
         mem'["url_work"] = "freed" => RefusedOrProxy /\ acted' = "none" /\ r = "failure"
  PROVE  CommandInv'
<1>1. /\ ret' = r /\ status' = "running"
      /\ pc' = IF cmd \in ClientCommands THEN "free" ELSE "exit"
  BY DEF Finish, CommandInv, Course
<1>2. Complete' = Complete /\ RefusedOrProxy' = RefusedOrProxy
  BY DEF Complete, RefusedOrProxy
<1>3. cmd \notin ClientCommands => mem' = [b \in Blocks |-> "null"]
  BY DEF CommandInv, TypeOK, Course, Before
<1>4. TypeOK'
  <2>1. /\ cmd' \in UsbwsCommands \cup {"unknown", Absent}
        /\ opts' \in [Kept -> {Absent, "good", "scheme", "syntax"}]
    BY DEF CommandInv, TypeOK
  <2>2. mem' \in [Blocks -> {"null", "allocated", "freed", "freed twice"}]
    OBVIOUS
  <2> QED
    BY <1>1, <2>1, <2>2 DEF TypeOK
<1>5. Course'
  BY <1>1, <1>2 DEF Course, Before
<1>6. Decided'
  BY <1>1 DEF Decided
<1>7. Target'
  BY <1>1, <1>2, <1>3 DEF Target, Blocks
<1> QED
  BY <1>4, <1>5, <1>6, <1>7 DEF CommandInv

(* Until set_target there is no memory, and nothing was done.     *)
LEMMA NothingYet ==
  ASSUME CommandInv, pc \in {"main", "options", "parsed", "target"}
  PROVE  /\ mem = [b \in Blocks |-> "null"] /\ mem \in [Blocks -> {"null", "allocated", "freed"}]
         /\ mem["proxy"] = "null" /\ mem["url_work"] = "null"
         /\ overrun = FALSE /\ acted = "none" /\ aside = "none" /\ ret = "failure"
         /\ status = "running"
  BY DEF CommandInv, Course, Before, Blocks

LEMMA MainKeeps ==
  ASSUME CommandInv, Main PROVE CommandInv'
<1>1. pc = "main"
  BY DEF Main
<1>2. CASE cmd \notin UsbwsCommands /\ Finish("failure") /\ UNCHANGED aside
  BY <1>1, <1>2, NothingYet, FinishedKeeps DEF Main, CommandInv, TypeOK
<1>3. CASE cmd \in Printers /\ Finish("success") /\ aside' = "text"
  BY <1>1, <1>3, NothingYet, FinishedKeeps DEF Main, CommandInv, TypeOK
<1>4. CASE cmd \in UsbwsCommands \ Printers /\ pc' = "options" /\ UNCHANGED <<ret, aside>>
  <2>1. UNCHANGED <<cmd, options, opts, mem, acted, overrun, status, ret, aside>> /\ pc' = "options"
    BY <1>4 DEF Main
  <2>2. TypeOK'
    BY <1>4, <2>1 DEF CommandInv, TypeOK
  <2>3. Course' /\ Decided' /\ Target'
    BY <1>1, <2>1, NothingYet DEF CommandInv, Course, Decided, Target, Before, After
  <2> QED
    BY <2>2, <2>3 DEF CommandInv
<1> QED
  BY <1>2, <1>3, <1>4 DEF Main

LEMMA OptionKeeps ==
  ASSUME CommandInv, NEW o \in Letters, NEW form \in {"short", "long"}, NEW v \in Arguments(o),
         \/ OptionHelp(o, form) \/ OptionMistaken(o, form)
         \/ OptionRefused(o, form, v) \/ OptionTaken(o, form, v)
  PROVE  CommandInv'
<1>1. /\ pc = "options" /\ options' \in 0..MaxOptions
      /\ UNCHANGED <<cmd, mem, acted, overrun, status>>
  <2>1. NextOption(o, form)
    BY DEF OptionHelp, OptionMistaken, OptionAside, OptionRefused, OptionTaken
  <2>2. options \in 0..MaxOptions
    BY DEF CommandInv, TypeOK
  <2> QED
    BY <2>1, <2>2, CommandConstants DEF NextOption
<1>2. CASE OptionHelp(o, form) \/ OptionMistaken(o, form)
  BY <1>1, <1>2, NothingYet, FinishedKeeps
     DEF OptionHelp, OptionMistaken, OptionAside, CommandInv, TypeOK
<1>3. CASE OptionRefused(o, form, v)
  BY <1>1, <1>3, NothingYet, FinishedKeeps DEF OptionRefused, CommandInv, TypeOK
<1>4. CASE OptionTaken(o, form, v)
  <2>1. opts' \in [Kept -> {Absent, "good", "scheme", "syntax"}]
    <3>1. opts \in [Kept -> {Absent, "good", "scheme", "syntax"}]
      BY DEF CommandInv, TypeOK
    <3>2. v \in {"good", "scheme", "syntax"}
      BY <1>4 DEF OptionTaken, Arguments
    <3> QED
      BY <1>4, <3>1, <3>2 DEF OptionTaken
  <2>2. UNCHANGED <<pc, ret, aside>>
    BY <1>4 DEF OptionTaken
  <2>3. TypeOK'
    BY <1>1, <2>1, <2>2 DEF CommandInv, TypeOK
  <2>4. Course' /\ Decided' /\ Target'
    BY <1>1, <2>2, NothingYet DEF CommandInv, Course, Decided, Target, Before, After
  <2> QED
    BY <2>3, <2>4 DEF CommandInv
<1> QED
  BY <1>2, <1>3, <1>4

LEMMA OptionsEndKeeps ==
  ASSUME CommandInv, OptionsEnd PROVE CommandInv'
<1>1. /\ pc = "options"
      /\ UNCHANGED <<cmd, options, opts, mem, aside, acted, overrun, status>>
  BY DEF OptionsEnd
<1>2. CASE Complete /\ pc' = "parsed" /\ UNCHANGED ret
  <2>1. Complete'
    BY <1>1, <1>2 DEF Complete
  <2>2. TypeOK'
    BY <1>1, <1>2 DEF CommandInv, TypeOK
  <2>3. Course' /\ Decided' /\ Target'
    BY <1>1, <1>2, <2>1, NothingYet DEF CommandInv, Course, Decided, Target, Before, After
  <2> QED
    BY <2>2, <2>3 DEF CommandInv
<1>3. CASE Finish("failure")
  BY <1>1, <1>3, NothingYet, FinishedKeeps DEF CommandInv, TypeOK
<1> QED
  BY <1>2, <1>3 DEF OptionsEnd

LEMMA ClientSetTargetKeeps ==
  ASSUME CommandInv, ClientSetTarget PROVE CommandInv'
<1>1. /\ pc = "target"
      /\ UNCHANGED <<cmd, options, opts, aside, acted, status>>
  BY DEF ClientSetTarget
<1>2. PICK out \in SetTarget(mem) :
        /\ mem' = out.mem /\ overrun' = out.overrun
        /\ IF out.ok THEN pc' = "call" /\ UNCHANGED ret ELSE Finish("failure")
  BY DEF ClientSetTarget
<1>3. mem = [b \in Blocks |-> "null"]
  BY <1>1, NothingYet
<1>4. /\ mem' \in [Blocks -> {"null", "allocated", "freed"}]
      /\ overrun' \in BOOLEAN /\ out.ok \in BOOLEAN
      /\ overrun' => opts["x"] # Absent
      /\ out.ok => /\ opts["u"] = "good" /\ mem'["url_work"] = "allocated"
                   /\ mem'["proxy"] # "freed"
                   /\ opts["x"] # Absent => mem'["proxy"] = "allocated"
      /\ ~out.ok => /\ mem'["proxy"] = "null" /\ mem'["url_work"] # "allocated"
                    /\ mem'["url_work"] = "freed" => opts["u"] # "good" \/ opts["x"] # Absent
  BY <1>2, <1>3, SetTargetOutcomes DEF CommandInv, TypeOK
<1>5. cmd \in ClientCommands /\ Complete
  BY <1>1 DEF CommandInv, TypeOK, Course
<1>6. CASE out.ok
  <2>1. pc' = "call" /\ UNCHANGED ret
    BY <1>2, <1>6
  <2>2. TypeOK'
    BY <1>1, <1>4, <1>5, <2>1 DEF CommandInv, TypeOK
  <2>3. Complete'
    BY <1>1, <1>5 DEF Complete
  <2>4. Course'
    BY <1>1, <2>1, <2>3, NothingYet DEF Course, Before
  <2>5. Decided' /\ Target'
    BY <1>1, <1>4, <1>6, <2>1, NothingYet DEF Decided, Target, After, Blocks
  <2> QED
    BY <2>2, <2>4, <2>5 DEF CommandInv
<1>7. CASE ~out.ok
  <2>1. Finish("failure")
    BY <1>2, <1>7
  <2>2. mem'["url_work"] = "freed" => RefusedOrProxy
    <3>1. opts["u"] \in {"good", "scheme", "syntax"}
      BY <1>1 DEF CommandInv, TypeOK, Target, Kept
    <3> QED
      BY <1>4, <1>7, <3>1 DEF RefusedOrProxy
  <2> QED
    BY <1>1, <1>4, <1>5, <1>7, <2>1, <2>2, NothingYet, FinishedKeeps DEF CommandInv, TypeOK
<1> QED
  BY <1>4, <1>6, <1>7

LEMMA LibraryCallKeeps ==
  ASSUME CommandInv, LibraryCall, pc \in {"parsed", "call"},
         Complete
  PROVE  CommandInv'
<1>1. UNCHANGED <<cmd, options, opts, mem, aside, overrun, status>>
  BY DEF LibraryCall
<1>2. /\ mem \in [Blocks -> {"null", "allocated", "freed"}]
      /\ mem["proxy"] # "freed" /\ mem["url_work"] # "freed"
      /\ aside = "none" /\ overrun \in BOOLEAN /\ (overrun => opts["x"] # Absent)
  <2>1. CASE pc = "parsed"
    BY <2>1, NothingYet
  <2>2. CASE pc = "call"
    <3>1. /\ mem \in [Blocks -> {"null", "allocated", "freed", "freed twice"}]
          /\ \A b \in Blocks : mem[b] # "freed twice"
          /\ mem["proxy"] # "freed" /\ mem["url_work"] # "freed"
      BY <2>2 DEF CommandInv, TypeOK, Target, Blocks
    <3>2. aside = "none" /\ overrun \in BOOLEAN /\ (overrun => opts["x"] # Absent)
      BY <2>2 DEF CommandInv, TypeOK, Course, Target, Before
    <3> QED
      BY <3>1, <3>2
  <2> QED
    BY <2>1, <2>2
<1>3. options' \in 0..MaxOptions /\ aside' \in {"none", "text", "mistaken", "refused"} /\ overrun' \in BOOLEAN
  BY <1>1 DEF CommandInv, TypeOK
<1>4. CASE acted' = "done" /\ Finish("success")
  BY <1>1, <1>2, <1>3, <1>4, FinishedKeeps
<1>5. CASE acted' = "failed" /\ Finish("failure")
  BY <1>1, <1>2, <1>3, <1>5, FinishedKeeps
<1> QED
  BY <1>4, <1>5 DEF LibraryCall

(* A remote command goes from its options to its target.                   *)
LEMMA GoToTargetKeeps ==
  ASSUME CommandInv, pc = "parsed", cmd \in ClientCommands, GoTo("target"),
         cmd = "list" => opts["l"] = Absent
  PROVE  CommandInv'
<1>1. pc' = "target" /\ UNCHANGED <<cmd, options, opts, mem, ret, aside, acted, overrun, status>>
  BY DEF GoTo
<1>2. Complete /\ Complete'
  BY <1>1 DEF CommandInv, Course, Complete
<1>3. opts["u"] # Absent
  <2>1. CASE cmd = "list"
    <3>1. cmd \notin Connectors
      BY <2>1 DEF Connectors
    <3>2. OptionsOf(cmd).needs = {IF Libusb THEN {"l"} ELSE {"l", "u"}}
      <4>1. OptionsOf(cmd) = ListOptions
        BY <2>1, <3>1 DEF OptionsOf, Binders
      <4> QED
        BY <4>1 DEF ListOptions
    <3>3. \E o \in {"l", "u"} : opts[o] # Absent
      BY <1>2, <3>2 DEF Complete
    <3> QED
      BY <2>1, <3>3
  <2>2. CASE cmd \in Connectors
    <3>1. OptionsOf(cmd).needs = {{"u"}, {"b"}}
      <4>1. cmd \notin Binders /\ cmd \notin {"list", "detach", "port"}
        BY <2>2 DEF Connectors, Binders
      <4>2. OptionsOf(cmd) = ConnectKindOptions
        BY <2>2, <4>1 DEF OptionsOf
      <4> QED
        BY <4>2 DEF ConnectKindOptions, Plain
    <3>2. {"u"} \in OptionsOf(cmd).needs
      BY <3>1
    <3>3. \E o \in {"u"} : opts[o] # Absent
      BY <1>2, <3>2 DEF Complete
    <3> QED
      BY <3>3
  <2> QED
    BY <2>1, <2>2 DEF ClientCommands
<1>4. TypeOK'
  BY <1>1 DEF CommandInv, TypeOK
<1>5. Course'
  BY <1>1, <1>2, NothingYet DEF Course, Before
<1>6. Decided'
  BY <1>1 DEF Decided, After
<1>7. Target'
  BY <1>1, <1>3, NothingYet DEF CommandInv, Target
<1> QED
  BY <1>4, <1>5, <1>6, <1>7 DEF CommandInv

LEMMA FunctionKeeps ==
  ASSUME CommandInv, ConnectKind \/ List \/ BindKind \/ Detach \/ Port PROVE CommandInv'
<1>1. \/ pc = "parsed" /\ cmd \in ClientCommands /\ GoTo("target")
           /\ (cmd = "list" => opts["l"] = Absent)
      \/ pc \in {"parsed", "call"} /\ LibraryCall
  BY DEF ConnectKind, List, BindKind, Detach, Port, Connectors, ClientCommands
<1>2. pc \in {"parsed", "call"} => Complete
  BY DEF CommandInv, Course
<1> QED
  BY <1>1, <1>2, LibraryCallKeeps, GoToTargetKeeps

LEMMA ClientFreeKeeps ==
  ASSUME CommandInv, ClientFree PROVE CommandInv'
<1> DEFINE m == Free(mem, "url_work")
<1>1. /\ pc = "free" /\ pc' = "exit" /\ mem' = Free(m, "proxy")
      /\ UNCHANGED <<cmd, options, opts, ret, aside, acted, overrun, status>>
  BY DEF ClientFree
<1>2. /\ mem \in [Blocks -> {"null", "allocated", "freed", "freed twice"}]
      /\ "url_work" \in Blocks /\ "proxy" \in Blocks /\ "tmp" \in Blocks
      /\ mem["proxy"] \in {"null", "allocated"}
      /\ mem["url_work"] \in {"null", "allocated", "freed"}
      /\ mem["tmp"] # "freed twice"
      /\ mem["url_work"] = "freed" => RefusedOrProxy /\ acted = "none" /\ ret = "failure"
  BY <1>1 DEF CommandInv, TypeOK, Target, Blocks
<1>3. /\ m \in [Blocks -> {"null", "allocated", "freed", "freed twice"}]
      /\ m["proxy"] = mem["proxy"] /\ m["tmp"] = mem["tmp"]
      /\ m["url_work"] # "allocated"
      /\ m["url_work"] = "freed twice" => mem["url_work"] = "freed"
  <2>1. /\ m \in [Blocks -> {"null", "allocated", "freed", "freed twice"}]
        /\ \A c \in Blocks \ {"url_work"} : m[c] = mem[c]
        /\ mem["url_work"] = "null" => m["url_work"] = "null"
        /\ mem["url_work"] = "allocated" => m["url_work"] = "freed"
        /\ mem["url_work"] \in {"freed", "freed twice"} => m["url_work"] = "freed twice"
    BY <1>2, FreeBlock
  <2> HIDE DEF m
  <2> QED
    BY <1>2, <2>1
<1>4. /\ mem' \in [Blocks -> {"null", "allocated", "freed", "freed twice"}]
      /\ mem'["proxy"] \in {"null", "freed"} /\ mem'["tmp"] # "freed twice"
      /\ mem'["url_work"] = m["url_work"]
  <2> DEFINE n == Free(m, "proxy")
  <2> HIDE DEF m
  <2>1. /\ n \in [Blocks -> {"null", "allocated", "freed", "freed twice"}]
        /\ \A c \in Blocks \ {"proxy"} : n[c] = m[c]
        /\ m["proxy"] = "null" => n["proxy"] = "null"
        /\ m["proxy"] = "allocated" => n["proxy"] = "freed"
    BY <1>2, <1>3, FreeBlock
  <2>2. mem' = n
    BY <1>1
  <2> HIDE DEF n
  <2> QED
    BY <1>2, <1>3, <2>1, <2>2
<1>5. Complete' = Complete /\ RefusedOrProxy' = RefusedOrProxy
  BY <1>1 DEF Complete, RefusedOrProxy
<1>6. TypeOK'
  BY <1>1, <1>4 DEF CommandInv, TypeOK
<1>7. Course' /\ Decided'
  BY <1>1, <1>5 DEF CommandInv, Course, Decided, Before, After
<1>8. Target'
  BY <1>1, <1>2, <1>3, <1>4, <1>5 DEF CommandInv, Target, After
<1> QED
  BY <1>6, <1>7, <1>8 DEF CommandInv

LEMMA ExitKeeps ==
  ASSUME CommandInv, Exit PROVE CommandInv'
<1>1. /\ pc = "exit" /\ pc' = "end" /\ status' = ret
      /\ UNCHANGED <<cmd, options, opts, mem, ret, aside, acted, overrun>>
  BY DEF Exit
<1>2. ret \in {"success", "failure"}
  BY DEF CommandInv, TypeOK
<1>3. Complete' = Complete /\ RefusedOrProxy' = RefusedOrProxy
  BY <1>1 DEF Complete, RefusedOrProxy
<1>4. TypeOK'
  BY <1>1, <1>2 DEF CommandInv, TypeOK
<1>5. Course' /\ Decided'
  BY <1>1, <1>2, <1>3 DEF CommandInv, Course, Decided, Before, After
<1>6. Target'
  BY <1>1, <1>3 DEF CommandInv, Target, After
<1> QED
  BY <1>4, <1>5, <1>6 DEF CommandInv

LEMMA AbortKeeps ==
  ASSUME CommandInv, Abort PROVE CommandInv'
<1>1. /\ pc # "end" /\ pc' = "end" /\ status' = "abort" /\ HeapCorrupt
      /\ UNCHANGED <<cmd, options, opts, mem, ret, aside, acted, overrun>>
  BY DEF Abort
<1>2. Complete' = Complete /\ RefusedOrProxy' = RefusedOrProxy
  BY <1>1 DEF Complete, RefusedOrProxy
<1>3. RefusedOrProxy
  BY <1>1 DEF HeapCorrupt, CommandInv, Target, RefusedOrProxy, Blocks
<1>4. pc \in {"call"} \cup After
  <2>1. pc \in {"main", "options", "parsed", "target"} => ~HeapCorrupt
    <3>1. (\A b \in Blocks : mem[b] = "null") => \A b \in Blocks : mem[b] # "freed twice"
      OBVIOUS
    <3> QED
      BY <3>1, NothingYet DEF HeapCorrupt
  <2> QED
    BY <1>1, <2>1 DEF CommandInv, TypeOK, After
<1>5. TypeOK'
  BY <1>1 DEF CommandInv, TypeOK
<1>6. Course' /\ Decided'
  BY <1>1, <1>2, <1>3, <1>4 DEF CommandInv, Course, Decided, Before, After
<1>7. Target'
  BY <1>1, <1>2 DEF CommandInv, Target, After
<1> QED
  BY <1>5, <1>6, <1>7 DEF CommandInv

LEMMA CommandStep ==
  ASSUME CommandInv, [Next]_vars PROVE CommandInv'
<1>1. CASE UNCHANGED vars
  <2>1. Complete' = Complete /\ RefusedOrProxy' = RefusedOrProxy
    BY <1>1 DEF Complete, RefusedOrProxy, vars
  <2>2. UNCHANGED <<cmd, pc, options, opts, mem, ret, aside, acted, overrun, status>>
    BY <1>1 DEF vars
  <2>3. TypeOK'
    <3>1. opts' \in [Kept -> {Absent, "good", "scheme", "syntax"}]
      BY <2>2 DEF CommandInv, TypeOK
    <3>2. mem' \in [Blocks -> {"null", "allocated", "freed", "freed twice"}]
      BY <2>2 DEF CommandInv, TypeOK
    <3>3. /\ cmd' \in UsbwsCommands \cup {"unknown", Absent}
          /\ pc' \in {"options", "parsed"} => cmd' \in UsbwsCommands \ Printers
          /\ pc' \in {"target", "call", "free"} => cmd' \in ClientCommands
      BY <2>2 DEF CommandInv, TypeOK
    <3>4. /\ pc' \in {"main", "options", "parsed", "target", "call", "free", "exit", "end"}
          /\ options' \in 0..MaxOptions /\ ret' \in {"success", "failure"}
          /\ aside' \in {"none", "text", "mistaken", "refused"} /\ overrun' \in BOOLEAN
          /\ acted' \in {"none", "done", "failed"}
          /\ status' \in {"running", "success", "failure", "abort"}
      BY <2>2 DEF CommandInv, TypeOK
    <3> QED
      BY <3>1, <3>2, <3>3, <3>4 DEF TypeOK
  <2>4. Course' /\ Decided'
    <3>1. Course'
      BY <2>1, <2>2 DEF CommandInv, Course
    <3>2. Decided'
      BY <2>1, <2>2 DEF CommandInv, Decided
    <3> QED
      BY <3>1, <3>2
  <2>5. Target'
    BY <2>1, <2>2 DEF CommandInv, Target
  <2> QED
    BY <2>3, <2>4, <2>5 DEF CommandInv
<1>2. ASSUME NEW o \in Letters, NEW form \in {"short", "long"},
             \/ OptionHelp(o, form) \/ OptionMistaken(o, form)
             \/ \E v \in Arguments(o) : OptionRefused(o, form, v) \/ OptionTaken(o, form, v)
      PROVE  CommandInv'
  <2>1. \E v \in Arguments(o) : v = "good"
    BY DEF Arguments
  <2> QED
    BY <1>2, <2>1, OptionKeeps
<1> QED
  BY <1>1, <1>2, MainKeeps, OptionsEndKeeps, FunctionKeeps, ClientSetTargetKeeps,
     ClientFreeKeeps, ExitKeeps, AbortKeeps DEF Next

LEMMA CommandInvariant == Spec => []CommandInv
  BY CommandInit, CommandStep, PTL DEF Spec

-----------------------------------------------------------------------------
(* The program keeps its types: only a command that holds a client reaches *)
(* the labels that free it.                                                *)
THEOREM TypeCorrect == Spec => []TypeOK
  BY CommandInvariant, PTL DEF CommandInv

(* The USB/IP library is called only with all the options the command      *)
(* needs and with every option it was given taken, and a remote command only with a target parsed whole.            *)
THEOREM ActsOnTargetSafe == Spec => []ActsOnTarget
<1>1. CommandInv => ActsOnTarget
  BY DEF CommandInv, Course, Target, ActsOnTarget, Before
<1> QED
  BY <1>1, CommandInvariant, PTL

(* Success means that the library did what the command is for, except with *)
(* text asked for or an option mistaken: then nothing at all was done.     *)
THEOREM ExitTellsOutcomeSafe == Spec => []ExitTellsOutcome
<1>1. ASSUME CommandInv PROVE ExitTellsOutcome
  <2>1. status # "running" => pc = "end"
    BY <1>1 DEF CommandInv, Course
  <2>2. CASE pc = "end"
    BY <1>1, <2>2 DEF CommandInv, Decided, After, ExitTellsOutcome
  <2>3. CASE status = "running"
    BY <2>3 DEF ExitTellsOutcome
  <2> QED
    BY <2>1, <2>2, <2>3
<1> QED
  BY <1>1, CommandInvariant, PTL

(* The target is given back when the command ends by itself, and given     *)
(* back twice only after set_target failed with its memory allocated.      *)
THEOREM TargetReturnedSafe == Spec => []TargetReturned
<1>1. ASSUME CommandInv PROVE TargetReturned
  <2>1. ASSUME NEW b \in Blocks, mem[b] = "freed twice"
        PROVE  b = "url_work" /\ RefusedOrProxy /\ acted = "none" /\ status # "success"
    <3>1. b = "url_work"
      BY <1>1, <2>1 DEF CommandInv, Target, Blocks
    <3>2. RefusedOrProxy /\ acted = "none" /\ ret = "failure" /\ pc \in After
      BY <1>1, <2>1, <3>1 DEF CommandInv, Target
    <3> QED
      BY <1>1, <3>1, <3>2 DEF CommandInv, Decided
  <2> QED
    BY <1>1, <2>1 DEF CommandInv, Target, TargetReturned
<1> QED
  BY <1>1, CommandInvariant, PTL
=============================================================================
