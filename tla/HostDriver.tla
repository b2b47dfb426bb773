----------------------------- MODULE HostDriver -----------------------------
(***************************************************************************)
(* loader_firmware/fucload.c after the upload: doit() starts the two       *)
(* engines and hands lines from the terminal to the firmware as commands;  *)
(* the line ffff starts dev_start_microcode(), which drives the firmware   *)
(* through a fixed list of commands and polls register 0x800 (RETURN) for  *)
(* its answers.                                                            *)
(*                                                                         *)
(* Each register access of the host is an action of its own, and the       *)
(* firmware works between any two of them.  RETURN is a set of bits: the   *)
(* driver waits for exactly bit 0, or for any bit, and clears some or all  *)
(* through register 0x840.  The firmware is not part of the repository; it *)
(* is what the driver takes it for: it says once that it is ready, takes   *)
(* the commands in order, and sets bits in RETURN when it has done one.    *)
(*                                                                         *)
(* Left out: the debug output and the registers that are only printed, and *)
(* the words written to 0x614 and 0x40802c.                                *)
(***************************************************************************)
EXTENDS Naturals, Sequences

CONSTANTS
  Ready,       \* the bit 0x1 of RETURN
  LoadBit,     \* a bit of 0x30
  OtherBit,    \* any other bit
  Answers,     \* [command -> sets of bits with which the firmware may answer]
  Lines,       \* the lines that stdin may hold, one of these sequences
  Empty,       \* what buff holds before the first line
  DebugLine, DriverLine,   \* ff, ffff
  Timeout,     \* 0x200000, the reads of a wait that may fail before the last
  MaxSent      \* bound: commands sent from the terminal

Bits == {Ready, LoadBit, OtherBit}

(* The list of dev_start_microcode(), dev_load_ctx() and dev_store_ctx():  *)
(* what each step clears, the command it writes, and the wait after it.    *)
Script ==
  << [clear |-> Bits,      cmd |-> "0x21", wait |-> "none"],
     [clear |-> Bits,      cmd |-> "0x10", wait |-> "any"],
     [clear |-> Bits,      cmd |-> "0x16", wait |-> "any"],
     [clear |-> Bits,      cmd |-> "0x25", wait |-> "any"],
     [clear |-> {LoadBit}, cmd |-> "0x3",  wait |-> "none"],
     [clear |-> {Ready},   cmd |-> "0x9",  wait |-> "ready"] >>

Commands == {Script[s].cmd : s \in DOMAIN Script}

\* A typed line is the number it holds, as data or as a command.
Typed == UNION {{l[k] : k \in DOMAIN l} : l \in Lines}

ASSUME AnswersAssumption == Answers \in [Commands \cup Typed \cup {Empty} -> SUBSET (SUBSET Bits)]
ASSUME LinesAssumption == \A l \in Lines : l \in Seq(Typed)
ASSUME BoundsAssumption == Timeout \in Nat /\ MaxSent \in Nat

VARIABLES
  hpc,         \* where the host is
  step,        \* its step in Script
  tries,       \* reads of RETURN in the present wait
  said,        \* what it has printed
  stdin,       \* lines not yet read
  buff,        \* doit()'s buffer
  command,     \* doit()'s command
  sent,        \* pairs sent from the terminal
  return,      \* register 0x800
  queue,       \* commands the firmware has not taken
  job,         \* what the firmware works on
  done         \* what it has done

host == <<hpc, step, tries, said>>
terminal == <<stdin, buff, command, sent>>
firmware == <<queue, job, done>>
vars == <<host, terminal, return, firmware>>

Idle == "idle"
Starting == "starting"

-----------------------------------------------------------------------------
(* The firmware (external).                                                *)

FirmwareReady ==
  /\ job = Starting
  /\ job' = Idle
  /\ return' = return \cup {Ready}
  /\ UNCHANGED <<host, terminal, queue, done>>

FirmwareTake ==
  /\ job = Idle /\ queue # <<>>
  /\ job' = Head(queue)
  /\ queue' = Tail(queue)
  /\ UNCHANGED <<host, terminal, return, done>>

FirmwareAnswer ==
  /\ job \notin {Idle, Starting}
  /\ \E bits \in Answers[job] : return' = return \cup bits
  /\ done' = done \cup {job}
  /\ job' = Idle
  /\ UNCHANGED <<host, terminal, queue>>

Firmware == FirmwareReady \/ FirmwareTake \/ FirmwareAnswer

-----------------------------------------------------------------------------
(* doit().                                                                 *)

\* The scratch register is cleared, and then the engines are triggered.
Trigger ==
  /\ hpc = "trigger"
  /\ return' = {}
  /\ job' = Starting
  /\ hpc' = "prompt"
  /\ UNCHANGED <<step, tries, said, terminal, queue, done>>

\* fgets(): at the end of the file buff keeps what it has.
Gets ==
  /\ buff' = IF stdin = <<>> THEN buff ELSE Head(stdin)
  /\ stdin' = IF stdin = <<>> THEN <<>> ELSE Tail(stdin)

PromptCommand ==
  /\ hpc = "prompt"
  /\ Gets
  /\ command' = buff'
  /\ hpc' = IF buff' = DebugLine THEN "prompt"
            ELSE IF buff' = DriverLine THEN "init" ELSE "data"
  /\ tries' = 0
  /\ UNCHANGED <<step, said, sent, return, firmware>>

\* The second line is the data; then command and data are written.
SendTyped ==
  /\ hpc = "data" /\ Len(sent) < MaxSent
  /\ Gets
  /\ sent' = Append(sent, <<command, buff'>>)
  /\ queue' = Append(queue, command)
  /\ hpc' = "prompt"
  /\ UNCHANGED <<step, tries, said, command, return, job, done>>

-----------------------------------------------------------------------------
(* dev_start_microcode().                                                  *)

\* Fault variant of Satisfied: NV_WAIT_NEQ() compares like NV_WAIT().
SatisfiedExactly(wait) == return = {Ready}

\* What a wait wants to read in RETURN: NV_WAIT() exactly the bit 0x1,
\* NV_WAIT_NEQ() any bit
Satisfied(wait) == IF wait = "ready" THEN return = {Ready} ELSE return # {}

\* Fault variant of Poll: the reads are not counted.
PollForever(wait, success, failure) ==
  \/ Satisfied(wait) /\ success
  \/ ~Satisfied(wait) /\ UNCHANGED <<hpc, step, tries, said>>

\* Fault variant of Poll: one read more
PollOnceMore(wait, success, failure) ==
  \/ Satisfied(wait) /\ success
  \/ /\ ~Satisfied(wait) /\ tries =< Timeout
     /\ tries' = tries + 1
     /\ UNCHANGED <<hpc, step, said>>
  \/ ~Satisfied(wait) /\ tries > Timeout /\ failure

\* One round of a wait: both kinds read Timeout + 1 times.
Poll(wait, success, failure) ==
  \/ /\ Satisfied(wait)
     /\ success
  \/ /\ ~Satisfied(wait) /\ tries < Timeout
     /\ tries' = tries + 1
     /\ UNCHANGED <<hpc, step, said>>
  \/ /\ ~Satisfied(wait) /\ tries = Timeout
     /\ failure

GoTo(place) == hpc' = place /\ tries' = 0

\* The first wait, for the firmware to be ready
WaitInit ==
  /\ hpc = "init"
  /\ Poll("ready",
          GoTo("clear") /\ step' = 1 /\ UNCHANGED said,
          GoTo("exit") /\ said' = said \cup {"init timed out"} /\ UNCHANGED step)
  /\ UNCHANGED <<terminal, return, firmware>>

\* Fault variant of ClearReturn: nothing is cleared.
ClearNothing ==
  /\ hpc = "clear"
  /\ GoTo("write")
  /\ UNCHANGED <<step, said, terminal, return, firmware>>

ClearReturn ==
  /\ hpc = "clear"
  /\ return' = return \ Script[step].clear
  /\ GoTo("write")
  /\ UNCHANGED <<step, said, terminal, firmware>>

\* Step s is over, having said so; the list goes on or ends.
NextStep(news) ==
  /\ IF step < Len(Script)
     THEN GoTo("clear") /\ step' = step + 1
     ELSE GoTo("exit") /\ UNCHANGED step
  /\ said' = said \cup {news}

\* WRDATA and WRCMD; without a wait the end of the command is printed.
WriteCommand ==
  /\ hpc = "write"
  /\ queue' = Append(queue, Script[step].cmd)
  /\ IF Script[step].wait = "none"
     THEN NextStep(Script[step].cmd)
     ELSE GoTo("wait") /\ UNCHANGED <<step, said>>
  /\ UNCHANGED <<terminal, return, job, done>>

\* A failed wait ends dev_start_microcode().
WaitAnswer ==
  /\ hpc = "wait"
  /\ Poll(Script[step].wait,
          NextStep(Script[step].cmd),
          GoTo("exit") /\ said' = said \cup {"timed out"} /\ UNCHANGED step)
  /\ UNCHANGED <<terminal, return, firmware>>

-----------------------------------------------------------------------------
Init ==
  /\ hpc = "trigger" /\ step = 1 /\ tries = 0 /\ said = {}
  /\ stdin \in Lines /\ buff = Empty /\ command = Empty /\ sent = <<>>
  /\ return \in SUBSET Bits        \* left by whatever ran before
  /\ queue = <<>> /\ job = Idle /\ done = {}

Host ==
  \/ Trigger \/ PromptCommand \/ SendTyped
  \/ WaitInit \/ ClearReturn \/ WriteCommand \/ WaitAnswer

Next == Host \/ Firmware

\* The host's program runs on; nothing is assumed of the firmware.
Spec == Init /\ [][Next]_vars /\ WF_vars(Host)

-----------------------------------------------------------------------------
TypeOK ==
  /\ hpc \in {"trigger", "prompt", "data", "init", "clear", "write", "wait", "exit"}
  /\ step \in DOMAIN Script /\ tries \in 0..Timeout
  /\ said \subseteq Commands \cup {"init timed out", "timed out"}
  /\ return \subseteq Bits
  /\ queue \in Seq(Commands \cup Typed \cup {Empty})
  /\ done \subseteq Commands \cup Typed \cup {Empty}

Awaited == {Script[s].cmd : s \in {s \in DOMAIN Script : Script[s].wait # "none"}}

(* When nothing was sent from the terminal and 0x21 sets no bit, an answer *)
(* that a wait accepts is the answer to its own command:                   *)
(* dev_start_microcode() never goes on before the firmware has done what   *)
(* it was told, though RETURN does not say which command a bit answers.    *)
AnswerIsOwn == \A c \in Awaited : sent = <<>> /\ c \in said => c \in done

(* A wait that gives up has not missed an answer: it was not there at the  *)
(* last read, because RETURN is cleared before the command is written and  *)
(* not behind it.  But the last wait compares RETURN with the one bit it   *)
(* expects: after a late answer to the load, or of whatever the terminal   *)
(* has sent, it gives up on a store that is done.                          *)
GivesUpUnanswered ==
  [][ hpc = "wait" /\ hpc' = "exit" /\ "timed out" \in said' =>
        \/ Script[step].cmd \notin done
        \/ Script[step].wait = "ready" /\ return \notin {{}, {Ready}} ]_vars

(* Whatever the firmware does, a driver run ends: every wait gives up.     *)
DriverEnds == hpc = "init" ~> hpc = "exit"
=============================================================================
