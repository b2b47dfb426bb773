-------------------------- MODULE HostDriver_proofs --------------------------
(***************************************************************************)
(* The driver's waits, for every firmware that answers as far as each      *)
(* theorem says, any lines from the terminal and any timeout.              *)
(***************************************************************************)
EXTENDS HostDriver, SequenceTheorems, TLAPS

-----------------------------------------------------------------------------
(* The list of commands.                                                   *)

LEMMA ScriptFacts ==
  /\ Len(Script) = 6 /\ DOMAIN Script = 1..6
  /\ Script[1] = [clear |-> Bits, cmd |-> "0x21", wait |-> "none"]
  /\ Script[2] = [clear |-> Bits, cmd |-> "0x10", wait |-> "any"]
  /\ Script[3] = [clear |-> Bits, cmd |-> "0x16", wait |-> "any"]
  /\ Script[4] = [clear |-> Bits, cmd |-> "0x25", wait |-> "any"]
  /\ Script[5] = [clear |-> {LoadBit}, cmd |-> "0x3", wait |-> "none"]
  /\ Script[6] = [clear |-> {Ready}, cmd |-> "0x9", wait |-> "ready"]
BY DEF Script

LEMMA CommandFacts ==
  /\ Commands = {"0x21", "0x10", "0x16", "0x25", "0x3", "0x9"}
  /\ Awaited = {"0x10", "0x16", "0x25", "0x9"}
<1>1. Commands = {Script[s].cmd : s \in 1..6} BY ScriptFacts DEF Commands
<1>2. Awaited = {Script[s].cmd : s \in {s \in 1..6 : Script[s].wait # "none"}}
  BY ScriptFacts DEF Awaited
<1>3. 1..6 = {1, 2, 3, 4, 5, 6} OBVIOUS
<1>4. \A c : c \in Commands <=> c \in {"0x21", "0x10", "0x16", "0x25", "0x3", "0x9"}
  BY <1>1, <1>3, ScriptFacts
<1>5. \A c : c \in Awaited <=> c \in {"0x10", "0x16", "0x25", "0x9"}
  BY <1>2, <1>3, ScriptFacts
<1> QED BY <1>4, <1>5

-----------------------------------------------------------------------------
(* Types.                                                                  *)

Lineable == Typed \cup {Empty}
AnyCommand == Commands \cup Typed \cup {Empty}

TypeInv ==
  /\ TypeOK
  /\ job \in AnyCommand \cup {Idle, Starting}
  /\ stdin \in Seq(Typed) /\ buff \in Lineable /\ command \in Lineable
  /\ hpc = "wait" => step \in {2, 3, 4, 6}

LEMMA StepFacts ==
  ASSUME NEW s \in DOMAIN Script
  PROVE  /\ s \in 1..6 /\ Script[s].cmd \in Commands
         /\ Script[s].clear \subseteq Bits
         /\ Script[s].wait \in {"none", "any", "ready"}
         /\ s < Len(Script) <=> s # 6
         /\ Script[s].wait # "none" <=> s \in {2, 3, 4, 6}
         /\ Script[s].wait = "ready" <=> s = 6
<1>1. s \in {1, 2, 3, 4, 5, 6} BY ScriptFacts
<1> QED BY <1>1, ScriptFacts, CommandFacts DEF Bits

LEMMA CounterFacts ==
  /\ 0 \in 0..Timeout /\ 1 \in DOMAIN Script
  /\ \A n \in 0..Timeout : n < Timeout => n + 1 \in 0..Timeout
  /\ \A s \in DOMAIN Script : s # 6 => s + 1 \in DOMAIN Script
BY ScriptFacts, BoundsAssumption

LEMMA GetsTypes ==
  ASSUME stdin \in Seq(Typed), buff \in Lineable, Gets
  PROVE  stdin' \in Seq(Typed) /\ buff' \in Lineable
<1>1. CASE stdin = <<>> BY <1>1 DEF Gets
<1>2. CASE stdin # <<>>
  <2>1. Head(stdin) \in Typed /\ Tail(stdin) \in Seq(Typed) BY <1>2, HeadTailProperties
  <2> QED BY <1>2, <2>1 DEF Gets, Lineable
<1> QED BY <1>1, <1>2

LEMMA TypesInit == ASSUME Init PROVE TypeInv
<1>1. stdin \in Seq(Typed) BY LinesAssumption DEF Init
<1>2. 1 \in DOMAIN Script /\ 0 \in 0..Timeout BY ScriptFacts, BoundsAssumption
<1>3. queue \in Seq(AnyCommand) BY DEF Init
<1> QED BY <1>1, <1>2, <1>3
    DEF Init, TypeInv, TypeOK, AnyCommand, Lineable

LEMMA TypesNext == ASSUME TypeInv, [Next]_vars PROVE TypeInv'
<1> USE DEF TypeInv, TypeOK, AnyCommand
<1>1. /\ 0 \in 0..Timeout /\ 1 \in DOMAIN Script
      /\ tries < Timeout => tries + 1 \in 0..Timeout
      /\ step # 6 => step + 1 \in DOMAIN Script
  BY CounterFacts
<1>2. /\ Script[step].cmd \in Commands /\ (step < Len(Script) <=> step # 6)
      /\ Script[step].wait # "none" => step \in {2, 3, 4, 6}
  BY StepFacts
<1>3. CASE Trigger BY <1>3 DEF Trigger, terminal
<1>4. CASE PromptCommand
  <2>1. stdin' \in Seq(Typed) /\ buff' \in Lineable BY <1>4, GetsTypes DEF PromptCommand
  <2>2. hpc' \in {"prompt", "init", "data"} BY <1>4 DEF PromptCommand
  <2> QED BY <1>1, <1>4, <2>1, <2>2 DEF PromptCommand, firmware
<1>5. CASE SendTyped
  <2>1. stdin' \in Seq(Typed) /\ buff' \in Lineable BY <1>5, GetsTypes DEF SendTyped
  <2>2. queue' \in Seq(AnyCommand)
    <3>1. command \in AnyCommand BY DEF Lineable
    <3> QED BY <1>5, <3>1, AppendProperties DEF SendTyped
  <2> QED BY <1>5, <2>1, <2>2 DEF SendTyped
<1>6. CASE WaitInit
  <2>1. hpc' \in {"init", "clear", "exit"} /\ step' \in DOMAIN Script /\ tries' \in 0..Timeout
    BY <1>1, <1>6 DEF WaitInit, Poll, GoTo
  <2>2. said' = said \/ said' = said \cup {"init timed out"} BY <1>6 DEF WaitInit, Poll, GoTo
  <2> QED BY <1>6, <2>1, <2>2 DEF WaitInit, terminal, firmware
<1>7. CASE ClearReturn
  BY <1>1, <1>7 DEF ClearReturn, GoTo, terminal, firmware
<1>8. CASE WriteCommand
  <2>1. queue' \in Seq(AnyCommand)
    BY <1>2, <1>8, AppendProperties DEF WriteCommand
  <2>2. /\ hpc' \in {"clear", "exit", "wait"} /\ step' \in DOMAIN Script /\ tries' = 0
        /\ hpc' = "wait" => step' \in {2, 3, 4, 6}
        /\ said' = said \/ said' = said \cup {Script[step].cmd}
    BY <1>1, <1>2, <1>8 DEF WriteCommand, NextStep, GoTo
  <2> QED BY <1>1, <1>2, <1>8, <2>1, <2>2 DEF WriteCommand, terminal
<1>9. CASE WaitAnswer
  <2>1. /\ hpc' \in {"clear", "exit", "wait"} /\ step' \in DOMAIN Script /\ tries' \in 0..Timeout
        /\ hpc' = "wait" => step' = step /\ hpc = "wait"
        /\ said' \in {said, said \cup {Script[step].cmd}, said \cup {"timed out"}}
    BY <1>1, <1>2, <1>9 DEF WaitAnswer, Poll, NextStep, GoTo
  <2> QED BY <1>2, <1>9, <2>1 DEF WaitAnswer, terminal, firmware
<1>10. CASE FirmwareReady
  BY <1>10 DEF FirmwareReady, host, terminal, Bits
<1>11. CASE FirmwareTake
  <2>1. Head(queue) \in AnyCommand /\ Tail(queue) \in Seq(AnyCommand)
    BY <1>11, HeadTailProperties DEF FirmwareTake
  <2> QED BY <1>11, <2>1 DEF FirmwareTake, host, terminal
<1>12. CASE FirmwareAnswer
  <2>1. job \in AnyCommand BY <1>12 DEF FirmwareAnswer
  <2>2. \A bits \in Answers[job] : bits \subseteq Bits
    BY <2>1, AnswersAssumption
  <2> QED BY <1>12, <2>1, <2>2 DEF FirmwareAnswer, host, terminal
<1>13. CASE UNCHANGED vars BY <1>13 DEF vars, host, terminal, firmware
<1> QED
  BY <1>3, <1>4, <1>5, <1>6, <1>7, <1>8, <1>9, <1>10, <1>11, <1>12, <1>13
  DEF Next, Host, Firmware

LEMMA TypesInvariant == Spec => []TypeInv
BY TypesInit, TypesNext, PTL DEF Spec

(* Every variable keeps its type, for any lines, answers and timeout.      *)
THEOREM TypeCorrect == Spec => []TypeOK
BY TypesInvariant, PTL DEF TypeInv

-----------------------------------------------------------------------------
(* Whose answer it is.                                                     *)

\* What the driver relies on without waiting: the ready bit stands for the
\* start and for the store, and 0x21 is never answered.
SilentUnawaited ==
  /\ \A bits \in Answers["0x21"] : bits = {}
  /\ \A bits \in Answers["0x3"] : Ready \notin bits

\* Commands whose end is not awaited before step s
Unawaited(s) == IF s = 6 THEN {"0x21", "0x3"} ELSE {"0x21"}

\* RETURN cannot satisfy the wait of step s.
NoAnswer(s) ==
  /\ s \in 1..4 => return = {}
  /\ s = 6 => Ready \notin return

\* The firmware has nothing left but commands that nobody waits for.
OnlyUnawaited(s) ==
  /\ job \in Unawaited(s) \cup {Idle}
  /\ \A i \in DOMAIN queue : queue[i] \in Unawaited(s)

\* The command of step s is the last in the queue, or the firmware's job, and
\* nothing has answered; or it is done, and the firmware has nothing else.
QueuedLast(s) ==
  /\ NoAnswer(s) /\ job \in Unawaited(s) \cup {Idle}
  /\ Len(queue) > 0 /\ queue[Len(queue)] = Script[s].cmd
  /\ \A i \in 1..(Len(queue) - 1) : queue[i] \in Unawaited(s)
Working(s) == NoAnswer(s) /\ job = Script[s].cmd /\ queue = <<>>
Finished(s) == job = Idle /\ queue = <<>> /\ Script[s].cmd \in done

Early == {"trigger", "prompt", "data", "init"}

OwnInv ==
  sent = <<>> =>
    /\ hpc \in Early => queue = <<>> /\ job \in {Idle, Starting}
    /\ hpc = "trigger" => job = Idle
    /\ hpc \in Early \ {"trigger"} /\ job = Starting => return = {}
    /\ hpc \in {"clear", "write"} => OnlyUnawaited(step)
    /\ hpc = "write" => NoAnswer(step)
    /\ hpc = "wait" => QueuedLast(step) \/ Working(step) \/ Finished(step)
    /\ AnswerIsOwn

LEMMA OwnInit == ASSUME Init PROVE OwnInv
BY DEF Init, OwnInv, AnswerIsOwn, Early

\* A wait is over only when its own command is done.
LEMMA AcceptedIsDone ==
  ASSUME TypeInv, OwnInv, sent = <<>>, hpc = "wait", Satisfied(Script[step].wait)
  PROVE  Finished(step)
<1>1. step \in {2, 3, 4, 6} BY DEF TypeInv
<1>2. ~NoAnswer(step) BY <1>1, ScriptFacts DEF NoAnswer, Satisfied
<1> QED BY <1>2 DEF OwnInv, QueuedLast, Working

\* Unawaited commands change nothing that a wait looks at.
LEMMA SilentAnswer ==
  ASSUME SilentUnawaited, TypeInv, NEW s \in 1..6, NoAnswer(s), job \in Unawaited(s),
         FirmwareAnswer
  PROVE  NoAnswer(s)'
<1>1. PICK bits \in Answers[job] : return' = return \cup bits BY DEF FirmwareAnswer
<1>2. s \in 1..4 => bits = {} BY <1>1 DEF SilentUnawaited, Unawaited
<1>3. Ready \notin bits BY <1>1 DEF SilentUnawaited, Unawaited
<1> QED BY <1>1, <1>2, <1>3 DEF NoAnswer

LEMMA OwnFirmware ==
  ASSUME SilentUnawaited, TypeInv, OwnInv, Firmware
  PROVE  OwnInv'
<1> SUFFICES ASSUME sent' = <<>> PROVE OwnInv' BY DEF OwnInv
<1>1. /\ sent = <<>> /\ hpc' = hpc /\ step' = step /\ said' = said
      /\ done \subseteq done'
  BY DEF Firmware, FirmwareReady, FirmwareTake, FirmwareAnswer, host, terminal
<1>2. AnswerIsOwn' BY <1>1 DEF OwnInv, AnswerIsOwn
<1>3. step \in 1..6 /\ queue \in Seq(AnyCommand)
  BY ScriptFacts DEF TypeInv, TypeOK, AnyCommand
<1>4. \A s \in 1..6 : Starting \notin Unawaited(s) \cup {Idle}
  BY DEF Starting, Idle, Unawaited
<1>5. \A s \in 1..6 : Script[s].cmd \notin {Starting, Idle} /\ Idle \notin Unawaited(s)
  <2>1. Commands \cap {Starting, Idle} = {} BY CommandFacts DEF Starting, Idle
  <2> QED BY <2>1, StepFacts, ScriptFacts DEF Unawaited, Idle
<1>6. CASE FirmwareReady
  BY <1>1, <1>2, <1>3, <1>4, <1>5, <1>6
  DEF FirmwareReady, OwnInv, OnlyUnawaited, QueuedLast, Working, Finished, Early, Idle, Starting,
      NoAnswer
<1>7. CASE FirmwareTake
  <2>1. /\ job = Idle /\ queue # <<>> /\ job' = queue[1] /\ return' = return
        /\ Len(queue') = Len(queue) - 1 /\ DOMAIN queue' = 1..(Len(queue) - 1)
        /\ \A i \in DOMAIN queue' : queue'[i] = queue[i + 1]
        /\ Len(queue) \in Nat \ {0} /\ DOMAIN queue = 1..Len(queue) /\ done' = done
        /\ Len(queue) = 1 => queue' = <<>>
    <3>1. Tail(queue) \in Seq(AnyCommand) /\ Len(Tail(queue)) = Len(queue) - 1
      BY <1>3, <1>7, HeadTailProperties DEF FirmwareTake
    <3> QED BY <1>3, <1>7, <3>1, EmptySeq, HeadTailProperties DEF FirmwareTake
  <2>2. hpc \notin Early BY <1>1, <2>1 DEF OwnInv
  <2>3. ASSUME hpc \in {"clear", "write"} PROVE OnlyUnawaited(step)'
    <3>1. OnlyUnawaited(step) BY <1>1, <2>3 DEF OwnInv
    <3> QED BY <1>1, <2>1, <3>1 DEF OnlyUnawaited, Unawaited
  <2>4. ASSUME hpc = "wait" PROVE (QueuedLast(step) \/ Working(step))'
    <3>1. QueuedLast(step) BY <1>1, <1>5, <2>1, <2>4 DEF OwnInv, Working, Finished
    <3>2. NoAnswer(step)' BY <1>1, <2>1, <3>1 DEF QueuedLast, NoAnswer
    <3>3. CASE Len(queue) = 1 BY <1>1, <2>1, <3>1, <3>2, <3>3 DEF QueuedLast, Working
    <3>4. CASE Len(queue) > 1
      <4>1. queue'[Len(queue')] = Script[step].cmd BY <2>1, <3>1, <3>4 DEF QueuedLast
      <4>2. job' \in Unawaited(step) BY <2>1, <3>1, <3>4 DEF QueuedLast
      <4>3. \A i \in 1..(Len(queue') - 1) : queue'[i] \in Unawaited(step)
        BY <2>1, <3>1, <3>4 DEF QueuedLast
      <4> QED BY <1>1, <2>1, <3>2, <3>4, <4>1, <4>2, <4>3 DEF QueuedLast, Unawaited
    <3> QED BY <2>1, <3>3, <3>4
  <2>5. hpc = "write" => NoAnswer(step)' BY <1>1, <2>1 DEF OwnInv, NoAnswer
  <2> QED BY <1>1, <1>2, <2>2, <2>3, <2>4, <2>5 DEF OwnInv, Early
<1>8. CASE FirmwareAnswer
  <2>1. job \notin {Idle, Starting} /\ job' = Idle /\ queue' = queue /\ done' = done \cup {job}
    BY <1>8 DEF FirmwareAnswer
  <2>2. hpc \notin Early BY <1>1, <2>1 DEF OwnInv
  <2>3. ASSUME hpc \in {"clear", "write"}
        PROVE  OnlyUnawaited(step)' /\ (hpc = "write" => NoAnswer(step)')
    <3>1. OnlyUnawaited(step) /\ (hpc = "write" => NoAnswer(step)) BY <1>1, <2>3 DEF OwnInv
    <3>2. job \in Unawaited(step) BY <2>1, <3>1 DEF OnlyUnawaited
    <3>3. hpc = "write" => NoAnswer(step)'
      BY <1>1, <1>3, <1>8, <3>1, <3>2, SilentAnswer DEF NoAnswer
    <3> QED BY <1>1, <2>1, <3>1, <3>3 DEF OnlyUnawaited, Unawaited
  <2>4. ASSUME hpc = "wait" PROVE (QueuedLast(step) \/ Finished(step))'
    <3>1. CASE QueuedLast(step)
      <4>1. job \in Unawaited(step) BY <2>1, <3>1 DEF QueuedLast
      <4>2. NoAnswer(step)' BY <1>1, <1>3, <1>8, <3>1, <4>1, SilentAnswer DEF NoAnswer, QueuedLast
      <4> QED BY <1>1, <2>1, <3>1, <4>2 DEF QueuedLast, Unawaited
    <3>2. CASE Working(step) BY <1>1, <2>1, <3>2 DEF Working, Finished
    <3>3. CASE Finished(step) BY <2>1, <3>3 DEF Finished
    <3> QED BY <1>1, <2>4, <3>1, <3>2, <3>3 DEF OwnInv
  <2> QED BY <1>1, <1>2, <2>2, <2>3, <2>4 DEF OwnInv, Early
<1> QED BY <1>6, <1>7, <1>8 DEF Firmware

LEMMA OwnHost ==
  ASSUME TypeInv, OwnInv, Host
  PROVE  OwnInv'
<1> SUFFICES ASSUME sent' = <<>> PROVE OwnInv' BY DEF OwnInv
<1>1. step \in 1..6 /\ queue \in Seq(AnyCommand) /\ return \subseteq Bits
  BY ScriptFacts DEF TypeInv, TypeOK, AnyCommand
<1>2. "init timed out" \notin Awaited /\ "timed out" \notin Awaited BY CommandFacts
<1>3. CASE Trigger
  BY <1>3 DEF Trigger, terminal, OwnInv, Early, AnswerIsOwn
<1>4. CASE PromptCommand
  <2>1. hpc' \in {"prompt", "init", "data"} BY <1>4 DEF PromptCommand
  <2> QED BY <1>4, <2>1 DEF PromptCommand, firmware, OwnInv, Early, AnswerIsOwn
<1>5. CASE SendTyped
  <2>1. sent \in Seq({<<command, buff'>>}) \/ sent' # <<>> BY <1>5 DEF SendTyped
  <2>2. FALSE BY <1>5, <2>1, AppendProperties DEF SendTyped
  <2> QED BY <2>2
<1>6. CASE WaitInit
  <2>1. sent = <<>> /\ queue' = queue /\ job' = job /\ return' = return /\ done' = done
    BY <1>6 DEF WaitInit, terminal, firmware
  <2>2. hpc = "init" /\ queue = <<>> /\ job \in {Idle, Starting}
        /\ (job = Starting => return = {})
    BY <1>6, <2>1 DEF WaitInit, OwnInv, Early
  <2>3. CASE hpc' = "clear"
    <3>1. Satisfied("ready") /\ step' = 1 /\ said' = said
      BY <1>6, <2>2, <2>3 DEF WaitInit, Poll, GoTo
    <3>2. job = Idle BY <2>2, <3>1 DEF Satisfied
    <3> QED BY <2>1, <2>2, <2>3, <3>1, <3>2 DEF OwnInv, OnlyUnawaited, Early, AnswerIsOwn
  <2>4. CASE hpc' # "clear"
    <3>1. hpc' \in {"init", "exit"} /\ said' \subseteq said \cup {"init timed out"}
      BY <1>6, <2>2, <2>4 DEF WaitInit, Poll, GoTo
    <3>2. AnswerIsOwn' BY <1>2, <2>1, <3>1 DEF OwnInv, AnswerIsOwn
    <3> QED BY <2>1, <2>2, <3>1, <3>2 DEF OwnInv, Early
  <2> QED BY <2>3, <2>4
<1>7. CASE ClearReturn
  <2>1. /\ sent = <<>> /\ queue' = queue /\ job' = job /\ done' = done /\ said' = said
        /\ step' = step /\ hpc = "clear" /\ hpc' = "write"
        /\ return' = return \ Script[step].clear
    BY <1>7 DEF ClearReturn, GoTo, terminal, firmware
  <2>2. OnlyUnawaited(step)' BY <2>1 DEF OwnInv, OnlyUnawaited
  <2>3. NoAnswer(step)' BY <1>1, <2>1, ScriptFacts DEF NoAnswer
  <2> QED BY <2>1, <2>2, <2>3 DEF OwnInv, Early, AnswerIsOwn
<1>8. CASE WriteCommand
  <2> DEFINE c == Script[step].cmd
  <2>1. /\ sent = <<>> /\ job' = job /\ done' = done /\ return' = return
        /\ hpc = "write" /\ queue' = Append(queue, c) /\ OnlyUnawaited(step) /\ NoAnswer(step)
    BY <1>8 DEF WriteCommand, terminal, OwnInv
  <2>2. /\ Len(queue') = Len(queue) + 1 /\ Len(queue) \in Nat /\ DOMAIN queue = 1..Len(queue)
        /\ DOMAIN queue' = 1..Len(queue') /\ queue'[Len(queue')] = c
        /\ \A i \in 1..Len(queue) : queue'[i] = queue[i]
    <3>1. c \in AnyCommand BY <1>1, StepFacts, ScriptFacts DEF AnyCommand
    <3> HIDE DEF c
    <3> QED BY <1>1, <2>1, <3>1, AppendProperties
  <2>3. CASE Script[step].wait = "none"
    <3>1. step \in {1, 5} BY <1>1, <2>3, StepFacts, ScriptFacts
    <3>2. step' = step + 1 /\ hpc' = "clear" /\ said' = said \cup {c}
      BY <1>8, <2>3, <3>1, ScriptFacts DEF WriteCommand, NextStep, GoTo
    <3>3. c \in Unawaited(step + 1) /\ Unawaited(step) \subseteq Unawaited(step + 1)
          /\ c \notin Awaited
      BY <3>1, ScriptFacts, CommandFacts DEF Unawaited
    <3>4. /\ job' \in Unawaited(step + 1) \cup {Idle}
          /\ \A i \in DOMAIN queue' : queue'[i] \in Unawaited(step + 1)
      <4> HIDE DEF c
      <4> QED BY <2>1, <2>2, <3>3 DEF OnlyUnawaited
    <3>5. OnlyUnawaited(step)' BY <3>2, <3>4 DEF OnlyUnawaited, Unawaited
    <3>6. AnswerIsOwn' BY <2>1, <3>2, <3>3 DEF OwnInv, AnswerIsOwn
    <3> QED BY <2>1, <3>2, <3>5, <3>6 DEF OwnInv, Early
  <2>4. CASE Script[step].wait # "none"
    <3>1. step' = step /\ hpc' = "wait" /\ said' = said
      BY <1>8, <2>4 DEF WriteCommand, GoTo
    <3>2. QueuedLast(step)'
      BY <2>1, <2>2, <3>1 DEF OnlyUnawaited, QueuedLast, NoAnswer, Unawaited
    <3>3. AnswerIsOwn' BY <2>1, <3>1 DEF OwnInv, AnswerIsOwn
    <3> QED BY <3>1, <3>2, <3>3 DEF OwnInv, Early
  <2> QED BY <2>3, <2>4
<1>9. CASE WaitAnswer
  <2> DEFINE c == Script[step].cmd
  <2>1. /\ sent = <<>> /\ queue' = queue /\ job' = job /\ done' = done /\ return' = return
        /\ hpc = "wait"
    BY <1>9 DEF WaitAnswer, terminal, firmware
  <2>2. CASE Satisfied(Script[step].wait)
    <3>1. queue = <<>> /\ job = Idle /\ c \in done
      BY <2>1, <2>2, AcceptedIsDone DEF Finished
    <3>2. said' = said \cup {c} /\ hpc' \in {"clear", "exit"}
      BY <1>9, <2>2 DEF WaitAnswer, Poll, NextStep, GoTo
    <3>3. AnswerIsOwn' BY <2>1, <3>1, <3>2 DEF OwnInv, AnswerIsOwn
    <3>4. OnlyUnawaited(step)' BY <2>1, <3>1 DEF OnlyUnawaited
    <3> QED BY <3>2, <3>3, <3>4 DEF OwnInv, Early
  <2>3. CASE ~Satisfied(Script[step].wait)
    <3>1. /\ hpc' \in {"wait", "exit"} /\ step' = step
          /\ said' \subseteq said \cup {"timed out"}
      BY <1>9, <2>1, <2>3 DEF WaitAnswer, Poll, GoTo
    <3>2. AnswerIsOwn' BY <1>2, <2>1, <3>1 DEF OwnInv, AnswerIsOwn
    <3>3. (QueuedLast(step) \/ Working(step) \/ Finished(step))'
      BY <2>1, <3>1 DEF OwnInv, QueuedLast, Working, Finished, NoAnswer
    <3> QED BY <3>1, <3>2, <3>3 DEF OwnInv, Early
  <2> QED BY <2>2, <2>3
<1> QED BY <1>3, <1>4, <1>5, <1>6, <1>7, <1>8, <1>9 DEF Host

(* The driver never goes on before the firmware has done what it was told, *)
(* for every timeout and every firmware that answers 0x21 with nothing and *)
(* the load with anything but the ready bit.                               *)
THEOREM AnswersAreOwn ==
  ASSUME SilentUnawaited
  PROVE  Spec => []AnswerIsOwn
<1>1. Init => TypeInv /\ OwnInv BY TypesInit, OwnInit
<1>2. TypeInv /\ OwnInv /\ [Next]_vars => (TypeInv /\ OwnInv)'
  <2> SUFFICES ASSUME TypeInv, OwnInv, [Next]_vars PROVE OwnInv' BY TypesNext
  <2>1. CASE Host BY <2>1, OwnHost
  <2>2. CASE Firmware BY <2>2, OwnFirmware
  <2>3. CASE UNCHANGED vars
    BY <2>3 DEF vars, host, terminal, firmware, OwnInv, OnlyUnawaited, QueuedLast, Working,
       Finished, NoAnswer, AnswerIsOwn
  <2> QED BY <2>1, <2>2, <2>3 DEF Next
<1>3. TypeInv /\ OwnInv => AnswerIsOwn
  BY DEF OwnInv, AnswerIsOwn
<1> QED BY <1>1, <1>2, <1>3, PTL DEF Spec

-----------------------------------------------------------------------------
(* A wait that gives up.                                                   *)

\* Lines from the terminal are told apart from the driver's commands, and the
\* firmware answers a command that is awaited with some bit.
TypedApart == Commands \cap Lineable = {}
AwaitedAnswered == \A c \in Awaited : {} \notin Answers[c]

\* The firmware has not seen command c.
Unseen(c) ==
  /\ c \notin done /\ job # c
  /\ \A i \in DOMAIN queue : queue[i] # c

\* Commands are written once, in the order of the list; an answer stays in
\* RETURN while the driver waits for it.
UnseenInv ==
  /\ hpc \in Early => step = 1
  /\ hpc \in Early \cup {"clear", "write"} => \A s \in step..6 : Unseen(Script[s].cmd)
  /\ hpc = "wait" =>
       /\ \A s \in (step + 1)..6 : Unseen(Script[s].cmd)
       /\ Script[step].cmd \in done => return # {}
  /\ hpc # "exit" => "timed out" \notin said

LEMMA UnseenInit == ASSUME Init PROVE UnseenInv
<1>1. Commands \cap {Idle, Starting} = {} BY CommandFacts DEF Idle, Starting
<1>2. \A s \in 1..6 : Script[s].cmd # Idle BY <1>1, StepFacts, ScriptFacts
<1> QED BY <1>2 DEF Init, UnseenInv, Unseen, Early

\* The firmware sees only what is queued.
LEMMA UnseenFirmware ==
  ASSUME TypeInv, Firmware, NEW c \in Commands, Unseen(c)
  PROVE  Unseen(c)'
<1>1. c \notin {Idle, Starting} BY CommandFacts DEF Idle, Starting
<1>2. CASE FirmwareTake
  <2>1. queue \in Seq(AnyCommand) BY DEF TypeInv, TypeOK, AnyCommand
  <2>2. job' = queue[1] /\ 1 \in DOMAIN queue /\ done' = done
        /\ \A i \in DOMAIN queue' : i + 1 \in DOMAIN queue /\ queue'[i] = queue[i + 1]
    BY <1>2, <2>1, HeadTailProperties, EmptySeq DEF FirmwareTake
  <2> QED BY <2>2 DEF Unseen
<1>3. CASE FirmwareReady \/ FirmwareAnswer
  BY <1>1, <1>3 DEF FirmwareReady, FirmwareAnswer, Unseen
<1> QED BY <1>2, <1>3 DEF Firmware

\* Of the host, only a write of c, or of a line that reads like c, shows it.
LEMMA UnseenHost ==
  ASSUME TypedApart, TypeInv, Host, NEW c \in Commands, Unseen(c),
         hpc = "write" => c # Script[step].cmd
  PROVE  Unseen(c)'
<1>1. queue \in Seq(AnyCommand) BY DEF TypeInv, TypeOK, AnyCommand
<1>2. ASSUME NEW d, d # c, d \in AnyCommand, queue' = Append(queue, d),
             job' = job, done' = done
      PROVE  Unseen(c)'
  <2>1. \A i \in DOMAIN queue' : queue'[i] = d \/ (i \in DOMAIN queue /\ queue'[i] = queue[i])
    BY <1>1, <1>2, AppendProperties
  <2> QED BY <1>2, <2>1 DEF Unseen
<1>3. CASE SendTyped
  <2>1. command # c /\ command \in AnyCommand
    BY DEF TypedApart, TypeInv, AnyCommand, Lineable
  <2> QED BY <1>2, <1>3, <2>1 DEF SendTyped
<1>4. CASE WriteCommand
  <2>1. Script[step].cmd # c /\ Script[step].cmd \in AnyCommand
    BY <1>4, StepFacts DEF WriteCommand, TypeInv, TypeOK, AnyCommand
  <2> QED BY <1>2, <1>4, <2>1 DEF WriteCommand
<1>5. CASE Trigger
  <2>1. c # Starting BY CommandFacts DEF Starting
  <2> QED BY <1>5, <2>1 DEF Trigger, Unseen
<1>6. CASE PromptCommand \/ WaitInit \/ ClearReturn \/ WaitAnswer
  <2>1. queue' = queue /\ job' = job /\ done' = done
    BY <1>6 DEF PromptCommand, WaitInit, ClearReturn, WaitAnswer, firmware
  <2> QED BY <2>1 DEF Unseen
<1> QED BY <1>3, <1>4, <1>5, <1>6 DEF Host

LEMMA UnseenNext ==
  ASSUME TypedApart, AwaitedAnswered, TypeInv, UnseenInv, [Next]_vars
  PROVE  UnseenInv'
<1>1. step \in 1..6 /\ \A s \in 1..6 : Script[s].cmd \in Commands
  BY StepFacts, ScriptFacts DEF TypeInv, TypeOK
<1>2. /\ step \in step..6 /\ \A s \in step..6 : s \in 1..6
      /\ \A s \in (step + 1)..6 : s \in 1..6 /\ s \in step..6 /\ s # step
  BY <1>1
<1>3. \A s, r \in 1..6 : s # r => Script[s].cmd # Script[r].cmd
  <2>1. 1..6 = {1, 2, 3, 4, 5, 6} OBVIOUS
  <2> QED BY <2>1, ScriptFacts
<1>4. ASSUME Host, NEW s \in 1..6, Unseen(Script[s].cmd), hpc = "write" => s # step
      PROVE  Unseen(Script[s].cmd)'
  <2>1. Script[s].cmd \in Commands BY <1>1
  <2>2. hpc = "write" => Script[s].cmd # Script[step].cmd BY <1>1, <1>3, <1>4
  <2> QED BY <1>4, <2>1, <2>2, UnseenHost
<1>5. CASE Trigger \/ PromptCommand \/ SendTyped \/ ClearReturn
  <2>1. hpc \in {"trigger", "prompt", "data", "clear"} /\ step' = step /\ said' = said
    BY <1>5 DEF Trigger, PromptCommand, SendTyped, ClearReturn
  <2>2. hpc' \in Early \cup {"write"} /\ (hpc = "clear" <=> hpc' = "write")
    BY <1>5 DEF Trigger, PromptCommand, SendTyped, ClearReturn, GoTo, Early
  <2>3. \A s \in step..6 : Unseen(Script[s].cmd)'
    BY <1>2, <1>4, <1>5, <2>1 DEF Host, UnseenInv, Early
  <2> QED BY <2>1, <2>2, <2>3 DEF UnseenInv, Early, Unseen
<1>6. CASE WaitInit
  <2>1. hpc = "init" /\ step = 1 /\ "timed out" \notin said
    BY <1>6 DEF WaitInit, UnseenInv, Early
  <2>2. step' = 1 /\ hpc' \in {"init", "clear", "exit"} /\ (hpc' # "exit" => said' = said)
    BY <1>6, <2>1 DEF WaitInit, Poll, GoTo
  <2>3. \A s \in 1..6 : Unseen(Script[s].cmd)'
    BY <1>4, <1>6, <2>1 DEF Host, UnseenInv, Early
  <2> QED BY <2>1, <2>2, <2>3 DEF UnseenInv, Early, Unseen
<1>7. CASE WriteCommand
  <2>1. hpc = "write" /\ done' = done /\ "timed out" \notin said BY <1>7 DEF WriteCommand, UnseenInv
  <2>2. \A s \in (step + 1)..6 : Unseen(Script[s].cmd)'
    BY <1>2, <1>4, <1>7, <2>1 DEF Host, UnseenInv
  <2>3. Script[step].cmd \notin done BY <1>2, <2>1 DEF UnseenInv, Unseen
  <2>4. CASE hpc' = "wait"
    <3>1. step' = step /\ said' = said
      BY <1>7, <2>4 DEF WriteCommand, NextStep, GoTo
    <3> QED BY <2>1, <2>2, <2>3, <2>4, <3>1 DEF UnseenInv, Early, Unseen
  <2>5. CASE hpc' # "wait"
    <3>1. said' = said \cup {Script[step].cmd} /\ hpc' \in {"clear", "exit"}
          /\ (hpc' = "clear" => step' = step + 1)
      BY <1>7, <2>5 DEF WriteCommand, NextStep, GoTo
    <3>2. "timed out" # Script[step].cmd BY <1>1, CommandFacts
    <3> QED BY <2>1, <2>2, <2>5, <3>1, <3>2 DEF UnseenInv, Early, Unseen
  <2> QED BY <2>4, <2>5
<1>8. CASE WaitAnswer
  <2>1. hpc = "wait" /\ done' = done /\ return' = return /\ "timed out" \notin said
    BY <1>8 DEF WaitAnswer, firmware, UnseenInv
  <2>2. \A s \in (step + 1)..6 : Unseen(Script[s].cmd)'
    BY <1>2, <1>4, <1>8, <2>1 DEF Host, UnseenInv
  <2>3. \/ hpc' = "wait" /\ step' = step /\ said' = said
        \/ hpc' = "clear" /\ step' = step + 1 /\ said' = said \cup {Script[step].cmd}
        \/ hpc' = "exit"
    BY <1>8, <2>1 DEF WaitAnswer, Poll, NextStep, GoTo
  <2>4. "timed out" # Script[step].cmd BY <1>1, CommandFacts
  <2> QED BY <2>1, <2>2, <2>3, <2>4 DEF UnseenInv, Early, Unseen
<1>9. CASE Firmware
  <2>1. hpc' = hpc /\ step' = step /\ said' = said /\ return \subseteq return'
    BY <1>9 DEF Firmware, FirmwareReady, FirmwareTake, FirmwareAnswer, host
  <2>2. \A s \in 1..6 : Unseen(Script[s].cmd) => Unseen(Script[s].cmd)'
    BY <1>1, <1>9, UnseenFirmware
  <2>3. hpc = "wait" /\ Script[step].cmd \in done' => return' # {}
    <3>1. CASE job = Script[step].cmd /\ FirmwareAnswer /\ hpc = "wait"
      <4>1. Script[step].cmd \in Awaited
        <5>1. step \in {2, 3, 4, 6} BY <3>1 DEF TypeInv
        <5> QED BY <5>1, ScriptFacts, CommandFacts
      <4> QED BY <3>1, <4>1 DEF FirmwareAnswer, AwaitedAnswered
    <3>2. CASE ~(job = Script[step].cmd /\ FirmwareAnswer /\ hpc = "wait")
      <4>1. hpc = "wait" /\ Script[step].cmd \in done' => Script[step].cmd \in done
        BY <1>9, <3>2 DEF Firmware, FirmwareReady, FirmwareTake, FirmwareAnswer
      <4> QED BY <2>1, <4>1 DEF UnseenInv
    <3> QED BY <3>1, <3>2
  <2>4. /\ hpc \in Early \cup {"clear", "write"} => \A s \in step..6 : Unseen(Script[s].cmd)'
        /\ hpc = "wait" => \A s \in (step + 1)..6 : Unseen(Script[s].cmd)'
    BY <1>2, <2>2 DEF UnseenInv
  <2> QED BY <2>1, <2>3, <2>4 DEF UnseenInv, Unseen
<1>10. CASE UNCHANGED vars
  BY <1>10 DEF vars, host, firmware, UnseenInv, Unseen
<1> QED BY <1>5, <1>6, <1>7, <1>8, <1>9, <1>10 DEF Next, Host

(* A wait gives up only when its command is not done, or, for the store,   *)
(* when other bits stand in RETURN: for any timeout and any lines that are *)
(* not the driver's own commands, if the firmware answers what is awaited. *)
THEOREM GivesUpRightly ==
  ASSUME TypedApart, AwaitedAnswered
  PROVE  Spec => GivesUpUnanswered
<1> DEFINE Unanswered ==
      hpc = "wait" /\ hpc' = "exit" /\ "timed out" \in said' =>
        \/ Script[step].cmd \notin done
        \/ Script[step].wait = "ready" /\ return \notin {{}, {Ready}}
<1>1. Init => TypeInv /\ UnseenInv BY TypesInit, UnseenInit
<1>2. TypeInv /\ UnseenInv /\ [Next]_vars => (TypeInv /\ UnseenInv)' BY TypesNext, UnseenNext
<1>3. TypeInv /\ UnseenInv /\ [Next]_vars => [Unanswered]_vars
  <2> SUFFICES ASSUME TypeInv, UnseenInv, [Next]_vars, hpc = "wait", hpc' = "exit",
                      "timed out" \in said'
               PROVE  \/ Script[step].cmd \notin done
                      \/ Script[step].wait = "ready" /\ return \notin {{}, {Ready}}
    OBVIOUS
  <2>1. WaitAnswer
    BY DEF Next, Host, Firmware, Trigger, PromptCommand, SendTyped, WaitInit, ClearReturn,
       WriteCommand, FirmwareReady, FirmwareTake, FirmwareAnswer, vars, host
  <2>2. "timed out" \notin said BY DEF UnseenInv
  <2>3. Script[step].cmd # "timed out" /\ step \in {2, 3, 4, 6}
    BY StepFacts, CommandFacts DEF TypeInv, TypeOK
  <2>4. ~Satisfied(Script[step].wait)
    BY <2>1, <2>2, <2>3 DEF WaitAnswer, Poll, NextStep, GoTo
  <2>5. Script[step].cmd \in done => return # {} BY DEF UnseenInv
  <2>6. Script[step].wait \in {"any", "ready"} BY <2>3, StepFacts DEF TypeInv, TypeOK
  <2> QED BY <2>4, <2>5, <2>6 DEF Satisfied
<1> QED BY <1>1, <1>2, <1>3, PTL DEF Spec, GivesUpUnanswered
=============================================================================
