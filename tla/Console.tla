-------------------------------- MODULE Console --------------------------------
(***************************************************************************)
(* internal/console: the pipe that Setup puts under fd 1 and 2, the        *)
(* goroutine drain that copies it to both consoles, and what the boot      *)
(* goroutine does besides printing: Fatal, which goes around the pipe, and *)
(* Flush, which waits for it before reboot(2).                             *)
(*                                                                         *)
(* Everything PID 1 and the workload print goes through the pipe, so a     *)
(* pipe nobody reads stops all of them.  A write is one line, named after  *)
(* its writer; the pipe holds PipeCap of them, drain's buffer BufCap.      *)
(***************************************************************************)
EXTENDS Naturals, Sequences, SequencesExt, SeqWithout

CONSTANTS
  Writer,    \* the goroutines and processes that write to fd 1 and 2
  Main,      \* the boot goroutine, which is one of them
  Reason,    \* what Fatal is given to print
  PipeCap,   \* the capacity of the pipe (64 KiB)
  BufCap,    \* drainBufSize
  MaxLines   \* bound: lines printed

ASSUME ConsoleAssumption ==
  /\ Main \in Writer /\ Reason \notin Writer
  /\ PipeCap \in Nat \ {0} /\ BufCap \in Nat \ {0} /\ MaxLines \in Nat

\* realConsoles: the console of the kernel, then /dev/tty0.
Console == {1, 2}

VARIABLES
  main,      \* the step the boot goroutine is at
  piped,     \* Setup has succeeded
  writing,   \* the writers that are inside write(2)
  pipe,      \* the lines not yet read
  buf, at,   \* drain's buffer, and the console it goes to next (0: it reads)
  device,    \* what a write to each console does: succeed, fail or block
  shown,     \* the lines each console has shown, until it first fails
  log,       \* all lines that were written
  lossy,     \* the consoles that have failed a write
  expired    \* Flush gave up

drainVars == <<buf, at>>
history   == <<log, lossy>>
vars == <<main, piped, writing, pipe, drainVars, device, shown, history, expired>>

TypeOK ==
  /\ main \in {"setup", "run", "flush", "grace", "down", "fatal", "fatal2", "hung"}
  /\ piped \in BOOLEAN /\ expired \in BOOLEAN
  /\ writing \in SUBSET Writer
  /\ pipe \in Seq(Writer) /\ Len(pipe) <= PipeCap
  /\ buf \in Seq(Writer) /\ Len(buf) <= BufCap
  /\ at \in Console \cup {0}
  /\ at # 0 => buf # <<>>
  /\ device \in [Console -> {"works", "fails", "blocks"}]
  /\ shown \in [Console -> Seq(Writer \cup {Reason})]
  /\ log \in Seq(Writer)
  /\ lossy \in SUBSET Console

Init ==
  /\ main = "setup" /\ piped = FALSE /\ writing = {}
  /\ pipe = <<>> /\ buf = <<>> /\ at = 0
  /\ device = [d \in Console |-> "works"]
  /\ shown = [d \in Console |-> <<>>]
  /\ log = <<>> /\ lossy = {} /\ expired = FALSE

Up == main # "down"

\* No /dev/tty0, or a step of Setup that fails, leaves fd 1 and 2 alone.
Setup ==
  /\ main = "setup"
  /\ main' = "run"
  /\ piped' \in BOOLEAN
  /\ UNCHANGED <<writing, pipe, drainVars, device, shown, history, expired>>

\* A console comes back, goes (a VT switch, a hung-up line) or is held (XOFF).
DeviceChanges(d, to) ==
  /\ Up
  /\ device' = [device EXCEPT ![d] = to]
  /\ UNCHANGED <<main, piped, writing, pipe, drainVars, shown, history, expired>>

\* One write to a console that does not block.  A console that fails may still
\* show a part of what it was given: it is no longer followed.
Put(d, lines) ==
  /\ device[d] # "blocks"
  /\ IF device[d] = "works" /\ d \notin lossy
       THEN shown' = [shown EXCEPT ![d] = @ \o lines] /\ UNCHANGED lossy
       ELSE shown' = [shown EXCEPT ![d] = <<>>] /\ lossy' = lossy \cup {d}

-------------------------------------------------------------------------------
(***************************************************************************)
(* The writers.  write(2) returns once the line is in the pipe; without a  *)
(* pipe, once the kernel's console has taken or refused it.                *)
(***************************************************************************)
Println(w) ==
  /\ Up /\ main # "setup" /\ w \notin writing
  /\ w = Main => main = "run"
  /\ Len(log) < MaxLines
  /\ writing' = writing \cup {w}
  /\ UNCHANGED <<main, piped, pipe, drainVars, device, shown, history, expired>>

UnboundedWrite(w) ==
  /\ pipe' = Append(pipe, w)
  /\ UNCHANGED <<shown, lossy>>

PipeWrite(w) ==
  /\ Len(pipe) < PipeCap
  /\ pipe' = Append(pipe, w)
  /\ UNCHANGED <<shown, lossy>>

Write(w) ==
  /\ Up /\ w \in writing
  /\ IF piped THEN PipeWrite(w) ELSE Put(1, <<w>>) /\ UNCHANGED pipe
  /\ log' = Append(log, w)
  /\ writing' = writing \ {w}
  /\ UNCHANGED <<main, piped, drainVars, device, expired>>

-------------------------------------------------------------------------------
(***************************************************************************)
(* drain: read what there is, write it to one console and then the other,  *)
(* and never mind what either of them says.                                *)
(***************************************************************************)
Taken == IF Len(pipe) < BufCap THEN Len(pipe) ELSE BufCap

Read ==
  /\ Up /\ at = 0 /\ pipe # <<>>
  /\ buf' = SubSeq(pipe, 1, Taken)
  /\ pipe' = SubSeq(pipe, Taken + 1, Len(pipe))
  /\ at' = 1
  /\ UNCHANGED <<main, piped, writing, device, shown, history, expired>>

CopyStopsOnError ==
  /\ Up /\ at # 0 /\ device[at] = "works"
  /\ Put(at, buf)
  /\ at' = (at + 1) % 3
  /\ UNCHANGED <<main, piped, writing, pipe, buf, device, log, expired>>

CopyToFirstOnly ==
  /\ Up /\ at # 0
  /\ Put(at, buf)
  /\ at' = 0
  /\ UNCHANGED <<main, piped, writing, pipe, buf, device, log, expired>>

Copy ==
  /\ Up /\ at # 0
  /\ Put(at, buf)
  /\ at' = (at + 1) % 3
  /\ UNCHANGED <<main, piped, writing, pipe, buf, device, log, expired>>

-------------------------------------------------------------------------------
(***************************************************************************)
(* The boot goroutine: power.Do calls Flush, which polls the pipe until it *)
(* is empty or flushTimeout has passed, then lingers for flushGrace.       *)
(***************************************************************************)
Advance(from, to) ==
  /\ main = from /\ Main \notin writing
  /\ main' = to
  /\ UNCHANGED <<piped, writing, pipe, drainVars, device, log>>

Do == Advance("run", "flush") /\ UNCHANGED <<shown, lossy, expired>>

FlushNow == Advance("flush", "grace") /\ UNCHANGED <<shown, lossy, expired>>

FlushSeesEmpty ==
  /\ pipe = <<>>
  /\ Advance("flush", "grace") /\ UNCHANGED <<shown, lossy, expired>>

FlushExpires ==
  /\ Advance("flush", "grace")
  /\ expired' = TRUE
  /\ UNCHANGED <<shown, lossy>>

\* reboot(2), whose failure the caller hands to Fatal.
DoReboot ==
  /\ \E to \in {"down", "fatal"} : Advance("grace", to)
  /\ UNCHANGED <<shown, lossy, expired>>

(***************************************************************************)
(* Fatal: io.MultiWriter over the consoles themselves, which stops at the  *)
(* first that fails; PID 1 then hangs.                                     *)
(***************************************************************************)
Fatal == Advance("run", "fatal") /\ UNCHANGED <<shown, lossy, expired>>

FatalFirst ==
  /\ Put(1, <<Reason>>)
  /\ Advance("fatal", IF piped /\ device[1] = "works" THEN "fatal2" ELSE "hung")
  /\ UNCHANGED expired

FatalSecond ==
  /\ Put(2, <<Reason>>)
  /\ Advance("fatal2", "hung")
  /\ UNCHANGED expired

-------------------------------------------------------------------------------
MainStep ==
  \/ Setup \/ FlushSeesEmpty \/ FlushExpires \/ DoReboot
  \/ FatalFirst \/ FatalSecond

Next ==
  \/ MainStep \/ Do \/ Fatal
  \/ Read \/ Copy
  \/ \E w \in Writer : Println(w) \/ Write(w)
  \/ \E d \in Console, to \in {"works", "fails", "blocks"} : DeviceChanges(d, to)

Spec == Init /\ [][Next]_vars

\* Goroutines run, timers fire, and a system call that can return does.
FairSpec ==
  /\ Spec
  /\ WF_vars(MainStep) /\ WF_vars(Read) /\ WF_vars(Copy)
  /\ \A w \in Writer : WF_vars(Write(w))

-------------------------------------------------------------------------------
Printed(d) == Without(shown[d], {Reason})

InHand(d) == IF at # 0 /\ at <= d THEN buf ELSE <<>>

\* A console that never failed shows everything that was printed, once and in
\* order, but for what drain holds and what is still in the pipe: the failures of
\* the other console cost it nothing (console.go:143-148).
NothingLost ==
  piped => \A d \in Console \ lossy : Printed(d) \o InHand(d) \o pipe = log

\* Unless Flush gave up, the last lines of the power sequence are out of the pipe
\* when the machine goes down (console.go:170-176).
LastWordsRead ==
  main \in {"grace", "down"} /\ ~expired => Main \notin ToSet(pipe)

\* However many consoles fail, and for however long, nobody who prints is blocked
\* for good: drain never stops reading (console.go:133-148).
Returns(w) == w \in writing ~> w \notin writing \/ ~Up

NeverBlocks(d) == <>[](device[d] # "blocks")

PrintReturns ==
  (\A d \in Console : NeverBlocks(d)) => \A w \in Writer : Returns(w)

===============================================================================
