----------------------------- MODULE ConsoleProofs -----------------------------
(***************************************************************************)
(* The safety of module Console for every set of writers, every capacity   *)
(* of the pipe and of drain's buffer and every number of lines: what is    *)
(* printed reaches each console that does not fail, once and in order, and *)
(* the last words are out of the pipe before the machine goes down.        *)
(***************************************************************************)
EXTENDS Console, SeqProofs

\* Nothing has been printed before Setup has run.
SetupInv ==
  main = "setup" =>
    /\ ~piped /\ writing = {} /\ pipe = <<>> /\ log = <<>> /\ at = 0
    /\ \A d \in Console : shown[d] = <<>>

\* The boot goroutine is inside one call at a time.
WriterInv == main # "run" => Main \notin writing

IInv == TypeOK /\ SetupInv /\ WriterInv /\ NothingLost /\ LastWordsRead

-------------------------------------------------------------------------------
\* What drain takes and what it leaves are together what the pipe held.
LEMMA TakenIsAPrefix ==
  ASSUME TypeOK, pipe # <<>>
  PROVE  /\ SubSeq(pipe, 1, Taken) \in Seq(Writer) /\ SubSeq(pipe, 1, Taken) # <<>>
         /\ Len(SubSeq(pipe, 1, Taken)) <= BufCap
         /\ SubSeq(pipe, Taken + 1, Len(pipe)) \in Seq(Writer)
         /\ Len(SubSeq(pipe, Taken + 1, Len(pipe))) <= PipeCap
         /\ SubSeq(pipe, 1, Taken) \o SubSeq(pipe, Taken + 1, Len(pipe)) = pipe
         /\ ToSet(SubSeq(pipe, Taken + 1, Len(pipe))) \subseteq ToSet(pipe)
<1> DEFINE k == Taken
           n == Len(pipe)
<1>1. /\ pipe \in Seq(Writer) /\ n \in Nat /\ n # 0 /\ n <= PipeCap
      /\ BufCap \in Nat \ {0} /\ PipeCap \in Nat
  BY ConsoleAssumption DEF TypeOK
<1>2. k \in 1..n /\ k <= BufCap
  BY <1>1 DEF Taken
<1> HIDE DEF k
<1>3. \A i \in 1..n : pipe[i] \in Writer
  BY <1>1
<1> HIDE DEF n
<1>4. /\ SubSeq(pipe, 1, k) \in Seq(Writer)
      /\ Len(SubSeq(pipe, 1, k)) = k
  <2>1. \A i \in 1..k : pipe[i] \in Writer
    BY <1>1, <1>2, <1>3
  <2> QED
    BY <1>1, <1>2, <2>1, SubSeqProperties
<1>5. /\ SubSeq(pipe, k + 1, n) \in Seq(Writer)
      /\ Len(SubSeq(pipe, k + 1, n)) = n - k
      /\ \A i \in 1..n - k : SubSeq(pipe, k + 1, n)[i] = pipe[k + i]
  <2>1. \A i \in k + 1..n : pipe[i] \in Writer
    BY <1>1, <1>2, <1>3
  <2>2. /\ SubSeq(pipe, k + 1, n) \in Seq(Writer)
        /\ Len(SubSeq(pipe, k + 1, n)) = IF k + 1 <= n THEN n - (k + 1) + 1 ELSE 0
        /\ \A i \in 1..n - (k + 1) + 1 : SubSeq(pipe, k + 1, n)[i] = pipe[k + 1 + i - 1]
    BY <1>1, <1>2, <2>1, SubSeqProperties
  <2>3. n - (k + 1) + 1 = n - k /\ \A i \in 1..n - k : k + 1 + i - 1 = k + i
    BY <1>1, <1>2
  <2> QED
    BY <1>1, <1>2, <2>2, <2>3
<1>6. SubSeq(pipe, 1, k) \o SubSeq(pipe, k + 1, n) = pipe
  <2>1. SubSeq(pipe, 1, k) \o SubSeq(pipe, k + 1, n) = SubSeq(pipe, 1, n)
    BY <1>1, <1>2, ConcatAdjacentSubSeq DEF n
  <2> QED
    BY <1>1, <2>1, SubSeqFull DEF n
<1>7. ToSet(SubSeq(pipe, k + 1, n)) \subseteq ToSet(pipe)
  <2> SUFFICES ASSUME NEW i \in DOMAIN SubSeq(pipe, k + 1, n)
               PROVE  SubSeq(pipe, k + 1, n)[i] \in ToSet(pipe)
    BY DEF ToSet
  <2>1. i \in 1..n - k
    BY <1>5
  <2>2. k + i \in DOMAIN pipe
    BY <1>1, <1>2, <2>1 DEF n
  <2> QED
    BY <1>5, <2>1, <2>2 DEF ToSet
<1>8. SubSeq(pipe, 1, k) # <<>>
  BY <1>2, <1>4
<1> QED
  BY <1>1, <1>2, <1>4, <1>5, <1>6, <1>7, <1>8, SMTT(30) DEF k, n

\* A write to a console leaves what the other shows, and a console either shows
\* all of it or is no longer followed.
LEMMA PutFacts ==
  ASSUME TypeOK, NEW d \in Console, NEW lines \in Seq(Writer \cup {Reason}), Put(d, lines)
  PROVE  /\ shown' \in [Console -> Seq(Writer \cup {Reason})] /\ lossy' \in SUBSET Console
         /\ lossy \subseteq lossy'
         /\ d \notin lossy' => shown'[d] = shown[d] \o lines
         /\ \A e \in Console \ {d} : shown'[e] = shown[e]
<1>1. /\ shown \in [Console -> Seq(Writer \cup {Reason})] /\ lossy \in SUBSET Console
      /\ shown[d] \in Seq(Writer \cup {Reason})
  BY DEF TypeOK
<1>2. shown[d] \o lines \in Seq(Writer \cup {Reason}) /\ <<>> \in Seq(Writer \cup {Reason})
  BY <1>1
<1> QED
  BY <1>1, <1>2 DEF Put

\* What Fatal prints is not in the log; what the others print is.
LEMMA PrintedMore ==
  ASSUME NEW s \in Seq(Writer \cup {Reason}), NEW t \in Seq(Writer)
  PROVE  /\ Without(s \o t, {Reason}) = Without(s, {Reason}) \o t
         /\ Without(s \o <<Reason>>, {Reason}) = Without(s, {Reason})
<1> DEFINE S   == Writer \cup {Reason}
           R   == {Reason}
           one == Append(<<>>, Reason)
<1>1. /\ s \in Seq(S) /\ t \in Seq(S) /\ <<>> \in Seq(S)
      /\ Reason \in S /\ one \in Seq(S)
  OBVIOUS
<1>2. Reason \in R /\ one = <<Reason>>
  OBVIOUS
<1>3. Without(t, R) = t
  <2>1. ToSet(t) \cap R = {}
    BY ConsoleAssumption DEF ToSet
  <2> QED
    BY <2>1, WithoutNone
<1>4. Without(s, R) \in Seq(S)
  BY WithoutType
<1> HIDE DEF S, R
<1>5. Without(one, R) = <<>>
  <2>1. Without(one, R) = Without(<<>>, R)
    BY <1>1, <1>2, WithoutAppend
  <2> QED
    BY <2>1, WithoutEmpty
<1> HIDE DEF one
<1>6. Without(s \o t, R) = Without(s, R) \o Without(t, R)
  BY <1>1, WithoutConcat
<1>7. Without(s \o one, R) = Without(s, R) \o Without(one, R)
  BY <1>1, WithoutConcat
<1>8. Without(s, R) \o <<>> = Without(s, R)
  BY <1>4
<1>9. Without(s \o t, R) = Without(s, R) \o t
  BY <1>3, <1>6
<1>10. Without(s \o <<Reason>>, R) = Without(s, R)
  BY <1>2, <1>5, <1>7, <1>8
<1> QED
  BY <1>9, <1>10 DEF R

\* Setup puts the pipe under fd 1 and 2 before anything was printed.
LEMMA SetupKeeps ==
  ASSUME IInv, Setup
  PROVE  IInv'
<1>1. TypeOK'
  BY DEF IInv, Setup, TypeOK, drainVars, history
<1>2. SetupInv' /\ WriterInv'
  BY DEF IInv, Setup, SetupInv, WriterInv
<1>3. LastWordsRead'
  BY DEF Setup, LastWordsRead
<1>4. NothingLost'
  <2>1. /\ pipe' = <<>> /\ log' = <<>> /\ at' = 0 /\ \A d \in Console : shown'[d] = <<>>
    BY DEF IInv, Setup, SetupInv, drainVars, history
  <2>2. \A d \in Console : Printed(d)' = <<>> /\ InHand(d)' = <<>>
    BY <2>1, WithoutEmpty DEF Printed, InHand
  <2> QED
    BY <2>1, <2>2 DEF NothingLost
<1> QED
  BY <1>1, <1>2, <1>3, <1>4 DEF IInv

\* One more line at the end of the pipe is one more line in the log.
LEMMA WriteKeeps ==
  ASSUME IInv, NEW w \in Writer, Write(w)
  PROVE  IInv'
<1> TypeOK /\ SetupInv /\ WriterInv /\ NothingLost /\ LastWordsRead
  BY DEF IInv
<1>0. /\ main' = main /\ piped' = piped /\ buf' = buf /\ at' = at /\ device' = device
      /\ expired' = expired /\ log' = Append(log, w) /\ w \in writing
      /\ writing' = writing \ {w} /\ main # "setup"
  BY DEF Write, drainVars, SetupInv
<1>1. SetupInv' /\ WriterInv'
  BY <1>0 DEF SetupInv, WriterInv
<1>2. log \in Seq(Writer) /\ log' \in Seq(Writer)
  BY <1>0 DEF TypeOK
<1>3. CASE ~piped
  <2>1. Put(1, <<w>>) /\ pipe' = pipe
    BY <1>3 DEF Write
  <2>2. /\ shown' \in [Console -> Seq(Writer \cup {Reason})] /\ lossy' \in SUBSET Console
    <3>1. <<w>> \in Seq(Writer \cup {Reason}) /\ 1 \in Console
      BY DEF Console
    <3> QED
      BY <2>1, <3>1, PutFacts
  <2>3. TypeOK'
    BY <1>0, <1>2, <2>1, <2>2 DEF TypeOK
  <2>4. NothingLost' /\ LastWordsRead'
    BY <1>0, <1>3, <2>1 DEF NothingLost, LastWordsRead
  <2> QED
    BY <1>1, <2>3, <2>4 DEF IInv
<1>4. CASE piped
  <2>1. Len(pipe) < PipeCap /\ pipe' = Append(pipe, w) /\ shown' = shown /\ lossy' = lossy
    BY <1>4 DEF Write, PipeWrite
  <2>2. pipe \in Seq(Writer) /\ pipe' \in Seq(Writer) /\ Len(pipe') <= PipeCap
    BY <2>1, ConsoleAssumption DEF TypeOK
  <2>3. TypeOK'
    BY <1>0, <1>2, <2>1, <2>2 DEF TypeOK
  <2>4. LastWordsRead'
    <3>1. ToSet(pipe') = ToSet(pipe) \cup {w}
      BY <2>1, <2>2, AppendMembers
    <3>2. main # "run" => w # Main
      BY <1>0 DEF WriterInv
    <3> QED
      BY <1>0, <3>1, <3>2 DEF LastWordsRead
  <2>5. NothingLost'
    <3> SUFFICES ASSUME NEW d \in Console, d \notin lossy
                 PROVE  Printed(d)' \o InHand(d)' \o pipe' = log'
      BY <2>1 DEF NothingLost
    <3> DEFINE p == Printed(d)
               h == InHand(d)
               S == Writer \cup {Reason}
    <3>1. Printed(d)' = p /\ InHand(d)' = h
      BY <1>0, <2>1 DEF Printed, InHand
    <3>2. p \o h \o pipe = log
      BY <1>4 DEF NothingLost
    <3>3. p \in Seq(S) /\ h \in Seq(S) /\ pipe \in Seq(S) /\ w \in S
      BY <2>2, WithoutType DEF TypeOK, Printed, InHand
    <3> HIDE DEF p, h, S
    <3>4. p \o h \in Seq(S)
      BY <3>3
    <3>5. (p \o h) \o Append(pipe, w) = Append((p \o h) \o pipe, w)
      BY <3>3, <3>4, ConcatAppend
    <3> QED
      BY <1>0, <2>1, <3>1, <3>2, <3>5 DEF p, h
  <2> QED
    BY <1>1, <2>3, <2>4, <2>5 DEF IInv
<1> QED
  BY <1>3, <1>4

\* A read moves lines from the pipe into drain's buffer, for both consoles.
LEMMA ReadKeeps ==
  ASSUME IInv, Read
  PROVE  IInv'
<1> TypeOK /\ SetupInv /\ WriterInv /\ NothingLost /\ LastWordsRead
  BY DEF IInv
<1> DEFINE t == SubSeq(pipe, 1, Taken)
           r == SubSeq(pipe, Taken + 1, Len(pipe))
<1>0. /\ main' = main /\ piped' = piped /\ writing' = writing /\ device' = device
      /\ shown' = shown /\ log' = log /\ lossy' = lossy /\ expired' = expired
      /\ at = 0 /\ at' = 1 /\ buf' = t /\ pipe' = r /\ pipe # <<>> /\ main # "setup"
  BY DEF Read, history, SetupInv
<1>1. /\ t \in Seq(Writer) /\ t # <<>> /\ Len(t) <= BufCap
      /\ r \in Seq(Writer) /\ Len(r) <= PipeCap
      /\ t \o r = pipe /\ ToSet(r) \subseteq ToSet(pipe)
  BY <1>0, TakenIsAPrefix
<1> HIDE DEF t, r
<1>2. TypeOK'
  BY <1>0, <1>1 DEF TypeOK, Console
<1>3. SetupInv' /\ WriterInv' /\ LastWordsRead'
  BY <1>0, <1>1 DEF SetupInv, WriterInv, LastWordsRead
<1>4. NothingLost'
  <2> SUFFICES ASSUME piped, NEW d \in Console, d \notin lossy
               PROVE  Printed(d)' \o InHand(d)' \o pipe' = log'
    BY <1>0 DEF NothingLost
  <2> DEFINE p == Printed(d)
             S == Writer \cup {Reason}
  <2>1. Printed(d)' = p /\ InHand(d)' = t /\ InHand(d) = <<>>
    BY <1>0 DEF Printed, InHand, Console
  <2>2. p \o <<>> \o pipe = log
    BY <2>1 DEF NothingLost
  <2>3. p \in Seq(S) /\ t \in Seq(S) /\ r \in Seq(S)
    BY <1>1, WithoutType DEF TypeOK, Printed
  <2> HIDE DEF p, S
  <2>4. p \o <<>> = p
    BY <2>3
  <2>5. (p \o t) \o r = p \o (t \o r)
    BY <2>3, ConcatAssociative
  <2> QED
    BY <1>0, <1>1, <2>1, <2>2, <2>4, <2>5 DEF p
<1> QED
  BY <1>2, <1>3, <1>4 DEF IInv

\* A console that takes the buffer shows it; one that fails is no longer followed,
\* and the other loses nothing (console.go:143-148).
LEMMA CopyKeeps ==
  ASSUME IInv, Copy
  PROVE  IInv'
<1> TypeOK /\ SetupInv /\ WriterInv /\ NothingLost /\ LastWordsRead
  BY DEF IInv
<1>0. /\ main' = main /\ piped' = piped /\ writing' = writing /\ device' = device
      /\ pipe' = pipe /\ buf' = buf /\ log' = log /\ expired' = expired
      /\ at # 0 /\ at' = (at + 1) % 3 /\ Put(at, buf) /\ main # "setup"
  BY DEF Copy, SetupInv
<1>1. at \in Console /\ buf \in Seq(Writer) /\ buf \in Seq(Writer \cup {Reason})
  BY <1>0 DEF TypeOK
<1>2. /\ shown' \in [Console -> Seq(Writer \cup {Reason})] /\ lossy' \in SUBSET Console
      /\ lossy \subseteq lossy'
      /\ at \notin lossy' => shown'[at] = shown[at] \o buf
      /\ \A e \in Console \ {at} : shown'[e] = shown[e]
  BY <1>0, <1>1, PutFacts
<1>3. at' \in Console \cup {0} /\ (at = 1 => at' = 2) /\ (at = 2 => at' = 0)
  BY <1>0, <1>1 DEF Console
<1>4. TypeOK'
  BY <1>0, <1>2, <1>3 DEF TypeOK
<1>5. SetupInv' /\ WriterInv' /\ LastWordsRead'
  BY <1>0 DEF SetupInv, WriterInv, LastWordsRead
<1>6. NothingLost'
  <2> SUFFICES ASSUME piped, NEW d \in Console, d \notin lossy'
               PROVE  Printed(d)' \o InHand(d)' \o pipe' = log'
    BY <1>0 DEF NothingLost
  <2>1. Printed(d) \o InHand(d) \o pipe = log
    BY <1>2 DEF NothingLost
  <2>2. shown[d] \in Seq(Writer \cup {Reason})
    BY DEF TypeOK
  <2>3. Printed(d)' \o InHand(d)' = Printed(d) \o InHand(d)
    <3>1. CASE d = at
      <4>1. Printed(d)' = Printed(d) \o buf
        BY <1>1, <1>2, <2>2, <3>1, PrintedMore DEF Printed
      <4>2. InHand(d)' = <<>> /\ InHand(d) = buf
        BY <1>0, <1>1, <1>3, <3>1 DEF InHand, Console
      <4>3. Printed(d) \o buf \in Seq(Writer \cup {Reason})
        BY <1>1, <2>2, WithoutType DEF Printed
      <4> QED
        BY <4>1, <4>2, <4>3
    <3>2. CASE d # at
      <4>1. Printed(d)' = Printed(d)
        BY <1>2, <3>2 DEF Printed
      <4>2. InHand(d)' = InHand(d)
        BY <1>0, <1>1, <1>3, <3>2 DEF InHand, Console
      <4> QED
        BY <4>1, <4>2
    <3> QED
      BY <3>1, <3>2
  <2> QED
    BY <1>0, <2>1, <2>3
<1> QED
  BY <1>4, <1>5, <1>6 DEF IInv

\* Neither moves a line that was printed.
LEMMA QuietKeeps ==
  ASSUME IInv, UNCHANGED <<piped, pipe, buf, at, shown, log, lossy>>,
         SetupInv', WriterInv', LastWordsRead', TypeOK'
  PROVE  IInv'
<1>1. NothingLost'
  BY DEF IInv, NothingLost, Printed, InHand
<1> QED
  BY <1>1 DEF IInv

\* A write(2) that begins moves nothing yet.
LEMMA PrintlnKeeps ==
  ASSUME IInv, NEW w \in Writer, Println(w)
  PROVE  IInv'
<1>0. /\ main' = main /\ UNCHANGED <<piped, pipe, buf, at, device, shown, log, lossy, expired>>
      /\ writing' = writing \cup {w} /\ main # "setup" /\ (w = Main => main = "run")
  BY DEF Println, drainVars, history
<1>1. TypeOK'
  BY <1>0 DEF IInv, TypeOK
<1>2. SetupInv' /\ WriterInv' /\ LastWordsRead'
  BY <1>0 DEF IInv, SetupInv, WriterInv, LastWordsRead
<1> QED
  BY <1>0, <1>1, <1>2, QuietKeeps

\* Nor does a console that comes, goes or is held.
LEMMA DeviceKeeps ==
  ASSUME IInv, NEW d \in Console, NEW to \in {"works", "fails", "blocks"}, DeviceChanges(d, to)
  PROVE  IInv'
<1>0. /\ device' = [device EXCEPT ![d] = to]
      /\ UNCHANGED <<main, piped, writing, pipe, buf, at, shown, log, lossy, expired>>
  BY DEF DeviceChanges, drainVars, history
<1>1. TypeOK'
  BY <1>0 DEF IInv, TypeOK
<1>2. SetupInv' /\ WriterInv' /\ LastWordsRead'
  BY <1>0 DEF IInv, SetupInv, WriterInv, LastWordsRead
<1> QED
  BY <1>0, <1>1, <1>2, QuietKeeps

\* power.Do, Flush and reboot(2) wait and print nothing; Flush goes on when the
\* pipe is empty, or gives up.
LEMMA PowerKeeps ==
  ASSUME IInv, Do \/ FlushSeesEmpty \/ FlushExpires \/ DoReboot \/ Fatal
  PROVE  IInv'
<1>0. /\ UNCHANGED <<piped, writing, pipe, buf, at, device, shown, log, lossy>>
      /\ Main \notin writing
      /\ \/ main = "run" /\ main' \in {"flush", "fatal"} /\ expired' = expired
         \/ main = "flush" /\ main' = "grace" /\ expired' = expired /\ pipe = <<>>
         \/ main = "flush" /\ main' = "grace" /\ expired' = TRUE
         \/ main = "grace" /\ main' \in {"down", "fatal"} /\ expired' = expired
  BY DEF Do, FlushSeesEmpty, FlushExpires, DoReboot, Fatal, Advance, drainVars
<1>1. TypeOK'
  BY <1>0 DEF IInv, TypeOK
<1>2. SetupInv' /\ WriterInv'
  BY <1>0 DEF SetupInv, WriterInv
<1>3. LastWordsRead'
  BY <1>0 DEF IInv, LastWordsRead, ToSet
<1> QED
  BY <1>0, <1>1, <1>2, <1>3, QuietKeeps

\* What Fatal prints goes to the consoles, around the pipe.
LEMMA FatalKeeps ==
  ASSUME IInv, FatalFirst \/ FatalSecond
  PROVE  IInv'
<1> TypeOK /\ SetupInv /\ WriterInv /\ NothingLost /\ LastWordsRead
  BY DEF IInv
<1>0. /\ UNCHANGED <<piped, writing, pipe, buf, at, device, log, expired>>
      /\ Main \notin writing /\ main \in {"fatal", "fatal2"} /\ main' \in {"fatal2", "hung"}
  BY DEF FatalFirst, FatalSecond, Advance, drainVars
<1>1. PICK c \in Console : Put(c, <<Reason>>)
  BY DEF FatalFirst, FatalSecond, Console
<1>2. <<Reason>> \in Seq(Writer \cup {Reason})
  OBVIOUS
<1>3. /\ shown' \in [Console -> Seq(Writer \cup {Reason})] /\ lossy' \in SUBSET Console
      /\ lossy \subseteq lossy'
      /\ c \notin lossy' => shown'[c] = shown[c] \o <<Reason>>
      /\ \A e \in Console \ {c} : shown'[e] = shown[e]
  BY <1>1, <1>2, PutFacts
<1>4. TypeOK'
  BY <1>0, <1>3 DEF TypeOK
<1>5. SetupInv' /\ WriterInv' /\ LastWordsRead'
  BY <1>0 DEF SetupInv, WriterInv, LastWordsRead
<1>6. NothingLost'
  <2> SUFFICES ASSUME piped, NEW d \in Console, d \notin lossy'
               PROVE  Printed(d)' \o InHand(d)' \o pipe' = log'
    BY <1>0 DEF NothingLost
  <2>1. Printed(d) \o InHand(d) \o pipe = log
    BY <1>3 DEF NothingLost
  <2>2. shown[d] \in Seq(Writer \cup {Reason}) /\ <<>> \in Seq(Writer)
    BY DEF TypeOK
  <2>3. Printed(d)' = Printed(d)
    BY <1>3, <2>2, PrintedMore DEF Printed
  <2>4. InHand(d)' = InHand(d)
    BY <1>0 DEF InHand
  <2> QED
    BY <1>0, <2>1, <2>3, <2>4
<1> QED
  BY <1>4, <1>5, <1>6 DEF IInv

\* PID 1 starts with what the kernel gave it for a console.
LEMMA InitInv == Init => IInv
<1> SUFFICES ASSUME Init PROVE IInv
  OBVIOUS
<1>1. TypeOK
  <2>1. /\ \A X : <<>> \in Seq(X)
        /\ Len(<<>>) <= PipeCap /\ Len(<<>>) <= BufCap
    BY ConsoleAssumption
  <2> QED
    BY <2>1 DEF Init, TypeOK
<1> QED
  BY <1>1 DEF IInv, Init, SetupInv, WriterInv, NothingLost, LastWordsRead

\* Every step keeps the invariant.
LEMMA StepInv == IInv /\ [Next]_vars => IInv'
<1> SUFFICES ASSUME IInv, [Next]_vars PROVE IInv'
  OBVIOUS
<1>1. CASE MainStep \/ Do \/ Fatal
  BY <1>1, SetupKeeps, PowerKeeps, FatalKeeps DEF MainStep
<1>2. CASE Read \/ Copy
  BY <1>2, ReadKeeps, CopyKeeps
<1>3. CASE \E w \in Writer : Println(w) \/ Write(w)
  BY <1>3, PrintlnKeeps, WriteKeeps
<1>4. CASE \E d \in Console, to \in {"works", "fails", "blocks"} : DeviceChanges(d, to)
  BY <1>4, DeviceKeeps
<1>5. CASE UNCHANGED vars
  BY <1>5 DEF vars, drainVars, history, IInv, TypeOK, SetupInv, WriterInv, NothingLost, Printed,
              InHand, LastWordsRead
<1> QED
  BY <1>1, <1>2, <1>3, <1>4, <1>5 DEF Next

\* The invariant of the console.
THEOREM Invariance == Spec => []IInv
BY InitInv, StepInv, PTL DEF Spec

\* Every variable keeps its type: neither the pipe nor drain's buffer holds more
\* than it can, and drain never writes an empty buffer.
THEOREM TypeCorrect == Spec => []TypeOK
BY Invariance, PTL DEF IInv

\* A console that never failed shows everything that was printed, once and in
\* order, but for what drain holds and what is in the pipe (console.go:143-148).
THEOREM NoLineLost == Spec => []NothingLost
BY Invariance, PTL DEF IInv

\* Unless Flush gave up, what the boot goroutine printed last is out of the pipe
\* when the machine goes down (console.go:170-176).
THEOREM LastWordsOut == Spec => []LastWordsRead
BY Invariance, PTL DEF IInv

===============================================================================
