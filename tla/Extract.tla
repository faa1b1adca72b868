-------------------------------- MODULE Extract --------------------------------
(***************************************************************************)
(* internal/ociimage: Extract streams an image from crane.Export to        *)
(* archiver.Untar, two goroutines with an io.Pipe between them.  The pipe  *)
(* has no buffer: a write blocks until it was read or the reader closed,   *)
(* a read until there is something to read or the writer closed.  An image *)
(* is a number of chunks, the last of which is the end marker of the tar   *)
(* stream, behind which Export writes nothing.                             *)
(***************************************************************************)
EXTENDS Naturals

CONSTANT Chunks   \* of an image

VARIABLES
  export,    \* the exporting goroutine: idle, run, ok, failed
  untar,     \* the extracting goroutine, likewise
  offered,   \* a write is in progress
  got,       \* the chunks that have been read
  writer,    \* what the exporter left in the pipe: open, eof, error
  reader     \* open or closed

extractVars == <<export, untar, offered, got, writer, reader>>

Idle ==
  /\ export = "idle" /\ untar = "idle"
  /\ offered = FALSE /\ got = 0 /\ writer = "open" /\ reader = "open"

NewPipe(phase) ==
  /\ export' = phase /\ untar' = phase
  /\ offered' = FALSE /\ got' = 0 /\ writer' = "open" /\ reader' = "open"

Begin  == export = "idle" /\ NewPipe("run")
Forget == NewPipe("idle")

-------------------------------------------------------------------------------
Offer ==
  /\ export = "run" /\ ~offered /\ got < Chunks
  /\ offered' = TRUE
  /\ UNCHANGED <<export, untar, got, writer, reader>>

\* A layer cannot be read any further, or the reader has closed the pipe.
ExportFails ==
  /\ export = "run" /\ (offered => reader = "closed")
  /\ export' = "failed" /\ offered' = FALSE /\ writer' = "error"
  /\ UNCHANGED <<untar, got, reader>>

ExportEnds ==
  /\ export = "run" /\ ~offered /\ got = Chunks
  /\ export' = "ok" /\ writer' = "eof"
  /\ UNCHANGED <<untar, offered, got, reader>>

Take ==
  /\ untar = "run" /\ offered
  /\ offered' = FALSE /\ got' = got + 1
  /\ UNCHANGED <<export, untar, writer, reader>>

UntarFailsSilently ==
  /\ untar = "run"
  /\ untar' = "failed"
  /\ UNCHANGED <<export, offered, got, writer, reader>>

\* A file cannot be written, the context has been cancelled because the exporter
\* failed, or the exporter closed the pipe with its error.
UntarFails ==
  /\ untar = "run"
  /\ untar' = "failed" /\ reader' = "closed"
  /\ UNCHANGED <<export, offered, got, writer>>

UntarEnds ==
  /\ untar = "run" /\ got = Chunks
  /\ untar' = "ok"
  /\ UNCHANGED <<export, offered, got, writer, reader>>

-------------------------------------------------------------------------------
\* eg.Wait returns when both have, with the first error there was.
Ended == {export, untar} \subseteq {"ok", "failed"}

SucceededWhenSent == export = "ok"

Succeeded == export = "ok" /\ untar = "ok"

\* Everything in the image is on the disk.
Extracted == untar = "ok"

\* What happens without anything going wrong from outside: a goroutine that fails
\* because the other one did is among it.
Runs ==
  \/ Offer \/ Take \/ ExportEnds \/ UntarEnds
  \/ ExportFails /\ reader = "closed"
  \/ UntarFails /\ writer = "error" /\ ~offered

Next == Runs \/ ExportFails \/ UntarFails

===============================================================================
