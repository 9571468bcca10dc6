------------------------------ MODULE PipeQueue ------------------------------
(***************************************************************************)
(* What a pipe promises its two ends, without locks, counters or sleeping: *)
(* a FIFO of at most PIPESIZE bytes.  A write appends the next byte of the *)
(* stream while both ends are open; a read takes one or more bytes from    *)
(* the front while the read end is open; each end is closed once.  Bytes   *)
(* are named by their ordinal in the stream, so the FIFO's order is        *)
(* visible in its contents: they are always the ordinals got..sent-1.      *)
(* Module Pipe implements this specification.                              *)
(***************************************************************************)
EXTENDS Naturals, Sequences

CONSTANT PIPESIZE

VARIABLES
  buf,        \* the bytes written and not yet read, oldest first
  sent,       \* how many bytes have been written
  got,        \* how many bytes have been read
  readopen,   \* the read end is open
  writeopen   \* the write end is open

qvars == <<buf, sent, got, readopen, writeopen>>

Init ==
  /\ buf = <<>>
  /\ sent = 0
  /\ got = 0
  /\ readopen = TRUE
  /\ writeopen = TRUE

Write ==
  /\ readopen /\ writeopen
  /\ Len(buf) < PIPESIZE
  /\ buf' = Append(buf, sent)
  /\ sent' = sent + 1
  /\ UNCHANGED <<got, readopen, writeopen>>

Read(k) ==
  /\ readopen
  /\ k \in 1..Len(buf)
  /\ buf' = SubSeq(buf, k + 1, Len(buf))
  /\ got' = got + k
  /\ UNCHANGED <<sent, readopen, writeopen>>

CloseRead ==
  /\ readopen
  /\ readopen' = FALSE
  /\ UNCHANGED <<buf, sent, got, writeopen>>

CloseWrite ==
  /\ writeopen
  /\ writeopen' = FALSE
  /\ UNCHANGED <<buf, sent, got, readopen>>

Next ==
  \/ Write
  \/ \E k \in 1..PIPESIZE : Read(k)
  \/ CloseRead
  \/ CloseWrite

Spec == Init /\ [][Next]_qvars
=============================================================================
