------------------------------- MODULE Stream -------------------------------
(* What a stream promises its two users: the reader gets the bytes that were *)
(* written, in the order in which they were written, each once, and is told  *)
(* of the end only after the last of them.  A TCP connection is two of these,*)
(* one each way, and a FIFO is one.                                          *)
(*                                                                           *)
(* PhantomEnd = TRUE is the weaker promise that the TCP code really keeps:   *)
(* the reader may get one byte nobody wrote in the place of the end.         *)
EXTENDS Naturals, Sequences

CONSTANT PhantomEnd

VARIABLES
    written,    \* the bytes taken from the writer
    read,       \* the bytes given to the reader
    closed,     \* the writer has closed its end
    ended       \* the reader has been told of the end

streamVars == <<written, read, closed, ended>>

PrefixOf(s, t) == Len(s) <= Len(t) /\ s = SubSeq(t, 1, Len(s))

StreamInit ==
    /\ written = <<>>
    /\ read = <<>>
    /\ closed = FALSE
    /\ ended = FALSE

Write ==
    /\ ~closed
    /\ PrefixOf(written, written')
    /\ written' # written
    /\ UNCHANGED <<read, closed, ended>>

CloseEnd ==
    /\ closed' = TRUE
    /\ UNCHANGED <<written, read, ended>>

Read ==
    /\ PrefixOf(read, read')
    /\ PrefixOf(read', written)
    /\ UNCHANGED <<written, closed, ended>>

\* A byte that was never written, after all those that were.
ReadPhantom ==
    /\ PhantomEnd
    /\ closed
    /\ ~ended
    /\ PrefixOf(read, read')
    /\ Len(read') = Len(written) + 1 /\ PrefixOf(written, read')
    /\ UNCHANGED <<written, closed, ended>>

ReadEnd ==
    /\ closed
    /\ read = written
    /\ ended' = TRUE
    /\ UNCHANGED <<written, read, closed>>

StreamNext == Write \/ CloseEnd \/ Read \/ ReadPhantom \/ ReadEnd

StreamSpec == StreamInit /\ [][StreamNext]_streamVars
=============================================================================
