----------------------------- MODULE ArchiveLog -----------------------------
(***************************************************************************)
(* What an archive writer promises: the files added to it form a log that  *)
(* only grows at its end, one file at a time, and closing the archive      *)
(* publishes exactly the log.  Batches, streams, temporary files, offsets  *)
(* and the file layout are invisible at this level.  A writer whose final  *)
(* write or whose input fails it gives up, and the promise ends there.     *)
(***************************************************************************)
EXTENDS Naturals, Sequences

CONSTANTS
    Open,   \* the value of published before the archive is closed
    Void    \* its value after the writer gave up

VARIABLES log, published

Init == log = <<>> /\ published = Open

Add ==
    /\ published = Open
    /\ Len(log') = Len(log) + 1
    /\ SubSeq(log', 1, Len(log)) = log
    /\ UNCHANGED published

Close ==
    /\ published = Open
    /\ published' = log
    /\ UNCHANGED log

GiveUp ==
    /\ published = Open
    /\ published' = Void
    /\ log' = <<>>

Next == Add \/ Close \/ GiveUp

Spec == Init /\ [][Next]_<<log, published>>

=============================================================================
