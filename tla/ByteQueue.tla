----------------------------- MODULE ByteQueue -----------------------------
(***************************************************************************)
(* What a pipe promises to the processes that share it: a bounded queue of *)
(* bytes, delivered once each and in the order in which they were written, *)
(* with no byte accepted once the reading side is closed and no end of     *)
(* file reported while the writing side is open or bytes are left.         *)
(***************************************************************************)
EXTENDS Naturals, Sequences

CONSTANTS Byte, Capacity

VARIABLES
  queue,       \* bytes accepted and not yet delivered
  delivered,   \* bytes delivered, in order
  writing,     \* the writing side is open
  reading,     \* the reading side is open
  eof          \* a reader has been told that there is no more

vars == <<queue, delivered, writing, reading, eof>>

Init ==
  /\ queue = <<>> /\ delivered = <<>>
  /\ writing = TRUE /\ reading = TRUE /\ eof = FALSE

Put(b) ==
  /\ writing /\ reading /\ Len(queue) < Capacity
  /\ queue' = Append(queue, b)
  /\ UNCHANGED <<delivered, writing, reading, eof>>

Get ==
  /\ reading /\ queue # <<>>
  /\ delivered' = Append(delivered, Head(queue))
  /\ queue' = Tail(queue)
  /\ UNCHANGED <<writing, reading, eof>>

ReportEof ==
  /\ reading /\ ~writing /\ queue = <<>>
  /\ eof' = TRUE
  /\ UNCHANGED <<queue, delivered, writing, reading>>

CloseWrite == writing' = FALSE /\ UNCHANGED <<queue, delivered, reading, eof>>

CloseRead == reading' = FALSE /\ UNCHANGED <<queue, delivered, writing, eof>>

Next == (\E b \in Byte : Put(b)) \/ Get \/ ReportEof \/ CloseWrite \/ CloseRead

Spec == Init /\ [][Next]_vars
=============================================================================
