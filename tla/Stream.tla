------------------------------- MODULE Stream -------------------------------
(***************************************************************************)
(* What stdio promises over the serial port, without the port: everything  *)
(* printed arrives at the terminal, in order, once, each line feed with a  *)
(* carriage return before it; the keys typed reach getchar() in the order  *)
(* they were typed, as long as no more than Capacity of them wait.         *)
(***************************************************************************)
EXTENDS Naturals, Lines

CONSTANTS
  Key,       \* the characters the terminal can send
  Capacity,  \* how many of them wait for the program
  NONE       \* no key

VARIABLES
  text,      \* the string of the last call that prints
  queue,     \* characters printed that have not been sent yet
  line,      \* the character on the line, if any
  keys,      \* keys typed that have not been read yet
  c          \* the key the program is answering, or NONE

streamVars == <<text, queue, line, keys, c>>

StreamInit == text = <<>> /\ queue = <<>> /\ line = <<>> /\ keys = <<>> /\ c = NONE

Say == queue' = queue \o AsLines(text') /\ UNCHANGED <<line, keys, c>>

Send ==
  /\ line = <<>> /\ queue # <<>>
  /\ line' = <<Head(queue)>>
  /\ queue' = Tail(queue)
  /\ UNCHANGED <<text, keys, c>>

Arrive == line # <<>> /\ line' = <<>> /\ UNCHANGED <<text, queue, keys, c>>

Type ==
  /\ Len(keys) < Capacity
  /\ \E k \in Key : keys' = Append(keys, k)
  /\ UNCHANGED <<text, queue, line, c>>

(* The key read is answered, or only awaited.                              *)
Read ==
  /\ keys # <<>>
  /\ (c = NONE /\ c' = Head(keys)) \/ c' = c
  /\ keys' = Tail(keys)
  /\ UNCHANGED <<text, queue, line>>

(* Before anything is printed the program may drop what has been typed.    *)
Clear == text = <<>> /\ keys' = <<>> /\ UNCHANGED <<text, queue, line, c>>

Answered == c' = NONE /\ UNCHANGED <<text, queue, line, keys>>

StreamNext == Say \/ Send \/ Arrive \/ Type \/ Read \/ Clear \/ Answered

StreamSafe == StreamInit /\ [][StreamNext]_streamVars

StreamSpec == StreamSafe /\ WF_streamVars(Send) /\ WF_streamVars(Arrive)
=============================================================================
