---------------------------- MODULE BoundedQueue ----------------------------
(***************************************************************************)
(* What a ring buffer of libutil/inc/AdBuff.h promises its users: a first  *)
(* in, first out queue of bounded length.  "taken" is the element the last *)
(* successful pop handed to its caller.  The ring modules refer to this    *)
(* specification through a refinement mapping.                             *)
(***************************************************************************)
EXTENDS Naturals, Sequences

CONSTANTS
  Value,     \* what can be queued
  Capacity,  \* the most elements the queue ever holds
  NoValue    \* nothing taken yet

VARIABLES queue, taken

qvars == <<queue, taken>>

Init ==
  /\ queue = <<>>
  /\ taken = NoValue

Put(v) ==
  /\ Len(queue) < Capacity
  /\ queue' = Append(queue, v)
  /\ UNCHANGED taken

Take ==
  /\ queue # <<>>
  /\ taken' = Head(queue)
  /\ queue' = Tail(queue)

Next == (\E v \in Value : Put(v)) \/ Take

Spec == Init /\ [][Next]_qvars
=============================================================================
