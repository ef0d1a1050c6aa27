----------------------------- MODULE Recycling -----------------------------
(***************************************************************************)
(* What libnet promises of its session objects, which are recycled like    *)
(* the descriptor numbers of the kernel: a session serves one descriptor   *)
(* at a time, threads get hold of it only while it does, and it serves     *)
(* another one only after every thread has let go.  NetBase refers to this *)
(* specification through a refinement mapping.                             *)
(***************************************************************************)
CONSTANTS
  Session,
  Fd,
  None       \* no session for a descriptor

VARIABLES
  line,      \* the session that serves a descriptor
  closing,   \* sessions whose connection is over
  held       \* sessions in a queue or with a thread

rvars == <<line, closing, held>>

Init ==
  /\ line = [f \in Fd |-> None]
  /\ closing = {}
  /\ held = {}

Unused(s) == s \notin closing /\ \A f \in Fd : line[f] # s

\* a new connection under a number; the last one under it is over
Open(f, s) ==
  /\ Unused(s) /\ s \notin held
  /\ line' = [line EXCEPT ![f] = s]
  /\ closing' = closing \cup ({line[f]} \ {None})
  /\ UNCHANGED held

\* the report that a connection broke may be the last that held its session
Close(f) ==
  /\ line[f] # None
  /\ line' = [line EXCEPT ![f] = None]
  /\ closing' = closing \cup {line[f]}
  /\ held' \in {held, held \ {line[f]}}

Recycle(s) ==
  /\ s \in closing \ held
  /\ closing' = closing \ {s}
  /\ UNCHANGED <<line, held>>

Use(f) ==
  /\ line[f] # None
  /\ held' = held \cup {line[f]}
  /\ UNCHANGED <<line, closing>>

Release(s) ==
  /\ held' = held \ {s}
  /\ UNCHANGED <<line, closing>>

Next ==
  \/ \E f \in Fd : Close(f) \/ Use(f) \/ \E s \in Session : Open(f, s)
  \/ \E s \in Session : Recycle(s) \/ Release(s)

Spec == Init /\ [][Next]_rvars
=============================================================================
