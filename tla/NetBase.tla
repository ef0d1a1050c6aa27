------------------------------ MODULE NetBase ------------------------------
(***************************************************************************)
(* The life of a connection: libnet/src/AdNetBase.cpp (the server thread   *)
(* and its event loop), AdSession.cpp (the session objects it shares with  *)
(* the other threads), AdEvent.cpp (what is registered with libevent) and  *)
(* AdNetTask.h (the worker threads and the write task).                    *)
(*                                                                         *)
(* Session objects are recycled: a connection ends when some thread closes *)
(* it; the server thread moves the object to the close list, and two       *)
(* seconds later, if nobody is using it, to the free list.  File           *)
(* descriptors are recycled by the kernel: one that was closed may be the  *)
(* next one accept returns.                                                *)
(*                                                                         *)
(* Left out: a failure of fcntl or of malloc, and AD_EVENT_ERROR, which    *)
(* AdEventHandle never raises.                                             *)
(***************************************************************************)
EXTENDS Integers, FiniteSets, SequencesExt

CONSTANTS
  Session,        \* session objects the heap can hold
  Fd,             \* file descriptors the kernel hands out
  None,           \* AD_FAILURE for a socket, NULL for a session
  Workers,        \* AdWorkerTask threads; they share the READ queues
  MaxQueue,       \* bound: messages in a queue before the model stops adding
  MaxActive,      \* bound: stands for this many or more in m_uiActive
  CanBlock,       \* a write can meet a full socket buffer (EAGAIN)
  SetsTimeout,    \* the application sets the session timeout
  NoGapRace       \* see WorkerDone: a schedule the delayed delete relies on

ASSUME NetAssumption ==
  /\ None \notin Session \cup Fd
  /\ IsFiniteSet(Session) /\ IsFiniteSet(Workers)
  /\ MaxQueue \in Nat \ {0}
  /\ MaxActive \in Nat /\ MaxActive > MaxQueue + Cardinality(Workers)
  /\ CanBlock \in BOOLEAN /\ SetsTimeout \in BOOLEAN /\ NoGapRace \in BOOLEAN

VARIABLES
  net,      \* what only the server thread touches
  ses,      \* the AdSession objects
  control,  \* m_ctMsgControl
  readQ,    \* m_vMsgRead
  writeQ,   \* m_vMsgWrite
  server,   \* where AdNetBaseLoop is
  worker,   \* per worker: next step and session
  task      \* the write task: next step and session

vars == <<net, ses, control, readQ, writeQ, server, worker, task>>

\* sock: m_iSocket; tcp: the socket of m_ctTcp; active: m_uiActive;
\* pending: m_ltSendCache is not empty; timeout: m_iTimeout > 0
SessionState ==
  [sock : Fd \cup {None}, tcp : Fd \cup {None}, active : 0 .. MaxActive,
   pending : BOOLEAN, timeout : BOOLEAN, change : BOOLEAN]

NewSession ==
  [sock |-> None, tcp |-> None, active |-> 0,
   pending |-> FALSE, timeout |-> FALSE, change |-> FALSE]

Phase == {"begin", "control", "write", "delete", "event"}
WorkerPC == {"idle", "read", "report", "run", "append", "reportRun", "done"}
TaskPC == {"idle", "write", "sending", "failed", "report"}

Init ==
  /\ net = [reads  |-> [f \in Fd |-> None],      \* m_mSessionRead
            writes |-> [f \in Fd |-> None],      \* m_mSessionWrite
            events |-> [f \in Fd |-> "none"],    \* m_mState of AdEvent
            timer  |-> [f \in Fd |-> FALSE],     \* m_mTimeout of AdEvent
            closing |-> <<>>,                    \* m_mSessionCloseTime
            due    |-> 0,                        \* closings over a second old
            next   |-> 1,                        \* iterator of the delayed delete
            free   |-> <<>>,                     \* m_ctSessionFree
            fresh  |-> Session]                  \* not allocated yet
  /\ ses = [s \in Session |-> NewSession]
  /\ control = <<>>
  /\ readQ = <<>>
  /\ writeQ = <<>>
  /\ server = "begin"
  /\ worker = [w \in Workers |-> [pc |-> "idle", s |-> None]]
  /\ task = [pc |-> "idle", s |-> None]

-----------------------------------------------------------------------------
(* AdSession: what each call does to the object. *)

\* m_ctLock, as far as others can see it held
Unlocked(s) == ~(task.pc = "sending" /\ task.s = s)

Ok(x, s) == x[s].sock # None /\ x[s].sock = x[s].tcp

\* mutant: the timeout outlives the connection
CloseKeepsTimeout(x, s) ==
  [x EXCEPT ![s].tcp = None, ![s].pending = FALSE,
            ![s].change = @ /\ x[s].active # 0]

\* AdSessionClose: disconnect, drop the caches; the rest only when idle
Close(x, s) ==
  LET idle == x[s].active = 0 IN
  [x EXCEPT ![s].tcp = None, ![s].pending = FALSE,
            ![s].timeout = @ /\ ~idle, ![s].change = @ /\ ~idle]

\* more than the queue and the workers hold never comes down to 0 again:
\* AdWriteTask calls no AdSessionIdle
Active(x, s) ==
  [x EXCEPT ![s].active = IF @ < MaxActive THEN @ + 1 ELSE @]

\* mutant: whoever is done first leaves nothing counted
IdleAll(x, s) == [x EXCEPT ![s].active = IF @ < MaxActive THEN 0 ELSE @]

Idle(x, s) ==
  [x EXCEPT ![s].active = IF @ > 0 /\ @ < MaxActive THEN @ - 1 ELSE @]

\* AdSessionInit after accept returned f
Connect(x, s, f) == [x EXCEPT ![s].sock = f, ![s].tcp = f]

-----------------------------------------------------------------------------
(* AdNetBase: what the server thread does to its own maps. *)

InClosing(n, s) == s \in ToSet(n.closing)

Unregister(n, f) ==
  [n EXCEPT !.reads[f] = None, !.writes[f] = None,
            !.events[f] = "none", !.timer[f] = FALSE]

\* AdNetBaseCloseSession, the maps: a second call for s changes nothing
CloseSession(n, x, s) ==
  LET f == x[s].sock
      m == IF f # None /\ n.reads[f] = s THEN Unregister(n, f) ELSE n
  IN IF InClosing(n, s) THEN n
     ELSE [m EXCEPT !.closing = Append(@, s)]

\* AdNetBaseCloseSession, the object
CloseObject(n, x, s) == IF InClosing(n, s) THEN x ELSE Close(x, s)

\* AdNetBaseAddSession, when nobody else is registered for f
AddSession(n, f, s) ==
  [n EXCEPT !.reads[f] = s, !.events[f] = "read", !.timer[f] = FALSE]

\* AdNetBaseNewSession: the head of the free list, else a new object
Allocatable(n) == IF n.free # <<>> THEN {Head(n.free)} ELSE n.fresh

Allocate(n, s) ==
  IF n.free # <<>> THEN [n EXCEPT !.free = Tail(@)]
  ELSE [n EXCEPT !.fresh = @ \ {s}]

DeleteSession(n, s) == [n EXCEPT !.free = Append(@, s)]

-----------------------------------------------------------------------------
(* The server thread: AdNetBaseLoop, then AdEventWait. *)

\* m_ctTime.update: the oldest k closings are now more than a second old
LoopBegin(k) ==
  /\ server = "begin"
  /\ server' = "control"
  /\ k \in net.due .. Len(net.closing)
  /\ net' = [net EXCEPT !.due = k]
  /\ UNCHANGED <<ses, control, readQ, writeQ, worker, task>>

\* one message of m_ctMsgControl: a closed session leaves the maps, an open
\* one is watched for writing; a changed timeout is set on the descriptor,
\* and ends the round when nothing is registered for it
ControlMessage ==
  /\ server = "control"
  /\ control # <<>>
  /\ LET s == Head(control)
         f == ses[s].sock
         open == Ok(ses, s)
         locks == ~open /\ ~InClosing(net, s)
         n == IF ~open THEN CloseSession(net, ses, s)
              ELSE IF net.reads[f] # None THEN [net EXCEPT !.writes[f] = s]
              ELSE net
         x == IF ~open THEN CloseObject(net, ses, s) ELSE ses
         change == x[s].change
         fails == change /\ x[s].timeout /\ n.events[f] = "none"
     IN /\ locks => Unlocked(s)
        /\ net' = IF change /\ n.events[f] # "none"
                  THEN [n EXCEPT !.timer[f] = x[s].timeout] ELSE n
        /\ ses' = [x EXCEPT ![s].change = FALSE]
        /\ server' = IF fails THEN "event" ELSE "control"
  /\ control' = Tail(control)
  /\ UNCHANGED <<readQ, writeQ, worker, task>>

ControlEmpty ==
  /\ server = "control"
  /\ control = <<>>
  /\ server' = "write"
  /\ UNCHANGED <<net, ses, control, readQ, writeQ, worker, task>>

\* mutant: only a descriptor not watched yet is registered for writing
ActivateWritesIdle ==
  /\ server = "write"
  /\ LET waiting(f) == net.writes[f] # None /\ ses[net.writes[f]].pending
         arm(f) == waiting(f) /\ net.events[f] = "none"
     IN net' = [net EXCEPT
          !.writes = [f \in Fd |-> IF waiting(f) THEN @[f] ELSE None],
          !.events = [f \in Fd |-> IF arm(f) THEN "readwrite" ELSE @[f]],
          !.timer  = [f \in Fd |-> @[f] /\ ~arm(f)]]
  /\ server' = "delete"
  /\ UNCHANGED <<ses, control, readQ, writeQ, worker, task>>

\* register for writing what has data to send; AdEventModify registers anew,
\* without the timeout
ActivateWrites ==
  /\ server = "write"
  /\ LET waiting(f) == net.writes[f] # None /\ ses[net.writes[f]].pending
         arm(f) == waiting(f) /\ net.events[f] # "readwrite"
     IN net' = [net EXCEPT
          !.writes = [f \in Fd |-> IF waiting(f) THEN @[f] ELSE None],
          !.events = [f \in Fd |-> IF arm(f) THEN "readwrite" ELSE @[f]],
          !.timer  = [f \in Fd |-> @[f] /\ ~arm(f)]]
  /\ server' = "delete"
  /\ UNCHANGED <<ses, control, readQ, writeQ, worker, task>>

\* mutant: the delayed delete does not look at m_uiActive
DeleteNextBusy ==
  /\ server = "delete"
  /\ net.next <= net.due
  /\ LET s == net.closing[net.next] IN
     /\ Unlocked(s)
     /\ ses' = Close(ses, s)
     /\ net' = DeleteSession([net EXCEPT !.closing = RemoveAt(@, net.next), !.due = @ - 1], s)
  /\ UNCHANGED <<server, control, readQ, writeQ, worker, task>>

\* delayed delete, the next old entry: close again, and recycle the session
\* when nobody is using it
DeleteNext ==
  /\ server = "delete"
  /\ net.next <= net.due
  /\ LET s == net.closing[net.next] IN
     /\ Unlocked(s)
     /\ ses' = Close(ses, s)
     /\ net' = IF ses[s].active = 0
               THEN DeleteSession([net EXCEPT !.closing = RemoveAt(@, net.next),
                                              !.due = @ - 1], s)
               ELSE [net EXCEPT !.next = @ + 1]
  /\ UNCHANGED <<server, control, readQ, writeQ, worker, task>>

DeleteEnd ==
  /\ server = "delete"
  /\ net.next > net.due
  /\ net' = [net EXCEPT !.next = 1]
  /\ server' = "event"
  /\ UNCHANGED <<ses, control, readQ, writeQ, worker, task>>

\* a round of AdEventWait without an event
NoEvent ==
  /\ server = "event"
  /\ server' = "begin"
  /\ UNCHANGED <<net, ses, control, readQ, writeQ, worker, task>>

OpenFd(x) == {x[s].tcp : s \in Session} \ {None}

\* a connection: accept, then AdNetBaseAddSession, which closes whoever is
\* still registered under the number; a second accept finds nothing and
\* gives its session back
AcceptEvent ==
  /\ server = "event"
  /\ \E f \in Fd \ OpenFd(ses), s \in Allocatable(net) :
       LET n1 == Allocate(net, s)
           x1 == Connect(ses, s, f)
           old == n1.reads[f]
           clash == old # None /\ old # s
           n2 == IF clash THEN CloseSession(n1, x1, old) ELSE n1
           n3 == AddSession(n2, f, s)
       IN /\ ses' = IF clash THEN CloseObject(n1, x1, old) ELSE x1
          /\ clash => Unlocked(old)
          /\ \E t \in Allocatable(n3) : net' = DeleteSession(Allocate(n3, t), t)
  /\ UNCHANGED <<server, control, readQ, writeQ, worker, task>>

\* mutant: AdNetBasePushMsg does not count the reference
ReadEventUncounted(f) ==
  /\ server = "event"
  /\ net.events[f] # "none"
  /\ f \in OpenFd(ses) \/ net.timer[f]
  /\ Len(readQ) < MaxQueue
  /\ readQ' = Append(readQ, net.reads[f])
  /\ server' = "begin"
  /\ UNCHANGED <<net, ses, control, writeQ, worker, task>>

\* data, end of file or the session timeout: a worker is to read
ReadEvent(f) ==
  /\ server = "event"
  /\ net.events[f] # "none"
  /\ f \in OpenFd(ses) \/ net.timer[f]
  /\ Len(readQ) < MaxQueue
  /\ LET s == net.reads[f] IN
     /\ Unlocked(s)
     /\ readQ' = Append(readQ, s)
     /\ ses' = Active(ses, s)
  /\ server' = "begin"
  /\ UNCHANGED <<net, control, writeQ, worker, task>>

\* room to write: the write task is to send, and only reading is watched
WriteEvent(f) ==
  /\ server = "event"
  /\ net.events[f] = "readwrite"
  /\ f \in OpenFd(ses)
  /\ Len(writeQ) < MaxQueue
  /\ LET s == net.reads[f] IN
     /\ Unlocked(s)
     /\ writeQ' = Append(writeQ, s)
     /\ ses' = Active(ses, s)
  /\ net' = [net EXCEPT !.events[f] = "read", !.timer[f] = FALSE]
  /\ server' = "begin"
  /\ UNCHANGED <<control, readQ, worker, task>>

ServerStep ==
  \/ \E k \in 0 .. Cardinality(Session) : LoopBegin(k)
  \/ ControlMessage \/ ControlEmpty
  \/ ActivateWrites \/ DeleteNext \/ DeleteEnd \/ NoEvent

-----------------------------------------------------------------------------
(* A worker: AdWorkerTask::TaskLoop with AdSessionRead and AdSessionWrite. *)

Goto(w, pc) == worker' = [worker EXCEPT ![w].pc = pc]

WorkerTake(w) ==
  /\ worker[w].pc = "idle"
  /\ readQ # <<>>
  /\ worker' = [worker EXCEPT ![w] = [pc |-> "read", s |-> Head(readQ)]]
  /\ readQ' = Tail(readQ)
  /\ UNCHANGED <<net, ses, control, writeQ, server, task>>

\* reading to the end succeeds, or meets end of file, an error, or a socket
\* another thread has closed
WorkerRead(w) ==
  /\ worker[w].pc = "read"
  /\ Unlocked(worker[w].s)
  /\ LET s == worker[w].s IN
     \/ /\ ses[s].tcp # None
        /\ Goto(w, "run")
        /\ UNCHANGED ses
     \/ /\ ses' = Close(ses, s)
        /\ Goto(w, "report")
  /\ UNCHANGED <<net, control, readQ, writeQ, server, task>>

\* m_pMsg->push(this), after a failed read or during Run
WorkerReport(w) ==
  /\ worker[w].pc \in {"report", "reportRun"}
  /\ Len(control) < MaxQueue
  /\ control' = Append(control, worker[w].s)
  /\ Goto(w, IF worker[w].pc = "report" THEN "run" ELSE "done")
  /\ UNCHANGED <<net, ses, readQ, writeQ, server, task>>

\* Run: the application answers on the session, sets its timeout, or neither
RunNothing(w) ==
  /\ worker[w].pc = "run"
  /\ Goto(w, "done")
  /\ UNCHANGED <<net, ses, control, readQ, writeQ, server, task>>

RunWrite(w) ==
  /\ worker[w].pc = "run"
  /\ Unlocked(worker[w].s)
  /\ LET s == worker[w].s IN
     \/ /\ ses[s].tcp # None
        /\ Goto(w, "done")
        /\ UNCHANGED ses
     \/ /\ ses[s].tcp # None /\ CanBlock
        /\ Goto(w, "append")
        /\ UNCHANGED ses
     \/ /\ ses' = Close(ses, s)
        /\ Goto(w, "reportRun")
  /\ UNCHANGED <<net, control, readQ, writeQ, server, task>>

\* the lock was released between the write and the append
AppendPending(w) ==
  /\ worker[w].pc = "append"
  /\ Unlocked(worker[w].s)
  /\ ses' = [ses EXCEPT ![worker[w].s].pending = TRUE]
  /\ Goto(w, "reportRun")
  /\ UNCHANGED <<net, control, readQ, writeQ, server, task>>

RunSetTimeout(w) ==
  /\ worker[w].pc = "run"
  /\ SetsTimeout
  /\ Unlocked(worker[w].s)
  /\ ses' = [ses EXCEPT ![worker[w].s].timeout = ~@, ![worker[w].s].change = TRUE]
  /\ Goto(w, "reportRun")
  /\ UNCHANGED <<net, control, readQ, writeQ, server, task>>

\* mutant: the worker, like the write task, forgets AdSessionIdle
WorkerDoneBusy(w) ==
  /\ worker[w].pc = "done"
  /\ worker' = [worker EXCEPT ![w] = [pc |-> "idle", s |-> None]]
  /\ UNCHANGED <<net, ses, control, readQ, writeQ, server, task>>

\* Between its last look at m_ctMsgControl and the delayed delete the server
\* does not see a report.  NoGapRace: no worker both reports a closed session
\* and leaves it in that gap.
InGap(s) ==
  /\ server \in {"write", "delete"}
  /\ InClosing(net, s)
  /\ s \in ToSet(control)

WorkerDone(w) ==
  /\ worker[w].pc = "done"
  /\ NoGapRace => ~InGap(worker[w].s)
  /\ Unlocked(worker[w].s)
  /\ ses' = Idle(ses, worker[w].s)
  /\ worker' = [worker EXCEPT ![w] = [pc |-> "idle", s |-> None]]
  /\ UNCHANGED <<net, control, readQ, writeQ, server, task>>

WorkerStep(w) ==
  \/ WorkerTake(w) \/ WorkerRead(w) \/ WorkerReport(w) \/ RunNothing(w)
  \/ RunWrite(w) \/ AppendPending(w) \/ RunSetTimeout(w) \/ WorkerDone(w)

-----------------------------------------------------------------------------
(* The write task: AdWriteTask::TaskLoop with the delayed AdSessionWrite.  *)
(* It never calls AdSessionIdle.                                           *)

TaskTake ==
  /\ task.pc = "idle"
  /\ writeQ # <<>>
  /\ task' = [pc |-> "write", s |-> Head(writeQ)]
  /\ writeQ' = Tail(writeQ)
  /\ UNCHANGED <<net, ses, control, readQ, server, worker>>

\* the lock is taken and the front of m_ltSendCache popped: until the write
\* is over the list looks empty to AdSessionEmpty, which takes no lock
TaskPop ==
  /\ task.pc = "write"
  /\ ses[task.s].pending
  /\ ses' = [ses EXCEPT ![task.s].pending = FALSE]
  /\ task' = [task EXCEPT !.pc = "sending"]
  /\ UNCHANGED <<net, control, readQ, writeQ, server, worker>>

TaskSend ==
  /\ task.pc = "sending"
  /\ ses[task.s].tcp # None
  /\ task' = [pc |-> "idle", s |-> None]
  /\ UNCHANGED <<net, ses, control, readQ, writeQ, server, worker>>

\* still no room: push_front
TaskPutBack ==
  /\ task.pc = "sending"
  /\ ses[task.s].tcp # None
  /\ ses' = [ses EXCEPT ![task.s].pending = TRUE]
  /\ task' = [pc |-> "idle", s |-> None]
  /\ UNCHANGED <<net, control, readQ, writeQ, server, worker>>

TaskSendFails ==
  /\ task.pc = "sending"
  /\ task' = [task EXCEPT !.pc = "failed"]
  /\ UNCHANGED <<net, ses, control, readQ, writeQ, server, worker>>

\* nothing to send: the length is tested although nobody set it
TaskNothing ==
  /\ task.pc = "write"
  /\ ~ses[task.s].pending
  /\ task' \in {[pc |-> "idle", s |-> None], [task EXCEPT !.pc = "failed"]}
  /\ UNCHANGED <<net, ses, control, readQ, writeQ, server, worker>>

\* mutant: a failed delayed write is not reported
TaskCloseSilent ==
  /\ task.pc = "failed"
  /\ ses' = Close(ses, task.s)
  /\ task' = [pc |-> "idle", s |-> None]
  /\ UNCHANGED <<net, control, readQ, writeQ, server, worker>>

TaskClose ==
  /\ task.pc = "failed"
  /\ ses' = Close(ses, task.s)
  /\ task' = [task EXCEPT !.pc = "report"]
  /\ UNCHANGED <<net, control, readQ, writeQ, server, worker>>

TaskReport ==
  /\ task.pc = "report"
  /\ Len(control) < MaxQueue
  /\ control' = Append(control, task.s)
  /\ task' = [pc |-> "idle", s |-> None]
  /\ UNCHANGED <<net, ses, readQ, writeQ, server, worker>>

TaskStep ==
  \/ TaskTake \/ TaskPop \/ TaskSend \/ TaskPutBack
  \/ TaskSendFails \/ TaskNothing \/ TaskClose \/ TaskReport

-----------------------------------------------------------------------------
Next ==
  \/ ServerStep
  \/ AcceptEvent
  \/ \E f \in Fd : ReadEvent(f) \/ WriteEvent(f)
  \/ \E w \in Workers : WorkerStep(w)
  \/ TaskStep

Spec == Init /\ [][Next]_vars

(***************************************************************************)
(* Every thread keeps running and time passes; and the peer makes room now *)
(* and then, so that a write tried again and again goes through (or the    *)
(* connection breaks).  Write events are edge triggered (EV_ET) and come   *)
(* once, but ActivateWrites registers the descriptor anew, which reports a *)
(* socket that has room already, and room made later is an edge: the event *)
(* comes.                                                                  *)
(***************************************************************************)
Fairness ==
  /\ WF_vars(ServerStep)
  /\ \A k \in 1 .. Cardinality(Session) : SF_vars(LoopBegin(k))
  /\ \A f \in Fd : SF_vars(WriteEvent(f))
  /\ \A w \in Workers : WF_vars(WorkerStep(w))
  /\ WF_vars(TaskStep)
  /\ SF_vars(TaskSend)

FairSpec == Spec /\ Fairness

-----------------------------------------------------------------------------
Sessions == Session \cup {None}

NetState ==
  [reads : [Fd -> Sessions], writes : [Fd -> Sessions],
   events : [Fd -> {"none", "read", "readwrite"}], timer : [Fd -> BOOLEAN],
   closing : Seq(Session), due : Nat, next : Nat,
   free : Seq(Session), fresh : SUBSET Session]

(* Every variable has its type; a thread between two jobs holds nothing,   *)
(* and the bounds are kept.                                                *)
TypeOK ==
  /\ net \in NetState
  /\ ses \in [Session -> SessionState]
  /\ control \in Seq(Session) /\ readQ \in Seq(Session) /\ writeQ \in Seq(Session)
  /\ Len(readQ) <= MaxQueue
  /\ server \in Phase
  /\ worker \in [Workers -> [pc : WorkerPC, s : Sessions]]
  /\ \A w \in Workers : worker[w].pc = "idle" <=> worker[w].s = None
  /\ task \in [pc : TaskPC, s : Sessions]
  /\ task.pc = "idle" <=> task.s = None

(* The server's maps agree: a descriptor is watched exactly when a session *)
(* is registered for it, and that session is the one that opened it; no    *)
(* write entry names another one.  Workers close sockets behind the        *)
(* server's back and the kernel hands the number to the next connection.   *)
MapsAgree ==
  \A f \in Fd :
    /\ net.events[f] = "none" <=> net.reads[f] = None
    /\ net.reads[f] # None => ses[net.reads[f]].sock = f
    /\ net.writes[f] # None => net.writes[f] = net.reads[f]
    /\ \A s \in Session : ses[s].tcp = f => net.reads[f] = s

(* No session is recycled while a worker or a READ queue holds it:         *)
(* m_uiActive counts every one of those references, and at least one more  *)
(* when the session was given to the write task.                           *)
References(s) ==
  Cardinality({i \in DOMAIN readQ : readQ[i] = s})
    + Cardinality({w \in Workers : worker[w].s = s})

Writing(s) == s \in ToSet(writeQ) \/ task.s = s

ReferencesAreCounted ==
  \A s \in Session :
    ses[s].active >= References(s) + (IF Writing(s) THEN 1 ELSE 0)

(* A session is at one place: registered for its descriptor, on the close  *)
(* list once, on the free list once, or not allocated yet.                 *)
Registered(s) == ses[s].sock \in Fd /\ net.reads[ses[s].sock] = s
Unused(s) == s \in ToSet(net.free) \/ s \in net.fresh

OneHome ==
  /\ IsInjective(net.closing) /\ IsInjective(net.free)
  /\ ToSet(net.free) \cap net.fresh = {}
  /\ \A s \in Session :
       /\ Registered(s) \/ InClosing(net, s) \/ Unused(s)
       /\ ~(Registered(s) /\ InClosing(net, s))
       /\ ~(Registered(s) /\ Unused(s))
       /\ ~(InClosing(net, s) /\ Unused(s))
  /\ net.due <= Len(net.closing) /\ net.next > 0

(* "session: close wait reuse": a session that waits for reuse is closed,  *)
(* and nothing of its last connection is left, in it or in a queue.        *)
Referenced(s) ==
  \/ s \in ToSet(readQ) \cup ToSet(control)
  \/ \E w \in Workers : worker[w].s = s

UnusedIsClean ==
  \A s \in Session : Unused(s) =>
    /\ ses[s].tcp = None /\ ses[s].active = 0
    /\ ~ses[s].pending /\ ~ses[s].timeout /\ ~ses[s].change
    /\ ~Referenced(s) /\ ~Writing(s)

(* What reports a closed session after the server's last look at the       *)
(* control messages keeps it in use past the delayed delete.               *)
GapIsInUse == \A s \in Session : InGap(s) => ses[s].active > 0

NetInv ==
  /\ TypeOK /\ MapsAgree /\ ReferencesAreCounted
  /\ OneHome /\ UnusedIsClean /\ GapIsInUse

(* A connection starts with a session nobody else still works on: no       *)
(* unsent data, timeout, queued event or control message of the last one.  *)
StartsClean ==
  [][\A s \in Session :
       ses[s].tcp = None /\ ses'[s].tcp # None =>
         ~Referenced(s) /\ ~ses[s].pending /\ ~ses[s].timeout /\ ~ses[s].change]_vars

\* sessions in a queue or with a thread
Held == {s \in Session : Referenced(s) \/ Writing(s)}

Recycled == INSTANCE Recycling WITH
  line <- net.reads, closing <- ToSet(net.closing), held <- Held

(* Sessions are recycled as Recycling says, whoever closes a socket, takes *)
(* a session from a queue or reports it, and whenever the kernel hands out *)
(* its number again: an object serves one descriptor at a time, and is     *)
(* given to the next connection only after every thread has let it go.     *)
RecyclingSpec == Recycled!Spec

(* A connection some thread found broken is unregistered by the server.    *)
BrokenIsUnregistered ==
  \A f \in Fd, s \in Session :
    (net.reads[f] = s /\ ~Ok(ses, s)) ~> net.reads[f] # s

(* "detect close socket list, delay delete": the delayed delete of a       *)
(* closed session does happen...                                           *)
ClosedIsRecycled == \A s \in Session : InClosing(net, s) ~> ~InClosing(net, s)

(* ... as long as no session is given to the write task.                   *)
ReadSessionsAreRecycled == [](task.pc = "idle" /\ writeQ = <<>>) => ClosedIsRecycled

(* What a write left over and reported is taken up by the write task, or   *)
(* its connection is gone: the report is never lost.                       *)
LeftoverIsTried ==
  \A s \in Session, w \in Workers :
    (worker[w] = [pc |-> "reportRun", s |-> s] /\ ses[s].pending) ~> ~ses[s].pending

=============================================================================
