---------------------------- MODULE FaultBridge ----------------------------
(***************************************************************************)
(* Whose fault is it?  The kernel's trace names the session of a task when *)
(* it queues it (mpp_task_queued), its core when the core is chosen        *)
(* (mpp_core_selected), and only task and core when the task fails         *)
(* (mpp_task_error).  Task ids are counted per task queue, so two queues   *)
(* issue the same ids.  GstMppFaultCorrelator joins the three lines in a   *)
(* ring of MapSize entries, and charges a fault to this encoder when the   *)
(* session it joined to is in the set of sessions it owns.                 *)
(*                                                                         *)
(* The kernel side is external: it takes tasks and pops each queue in      *)
(* order onto a free core of that queue.  The trace is taken as it is      *)
(* read: a kernel action happens when the bridge reads its line, or loses  *)
(* it to an overrun of the trace ring; nothing else in the correlator      *)
(* depends on when a line was written.                                     *)
(***************************************************************************)
EXTENDS Integers, Sequences, FiniteSets, SequencesExt

CONSTANTS
  Mine,        \* sessions this element opens, one after the other
  Siblings,    \* sessions of other encoders of this process
  Foreign,     \* sessions of other processes
  Queues,      \* the kernel's task queues
  QueueOf,     \* the queue a session's tasks go to
  CoresOf,     \* the cores of a queue
  MapSize,     \* GST_MPP_FAULT_TASK_MAP_SIZE
  MaxOwned,    \* GST_MPP_FAULT_MAX_OWNED_SESSIONS
  DoneTraced,  \* mpp_task_done could be enabled
  Evicts,      \* the ring may overwrite the entry of a task still under way
  MaxLost,     \* bound: lines lost to an overrun
  MaxTasks     \* bound: tasks of one queue

Sessions == Mine \cup Siblings \cup Foreign
Cores == UNION {CoresOf[q] : q \in Queues}
NoCore == "unassigned"    \* GST_MPP_FAULT_CORE_UNASSIGNED

ASSUME BridgeAssumption ==
  /\ Mine # {} /\ Mine \cap (Siblings \cup Foreign) = {} /\ Siblings \cap Foreign = {}
  /\ \A s \in Sessions : QueueOf[s] \in Queues
  /\ \A p, q \in Queues : p # q => CoresOf[p] \cap CoresOf[q] = {}
  /\ NoCore \notin Cores
  /\ MapSize \in Nat \ {0} /\ MaxOwned \in Nat \ {0} /\ MaxLost \in Nat /\ MaxTasks \in Nat
  /\ DoneTraced \in BOOLEAN /\ Evicts \in BOOLEAN

VARIABLES
  issued,    \* the sessions of the tasks a queue has taken, by task id
  queued,    \* tasks that wait for a core
  running,   \* tasks on a core
  current,   \* the element's session
  spare,     \* sessions it may open at a restart
  entries,   \* corr->entries
  slot,      \* corr->next
  seq,       \* corr->seq
  owned,     \* corr->owned
  resolved,  \* corr->owned_resolved
  todo,      \* sessions of the summary being added
  blind,     \* history: own sessions whose summary could not be read
  phase,     \* "reading" the summary, "adding" its sessions, or "idle"
  verdicts,  \* history: the verdict on each task that failed
  lost       \* corr->lost_events

kernelVars == <<issued, queued, running>>
mapVars == <<entries, slot, seq>>
ownVars == <<current, spare, owned, resolved, todo, blind, phase>>
vars == <<kernelVars, mapVars, ownVars, verdicts, lost>>

Slots == 1..MapSize

Init ==
  /\ issued = [q \in Queues |-> <<>>] /\ queued = {} /\ running = {}
  /\ current \in Mine /\ spare = Mine \ {current}
  /\ entries = [i \in Slots |-> [task |-> 0, core |-> NoCore, session |-> current, seq |-> 0]]
  /\ slot = 1 /\ seq = 0
  /\ owned = <<>> /\ resolved = FALSE /\ todo = {} /\ blind = {} /\ phase = "reading"
  /\ verdicts = {} /\ lost = 0

-----------------------------------------------------------------------------
(* The map of tasks *)

Queue(t) == QueueOf[t.session]

\* The entries in use for task id "task", on core "core" or on none yet.
Held(task, core) ==
  {i \in Slots : entries[i].seq # 0 /\ entries[i].task = task /\ entries[i].core = core}
Unbound(task) == Held(task, NoCore)

\* gst_mpp_fault_lookup takes the newest of them.
Newest(i, S) == i \in S /\ \A j \in S : entries[j].seq <= entries[i].seq
Oldest(i, S) == i \in S /\ \A j \in S : entries[j].seq >= entries[i].seq

Freed(e) == [e EXCEPT !.seq = 0, !.core = NoCore]

\* gst_mpp_fault_retire on each of S.
Retire(S) == entries' = [i \in Slots |-> IF i \in S THEN Freed(entries[i]) ELSE entries[i]]

\* gst_mpp_fault_insert
Insert(task, session) ==
  /\ seq' = seq + 1 /\ slot' = (slot % MapSize) + 1
  /\ entries' = [entries EXCEPT ![slot] =
       [task |-> task, core |-> NoCore, session |-> session, seq |-> seq + 1]]

\* The entry the next insertion overwrites is that of a task under way.
EvictsTask ==
  /\ entries[slot].seq # 0
  /\ \E t \in queued \cup {r.task : r \in running} :
       t.id = entries[slot].task /\ t.session = entries[slot].session

\* The line of a kernel step never reaches the reader.
Missed ==
  /\ lost < MaxLost /\ lost' = lost + 1
  /\ UNCHANGED <<mapVars, ownVars, verdicts>>

-----------------------------------------------------------------------------
(* The kernel, and gst_mpp_fault_correlator_feed_line on each of its lines *)

\* The task id is the queue's own count.  A closed session may still be heard:
\* its lines wait in the trace.
TaskQueued(s) ==
  LET q == QueueOf[s]
      t == [id |-> Len(issued[q]) + 1, session |-> s]
  IN /\ phase = "idle" /\ s \notin spare /\ Len(issued[q]) < MaxTasks
     /\ issued' = [issued EXCEPT ![q] = Append(@, s)]
     /\ queued' = queued \cup {t} /\ running' = running
     /\ \/ /\ Evicts \/ ~EvictsTask
           /\ Insert(t.id, s) /\ UNCHANGED <<ownVars, verdicts, lost>>
        \/ Missed

\* The core of a task id that several queues hold is guessed.
BindOldest(task, core) ==
  \/ \E i \in Unbound(task) : /\ Oldest(i, Unbound(task))
                              /\ entries' = [entries EXCEPT ![i].core = core]
  \/ Unbound(task) = {} /\ UNCHANGED entries

\* One candidate takes the core; of several none does, and all are dropped.
Bind(task, core) ==
  \/ \E i \in Slots : /\ Unbound(task) = {i}
                      /\ entries' = [entries EXCEPT ![i].core = core]
  \/ (\A i \in Slots : Unbound(task) # {i}) /\ Retire(Unbound(task))

CoreSelected(t, c) ==
  /\ phase = "idle" /\ t \in queued /\ c \in CoresOf[Queue(t)]
  /\ \A u \in queued : Queue(u) = Queue(t) => t.id <= u.id
  /\ \A r \in running : r.core # c
  /\ queued' = queued \ {t} /\ running' = running \cup {[task |-> t, core |-> c]}
  /\ \/ Bind(t.id, c) /\ UNCHANGED <<slot, seq, ownVars, verdicts, lost>>
     \/ Missed
  /\ UNCHANGED issued

RetireDone(task, core) ==
  \/ \E i \in Slots : Newest(i, Held(task, core)) /\ Retire({i})
  \/ Held(task, core) = {} /\ UNCHANGED entries

TaskDone(r) ==
  /\ phase = "idle" /\ r \in running /\ running' = running \ {r}
  /\ \/ /\ IF DoneTraced THEN RetireDone(r.task.id, r.core) ELSE UNCHANGED entries
        /\ UNCHANGED <<slot, seq, ownVars, verdicts, lost>>
     \/ Missed
  /\ UNCHANGED <<issued, queued>>

Verdict(session) ==
  IF ~resolved THEN "UNATTRIBUTED"
  ELSE IF session \in ToSet(owned) THEN "OWNED" ELSE "FOREIGN"

\* A verdict, and whether the task was of the session the element has now.
Judged(t, verdict) ==
  [task |-> t, verdict |-> verdict, live |-> t.session = current]

TaskError(r) ==
  LET match == Held(r.task.id, r.core) IN
  /\ phase = "idle" /\ r \in running /\ running' = running \ {r}
  /\ \/ /\ \/ \E i \in Slots :
                /\ Newest(i, match) /\ Retire({i})
                /\ verdicts' = verdicts \cup
                     {Judged(r.task, Verdict(entries[i].session))}
           \/ /\ match = {} /\ UNCHANGED entries
              /\ verdicts' = verdicts \cup {Judged(r.task, "UNATTRIBUTED")}
        /\ UNCHANGED <<slot, seq, ownVars, lost>>
     \/ Missed
  /\ UNCHANGED <<issued, queued>>

-----------------------------------------------------------------------------
(* Ownership *)

\* The set is replaced by what the summary shows.
Replaced(s) == <<s>>

\* Full, the set loses its newest member.
AddedOverNewest(s) ==
  IF s \in ToSet(owned) THEN owned
  ELSE Append(IF Len(owned) = MaxOwned THEN Front(owned) ELSE owned, s)

\* The set grows without a limit.
AddedUnbounded(s) == IF s \in ToSet(owned) THEN owned ELSE Append(owned, s)

\* gst_mpp_fault_correlator_add_session: full, the set loses its oldest.
Added(s) ==
  IF s \in ToSet(owned) THEN owned
  ELSE Append(IF Len(owned) = MaxOwned THEN Tail(owned) ELSE owned, s)

\* The new session is not looked up.
RestartUnresolved(s) ==
  /\ phase = "idle" /\ s \in spare
  /\ current' = s /\ spare' = spare \ {s}
  /\ UNCHANGED <<kernelVars, mapVars, owned, resolved, todo, blind, phase, verdicts, lost>>

\* gst_mpp_enc_restart_context closed the session and opened another.
Restart(s) ==
  /\ phase = "idle" /\ s \in spare
  /\ current' = s /\ spare' = spare \ {s} /\ phase' = "reading"
  /\ UNCHANGED <<kernelVars, mapVars, owned, resolved, todo, blind, verdicts, lost>>

\* Beside the current session, which the caller just opened itself, the summary
\* may show those of the process's other encoders: their threads are its own.
Visible == Siblings

\* gst_mpp_fault_sessions_from_summary: the visible sessions whose creating
\* thread is still alive.
ReadSummary ==
  /\ phase = "reading" /\ phase' = "adding"
  /\ \E found \in SUBSET Visible : todo' = {current} \cup found
  /\ UNCHANGED <<kernelVars, mapVars, current, spare, owned, resolved, blind, verdicts, lost>>

\* /proc/self/task or the summary cannot be read: nothing is resolved.
SummaryUnreadable ==
  /\ phase = "reading" /\ phase' = "idle" /\ blind' = blind \cup {current}
  /\ UNCHANGED <<kernelVars, mapVars, current, spare, owned, resolved, todo, verdicts, lost>>

AddSession(s) ==
  /\ phase = "adding" /\ s \in todo /\ todo' = todo \ {s}
  /\ owned' = Added(s)
  /\ UNCHANGED <<kernelVars, mapVars, current, spare, resolved, blind, phase, verdicts, lost>>

MarkResolved ==
  /\ phase = "adding" /\ todo = {} /\ phase' = "idle" /\ resolved' = TRUE
  /\ UNCHANGED <<kernelVars, mapVars, current, spare, owned, todo, blind, verdicts, lost>>

-----------------------------------------------------------------------------
Kernel ==
  \/ \E s \in Sessions : TaskQueued(s)
  \/ \E t \in queued, c \in Cores : CoreSelected(t, c)
  \/ \E r \in running : TaskDone(r)
  \/ \E r \in running : TaskError(r)

Ownership ==
  \/ \E s \in spare : Restart(s)
  \/ ReadSummary
  \/ SummaryUnreadable
  \/ \E s \in todo : AddSession(s)
  \/ MarkResolved

Next == Kernel \/ Ownership

Spec == Init /\ [][Next]_vars

-----------------------------------------------------------------------------
(* Properties *)

Task == [id : Nat \ {0}, session : Sessions]
Entry == [task : Nat, core : Cores \cup {NoCore}, session : Sessions, seq : Nat]
Verdicts == {"OWNED", "FOREIGN", "UNATTRIBUTED"}

\* The kernel's queues and the state of the correlator keep their types.
TypeOK ==
  /\ issued \in [Queues -> Seq(Sessions)] /\ queued \subseteq Task
  /\ running \subseteq [task : Task, core : Cores]
  /\ current \in Mine /\ spare \subseteq Mine
  /\ entries \in [Slots -> Entry] /\ slot \in Slots /\ seq \in Nat
  /\ owned \in Seq(Mine \cup Siblings) /\ Len(owned) <= MaxOwned
  /\ resolved \in BOOLEAN /\ todo \subseteq Mine \cup Siblings
  /\ blind \subseteq Mine /\ phase \in {"reading", "adding", "idle"} /\ lost \in 0..MaxLost
  /\ verdicts \subseteq [task : Task, verdict : Verdicts, live : BOOLEAN]

\* A fault of another process is never charged to this encoder, whatever the
\* order in which the queues number, start, finish and fail their tasks
\* (gst_mpp_fault_correlator_feed_line).
OnlyOursCharged ==
  \A v \in verdicts : v.verdict = "OWNED" => v.task.session \notin Foreign

\* A fault of this element, however late after a restart its line is read, is
\* never put down to somebody else: the owned set is a union, not a snapshot.
NeverDisowned ==
  \A v \in verdicts : v.verdict = "FOREIGN" => v.task.session \notin Mine \ blind

\* With one queue and no lost line every fault of the element's session is
\* charged: its entry has outlived every other task's insertion, retirement and
\* restart, its session every member the bounded set had to drop.
Detected ==
  lost = 0 => \A v \in verdicts :
    v.live /\ v.task.session \notin blind => v.verdict = "OWNED"

\* Outside a resolution the element owns its current session, though the bounded
\* set drops members to take in others (add_session).
CurrentOwned == phase = "idle" => current \in ToSet(owned) \cup blind
=============================================================================
