------------------------- MODULE FaultBridge_proofs -------------------------
(***************************************************************************)
(* When a fault of another process is never charged to this encoder: with  *)
(* one task queue, whatever the trace loses and the map forgets; with two, *)
(* as long as no line is lost and no entry of a task under way is          *)
(* overwritten.  (TLC shows that neither condition can be dropped, nor     *)
(* three queues allowed.)                                                  *)
(*                                                                         *)
(* A wrong charge takes an entry bound to a core of another queue than its *)
(* task's.  The invariant says why none is: an unbound entry is that of a  *)
(* task that waits, and a task that waits either has its entry, or lost it *)
(* to a collision, and then every queue has issued its id already and no   *)
(* later entry can be mistaken for it.                                     *)
(***************************************************************************)
EXTENDS FaultBridge, FiniteSetTheorems, TLAPS

\* Entry e is in use, and bound or not.
Live(e) == e.seq # 0
Waits(e) == Live(e) /\ e.core = NoCore

\* Session s issued id n, by the lists of tasks the queues have taken.
IssuedIn(taken, s, n) == n \in 1..Len(taken[QueueOf[s]]) /\ taken[QueueOf[s]][n] = s
Issued(s, n) == IssuedIn(issued, s, n)

\* A task under way was issued by its session's queue, and runs on its core.
TasksIssued ==
  /\ \A t \in queued : Issued(t.session, t.id)
  /\ \A r \in running : Issued(r.task.session, r.task.id) /\ r.core \in CoresOf[Queue(r.task)]

EntriesIssued ==
  \A i \in Slots : Live(entries[i]) => Issued(entries[i].session, entries[i].task)

BoundAtHome ==
  \A i \in Slots : Live(entries[i]) /\ entries[i].core # NoCore
    => entries[i].core \in CoresOf[QueueOf[entries[i].session]]

\* Entry i is that of task t, not bound yet.
EntryOf(i, t) ==
  Waits(entries[i]) /\ entries[i].task = t.id /\ entries[i].session = t.session

UnboundQueued ==
  \A i \in Slots : Waits(entries[i])
    => [id |-> entries[i].task, session |-> entries[i].session] \in queued

UnboundOnce ==
  \A i, j \in Slots :
    /\ Waits(entries[i]) /\ Waits(entries[j])
    /\ entries[i].task = entries[j].task /\ entries[i].session = entries[j].session
    => i = j

\* No entry, now or later, can stand in for the task.
Abandoned(t) ==
  /\ \A q \in Queues : t.id <= Len(issued[q])
  /\ \A i \in Slots : ~(Waits(entries[i]) /\ entries[i].task = t.id)

QueuedFound ==
  \A t \in queued : (\E i \in Slots : EntryOf(i, t)) \/ Abandoned(t)

JoinInv == TasksIssued /\ EntriesIssued
PairInv == JoinInv /\ BoundAtHome /\ UnboundQueued /\ UnboundOnce /\ QueuedFound

-----------------------------------------------------------------------------
(* Types *)

\* The tasks and sessions of the kernel side keep their types.
LEMMA SessionFacts ==
  /\ \A s \in Sessions : QueueOf[s] \in Queues
  /\ \A q \in Queues : CoresOf[q] \subseteq Cores
  /\ Mine \subseteq Sessions /\ Siblings \subseteq Sessions
BY BridgeAssumption DEF Sessions, Cores

LEMMA RetireType ==
  ASSUME TypeOK, NEW S, Retire(S)
  PROVE  entries' \in [Slots -> Entry]
<1>1. \A e \in Entry : Freed(e) \in Entry
  BY DEF Freed, Entry
<1> QED BY <1>1 DEF TypeOK, Retire

LEMMA MapType ==
  ASSUME TypeOK, [Next]_vars
  PROVE  entries' \in [Slots -> Entry] /\ slot' \in Slots /\ seq' \in Nat
<1> USE DEF TypeOK
<1>1. CASE \E s \in Sessions : TaskQueued(s)
  <2>1. PICK s \in Sessions : TaskQueued(s)
    BY <1>1
  <2> DEFINE n == Len(issued[QueueOf[s]]) + 1
  <2>2. n \in Nat
    BY SessionFacts
  <2>3. CASE Insert(n, s)
    <3>1. [task |-> n, core |-> NoCore, session |-> s, seq |-> seq + 1] \in Entry
      BY <2>2 DEF Entry
    <3>2. (slot % MapSize) + 1 \in Slots
      BY BridgeAssumption DEF Slots
    <3> HIDE DEF n
    <3> QED BY <2>3, <3>1, <3>2 DEF Insert
  <2>4. CASE Missed
    BY <2>4 DEF Missed, mapVars
  <2> QED BY <2>1, <2>3, <2>4 DEF TaskQueued
<1>2. CASE \E t \in queued, c \in Cores : CoreSelected(t, c)
  <2>1. PICK t \in queued, c \in Cores : CoreSelected(t, c)
    BY <1>2
  <2>2. CASE Bind(t.id, c)
    <3>1. ASSUME Retire(Unbound(t.id))
          PROVE  entries' \in [Slots -> Entry]
      <4> DEFINE S == Unbound(t.id)
      <4>1. Retire(S)
        BY <3>1
      <4> HIDE DEF S
      <4> QED BY <4>1, RetireType
    <3>2. ASSUME NEW i \in Slots, entries' = [entries EXCEPT ![i].core = c]
          PROVE  entries' \in [Slots -> Entry]
      <4>1. [entries[i] EXCEPT !.core = c] \in Entry
        BY DEF Entry
      <4> QED BY <3>2, <4>1
    <3> QED BY <2>1, <2>2, <3>1, <3>2 DEF CoreSelected, Bind, Missed, mapVars
  <2>3. CASE Missed
    BY <2>3 DEF Missed, mapVars
  <2> QED BY <2>1, <2>2, <2>3 DEF CoreSelected, Missed, mapVars
<1>3. CASE \E r \in running : TaskDone(r)
  BY <1>3, RetireType DEF TaskDone, RetireDone, Missed, mapVars
<1>4. CASE \E r \in running : TaskError(r)
  BY <1>4, RetireType DEF TaskError, Missed, mapVars
<1>5. CASE Ownership
  BY <1>5 DEF Ownership, Restart, ReadSummary, SummaryUnreadable, AddSession, MarkResolved, mapVars
<1>6. CASE UNCHANGED vars
  BY <1>6 DEF vars, mapVars
<1> QED BY <1>1, <1>2, <1>3, <1>4, <1>5, <1>6 DEF Next, Kernel

LEMMA KernelType ==
  ASSUME TypeOK, [Next]_vars
  PROVE  /\ issued' \in [Queues -> Seq(Sessions)] /\ queued' \subseteq Task
         /\ running' \subseteq [task : Task, core : Cores]
<1> USE DEF TypeOK
<1>1. CASE \E s \in Sessions : TaskQueued(s)
  <2>1. PICK s \in Sessions : TaskQueued(s)
    BY <1>1
  <2>2. QueueOf[s] \in Queues
    BY SessionFacts
  <2>3. [id |-> Len(issued[QueueOf[s]]) + 1, session |-> s] \in Task
    BY <2>2 DEF Task
  <2>4. Append(issued[QueueOf[s]], s) \in Seq(Sessions)
    BY <2>2
  <2> QED BY <2>1, <2>2, <2>3, <2>4 DEF TaskQueued
<1>2. CASE \E t \in queued, c \in Cores : CoreSelected(t, c)
  BY <1>2 DEF CoreSelected
<1>3. CASE \E r \in running : TaskDone(r)
  BY <1>3 DEF TaskDone
<1>4. CASE \E r \in running : TaskError(r)
  BY <1>4 DEF TaskError
<1>5. CASE Ownership
  BY <1>5 DEF Ownership, Restart, ReadSummary, SummaryUnreadable, AddSession, MarkResolved, kernelVars
<1>6. CASE UNCHANGED vars
  BY <1>6 DEF vars, kernelVars
<1> QED BY <1>1, <1>2, <1>3, <1>4, <1>5, <1>6 DEF Next, Kernel

LEMMA OwnershipType ==
  ASSUME TypeOK, [Next]_vars
  PROVE  /\ current' \in Mine /\ spare' \subseteq Mine
         /\ owned' \in Seq(Mine \cup Siblings) /\ Len(owned') <= MaxOwned
         /\ resolved' \in BOOLEAN /\ todo' \subseteq Mine \cup Siblings
         /\ blind' \subseteq Mine /\ phase' \in {"reading", "adding", "idle"}
<1> USE DEF TypeOK
<1>1. CASE UNCHANGED ownVars
  BY <1>1 DEF ownVars
<1>2. CASE \E s \in spare : Restart(s)
  BY <1>2 DEF Restart
<1>3. CASE ReadSummary
  BY <1>3 DEF ReadSummary, Visible
<1>4. CASE SummaryUnreadable
  BY <1>4 DEF SummaryUnreadable
<1>5. CASE \E s \in todo : AddSession(s)
  <2>1. PICK s \in todo : AddSession(s)
    BY <1>5
  <2>2. Added(s) \in Seq(Mine \cup Siblings) /\ Len(Added(s)) <= MaxOwned
    <3>1. CASE Len(owned) = MaxOwned
      BY <3>1, BridgeAssumption DEF Added
    <3>2. CASE Len(owned) # MaxOwned
      BY <3>2, BridgeAssumption DEF Added
    <3> QED BY <3>1, <3>2
  <2> QED BY <2>1, <2>2 DEF AddSession
<1>6. CASE MarkResolved
  BY <1>6 DEF MarkResolved
<1>7. Kernel => UNCHANGED ownVars
  BY DEF Kernel, TaskQueued, CoreSelected, TaskDone, TaskError, Missed
<1> QED BY <1>1, <1>2, <1>3, <1>4, <1>5, <1>6, <1>7 DEF Next, Ownership, vars

LEMMA VerdictType ==
  ASSUME TypeOK, [Next]_vars
  PROVE  /\ verdicts' \subseteq [task : Task, verdict : Verdicts, live : BOOLEAN]
         /\ lost' \in 0..MaxLost
<1> USE DEF TypeOK
<1>1. Missed => verdicts' = verdicts /\ lost' \in 0..MaxLost
  BY BridgeAssumption DEF Missed
<1>2. CASE \E s \in Sessions : TaskQueued(s)
  BY <1>1, <1>2 DEF TaskQueued
<1>3. CASE \E t \in queued, c \in Cores : CoreSelected(t, c)
  BY <1>1, <1>3 DEF CoreSelected
<1>4. CASE \E r \in running : TaskDone(r)
  BY <1>1, <1>4 DEF TaskDone
<1>5. CASE \E r \in running : TaskError(r)
  <2>1. PICK r \in running : TaskError(r)
    BY <1>5
  <2>2. \A v \in Verdicts :
          Judged(r.task, v) \in [task : Task, verdict : Verdicts, live : BOOLEAN]
    BY DEF Judged
  <2>3. \A s : Verdict(s) \in Verdicts
    BY DEF Verdict, Verdicts
  <2>4. "UNATTRIBUTED" \in Verdicts
    BY DEF Verdicts
  <2> QED BY <1>1, <2>1, <2>2, <2>3, <2>4 DEF TaskError
<1>6. CASE Ownership
  BY <1>6 DEF Ownership, Restart, ReadSummary, SummaryUnreadable, AddSession, MarkResolved
<1>7. CASE UNCHANGED vars
  BY <1>7 DEF vars
<1> QED BY <1>2, <1>3, <1>4, <1>5, <1>6, <1>7 DEF Next, Kernel

\* The correlator and the queues it follows keep their types.
THEOREM TypesHold == Spec => []TypeOK
<1>1. ASSUME Init PROVE TypeOK
  <2>1. entries \in [Slots -> Entry]
    BY <1>1, SessionFacts DEF Init, Entry
  <2>2. slot \in Slots /\ seq \in Nat /\ Len(owned) <= MaxOwned /\ lost \in 0..MaxLost
    BY <1>1, BridgeAssumption DEF Init, Slots
  <2>3. issued \in [Queues -> Seq(Sessions)] /\ owned \in Seq(Mine \cup Siblings)
    BY <1>1 DEF Init
  <2> QED BY <1>1, <2>1, <2>2, <2>3 DEF Init, TypeOK
<1>2. TypeOK /\ [Next]_vars => TypeOK'
  BY KernelType, MapType, OwnershipType, VerdictType DEF TypeOK
<1> QED BY <1>1, <1>2, PTL DEF Spec

-----------------------------------------------------------------------------
(* What a line does to the entries *)

\* Session and task of an entry in use are those it had, or are just inserted.
LEMMA RetireKeeps ==
  ASSUME TypeOK, NEW S, Retire(S), NEW i \in Slots
  PROVE  /\ i \in S => ~Live(entries'[i])
         /\ i \notin S => entries'[i] = entries[i]
<1>1. \A e \in Entry : ~Live(Freed(e))
  BY DEF Freed, Entry, Live
<1> QED BY <1>1 DEF TypeOK, Retire

LEMMA InsertKeeps ==
  ASSUME TypeOK, NEW n, NEW s, Insert(n, s), NEW i \in Slots
  PROVE  IF i = slot
           THEN /\ Waits(entries'[i]) /\ entries'[i].task = n /\ entries'[i].session = s
           ELSE entries'[i] = entries[i]
BY DEF TypeOK, Insert, Waits, Live

\* The queue's count goes up by one, all that was issued stays issued.
LEMMA IssueKeeps ==
  ASSUME TypeOK, NEW s \in Sessions, TaskQueued(s), NEW n, n = Len(issued[QueueOf[s]]) + 1
  PROVE  /\ IssuedIn(issued', s, n)
         /\ \A u \in Sessions, k \in Nat : Issued(u, k) => IssuedIn(issued', u, k)
         /\ \A q \in Queues : Len(issued[q]) <= Len(issued'[q])
         /\ n \in Nat /\ ~Issued(s, n)
<1>1. QueueOf[s] \in Queues /\ issued[QueueOf[s]] \in Seq(Sessions)
  BY SessionFacts DEF TypeOK
<1>2. issued' = [issued EXCEPT ![QueueOf[s]] = Append(@, s)]
  BY DEF TaskQueued
<1>3. \A u \in Sessions : QueueOf[u] \in Queues /\ issued[QueueOf[u]] \in Seq(Sessions)
  BY SessionFacts DEF TypeOK
<1>4. \A q \in Queues : issued'[q] = IF q = QueueOf[s] THEN Append(issued[q], s) ELSE issued[q]
  BY <1>2 DEF TypeOK
<1>5. /\ issued'[QueueOf[s]] = Append(issued[QueueOf[s]], s) /\ n \in Nat
      /\ Len(issued'[QueueOf[s]]) = n /\ issued'[QueueOf[s]][n] = s
  <2> DEFINE taken == issued[QueueOf[s]]
  <2>1. issued'[QueueOf[s]] = Append(taken, s)
    BY <1>1, <1>4
  <2>2. taken \in Seq(Sessions) /\ n = Len(taken) + 1
    BY <1>1
  <2>3. n \in Nat /\ Len(Append(taken, s)) = n /\ Append(taken, s)[n] = s
    <3> HIDE DEF taken
    <3> QED BY <2>2
  <2> QED BY <2>1, <2>3
<1>6. ASSUME NEW u \in Sessions, NEW k \in Nat, Issued(u, k)
      PROVE  IssuedIn(issued', u, k)
  <2>1. CASE QueueOf[u] = QueueOf[s]
    <3>1. k \in 1..Len(issued[QueueOf[s]]) /\ issued[QueueOf[s]][k] = u
      BY <1>6, <2>1 DEF Issued, IssuedIn
    <3>2. k \in 1..n /\ issued'[QueueOf[s]][k] = u
      BY <1>1, <1>5, <3>1
    <3> QED BY <1>5, <2>1, <3>2 DEF IssuedIn
  <2>2. CASE QueueOf[u] # QueueOf[s]
    BY <1>3, <1>4, <1>6, <2>2 DEF Issued, IssuedIn
  <2> QED BY <2>1, <2>2
<1>7. ASSUME NEW q \in Queues PROVE Len(issued[q]) <= Len(issued'[q])
  <2>1. Len(issued[q]) \in Nat
    <3>1. issued[q] \in Seq(Sessions)
      BY <1>7 DEF TypeOK
    <3> QED BY <3>1
  <2>2. CASE q = QueueOf[s]
    BY <1>5, <2>1, <2>2
  <2>3. CASE q # QueueOf[s]
    BY <1>4, <1>7, <2>1, <2>3
  <2> QED BY <2>2, <2>3
<1>8. IssuedIn(issued', s, n) /\ ~Issued(s, n)
  BY <1>1, <1>5 DEF Issued, IssuedIn
<1> QED BY <1>5, <1>6, <1>7, <1>8

\* Every other step leaves the queues' counts.
LEMMA IssuedStays ==
  ASSUME [Next]_vars, \A s \in Sessions : ~TaskQueued(s)
  PROVE  issued' = issued
BY DEF Next, Kernel, Ownership, CoreSelected, TaskDone, TaskError, Restart, ReadSummary,
       SummaryUnreadable, AddSession, MarkResolved, kernelVars, vars

-----------------------------------------------------------------------------
(* One queue *)

\* Tasks under way and entries in use name sessions that issued their ids.
LEMMA JoinStep ==
  ASSUME TypeOK, TypeOK', JoinInv, [Next]_vars
  PROVE  JoinInv'
<1> USE DEF JoinInv
<1>0. /\ \A t \in queued : t.id \in Nat /\ t.session \in Sessions
      /\ \A r \in running : r.task.id \in Nat /\ r.task.session \in Sessions
      /\ \A i \in Slots : entries[i].task \in Nat /\ entries[i].session \in Sessions
  BY DEF TypeOK, Task, Entry
<1>1. CASE \E s \in Sessions : TaskQueued(s)
  <2>1. PICK s \in Sessions : TaskQueued(s)
    BY <1>1
  <2>0. PICK n : n = Len(issued[QueueOf[s]]) + 1
    OBVIOUS
  <2>2. /\ IssuedIn(issued', s, n)
        /\ \A u \in Sessions, k \in Nat : Issued(u, k) => IssuedIn(issued', u, k)
    BY <2>0, <2>1, IssueKeeps
  <2>3. TasksIssued'
    <3>1. queued' = queued \cup {[id |-> n, session |-> s]} /\ running' = running
      BY <2>0, <2>1 DEF TaskQueued
    <3> QED BY <1>0, <2>2, <3>1 DEF TasksIssued, Issued, Queue
  <2>4. EntriesIssued'
    <3>1. CASE Insert(n, s)
      <4> SUFFICES ASSUME NEW i \in Slots, Live(entries'[i])
                   PROVE  IssuedIn(issued', entries'[i].session, entries'[i].task)
        BY DEF EntriesIssued, Issued, Live
      <4>1. CASE i = slot
        BY <2>2, <3>1, <4>1, InsertKeeps
      <4>2. CASE i # slot
        BY <1>0, <2>2, <3>1, <4>2, InsertKeeps DEF EntriesIssued
      <4> QED BY <4>1, <4>2
    <3>2. CASE Missed
      BY <1>0, <2>2, <3>2 DEF Missed, mapVars, EntriesIssued, Issued
    <3> QED BY <2>0, <2>1, <3>1, <3>2 DEF TaskQueued
  <2> QED BY <2>3, <2>4
<1>2. CASE \A s \in Sessions : ~TaskQueued(s)
  <2>1. issued' = issued
    BY <1>2, IssuedStays
  <2>2. TasksIssued'
    <3>1. CASE \E t \in queued, c \in Cores : CoreSelected(t, c)
      BY <2>1, <3>1 DEF CoreSelected, TasksIssued, Issued, IssuedIn, Queue
    <3>2. CASE \E r \in running : TaskDone(r) \/ TaskError(r)
      BY <2>1, <3>2 DEF TaskDone, TaskError, TasksIssued, Issued, IssuedIn
    <3>3. CASE UNCHANGED kernelVars
      BY <3>3 DEF kernelVars, TasksIssued, Issued, IssuedIn
    <3> QED BY <1>2, <3>1, <3>2, <3>3 DEF Next, Kernel, Ownership, Restart, ReadSummary,
               SummaryUnreadable, AddSession, MarkResolved, vars, kernelVars
  <2>3. \A i \in Slots : Live(entries'[i]) =>
          Live(entries[i]) /\ entries'[i].task = entries[i].task
                           /\ entries'[i].session = entries[i].session
    <3>1. ASSUME NEW S, Retire(S), NEW i \in Slots, Live(entries'[i])
          PROVE  entries'[i] = entries[i]
      BY <3>1, RetireKeeps
    <3>2. ASSUME NEW k \in Slots, NEW c, entries' = [entries EXCEPT ![k].core = c], NEW i \in Slots
          PROVE  /\ entries'[i].task = entries[i].task /\ entries'[i].session = entries[i].session
                 /\ entries'[i].seq = entries[i].seq
      BY <3>2 DEF TypeOK, Entry
    <3>3. CASE \E t \in queued, c \in Cores : CoreSelected(t, c)
      BY <3>1, <3>2, <3>3 DEF CoreSelected, Bind, Missed, mapVars, Live
    <3>4. CASE \E r \in running : TaskDone(r) \/ TaskError(r)
      BY <3>1, <3>4 DEF TaskDone, RetireDone, TaskError, Missed, mapVars
    <3>5. CASE UNCHANGED entries
      BY <3>5
    <3> QED BY <1>2, <3>3, <3>4, <3>5 DEF Next, Kernel, Ownership, Restart, ReadSummary,
               SummaryUnreadable, AddSession, MarkResolved, vars, mapVars
  <2> QED BY <2>1, <2>2, <2>3 DEF EntriesIssued, Issued, IssuedIn
<1> QED BY <1>1, <1>2

\* A task and the entry joined to it, both issued by one queue, are of one session.
LEMMA SameQueueJoin ==
  ASSUME NEW s \in Sessions, NEW u \in Sessions, NEW n, Issued(s, n), Issued(u, n),
         QueueOf[s] = QueueOf[u]
  PROVE  s = u
BY DEF Issued, IssuedIn

\* With one queue the ids alone tell the tasks apart.
LEMMA OneQueueJoin ==
  ASSUME TypeOK, JoinInv, \A p, q \in Queues : p = q,
         NEW r \in running, NEW i \in Held(r.task.id, r.core)
  PROVE  entries[i].session = r.task.session
<1>1. r.task.session \in Sessions /\ entries[i].session \in Sessions
  BY DEF TypeOK, Task, Entry, Held
<1>2. QueueOf[r.task.session] = QueueOf[entries[i].session]
  BY <1>1, SessionFacts
<1>3. Issued(r.task.session, r.task.id) /\ Issued(entries[i].session, r.task.id)
  BY DEF JoinInv, TasksIssued, EntriesIssued, Held, Live
<1> QED BY <1>1, <1>2, <1>3, SameQueueJoin

\* A step charges no foreign fault if every entry that can be joined to a
\* failing task is of the task's session.
LEMMA VerdictStep ==
  ASSUME TypeOK, OnlyOursCharged, [Next]_vars,
         \A r \in running : \A i \in Held(r.task.id, r.core) :
           entries[i].session = r.task.session
  PROVE  OnlyOursCharged'
<1>1. CASE \E r \in running : TaskError(r)
  <2>1. PICK r \in running : TaskError(r)
    BY <1>1
  <2>2. ASSUME NEW i \in Slots, Newest(i, Held(r.task.id, r.core)),
               Verdict(entries[i].session) = "OWNED"
        PROVE  r.task.session \notin Foreign
    <3>1. entries[i].session = r.task.session
      BY <2>2 DEF Newest
    <3>2. entries[i].session \in Mine \cup Siblings
      BY <2>2 DEF Verdict, ToSet, TypeOK
    <3> QED BY <3>1, <3>2, BridgeAssumption
  <2>3. ASSUME NEW v \in verdicts', v \notin verdicts, v.verdict = "OWNED"
        PROVE  v.task.session \notin Foreign
    <3>1. PICK i \in Slots : /\ Newest(i, Held(r.task.id, r.core))
                             /\ v = Judged(r.task, Verdict(entries[i].session))
      <4>1. v # Judged(r.task, "UNATTRIBUTED")
        BY <2>3 DEF Judged
      <4> QED BY <2>1, <2>3, <4>1 DEF TaskError, Missed
    <3>2. v.task = r.task /\ v.verdict = Verdict(entries[i].session)
      BY <3>1 DEF Judged
    <3> QED BY <2>2, <2>3, <3>1, <3>2
  <2> QED BY <2>3 DEF OnlyOursCharged
<1>2. CASE verdicts' = verdicts
  BY <1>2 DEF OnlyOursCharged
<1> QED BY <1>1, <1>2 DEF Next, Kernel, Ownership, TaskQueued, CoreSelected, TaskDone, Missed,
           Restart, ReadSummary, SummaryUnreadable, AddSession, MarkResolved, vars

\* gst_mpp_fault_correlator_feed_line: with one task queue no fault of another
\* process is charged, whatever lines are lost and entries overwritten.
THEOREM OneQueueAttribution ==
  ASSUME \A p, q \in Queues : p = q
  PROVE  Spec => []OnlyOursCharged
<1>1. Init => JoinInv /\ OnlyOursCharged
  BY DEF Init, JoinInv, TasksIssued, EntriesIssued, Live, OnlyOursCharged
<1>2. TypeOK /\ JoinInv /\ OnlyOursCharged /\ [Next]_vars => OnlyOursCharged'
  BY OneQueueJoin, VerdictStep
<1>3. TypeOK /\ TypeOK' /\ JoinInv /\ [Next]_vars => JoinInv'
  BY JoinStep
<1> QED BY <1>1, <1>2, <1>3, TypesHold, PTL DEF Spec

-----------------------------------------------------------------------------
(* Two queues, a whole trace, and a map that forgets no task under way *)

\* Tasks of one queue with one id are the same task.
LEMMA OneTask ==
  ASSUME TypeOK, TasksIssued, NEW t \in queued, NEW u \in queued,
         Queue(t) = Queue(u), t.id = u.id
  PROVE  t = u
<1>1. t \in Task /\ u \in Task
  BY DEF TypeOK
<1>2. t.session = u.session
  BY <1>1, SameQueueJoin DEF TasksIssued, Queue, Task
<1> QED BY <1>1, <1>2 DEF Task

\* The entry of a task that waits is the only candidate for its core.
LEMMA SoleCandidate ==
  ASSUME TypeOK, PairInv, NEW t \in queued, NEW i \in Slots, Unbound(t.id) = {i}
  PROVE  EntryOf(i, t)
<1>1. Waits(entries[i]) /\ entries[i].task = t.id
  BY DEF Unbound, Held, Waits, Live
<1>2. ~Abandoned(t)
  BY <1>1 DEF Abandoned
<1>3. PICK k \in Slots : EntryOf(k, t)
  BY <1>2 DEF PairInv, QueuedFound
<1>4. k \in Unbound(t.id)
  BY <1>3 DEF EntryOf, Unbound, Held, Waits, Live
<1> QED BY <1>3, <1>4

\* mpp_task_queued: a fresh id, and no entry of a waiting task overwritten.
LEMMA QueuedPairs ==
  ASSUME TypeOK, PairInv, JoinInv', NEW s \in Sessions, TaskQueued(s),
         ~Evicts, MaxLost = 0
  PROVE  PairInv'
<1>1. PICK n : n = Len(issued[QueueOf[s]]) + 1
  OBVIOUS
<1>2. /\ IssuedIn(issued', s, n) /\ n \in Nat /\ ~Issued(s, n)
      /\ \A q \in Queues : Len(issued[q]) <= Len(issued'[q])
  BY <1>1, IssueKeeps
<1>3. Insert(n, s) /\ ~EvictsTask /\ queued' = queued \cup {[id |-> n, session |-> s]}
  BY <1>1, BridgeAssumption DEF TaskQueued, Missed, TypeOK
<1>4. \A i \in Slots :
        IF i = slot
          THEN Waits(entries'[i]) /\ entries'[i].task = n /\ entries'[i].session = s
          ELSE entries'[i] = entries[i]
  BY <1>3, InsertKeeps
<1>5. ~Waits(entries[slot])
  <2> SUFFICES ASSUME Waits(entries[slot]) PROVE FALSE
    OBVIOUS
  <2>1. [id |-> entries[slot].task, session |-> entries[slot].session] \in queued
    BY DEF PairInv, UnboundQueued, TypeOK
  <2> QED BY <1>3, <2>1 DEF EvictsTask, Waits, Live
<1>6. slot \in Slots /\ \A i \in Slots : entries[i].session \in Sessions
  BY DEF TypeOK, Entry
<1>7. BoundAtHome'
  BY <1>4 DEF PairInv, BoundAtHome, Waits, Live
<1>8. UnboundQueued'
  BY <1>3, <1>4 DEF PairInv, UnboundQueued, Waits, Live
<1>9. UnboundOnce'
  <2>1. ASSUME NEW i \in Slots, Waits(entries[i]), entries[i].task = n, entries[i].session = s
        PROVE  FALSE
    BY <1>2, <2>1 DEF PairInv, JoinInv, EntriesIssued, Waits
  <2> QED BY <1>4, <2>1 DEF PairInv, UnboundOnce, Waits, Live
<1>10. QueuedFound'
  <2> SUFFICES ASSUME NEW t \in queued'
               PROVE  \/ \E i \in Slots : /\ Waits(entries'[i]) /\ entries'[i].task = t.id
                                           /\ entries'[i].session = t.session
                      \/ /\ \A q \in Queues : t.id <= Len(issued'[q])
                         /\ \A i \in Slots : ~(Waits(entries'[i]) /\ entries'[i].task = t.id)
    BY DEF QueuedFound, EntryOf, Abandoned, Waits, Live
  <2>1. CASE t = [id |-> n, session |-> s]
    BY <1>4, <1>6, <2>1
  <2>2. CASE t \in queued /\ \E i \in Slots : EntryOf(i, t)
    BY <1>4, <1>5, <2>2 DEF EntryOf
  <2>3. CASE t \in queued /\ Abandoned(t)
    <3>1. \A q \in Queues : t.id <= Len(issued[q]) /\ Len(issued'[q]) \in Nat /\ Len(issued[q]) \in Nat
      BY <1>1, <2>3 DEF Abandoned, TypeOK, TaskQueued
    <3>2. t.id \in Nat /\ t.id # n
      <4>1. t.id \in Nat
        BY <2>3 DEF TypeOK, Task
      <4>2. QueueOf[s] \in Queues
        BY SessionFacts
      <4> QED BY <1>1, <3>1, <4>1, <4>2
    <3>3. \A q \in Queues : t.id <= Len(issued'[q])
      BY <1>2, <3>1, <3>2
    <3> QED BY <1>4, <2>3, <3>2, <3>3 DEF Abandoned
  <2> QED BY <1>3, <2>1, <2>2, <2>3 DEF PairInv, QueuedFound
<1> QED BY <1>7, <1>8, <1>9, <1>10 DEF PairInv

\* mpp_core_selected: the sole candidate is the task's own entry; of several
\* none is left, and then both queues have issued the id.
LEMMA SelectedPairs ==
  ASSUME TypeOK, PairInv, JoinInv', NEW t \in queued, NEW c \in Cores, CoreSelected(t, c),
         MaxLost = 0, NEW p, NEW q, Queues \subseteq {p, q}
  PROVE  PairInv'
<1>1. /\ queued' = queued \ {t} /\ issued' = issued /\ c \in CoresOf[Queue(t)]
      /\ Bind(t.id, c)
  BY BridgeAssumption DEF CoreSelected, Missed, TypeOK
<1>2. c # NoCore
  BY BridgeAssumption
<1>3. CASE \E i \in Slots : Unbound(t.id) = {i} /\ entries' = [entries EXCEPT ![i].core = c]
  <2>1. PICK i \in Slots : Unbound(t.id) = {i} /\ entries' = [entries EXCEPT ![i].core = c]
    BY <1>3
  <2>2. EntryOf(i, t)
    BY <2>1, SoleCandidate
  <2>3. /\ ~Waits(entries'[i]) /\ entries'[i].core = c
        /\ entries'[i].session = entries[i].session /\ entries'[i].task = entries[i].task
        /\ \A k \in Slots : k # i => entries'[k] = entries[k]
    BY <1>2, <2>1 DEF TypeOK, Entry, Waits, Live
  <2>4. BoundAtHome'
    <3>1. c \in CoresOf[QueueOf[entries'[i].session]]
      BY <1>1, <2>2, <2>3 DEF EntryOf, Queue
    <3> QED BY <2>3, <3>1 DEF PairInv, BoundAtHome, Live
  <2>5. UnboundQueued'
    <3> SUFFICES ASSUME NEW k \in Slots, Waits(entries'[k])
                 PROVE  [id |-> entries'[k].task, session |-> entries'[k].session] \in queued'
      BY DEF UnboundQueued, Waits, Live
    <3>1. k # i /\ entries'[k] = entries[k]
      BY <2>3
    <3>2. [id |-> entries[k].task, session |-> entries[k].session] \in queued
      BY <3>1 DEF PairInv, UnboundQueued
    <3>3. [id |-> entries[k].task, session |-> entries[k].session] # t
      BY <2>2, <3>1 DEF PairInv, UnboundOnce, EntryOf
    <3> QED BY <1>1, <3>1, <3>2, <3>3
  <2>6. UnboundOnce'
    BY <2>3 DEF PairInv, UnboundOnce, Waits, Live
  <2>7. QueuedFound'
    <3> SUFFICES ASSUME NEW u \in queued, u # t
                 PROVE  \/ \E k \in Slots : /\ Waits(entries'[k]) /\ entries'[k].task = u.id
                                             /\ entries'[k].session = u.session
                        \/ /\ \A r \in Queues : u.id <= Len(issued[r])
                           /\ \A k \in Slots : ~(Waits(entries'[k]) /\ entries'[k].task = u.id)
      BY <1>1 DEF QueuedFound, EntryOf, Abandoned, Waits, Live
    <3>1. CASE \E k \in Slots : EntryOf(k, u)
      <4>1. PICK k \in Slots : EntryOf(k, u)
        BY <3>1
      <4>2. k # i
        BY <2>2, <4>1 DEF EntryOf, TypeOK, Task
      <4> QED BY <2>3, <4>1, <4>2 DEF EntryOf
    <3>2. CASE Abandoned(u)
      BY <2>3, <3>2 DEF Abandoned
    <3> QED BY <3>1, <3>2 DEF PairInv, QueuedFound
  <2> QED BY <2>4, <2>5, <2>6, <2>7 DEF PairInv
<1>4. CASE (\A i \in Slots : Unbound(t.id) # {i}) /\ Retire(Unbound(t.id))
  <2>1. \A k \in Slots :
          IF Waits(entries[k]) /\ entries[k].task = t.id
            THEN ~Live(entries'[k]) ELSE entries'[k] = entries[k]
    <3> DEFINE S == Unbound(t.id)
    <3>1. Retire(S)
      BY <1>4
    <3>2. \A k \in Slots : k \in S <=> Waits(entries[k]) /\ entries[k].task = t.id
      BY DEF Unbound, Held, Waits, Live
    <3> HIDE DEF S
    <3> QED BY <3>1, <3>2, RetireKeeps
  <2>2. BoundAtHome'
    BY <2>1 DEF PairInv, BoundAtHome, Live
  <2>3. UnboundQueued'
    <3> SUFFICES ASSUME NEW k \in Slots, Waits(entries'[k])
                 PROVE  [id |-> entries'[k].task, session |-> entries'[k].session] \in queued'
      BY DEF UnboundQueued, Waits, Live
    <3>1. entries'[k] = entries[k] /\ entries[k].task # t.id
      BY <2>1 DEF Waits
    <3> QED BY <1>1, <3>1 DEF PairInv, UnboundQueued
  <2>4. UnboundOnce'
    BY <2>1 DEF PairInv, UnboundOnce, Waits, Live
  <2>5. QueuedFound'
    <3> SUFFICES ASSUME NEW u \in queued, u # t
                 PROVE  \/ \E k \in Slots : /\ Waits(entries'[k]) /\ entries'[k].task = u.id
                                             /\ entries'[k].session = u.session
                        \/ /\ \A r \in Queues : u.id <= Len(issued[r])
                           /\ \A k \in Slots : ~(Waits(entries'[k]) /\ entries'[k].task = u.id)
      BY <1>1 DEF QueuedFound, EntryOf, Abandoned, Waits, Live
    <3>1. CASE u.id = t.id
      <4>1. Queue(u) # Queue(t)
        BY <3>1, OneTask DEF PairInv, JoinInv
      <4>2. Queue(u) \in Queues /\ Queue(t) \in Queues
        BY SessionFacts DEF Queue, TypeOK, Task
      <4>3. \A r \in Queues : r = Queue(u) \/ r = Queue(t)
        BY <4>1, <4>2
      <4>4. u.id <= Len(issued[Queue(u)]) /\ t.id <= Len(issued[Queue(t)])
        BY DEF PairInv, JoinInv, TasksIssued, Issued, IssuedIn, Queue
      <4> QED BY <2>1, <3>1, <4>3, <4>4 DEF Waits
    <3>2. CASE u.id # t.id /\ \E k \in Slots : EntryOf(k, u)
      BY <2>1, <3>2 DEF EntryOf
    <3>3. CASE Abandoned(u)
      BY <2>1, <3>3 DEF Abandoned, Waits
    <3> QED BY <3>1, <3>2, <3>3 DEF PairInv, QueuedFound
  <2> QED BY <2>2, <2>3, <2>4, <2>5 DEF PairInv
<1> QED BY <1>1, <1>3, <1>4 DEF Bind

\* mpp_task_done, mpp_task_error: an entry bound to a core is retired, or none.
LEMMA EndedPairs ==
  ASSUME TypeOK, PairInv, JoinInv', NEW S, Retire(S),
         \A i \in S : i \in Slots => entries[i].core # NoCore,
         queued' = queued, issued' = issued
  PROVE  PairInv'
<1>1. \A k \in Slots : entries'[k] = entries[k] \/ (~Live(entries'[k]) /\ ~Waits(entries[k]))
  BY RetireKeeps DEF Waits
<1>2. BoundAtHome' /\ UnboundQueued' /\ UnboundOnce'
  BY <1>1 DEF PairInv, BoundAtHome, UnboundQueued, UnboundOnce, Waits, Live
<1>3. QueuedFound'
  BY <1>1 DEF PairInv, QueuedFound, EntryOf, Abandoned, Waits, Live
<1> QED BY <1>2, <1>3 DEF PairInv

LEMMA PairStep ==
  ASSUME TypeOK, TypeOK', PairInv, [Next]_vars, ~Evicts, MaxLost = 0,
         NEW p, NEW q, Queues \subseteq {p, q}
  PROVE  PairInv'
<1>0. JoinInv'
  BY JoinStep DEF PairInv
<1>1. CASE \E s \in Sessions : TaskQueued(s)
  BY <1>0, <1>1, QueuedPairs
<1>2. CASE \E t \in queued, c \in Cores : CoreSelected(t, c)
  BY <1>0, <1>2, SelectedPairs
<1>3. CASE UNCHANGED <<entries, queued, issued>>
  BY <1>0, <1>3 DEF PairInv, BoundAtHome, UnboundQueued, UnboundOnce, QueuedFound, EntryOf,
                    Abandoned, Waits, Live
<1>4. CASE \E r \in running : TaskDone(r) \/ TaskError(r)
  <2>1. PICK r \in running : TaskDone(r) \/ TaskError(r)
    BY <1>4
  <2>2. queued' = queued /\ issued' = issued /\ r.core # NoCore
    BY <2>1, BridgeAssumption DEF TaskDone, TaskError, TypeOK
  <2>3. ASSUME NEW i \in Slots, Newest(i, Held(r.task.id, r.core)), Retire({i})
        PROVE  PairInv'
    <3>1. entries[i].core # NoCore
      BY <2>2, <2>3 DEF Newest, Held
    <3> QED BY <1>0, <2>2, <2>3, <3>1, EndedPairs
  <2>4. \/ UNCHANGED entries
        \/ \E i \in Slots : Newest(i, Held(r.task.id, r.core)) /\ Retire({i})
    BY <2>1 DEF TaskDone, RetireDone, TaskError, Missed, mapVars
  <2> QED BY <1>3, <2>2, <2>3, <2>4
<1> QED BY <1>1, <1>2, <1>3, <1>4 DEF Next, Kernel, Ownership, Restart, ReadSummary,
           SummaryUnreadable, AddSession, MarkResolved, kernelVars, mapVars, vars

\* With two queues and an unbroken trace, every entry that can be joined to a
\* failing task is of the task's session.
LEMMA PairJoin ==
  ASSUME TypeOK, PairInv, NEW r \in running, NEW i \in Held(r.task.id, r.core)
  PROVE  entries[i].session = r.task.session
<1>1. r.task.session \in Sessions /\ entries[i].session \in Sessions /\ r.core # NoCore
  BY BridgeAssumption DEF TypeOK, Task, Entry, Held
<1>2. r.core \in CoresOf[QueueOf[r.task.session]] /\ r.core \in CoresOf[QueueOf[entries[i].session]]
  BY <1>1 DEF PairInv, JoinInv, TasksIssued, BoundAtHome, Held, Live, Queue
<1>3. QueueOf[r.task.session] = QueueOf[entries[i].session]
  BY <1>1, <1>2, SessionFacts, BridgeAssumption
<1>4. Issued(r.task.session, r.task.id) /\ Issued(entries[i].session, r.task.id)
  BY DEF PairInv, JoinInv, TasksIssued, EntriesIssued, Held, Live
<1> QED BY <1>1, <1>3, <1>4, SameQueueJoin

\* gst_mpp_fault_correlator_feed_line: with two task queues, a trace without a
\* gap and a map that spans every task under way, no fault of another process
\* is charged: a collision of ids is refused, and refused for good.
THEOREM TwoQueueAttribution ==
  ASSUME ~Evicts, MaxLost = 0, NEW CONSTANT p, NEW CONSTANT q, Queues \subseteq {p, q}
  PROVE  Spec => []OnlyOursCharged
<1>1. Init => PairInv /\ OnlyOursCharged
  BY DEF Init, PairInv, JoinInv, TasksIssued, EntriesIssued, BoundAtHome, UnboundQueued,
         UnboundOnce, QueuedFound, Waits, Live, OnlyOursCharged
<1>2. TypeOK /\ PairInv /\ OnlyOursCharged /\ [Next]_vars => OnlyOursCharged'
  BY PairJoin, VerdictStep
<1>3. TypeOK /\ TypeOK' /\ PairInv /\ [Next]_vars => PairInv'
  BY PairStep
<1> QED BY <1>1, <1>2, <1>3, TypesHold, PTL DEF Spec

-----------------------------------------------------------------------------
(* The bounded set.  A resolution adds the current session and whatever      *)
(* siblings the summary showed: as long as the set is larger than the        *)
(* siblings, what is still to be added cannot push the current session out.  *)

\* Sessions not opened yet, or not looked up yet, are not in the set.
Unopened ==
  /\ current \notin spare
  /\ \A s \in spare : s \notin ToSet(owned) /\ s \notin todo
  /\ phase = "reading" => current \notin ToSet(owned)

\* While sessions are added, fewer are left than the additions it would take
\* to drop the current one.
Room ==
  phase = "adding" =>
    /\ todo \subseteq {current} \cup Siblings
    /\ current \in todo => current \notin ToSet(owned)
    /\ current \notin todo =>
         \E k \in 1..Len(owned) :
           owned[k] = current /\ Cardinality(todo) < MaxOwned - Len(owned) + k

Settled ==
  phase = "idle" => current \in blind \/ (resolved /\ current \in ToSet(owned))

OwnInv == Unopened /\ Room /\ Settled

\* The set holds no session twice, and every session the element opened is in
\* it, in the summary being added, or was never looked up.
OwnedOnce == \A i, j \in 1..Len(owned) : owned[i] = owned[j] => i = j

OpenedOwned ==
  \A s \in Mine \ spare :
    \/ s \in blind \cup ToSet(owned)
    \/ phase = "reading" /\ s = current
    \/ phase = "adding" /\ s \in todo

TasksOpened ==
  /\ \A t \in queued : t.session \notin spare
  /\ \A r \in running : r.task.session \notin spare

UnionInv == OwnedOnce /\ OpenedOwned /\ TasksOpened /\ NeverDisowned

\* One queue, a whole trace, no entry of a task under way overwritten: a task
\* waits or runs once, and its entry is there.
TasksApart ==
  /\ \A r \in running : r.task \notin queued
  /\ \A r, o \in running : r.task = o.task => r = o

TasksFound ==
  lost = 0 =>
    /\ \A t \in queued : \E i \in Slots : EntryOf(i, t)
    /\ \A r \in running : \E i \in Slots :
         /\ Live(entries[i]) /\ entries[i].core = r.core
         /\ entries[i].task = r.task.id /\ entries[i].session = r.task.session

FoundInv == JoinInv /\ UnboundOnce /\ TasksApart /\ TasksFound

-----------------------------------------------------------------------------
\* What gst_mpp_fault_correlator_add_session does with a session it has not got.
LEMMA AddedIs ==
  ASSUME TypeOK, NEW s \in Mine \cup Siblings, s \notin ToSet(owned)
  PROVE  /\ Added(s) \in Seq(Mine \cup Siblings)
         /\ Len(Added(s)) = IF Len(owned) = MaxOwned THEN MaxOwned ELSE Len(owned) + 1
         /\ Added(s)[Len(Added(s))] = s /\ Len(Added(s)) \in 1..MaxOwned
         /\ Len(owned) = MaxOwned => \A k \in 1..(MaxOwned - 1) : Added(s)[k] = owned[k + 1]
         /\ Len(owned) # MaxOwned => \A k \in 1..Len(owned) : Added(s)[k] = owned[k]
         /\ s \in ToSet(Added(s))
         /\ \A u \in ToSet(Added(s)) : u = s \/ u \in ToSet(owned)
<1> DEFINE kept == IF Len(owned) = MaxOwned THEN Tail(owned) ELSE owned
           a == Append(kept, s)
<1>1. Added(s) = a
  BY DEF Added
<1>2. owned \in Seq(Mine \cup Siblings) /\ Len(owned) \in 0..MaxOwned /\ MaxOwned \in Nat \ {0}
  BY BridgeAssumption DEF TypeOK
<1>3. /\ kept \in Seq(Mine \cup Siblings)
      /\ Len(kept) = IF Len(owned) = MaxOwned THEN MaxOwned - 1 ELSE Len(owned)
      /\ \A k \in 1..Len(kept) : kept[k] = IF Len(owned) = MaxOwned THEN owned[k + 1] ELSE owned[k]
  <2>1. CASE Len(owned) = MaxOwned
    BY <1>2, <2>1
  <2>2. CASE Len(owned) # MaxOwned
    BY <1>2, <2>2
  <2> QED BY <2>1, <2>2
<1>4. /\ a \in Seq(Mine \cup Siblings) /\ Len(a) = Len(kept) + 1 /\ a[Len(a)] = s
      /\ \A k \in 1..Len(kept) : a[k] = kept[k]
  <2> HIDE DEF kept
  <2> QED BY <1>3
<1>5. \A k \in 1..Len(kept) : kept[k] \in ToSet(owned)
  BY <1>2, <1>3 DEF ToSet
<1> HIDE DEF kept, a
<1>6. Len(a) \in 1..MaxOwned
  BY <1>2, <1>3, <1>4
<1>7. s \in ToSet(a)
  BY <1>4, <1>6 DEF ToSet
<1>8. \A u \in ToSet(a) : u = s \/ u \in ToSet(owned)
  <2> SUFFICES ASSUME NEW k \in DOMAIN a PROVE a[k] = s \/ a[k] \in ToSet(owned)
    BY DEF ToSet
  <2>1. k \in 1..(Len(kept) + 1) /\ Len(kept) \in Nat
    BY <1>3, <1>4
  <2>2. k = Len(kept) + 1 \/ k \in 1..Len(kept)
    BY <2>1
  <2> QED BY <1>4, <1>5, <2>2
<1> QED BY <1>1, <1>2, <1>3, <1>4, <1>6, <1>7, <1>8

\* The current session stays in the set, or is about to be added.
LEMMA OwnStep ==
  ASSUME TypeOK, OwnInv, [Next]_vars, IsFiniteSet(Siblings), Cardinality(Siblings) < MaxOwned
  PROVE  OwnInv'
<1> USE DEF OwnInv
<1>0. /\ MaxOwned \in Nat \ {0} /\ Cardinality(Siblings) \in Nat /\ Mine \cap Siblings = {}
      /\ owned \in Seq(Mine \cup Siblings) /\ Len(owned) \in 0..MaxOwned
      /\ todo \subseteq Mine \cup Siblings /\ current \in Mine /\ spare \subseteq Mine
  BY BridgeAssumption, FS_CardinalityType DEF TypeOK
<1>1. CASE UNCHANGED ownVars
  BY <1>1 DEF ownVars, Unopened, Room, Settled
<1>2. CASE \E s \in spare : Restart(s)
  BY <1>2 DEF Restart, Unopened, Room, Settled
<1>3. CASE ReadSummary
  BY <1>0, <1>3 DEF ReadSummary, Visible, Unopened, Room, Settled
<1>4. CASE SummaryUnreadable
  BY <1>4 DEF SummaryUnreadable, Unopened, Room, Settled
<1>5. CASE \E s \in todo : AddSession(s)
  <2>1. PICK s \in todo : AddSession(s)
    BY <1>5
  <2>2. /\ phase = "adding" /\ phase' = "adding" /\ todo' = todo \ {s} /\ owned' = Added(s)
        /\ UNCHANGED <<current, spare, resolved, blind>>
    BY <2>1 DEF AddSession
  <2>3. /\ todo \subseteq {current} \cup Siblings
        /\ current \in todo => current \notin ToSet(owned)
        /\ current \notin todo =>
             \E k \in 1..Len(owned) :
               owned[k] = current /\ Cardinality(todo) < MaxOwned - Len(owned) + k
    BY <2>2 DEF Room
  <2>4. /\ IsFiniteSet(todo) /\ Cardinality(todo) \in Nat /\ IsFiniteSet(todo')
        /\ Cardinality(todo') = Cardinality(todo) - 1 /\ Cardinality(todo') \in Nat
    <3>1. IsFiniteSet({current} \cup Siblings)
      BY FS_AddElement
    <3>2. IsFiniteSet(todo)
      BY <2>3, <3>1, FS_Subset
    <3>3. IsFiniteSet(todo \ {s}) /\ Cardinality(todo \ {s}) = Cardinality(todo) - 1
      BY <3>2, FS_RemoveElement
    <3> QED BY <2>2, <3>2, <3>3, FS_CardinalityType
  <2>5. CASE s \in ToSet(owned)
    <3>1. owned' = owned
      BY <2>2, <2>5 DEF Added
    <3>2. Unopened' /\ Settled'
      BY <2>2, <3>1 DEF Unopened, Settled
    <3>3. Room'
      <4>1. CASE current \in todo
        BY <2>2, <2>3, <2>5, <3>1, <4>1 DEF Room
      <4>2. CASE current \notin todo
        <5>1. PICK k \in 1..Len(owned) :
                owned[k] = current /\ Cardinality(todo) < MaxOwned - Len(owned) + k
          BY <2>3, <4>2
        <5>2. Cardinality(todo') < MaxOwned - Len(owned) + k
          BY <1>0, <2>4, <5>1
        <5> QED BY <2>2, <2>3, <3>1, <4>2, <5>1, <5>2 DEF Room
      <4> QED BY <4>1, <4>2
    <3> QED BY <3>2, <3>3
  <2>6. CASE s \notin ToSet(owned)
    <3> DEFINE a == Added(s)
    <3>1. /\ Len(a) = IF Len(owned) = MaxOwned THEN MaxOwned ELSE Len(owned) + 1
          /\ a[Len(a)] = s /\ Len(a) \in 1..MaxOwned
          /\ Len(owned) = MaxOwned => \A k \in 1..(MaxOwned - 1) : a[k] = owned[k + 1]
          /\ Len(owned) # MaxOwned => \A k \in 1..Len(owned) : a[k] = owned[k]
          /\ \A u \in ToSet(a) : u = s \/ u \in ToSet(owned)
      BY <1>0, <2>1, <2>6, AddedIs
    <3> HIDE DEF a
    <3>2. owned' = a
      BY <2>2 DEF a
    <3>3. Unopened' /\ Settled'
      BY <2>1, <2>2, <3>1, <3>2 DEF Unopened, Settled
    <3>4. CASE s = current
      <4>1. todo' \subseteq Siblings
        BY <2>2, <2>3, <3>4
      <4>2. Cardinality(todo') <= Cardinality(Siblings)
        BY <4>1, FS_Subset
      <4>3. Cardinality(todo') < MaxOwned - Len(a) + Len(a)
        BY <1>0, <2>4, <3>1, <4>2
      <4>4. Room'
        BY <2>2, <3>1, <3>2, <3>4, <4>1, <4>3 DEF Room
      <4> QED BY <3>3, <4>4
    <3>5. CASE s # current /\ current \in todo
      <4>1. current \notin ToSet(a)
        BY <2>3, <3>1, <3>5
      <4>2. Room'
        BY <2>2, <2>3, <3>2, <3>5, <4>1 DEF Room
      <4> QED BY <3>3, <4>2
    <3>6. CASE current \notin todo
      <4>1. PICK k \in 1..Len(owned) :
              owned[k] = current /\ Cardinality(todo) < MaxOwned - Len(owned) + k
        BY <2>3, <3>6
      <4>2. \E m \in 1..Len(a) : a[m] = current /\ Cardinality(todo') < MaxOwned - Len(a) + m
        <5>1. CASE Len(owned) = MaxOwned
          <6>1. k - 1 \in 1..(MaxOwned - 1) /\ k - 1 \in 1..Len(a)
            BY <1>0, <2>4, <3>1, <4>1, <5>1
          <6>2. a[k - 1] = owned[k] /\ k \in Int
            BY <3>1, <5>1, <6>1
          <6>3. Cardinality(todo') < MaxOwned - Len(a) + (k - 1)
            BY <1>0, <2>4, <3>1, <4>1, <5>1, <6>1
          <6> QED BY <4>1, <6>1, <6>2, <6>3
        <5>2. CASE Len(owned) # MaxOwned
          <6>1. k \in 1..Len(a) /\ a[k] = owned[k]
            BY <1>0, <3>1, <5>2
          <6>2. Cardinality(todo') < MaxOwned - Len(a) + k
            <7>1. Len(a) = Len(owned) + 1 /\ Len(owned) \in Int /\ k \in Int /\ MaxOwned \in Int
              BY <1>0, <3>1, <5>2
            <7> QED BY <2>4, <4>1, <7>1
          <6> QED BY <4>1, <6>1, <6>2
        <5> QED BY <5>1, <5>2
      <4>3. Room'
        BY <2>2, <2>3, <3>2, <3>6, <4>2 DEF Room
      <4> QED BY <3>3, <4>3
    <3> QED BY <3>4, <3>5, <3>6
  <2> QED BY <2>5, <2>6
<1>6. CASE MarkResolved
  <2>1. /\ todo = {} /\ phase = "adding" /\ phase' = "idle" /\ resolved'
        /\ UNCHANGED <<current, spare, owned, todo, blind>>
    BY <1>6 DEF MarkResolved
  <2>2. current \in ToSet(owned)
    <3>1. PICK k \in 1..Len(owned) : owned[k] = current
      BY <2>1 DEF Room
    <3> QED BY <1>0, <3>1 DEF ToSet
  <2> QED BY <2>1, <2>2 DEF Unopened, Room, Settled
<1>7. Kernel => UNCHANGED ownVars
  BY DEF Kernel, TaskQueued, CoreSelected, TaskDone, TaskError, Missed
<1> QED BY <1>1, <1>2, <1>3, <1>4, <1>5, <1>6, <1>7 DEF Next, Ownership, vars

LEMMA OwnInvariant ==
  ASSUME IsFiniteSet(Siblings), Cardinality(Siblings) < MaxOwned
  PROVE  Spec => []OwnInv
<1>1. Init => OwnInv
  BY DEF Init, OwnInv, Unopened, Room, Settled, ToSet
<1>2. TypeOK /\ OwnInv /\ [Next]_vars => OwnInv'
  BY OwnStep
<1> QED BY <1>1, <1>2, TypesHold, PTL DEF Spec

\* gst_mpp_fault_correlator_add_session: while the set is larger than the
\* number of sibling sessions a summary can show, adding them never drops the
\* session the element has now.
THEOREM CurrentStaysOwned ==
  ASSUME IsFiniteSet(Siblings), Cardinality(Siblings) < MaxOwned
  PROVE  Spec => []CurrentOwned
<1>1. OwnInv => CurrentOwned
  BY DEF OwnInv, Settled, CurrentOwned
<1> QED BY <1>1, OwnInvariant, PTL

-----------------------------------------------------------------------------
(* The union.  As long as every session the process opens fits in the set,   *)
(* none is ever dropped, and a fault of an older session is still known for   *)
(* this element's own.                                                        *)

SessionsFit == IsFiniteSet(Mine \cup Siblings) /\ Cardinality(Mine \cup Siblings) <= MaxOwned

\* A set without repetitions that lacks a session is not full.
LEMMA NeverFull ==
  ASSUME TypeOK, OwnedOnce, SessionsFit, NEW s \in Mine \cup Siblings, s \notin ToSet(owned)
  PROVE  Len(owned) # MaxOwned
<1> DEFINE n == MaxOwned
           f == [i \in 1..(n + 1) |-> IF i = n + 1 THEN s ELSE owned[i]]
<1> SUFFICES ASSUME Len(owned) = n PROVE FALSE
  OBVIOUS
<1>1. n \in Nat /\ owned \in Seq(Mine \cup Siblings)
  BY BridgeAssumption DEF TypeOK
<1>2. f \in [1..(n + 1) -> Mine \cup Siblings]
  BY <1>1
<1>3. IsFiniteSet(1..(n + 1)) /\ Cardinality(1..(n + 1)) = n + 1
  BY <1>1, FS_Interval
<1>4. Cardinality(Mine \cup Siblings) < Cardinality(1..(n + 1))
  BY <1>1, <1>3, FS_CardinalityType DEF SessionsFit
<1>5. PICK i \in 1..(n + 1), j \in 1..(n + 1) : i # j /\ f[i] = f[j]
  <2> HIDE DEF f
  <2> QED BY <1>2, <1>3, <1>4, FS_PigeonHole DEF SessionsFit
<1>6. \A k \in 1..n : owned[k] # s
  BY <1>1 DEF ToSet
<1>7. /\ i # n + 1 => i \in 1..n /\ f[i] = owned[i]
      /\ j # n + 1 => j \in 1..n /\ f[j] = owned[j]
      /\ i = n + 1 => f[i] = s
      /\ j = n + 1 => f[j] = s
  BY <1>1
<1> HIDE DEF f
<1> QED BY <1>5, <1>6, <1>7 DEF OwnedOnce

\* Every session the element opened is in the set, unless it could not be read.
LEMMA UnionStep ==
  ASSUME TypeOK, UnionInv, [Next]_vars, SessionsFit
  PROVE  OwnedOnce' /\ OpenedOwned' /\ TasksOpened'
<1> USE DEF UnionInv
<1>1. TasksOpened'
  <2>1. spare' \subseteq spare
    BY DEF Next, Kernel, Ownership, TaskQueued, CoreSelected, TaskDone, TaskError, Missed,
           Restart, ReadSummary, SummaryUnreadable, AddSession, MarkResolved, ownVars, vars
  <2>2. CASE \E s \in Sessions : TaskQueued(s)
    BY <2>1, <2>2 DEF TaskQueued, TasksOpened
  <2>3. CASE \E t \in queued, c \in Cores : CoreSelected(t, c)
    BY <2>1, <2>3 DEF CoreSelected, TasksOpened
  <2>4. CASE \E r \in running : TaskDone(r) \/ TaskError(r)
    BY <2>1, <2>4 DEF TaskDone, TaskError, TasksOpened
  <2>5. CASE UNCHANGED kernelVars
    BY <2>1, <2>5 DEF kernelVars, TasksOpened
  <2> QED BY <2>2, <2>3, <2>4, <2>5 DEF Next, Kernel, Ownership, Restart, ReadSummary,
             SummaryUnreadable, AddSession, MarkResolved, vars
<1>2. CASE UNCHANGED ownVars
  BY <1>1, <1>2 DEF ownVars, OwnedOnce, OpenedOwned
<1>3. CASE \E s \in spare : Restart(s)
  BY <1>1, <1>3 DEF Restart, OwnedOnce, OpenedOwned
<1>4. CASE ReadSummary
  BY <1>1, <1>4 DEF ReadSummary, OwnedOnce, OpenedOwned
<1>5. CASE SummaryUnreadable
  BY <1>1, <1>5 DEF SummaryUnreadable, OwnedOnce, OpenedOwned
<1>6. CASE \E s \in todo : AddSession(s)
  <2>1. PICK s \in todo : AddSession(s)
    BY <1>6
  <2>2. /\ phase = "adding" /\ phase' = "adding" /\ todo' = todo \ {s} /\ owned' = Added(s)
        /\ UNCHANGED <<current, spare, blind>>
    BY <2>1 DEF AddSession
  <2>3. CASE s \in ToSet(owned)
    BY <1>1, <2>2, <2>3 DEF Added, OwnedOnce, OpenedOwned
  <2>4. CASE s \notin ToSet(owned)
    <3>1. s \in Mine \cup Siblings /\ owned \in Seq(Mine \cup Siblings)
      BY <2>1 DEF TypeOK
    <3>2. Len(owned) # MaxOwned
      BY <2>4, <3>1, NeverFull
    <3>3. /\ Len(owned') = Len(owned) + 1 /\ owned'[Len(owned) + 1] = s
          /\ \A k \in 1..Len(owned) : owned'[k] = owned[k]
          /\ s \in ToSet(owned') /\ owned' \in Seq(Mine \cup Siblings)
      BY <2>2, <2>4, <3>1, <3>2, AddedIs
    <3>4. \A u \in ToSet(owned) : u \in ToSet(owned')
      <4> SUFFICES ASSUME NEW k \in 1..Len(owned) PROVE owned[k] \in ToSet(owned')
        BY <3>1 DEF ToSet
      <4>1. k \in 1..Len(owned') /\ owned'[k] = owned[k]
        BY <3>1, <3>3
      <4> QED BY <3>3, <4>1 DEF ToSet
    <3>5. OwnedOnce'
      <4> SUFFICES ASSUME NEW i \in 1..Len(owned'), NEW j \in 1..Len(owned'), owned'[i] = owned'[j]
                   PROVE  i = j
        BY DEF OwnedOnce
      <4>1. \A k \in 1..Len(owned) : owned[k] # s
        BY <2>4, <3>1 DEF ToSet
      <4>2. /\ i = Len(owned) + 1 \/ i \in 1..Len(owned)
            /\ j = Len(owned) + 1 \/ j \in 1..Len(owned)
        BY <3>1, <3>3
      <4> QED BY <3>3, <4>1, <4>2 DEF OwnedOnce
    <3>6. OpenedOwned'
      BY <2>2, <3>3, <3>4 DEF OpenedOwned
    <3> QED BY <1>1, <3>5, <3>6
  <2> QED BY <2>3, <2>4
<1>7. CASE MarkResolved
  BY <1>1, <1>7 DEF MarkResolved, OwnedOnce, OpenedOwned
<1>8. Kernel => UNCHANGED ownVars
  BY DEF Kernel, TaskQueued, CoreSelected, TaskDone, TaskError, Missed
<1> QED BY <1>2, <1>3, <1>4, <1>5, <1>6, <1>7, <1>8 DEF Next, Ownership, vars

\* A step puts no own fault down to somebody else if every entry that can be
\* joined to a failing task is of the task's session.
LEMMA DisownStep ==
  ASSUME TypeOK, UnionInv, [Next]_vars,
         \A r \in running : \A i \in Held(r.task.id, r.core) :
           entries[i].session = r.task.session
  PROVE  NeverDisowned'
<1>1. CASE \E r \in running : TaskError(r)
  <2>1. PICK r \in running : TaskError(r)
    BY <1>1
  <2>2. phase = "idle" /\ blind' = blind
    BY <2>1 DEF TaskError, Missed, ownVars
  <2>3. ASSUME NEW i \in Slots, Newest(i, Held(r.task.id, r.core)),
               Verdict(entries[i].session) = "FOREIGN"
        PROVE  r.task.session \notin Mine \ blind
    <3>1. entries[i].session = r.task.session
      BY <2>3 DEF Newest
    <3>2. r.task.session \notin ToSet(owned)
      BY <2>3, <3>1 DEF Verdict
    <3>3. r.task.session \notin spare
      BY DEF UnionInv, TasksOpened
    <3> QED BY <2>2, <3>2, <3>3 DEF UnionInv, OpenedOwned
  <2>4. ASSUME NEW v \in verdicts', v \notin verdicts, v.verdict = "FOREIGN"
        PROVE  v.task.session \notin Mine \ blind
    <3>1. PICK i \in Slots : /\ Newest(i, Held(r.task.id, r.core))
                             /\ v = Judged(r.task, Verdict(entries[i].session))
      <4>1. v # Judged(r.task, "UNATTRIBUTED")
        BY <2>4 DEF Judged
      <4> QED BY <2>1, <2>4, <4>1 DEF TaskError, Missed
    <3>2. v.task = r.task /\ v.verdict = Verdict(entries[i].session)
      BY <3>1 DEF Judged
    <3> QED BY <2>3, <2>4, <3>1, <3>2
  <2> QED BY <2>2, <2>4 DEF UnionInv, NeverDisowned
<1>2. CASE verdicts' = verdicts /\ blind \subseteq blind'
  BY <1>2 DEF UnionInv, NeverDisowned
<1> QED BY <1>1, <1>2 DEF Next, Kernel, Ownership, TaskQueued, CoreSelected, TaskDone, Missed,
           Restart, ReadSummary, SummaryUnreadable, AddSession, MarkResolved, ownVars, vars

LEMMA UnionInit == Init => UnionInv
BY DEF Init, UnionInv, OwnedOnce, OpenedOwned, TasksOpened, NeverDisowned

\* gst_mpp_fault_correlator_feed_line: with two queues, an unbroken trace and a
\* set that holds every session, a fault of this element, whichever of its
\* sessions it was of, is never put down to another process.
THEOREM TwoQueuesDisownNone ==
  ASSUME SessionsFit, ~Evicts, MaxLost = 0,
         NEW CONSTANT p, NEW CONSTANT q, Queues \subseteq {p, q}
  PROVE  Spec => []NeverDisowned
<1>1. Init => PairInv
  BY DEF Init, PairInv, JoinInv, TasksIssued, EntriesIssued, BoundAtHome, UnboundQueued,
         UnboundOnce, QueuedFound, Waits, Live
<1>2. TypeOK /\ TypeOK' /\ PairInv /\ [Next]_vars => PairInv'
  BY PairStep
<1>3. TypeOK /\ PairInv /\ UnionInv /\ [Next]_vars => UnionInv'
  BY PairJoin, UnionStep, DisownStep DEF UnionInv
<1>4. UnionInv => NeverDisowned
  BY DEF UnionInv
<1> QED BY <1>1, <1>2, <1>3, <1>4, UnionInit, TypesHold, PTL DEF Spec

\* gst_mpp_fault_correlator_feed_line: with one queue the same holds whatever
\* lines the trace loses and whichever entries the map overwrites.
THEOREM OneQueueDisownsNone ==
  ASSUME SessionsFit, \A p, q \in Queues : p = q
  PROVE  Spec => []NeverDisowned
<1>1. Init => JoinInv
  BY DEF Init, JoinInv, TasksIssued, EntriesIssued, Live
<1>2. TypeOK /\ TypeOK' /\ JoinInv /\ [Next]_vars => JoinInv'
  BY JoinStep
<1>3. TypeOK /\ JoinInv /\ UnionInv /\ [Next]_vars => UnionInv'
  BY OneQueueJoin, UnionStep, DisownStep DEF UnionInv
<1>4. UnionInv => NeverDisowned
  BY DEF UnionInv
<1> QED BY <1>1, <1>2, <1>3, <1>4, UnionInit, TypesHold, PTL DEF Spec

-----------------------------------------------------------------------------
(* One queue, an unbroken trace and a map that spans every task under way:   *)
(* no fault of the element's current session is missed.                       *)

\* The task of the line is the oldest id the queue has not given out.
LEMMA FreshTask ==
  ASSUME TypeOK, JoinInv, NEW s \in Sessions, TaskQueued(s),
         NEW n, n = Len(issued[QueueOf[s]]) + 1
  PROVE  /\ \A t \in queued : t # [id |-> n, session |-> s]
         /\ \A r \in running : r.task # [id |-> n, session |-> s]
         /\ \A i \in Slots : Live(entries[i]) =>
              entries[i].task # n \/ entries[i].session # s
<1>1. ~Issued(s, n)
  BY IssueKeeps
<1> QED BY <1>1 DEF JoinInv, TasksIssued, EntriesIssued

\* A task waits or runs, once: a step moves it on and never brings it back.
LEMMA ApartStep ==
  ASSUME TypeOK, JoinInv, TasksApart, [Next]_vars
  PROVE  TasksApart'
<1>1. CASE \E s \in Sessions : TaskQueued(s)
  <2>1. PICK s \in Sessions : TaskQueued(s)
    BY <1>1
  <2>2. PICK n : n = Len(issued[QueueOf[s]]) + 1
    OBVIOUS
  <2>3. queued' = queued \cup {[id |-> n, session |-> s]} /\ running' = running
    BY <2>1, <2>2 DEF TaskQueued
  <2> QED BY <2>1, <2>2, <2>3, FreshTask DEF TasksApart
<1>2. CASE \E t \in queued, c \in Cores : CoreSelected(t, c)
  <2>1. PICK t \in queued, c \in Cores : CoreSelected(t, c)
    BY <1>2
  <2>2. queued' = queued \ {t} /\ running' = running \cup {[task |-> t, core |-> c]}
    BY <2>1 DEF CoreSelected
  <2>3. \A r \in running : r.task # t
    BY DEF TasksApart
  <2> QED BY <2>2, <2>3 DEF TasksApart
<1>3. CASE \E r \in running : TaskDone(r) \/ TaskError(r)
  BY <1>3 DEF TaskDone, TaskError, TasksApart
<1>4. CASE UNCHANGED <<queued, running>>
  BY <1>4 DEF TasksApart
<1> QED BY <1>1, <1>2, <1>3, <1>4 DEF Next, Kernel, Ownership, Restart, ReadSummary,
           SummaryUnreadable, AddSession, MarkResolved, kernelVars, vars

\* Two entries of one queue that wait for a core with one id are the same entry.
LEMMA OneEntry ==
  ASSUME TypeOK, JoinInv, UnboundOnce, \A p, q \in Queues : p = q,
         NEW t \in queued, NEW i \in Slots, EntryOf(i, t)
  PROVE  Unbound(t.id) = {i}
<1>1. \A k \in Slots : entries[k].session \in Sessions
  BY DEF TypeOK, Entry
<1>2. \A k \in Unbound(t.id) : Issued(entries[k].session, t.id)
  BY DEF JoinInv, EntriesIssued, Unbound, Held, Live
<1>3. i \in Unbound(t.id)
  BY DEF EntryOf, Unbound, Held, Waits, Live
<1>4. ASSUME NEW k \in Unbound(t.id) PROVE k = i
  <2>1. k \in Slots
    BY DEF Unbound, Held
  <2>2. QueueOf[entries[k].session] = QueueOf[entries[i].session]
    BY <1>1, <2>1, SessionFacts
  <2>3. entries[k].session = entries[i].session
    BY <1>1, <1>2, <1>3, <2>1, <2>2, SameQueueJoin
  <2> QED BY <1>3, <2>1, <2>3 DEF UnboundOnce, Unbound, Held, Waits, Live
<1> QED BY <1>3, <1>4

\* A task's entry stays the only one that waits for it.
LEMMA OnceStep ==
  ASSUME TypeOK, JoinInv, UnboundOnce, [Next]_vars
  PROVE  UnboundOnce'
<1>1. CASE \E s \in Sessions : TaskQueued(s)
  <2>1. PICK s \in Sessions : TaskQueued(s)
    BY <1>1
  <2>2. PICK n : n = Len(issued[QueueOf[s]]) + 1
    OBVIOUS
  <2>3. CASE Insert(n, s)
    <3>1. \A i \in Slots : Waits(entries[i]) => entries[i].task # n \/ entries[i].session # s
      BY <2>1, <2>2, FreshTask DEF Waits
    <3>2. \A i \in Slots :
            IF i = slot
              THEN Waits(entries'[i]) /\ entries'[i].task = n /\ entries'[i].session = s
              ELSE entries'[i] = entries[i]
      BY <2>3, InsertKeeps
    <3> QED BY <3>1, <3>2 DEF UnboundOnce, Waits, Live
  <2>4. CASE Missed
    BY <2>4 DEF Missed, mapVars, UnboundOnce, Waits, Live
  <2> QED BY <2>1, <2>2, <2>3, <2>4 DEF TaskQueued
<1>2. ASSUME NEW S, Retire(S) PROVE UnboundOnce'
  <2>1. \A i \in Slots : entries'[i] = entries[i] \/ ~Live(entries'[i])
    BY <1>2, RetireKeeps
  <2> QED BY <2>1 DEF UnboundOnce, Waits, Live
<1>3. ASSUME NEW k \in Slots, NEW c \in Cores, entries' = [entries EXCEPT ![k].core = c]
      PROVE  UnboundOnce'
  <2>1. \A i \in Slots : entries'[i] = entries[i] \/ ~Waits(entries'[i])
    BY <1>3, BridgeAssumption DEF TypeOK, Entry, Waits
  <2> QED BY <2>1 DEF UnboundOnce, Waits, Live
<1>4. CASE UNCHANGED entries
  BY <1>4 DEF UnboundOnce, Waits, Live
<1>5. CASE \E t \in queued, c \in Cores : CoreSelected(t, c)
  BY <1>2, <1>3, <1>4, <1>5 DEF CoreSelected, Bind, Missed, mapVars
<1>6. CASE \E r \in running : TaskDone(r) \/ TaskError(r)
  BY <1>2, <1>4, <1>6 DEF TaskDone, RetireDone, TaskError, Missed, mapVars
<1> QED BY <1>1, <1>4, <1>5, <1>6 DEF Next, Kernel, Ownership, Restart, ReadSummary,
           SummaryUnreadable, AddSession, MarkResolved, mapVars, vars

\* Entry i is bound, to the core r runs on, and names its task.
BoundTo(i, r) ==
  /\ Live(entries[i]) /\ entries[i].core = r.core
  /\ entries[i].task = r.task.id /\ entries[i].session = r.task.session

\* Until a line is lost, a task under way has its entry, and keeps it.
LEMMA FoundStep ==
  ASSUME TypeOK, FoundInv, [Next]_vars, ~Evicts, \A p, q \in Queues : p = q
  PROVE  TasksFound'
<1> USE DEF FoundInv
<1> SUFFICES ASSUME lost' = 0
             PROVE  /\ \A t \in queued' : \E i \in Slots : EntryOf(i, t)'
                    /\ \A r \in running' : \E i \in Slots : BoundTo(i, r)'
  BY DEF TasksFound, EntryOf, BoundTo, Waits, Live
<1>0. lost = 0 /\ ~Missed
  BY DEF Next, Kernel, Ownership, TaskQueued, CoreSelected, TaskDone, TaskError, Missed, TypeOK,
         Restart, ReadSummary, SummaryUnreadable, AddSession, MarkResolved, vars
<1>1. /\ \A t \in queued : \E i \in Slots : EntryOf(i, t)
      /\ \A r \in running : \E i \in Slots : BoundTo(i, r)
  BY <1>0 DEF TasksFound, BoundTo
<1>2. \A r \in running : r.core \in Cores /\ r.core # NoCore
  BY BridgeAssumption DEF TypeOK
<1>3. CASE \E s \in Sessions : TaskQueued(s)
  <2>1. PICK s \in Sessions : TaskQueued(s)
    BY <1>3
  <2>2. PICK n : n = Len(issued[QueueOf[s]]) + 1
    OBVIOUS
  <2>3. /\ ~EvictsTask /\ Insert(n, s) /\ running' = running
        /\ queued' = queued \cup {[id |-> n, session |-> s]}
    BY <1>0, <2>1, <2>2 DEF TaskQueued
  <2>4. \A i \in Slots :
          IF i = slot
            THEN Waits(entries'[i]) /\ entries'[i].task = n /\ entries'[i].session = s
            ELSE entries'[i] = entries[i]
    BY <2>3, InsertKeeps
  <2>5. slot \in Slots
    BY DEF TypeOK
  <2>6. \A t \in queued : ~EntryOf(slot, t)
    BY <2>3 DEF EvictsTask, EntryOf, Waits, Live
  <2>7. \A r \in running : ~BoundTo(slot, r)
    BY <2>3 DEF EvictsTask, BoundTo, Live
  <2>8. \A t \in queued : \E i \in Slots : EntryOf(i, t)'
    BY <1>1, <2>4, <2>6 DEF EntryOf, Waits, Live
  <2>9. \A r \in running : \E i \in Slots : BoundTo(i, r)'
    BY <1>1, <2>4, <2>7 DEF BoundTo, Live
  <2>10. \E i \in Slots : EntryOf(i, [id |-> n, session |-> s])'
    <3>1. PICK h \in Slots : h = slot
      BY <2>5
    <3> QED BY <2>4, <3>1 DEF EntryOf, Waits, Live
  <2> QED BY <2>3, <2>8, <2>9, <2>10
<1>4. CASE \E t \in queued, c \in Cores : CoreSelected(t, c)
  <2>1. PICK t \in queued, c \in Cores : CoreSelected(t, c)
    BY <1>4
  <2>2. /\ queued' = queued \ {t} /\ running' = running \cup {[task |-> t, core |-> c]}
        /\ Bind(t.id, c)
    BY <1>0, <2>1 DEF CoreSelected
  <2>3. PICK i \in Slots : EntryOf(i, t)
    BY <1>1
  <2>4. Unbound(t.id) = {i}
    BY <2>3, OneEntry
  <2>5. entries' = [entries EXCEPT ![i].core = c]
    BY <2>2, <2>4 DEF Bind
  <2>6. /\ Live(entries'[i]) /\ entries'[i].core = c
        /\ entries'[i].session = t.session /\ entries'[i].task = t.id
        /\ \A k \in Slots : k # i => entries'[k] = entries[k]
    BY <2>3, <2>5 DEF TypeOK, Entry, EntryOf, Waits, Live
  <2>7. \A u \in queued : u # t => ~EntryOf(i, u)
    BY <2>3 DEF TypeOK, Task, EntryOf
  <2>8. \A u \in queued \ {t} : \E k \in Slots : EntryOf(k, u)'
    BY <1>1, <2>6, <2>7 DEF EntryOf, Waits, Live
  <2>9. \A r \in running : ~BoundTo(i, r)
    BY <1>2, <2>3 DEF BoundTo, EntryOf, Waits
  <2>10. \A r \in running : \E k \in Slots : BoundTo(k, r)'
    BY <1>1, <2>6, <2>9 DEF BoundTo, Live
  <2>11. BoundTo(i, [task |-> t, core |-> c])'
    BY <2>6 DEF BoundTo, Live
  <2> QED BY <2>2, <2>8, <2>10, <2>11
<1>5. CASE UNCHANGED <<queued, running, entries>>
  BY <1>1, <1>5 DEF EntryOf, BoundTo, Waits, Live
<1>6. CASE \E r \in running : TaskDone(r) \/ TaskError(r)
  <2>1. PICK r \in running : TaskDone(r) \/ TaskError(r)
    BY <1>6
  <2>2. running' = running \ {r} /\ queued' = queued
    BY <2>1 DEF TaskDone, TaskError
  <2>3. CASE UNCHANGED entries
    BY <1>1, <2>2, <2>3 DEF EntryOf, BoundTo, Waits, Live
  <2>4. ASSUME NEW i \in Slots, Newest(i, Held(r.task.id, r.core)), Retire({i})
        PROVE  /\ \A t \in queued' : \E k \in Slots : EntryOf(k, t)'
               /\ \A o \in running' : \E k \in Slots : BoundTo(k, o)'
    <3>1. \A k \in Slots : k # i => entries'[k] = entries[k]
      BY <2>4, RetireKeeps
    <3>2. entries[i].core = r.core /\ entries[i].task = r.task.id /\ i \in Held(r.task.id, r.core)
      BY <2>4 DEF Newest, Held
    <3>3. entries[i].session = r.task.session
      BY <3>2, OneQueueJoin
    <3>4. \A t \in queued : ~EntryOf(i, t)
      BY <1>2, <3>2 DEF EntryOf, Waits
    <3>5. \A o \in running : o # r => ~BoundTo(i, o)
      <4> SUFFICES ASSUME NEW o \in running, o # r, BoundTo(i, o) PROVE FALSE
        OBVIOUS
      <4>1. o.task.id = r.task.id /\ o.task.session = r.task.session
        BY <3>2, <3>3 DEF BoundTo
      <4>2. o.task \in Task /\ r.task \in Task
        BY DEF TypeOK
      <4>3. o.task = r.task
        BY <4>1, <4>2 DEF Task
      <4> QED BY <4>3 DEF TasksApart
    <3>6. \A t \in queued : \E k \in Slots : EntryOf(k, t)'
      BY <1>1, <3>1, <3>4 DEF EntryOf, Waits, Live
    <3>7. \A o \in running \ {r} : \E k \in Slots : BoundTo(k, o)'
      BY <1>1, <3>1, <3>5 DEF BoundTo, Live
    <3> QED BY <2>2, <3>6, <3>7
  <2>5. \/ UNCHANGED entries
        \/ \E i \in Slots : Newest(i, Held(r.task.id, r.core)) /\ Retire({i})
    BY <2>1 DEF TaskDone, RetireDone, TaskError, Missed, mapVars
  <2> QED BY <2>3, <2>4, <2>5
<1> QED BY <1>3, <1>4, <1>5, <1>6 DEF Next, Kernel, Ownership, Restart, ReadSummary,
           SummaryUnreadable, AddSession, MarkResolved, kernelVars, mapVars, vars

\* A step misses no fault of the current session.
LEMMA DetectStep ==
  ASSUME TypeOK, TypeOK', FoundInv, OwnInv, Detected, [Next]_vars, \A p, q \in Queues : p = q
  PROVE  Detected'
<1>1. CASE \E r \in running : TaskError(r)
  <2>1. PICK r \in running : TaskError(r)
    BY <1>1
  <2>2. SUFFICES ASSUME lost' = 0, NEW v \in verdicts', v.live, v.task.session \notin blind'
                 PROVE  v.verdict = "OWNED"
    BY DEF Detected
  <2>3. phase = "idle" /\ UNCHANGED <<blind, lost>>
    BY <2>1, <2>2 DEF TaskError, Missed, ownVars, TypeOK
  <2>4. CASE v \in verdicts
    BY <2>2, <2>3, <2>4 DEF Detected
  <2>5. CASE v \notin verdicts
    <3>0. PICK verdict : v = Judged(r.task, verdict)
      BY <2>1, <2>5 DEF TaskError, Missed
    <3>1. v.task = r.task /\ r.task.session = current
      BY <2>2, <3>0 DEF Judged
    <3>2. resolved /\ r.task.session \in ToSet(owned)
      BY <2>2, <2>3, <3>1 DEF OwnInv, Settled
    <3>3. PICK k \in Slots : BoundTo(k, r)
      BY <2>2, <2>3 DEF FoundInv, TasksFound, BoundTo
    <3>4. k \in Held(r.task.id, r.core)
      BY <3>3 DEF BoundTo, Held, Live
    <3>5. PICK i \in Slots : /\ Newest(i, Held(r.task.id, r.core))
                             /\ v = Judged(r.task, Verdict(entries[i].session))
      BY <2>1, <2>5, <3>4 DEF TaskError, Missed
    <3>6. entries[i].session = r.task.session
      BY <3>5, OneQueueJoin DEF Newest, FoundInv
    <3>7. Verdict(entries[i].session) = "OWNED"
      BY <3>2, <3>6 DEF Verdict
    <3> QED BY <3>5, <3>7 DEF Judged
  <2> QED BY <2>4, <2>5
<1>2. CASE verdicts' = verdicts /\ blind \subseteq blind' /\ (lost' = 0 => lost = 0)
  BY <1>2 DEF Detected
<1>3. Missed => (lost' = 0 => lost = 0)
  BY DEF Missed, TypeOK
<1> QED BY <1>1, <1>2, <1>3 DEF Next, Kernel, Ownership, TaskQueued, CoreSelected, TaskDone, Missed,
           Restart, ReadSummary, SummaryUnreadable, AddSession, MarkResolved, ownVars, vars

\* gst_mpp_fault_correlator_feed_line: with one queue, an unbroken trace, a map
\* that spans every task under way and a set larger than the siblings, every
\* fault of the element's current session is charged to it.
THEOREM OneQueueDetection ==
  ASSUME IsFiniteSet(Siblings), Cardinality(Siblings) < MaxOwned, ~Evicts,
         \A p, q \in Queues : p = q
  PROVE  Spec => []Detected
<1>1. Init => FoundInv /\ Detected
  BY DEF Init, FoundInv, JoinInv, TasksIssued, EntriesIssued, UnboundOnce, TasksApart,
         TasksFound, Waits, Live, Detected
<1>2. TypeOK /\ TypeOK' /\ FoundInv /\ [Next]_vars => FoundInv'
  BY JoinStep, OnceStep, ApartStep, FoundStep DEF FoundInv
<1>3. TypeOK /\ TypeOK' /\ FoundInv /\ OwnInv /\ Detected /\ [Next]_vars => Detected'
  BY DetectStep
<1> QED BY <1>1, <1>2, <1>3, OwnInvariant, TypesHold, PTL DEF Spec
=============================================================================
