------------------------------ MODULE MppEncoder ------------------------------
(***************************************************************************)
(* The threads of the MPP video encoder element, gst/rockchipmpp/          *)
(* gstmppenc.c and the four codecs that derive from it.                    *)
(*                                                                         *)
(*   Sink   the upstream streaming thread: handle_frame, and the resets    *)
(*          that EOS (finish), new caps (set_format) and FLUSH_STOP (flush)*)
(*          run;                                                           *)
(*   Task   the output task of the source pad: gst_mpp_enc_loop;           *)
(*   App    the thread that takes the element PAUSED->READY->PAUSED.       *)
(*                                                                         *)
(* They share the recursive stream lock of the GstVideoEncoder base class, *)
(* the encoder's own mutex, and a few atomics.  Everything the code does   *)
(* while it holds the stream lock is one step, except where the hardware   *)
(* can complete a job in the middle: there the lock is held over several.  *)
(***************************************************************************)
EXTENDS Integers, Sequences

CONSTANTS
  MaxPending,      \* the max-pending property
  MppDepth,        \* frames libmpp takes before put_frame answers MPP_NOK
  RestartBudget,   \* MPP_ENC_RESTART_BUDGET
  PushOutcomes,    \* what an unflushed source pad may answer to a push
  Refusable,       \* TRUE if libmpp may refuse a property change
  MppTimely,       \* TRUE if every job ends within MPP_ENC_DRAIN_NO_PROGRESS_US
  RestartMayFail,  \* TRUE if recreating the MPP context may fail
  OverlapResets,   \* TRUE if a sink-side reset may overlap the teardown
  MaxFrames, MaxFaults, MaxResChanges, MaxResets, MaxSessions  \* bounds

ASSUME ConstantsAssumption ==
  /\ MaxPending \in Nat \ {0} /\ MppDepth \in Nat \ {0} /\ RestartBudget \in Nat
  /\ PushOutcomes \subseteq {"OK", "ERROR"}
  /\ {Refusable, MppTimely, RestartMayFail, OverlapResets} \subseteq BOOLEAN
  /\ {MaxFrames, MaxFaults, MaxResChanges, MaxResets, MaxSessions} \subseteq Nat

VARIABLES
  \* Frames.  A frame is its system_frame_number.
  list,        \* the base class's unfinished frames, oldest first
  queue,       \* self->frames: accepted, not yet given to MPP
  mpp,         \* given to MPP, in submission order
  ready,       \* how many of mpp's packets encode_get_packet can return
  pending,     \* self->pending_frames
  log,         \* history: every finished frame, in order, and how it ended
  desync,      \* history: a refusal or a timed-out drain left frames behind
  \* Flags and the output task
  flushing, draining, taskRet,
  taskState,   \* GstTaskState of the source pad's task
  taskPc, progress,
  \* Locks
  stream, mutex,
  \* The sink thread and its neighbours
  sinkPc, cur, op, upstream, downstream, resDirty,
  \* The application thread
  appPc,
  \* MPP context and recovery
  ctx, attempts, posted,
  \* Bounds
  next, faults, resChanges, resets, session

frameVars == <<list, queue, mpp, ready, pending, log, desync>>
flagVars  == <<flushing, draining, taskRet>>
taskVars  == <<taskState, taskPc, progress>>
lockVars  == <<stream, mutex>>
sinkVars  == <<sinkPc, cur, op, upstream, downstream, resDirty>>
ctxVars   == <<ctx, attempts, posted>>
countVars == <<next, faults, resChanges, resets, session>>
vars == <<frameVars, flagVars, taskVars, lockVars, sinkVars, appPc, ctxVars,
          countVars>>

Free == "free"
FlowReturn == {"OK", "FLUSHING", "ERROR"}
ResetPcs == {"rlock", "rlocked", "rstop", "rrelock", "rdrain"}
Kinds == {"coded", "empty", "flushed", "raw", "refused", "restart", "cleared"}

\* One finished frame: kind says what was pushed for it; for "coded", data is
\* the frame whose picture the pushed packet holds.
Ended(f, kind, data) == [frame |-> f, kind |-> kind, data |-> data]

\* The first n frames of list end without output.
EndFirst(n, kind) ==
  /\ list' = SubSeq(list, n + 1, Len(list))
  /\ log' = log \o [i \in 1..n |-> Ended(list[i], kind, list[i])]

\* gst_video_encoder_finish_frame on the newest frame, the one being handled.
EndCur(kind) ==
  /\ list' = IF list # <<>> /\ list[Len(list)] = cur
               THEN SubSeq(list, 1, Len(list) - 1) ELSE list
  /\ log' = Append(log, Ended(cur, kind, cur))

-----------------------------------------------------------------------------
(* gst_mpp_enc_start *)

Init ==
  /\ list = <<>> /\ queue = <<>> /\ mpp = <<>> /\ ready = 0 /\ pending = 0
  /\ log = <<>> /\ desync = FALSE
  /\ flushing = FALSE /\ draining = FALSE /\ taskRet = "OK"
  /\ taskState = "STOPPED" /\ taskPc = "idle" /\ progress = FALSE
  /\ stream = Free /\ mutex = Free
  /\ sinkPc = "idle" /\ cur = 0 /\ op = "none"
  /\ upstream = "flowing" /\ downstream = "OK" /\ resDirty = FALSE
  /\ appPc = "idle"
  /\ ctx = "live" /\ attempts = 0 /\ posted = FALSE
  /\ next = 1 /\ faults = 0 /\ resChanges = 0 /\ resets = 0 /\ session = 1

-----------------------------------------------------------------------------
(* The MPP hardware and the two calls the plugin makes on it *)

\* The hardware finishes the oldest job it has not finished.
HwComplete ==
  /\ ready < Len(mpp)
  /\ ready' = ready + 1
  /\ UNCHANGED <<list, queue, mpp, pending, log, desync, flagVars, taskVars,
                 lockVars, sinkVars, appPc, ctxVars, countVars>>

\* Were pending_frames left alone, every restart would lose the slots of the
\* frames it discards.
DiscardUncounted ==
  LET submitted == pending - Len(queue)
      n == IF submitted < 0 THEN 0
           ELSE IF submitted < Len(list) THEN submitted ELSE Len(list)
  IN  EndFirst(n, "restart") /\ UNCHANGED pending

\* Every unfinished frame is discarded, those still queued or being handled too.
DiscardEvery == EndFirst(Len(list), "restart") /\ pending' = Len(queue)

\* gst_mpp_enc_discard_submitted_frames
DiscardSubmitted ==
  LET submitted == pending - Len(queue)
      n == IF submitted < 0 THEN 0
           ELSE IF submitted < Len(list) THEN submitted ELSE Len(list)
  IN  EndFirst(n, "restart") /\ pending' = Len(queue)

\* The budget, and the same off by one.
ExhaustedLate(used) == used > RestartBudget
Exhausted(used) == used >= RestartBudget

\* gst_mpp_enc_restart_context.  MppEncoder abstracts the clock: whether the
\* window has expired is a free choice (FaultRecovery.tla keeps the time).
RestartContext ==
  \E expired \in BOOLEAN :
    LET used == IF expired THEN 0 ELSE attempts
    IN \/ /\ Exhausted(used)
          /\ attempts' = used /\ taskRet' = "ERROR" /\ posted' = TRUE
          /\ UNCHANGED <<list, mpp, ready, pending, log, ctx>>
       \/ /\ ~Exhausted(used)
          /\ attempts' = used + 1
          /\ DiscardSubmitted /\ mpp' = <<>> /\ ready' = 0
          /\ \/ UNCHANGED <<ctx, taskRet, posted>>
             \/ /\ RestartMayFail /\ ctx' \in {"live", "none"}
                /\ taskRet' = "ERROR" /\ posted' = TRUE

\* gst_mpp_enc_handle_runtime_error for an error other than TIMEOUT and NOK
RuntimeError ==
  /\ faults < MaxFaults /\ faults' = faults + 1
  /\ \/ /\ flushing /\ taskRet' = "ERROR"
        /\ UNCHANGED <<list, mpp, ready, pending, log, ctx, attempts, posted>>
     \/ ~flushing /\ RestartContext

\* send_frame looks the head of the queue up in the base class's list.
HeadListed == queue # <<>> /\ \E i \in 1..Len(list) : list[i] = Head(queue)

\* gst_mpp_enc_send_frame_locked: put_frame takes the head of the queue ...
SendFrame ==
  /\ ctx = "live" /\ HeadListed /\ Len(mpp) < MppDepth
  /\ mpp' = Append(mpp, Head(queue)) /\ queue' = Tail(queue)
  /\ UNCHANGED <<list, ready, pending, log, desync, taskRet, ctxVars, faults>>

\* ... or there is nothing to send, or put_frame answers MPP_NOK ...
SendNothing ==
  /\ ctx = "live" /\ (queue = <<>> \/ (HeadListed /\ Len(mpp) >= MppDepth))
  /\ UNCHANGED <<frameVars, taskRet, ctxVars, faults>>

\* ... or it fails: the frame stays at the head of the queue.
SendFault ==
  /\ ctx = "live" /\ HeadListed /\ RuntimeError /\ UNCHANGED <<queue, desync>>

\* The flow gst_video_encoder_finish_frame returns when it pushes a buffer.
PushResults == IF downstream = "FLUSHING" THEN {"FLUSHING"} ELSE PushOutcomes

\* gst_mpp_enc_poll_packet_locked with a packet at hand
PollPacket ==
  /\ ctx = "live" /\ ready > 0
  /\ mpp' = Tail(mpp) /\ ready' = ready - 1 /\ pending' = pending - 1
  /\ IF list = <<>> THEN UNCHANGED <<list, log, taskRet>>
     ELSE /\ list' = Tail(list)
          /\ \/ /\ flushing /\ ~draining
                /\ log' = Append(log, Ended(Head(list), "flushed", Head(mpp)))
                /\ taskRet' = "OK"
             \/ /\ ~(flushing /\ ~draining)   \* rate-controller drop
                /\ log' = Append(log, Ended(Head(list), "empty", Head(mpp)))
                /\ taskRet' = "OK"
             \/ /\ ~(flushing /\ ~draining)
                /\ log' = Append(log, Ended(Head(list), "coded", Head(mpp)))
                /\ taskRet' \in PushResults
  /\ UNCHANGED <<queue, desync, ctxVars, faults>>

\* ... with none, after the 1 ms output timeout
PollNothing ==
  /\ ctx = "live" /\ ready = 0 /\ UNCHANGED <<frameVars, taskRet, ctxVars, faults>>

PollFault == ctx = "live" /\ RuntimeError /\ UNCHANGED <<queue, desync>>

\* A drain stops when 100 ms bring no packet.
NoProgress == ctx = "live" /\ ready = 0 /\ (MppTimely => mpp = <<>>)

-----------------------------------------------------------------------------
(* Task: gst_mpp_enc_loop *)

\* The task calls the loop function and waits for work.
TaskEnter ==
  /\ taskState = "STARTED" /\ taskPc = "idle" /\ taskPc' = "wait"
  /\ UNCHANGED <<frameVars, flagVars, taskState, progress, lockVars, sinkVars,
                 appPc, ctxVars, countVars>>

\* It wakes for frames to encode and for a flush; frames alone would not do.
HasFrames == pending # 0
HasWork == pending # 0 \/ flushing

TaskWake ==
  /\ taskPc = "wait" /\ HasWork /\ taskPc' = "want"
  /\ UNCHANGED <<frameVars, flagVars, taskState, progress, lockVars, sinkVars,
                 appPc, ctxVars, countVars>>

\* It takes the stream lock; flushing with nothing pending ends the task.
TaskLock ==
  /\ taskPc = "want" /\ stream = Free
  /\ progress' = FALSE
  /\ IF flushing /\ pending = 0
       THEN /\ taskRet' = "FLUSHING" /\ taskState' = "PAUSED"
            /\ taskPc' = "idle" /\ UNCHANGED stream
       ELSE /\ taskPc' = "send" /\ stream' = "task"
            /\ UNCHANGED <<taskRet, taskState>>
  /\ UNCHANGED <<frameVars, flushing, draining, mutex, sinkVars, appPc, ctxVars,
                 countVars>>

TaskKeeps == <<flushing, draining, taskState, lockVars, sinkVars, appPc,
                  next, resChanges, resets, session>>

TaskSend ==
  /\ taskPc = "send"
  /\ \/ SendFrame /\ UNCHANGED taskPc
     \/ (SendNothing \/ SendFault) /\ taskPc' = "poll"
  /\ UNCHANGED <<TaskKeeps, progress>>

TaskPoll ==
  /\ taskPc = "poll"
  /\ \/ PollPacket /\ progress' = TRUE /\ UNCHANGED taskPc
     \/ (PollNothing \/ PollFault) /\ taskPc' = "kernel" /\ UNCHANGED progress
  /\ UNCHANGED TaskKeeps

\* gst_mpp_enc_poll_kernel_faults, then the decision to wait for the drain
TaskKernelFaults ==
  /\ taskPc = "kernel"
  /\ \/ UNCHANGED <<frameVars, taskRet, ctxVars, faults>>
     \/ ctx = "live" /\ RuntimeError /\ UNCHANGED <<queue, desync>>
  /\ taskPc' = IF flushing /\ pending' # 0 /\ ~progress THEN "drain" ELSE "leave"
  /\ UNCHANGED <<TaskKeeps, progress>>

TaskDrain ==
  /\ taskPc = "drain"
  /\ \/ PollPacket /\ taskPc' = "leave"
     \/ PollFault /\ UNCHANGED taskPc
     \/ /\ NoProgress /\ taskRet' = "FLUSHING" /\ taskPc' = "leave"
        /\ UNCHANGED <<frameVars, ctxVars, faults>>
  /\ UNCHANGED <<TaskKeeps, progress>>

TaskLeave ==
  /\ taskPc = "leave" /\ taskPc' = "idle" /\ stream' = Free
  /\ taskState' = IF taskRet # "OK" THEN "PAUSED" ELSE taskState
  /\ UNCHANGED <<frameVars, flagVars, progress, mutex, sinkVars, appPc, ctxVars,
                 countVars>>

-----------------------------------------------------------------------------
(* Sink: gst_mpp_enc_handle_frame *)

\* gst_mpp_enc_fully_drained; MPP having returned everything is not enough.
MppDrained == mpp = <<>>
FullyDrained == queue = <<>> /\ pending = 0

\* A buffer arrives: the base class lists a new frame and the codec's
\* handle_frame passes it on, which releases the stream lock in GST_MPP_ENC_LOCK.
Chain ==
  /\ upstream = "flowing" /\ sinkPc = "idle" /\ stream = Free
  /\ next <= MaxFrames /\ next' = next + 1
  /\ list' = Append(list, next) /\ cur' = next /\ sinkPc' = "lock"
  /\ UNCHANGED <<queue, mpp, ready, pending, log, desync, flagVars, taskVars,
                 lockVars, op, upstream, downstream, resDirty, appPc, ctxVars,
                 faults, resChanges, resets, session>>

\* The codec's handle_frame, when apply_properties fails: the frame is
\* unreferenced, never finished, and the base class keeps it in its list.
\* Upstream may push again, and the code counts on it to retry.
ChainRefused ==
  /\ Refusable /\ ~flushing
  /\ upstream = "flowing" /\ sinkPc = "idle" /\ stream = Free
  /\ next <= MaxFrames /\ next' = next + 1
  /\ list' = Append(list, next) /\ desync' = TRUE
  /\ upstream' \in {"flowing", "stopped"}
  /\ UNCHANGED <<queue, mpp, ready, pending, log, flagVars, taskVars, lockVars,
                 sinkPc, cur, op, downstream, resDirty, appPc, ctxVars, faults,
                 resChanges, resets, session>>

SinkTakesMutex ==
  /\ sinkPc = "lock" /\ mutex = Free /\ mutex' = "sink" /\ sinkPc' = "locked"
  /\ UNCHANGED <<frameVars, flagVars, taskVars, stream, cur, op, upstream,
                 downstream, resDirty, appPc, ctxVars, countVars>>

\* The way out of handle_frame: both locks go, and a flow return other than OK
\* stops an upstream that heeds it.
Return(flow) ==
  /\ stream' = Free /\ mutex' = Free /\ sinkPc' = "idle" /\ cur' = 0
  /\ upstream' \in IF flow = "OK" \/ upstream # "flowing" THEN {upstream}
                   ELSE {"flowing", "stopped"}
  /\ UNCHANGED <<op, downstream>>

\* drop: the frame is finished with whatever output_buffer holds
Drop(kind, flow) ==
  /\ EndCur(kind) /\ Return(flow)
  /\ UNCHANGED <<queue, mpp, ready, pending, desync, taskRet, ctxVars, faults>>

\* The frame is counted and queued, last: not first, as g_list_prepend would.
EnqueueFirst ==
  /\ pending' = pending + 1 /\ queue' = <<cur>> \o queue
  /\ Return(taskRet)
  /\ UNCHANGED <<list, mpp, ready, log, desync, taskRet, ctxVars, faults>>

Enqueue ==
  /\ pending' = pending + 1 /\ queue' = Append(queue, cur)
  /\ Return(taskRet)
  /\ UNCHANGED <<list, mpp, ready, log, desync, taskRet, ctxVars, faults>>

SinkKeeps == <<flushing, draining, taskPc, progress, appPc, next,
               resChanges, resets, session>>

\* Under both locks: refuse when flushing, start the task, see to a pending
\* resolution change, convert.
Admit ==
  /\ sinkPc = "locked" /\ stream = Free
  /\ IF flushing
       THEN Drop("flushed", "FLUSHING") /\ UNCHANGED <<taskState, resDirty>>
       ELSE /\ taskState' = "STARTED" /\ stream' = "sink" /\ resDirty' = FALSE
            /\ sinkPc' = IF resDirty /\ ~FullyDrained THEN "ressend"
                         ELSE "convert"
            /\ UNCHANGED <<frameVars, mutex, cur, op, upstream, downstream,
                           taskRet, ctxVars, faults>>
  /\ UNCHANGED SinkKeeps

\* gst_mpp_enc_drain_resolution_boundary: send and poll here until nothing is
\* left, the flow fails or 100 ms bring no progress.
ResolutionSend ==
  /\ sinkPc = "ressend"
  /\ \/ SendFrame /\ UNCHANGED sinkPc
     \/ (SendNothing \/ SendFault) /\ sinkPc' = "respoll"
  /\ UNCHANGED <<SinkKeeps, taskState, lockVars, cur, op, upstream, downstream,
                 resDirty>>

ResolutionPoll ==
  /\ sinkPc = "respoll"
  /\ \/ PollPacket /\ UNCHANGED sinkPc
     \/ (PollNothing \/ PollFault) /\ sinkPc' = "rescheck"
  /\ UNCHANGED <<SinkKeeps, taskState, lockVars, cur, op, upstream, downstream,
                 resDirty>>

ResolutionCheck ==
  /\ sinkPc = "rescheck"
  /\ \/ /\ \/ taskRet # "OK"
           \/ ~FullyDrained /\ NoProgress /\ (MppTimely => queue = <<>>)
        /\ resDirty' = TRUE /\ Drop("refused", "ERROR")
     \/ /\ taskRet = "OK"
        /\ sinkPc' = IF FullyDrained THEN "convert" ELSE "ressend"
        /\ UNCHANGED <<frameVars, taskRet, lockVars, cur, op, upstream,
                       downstream, resDirty, ctxVars, faults>>
  /\ UNCHANGED <<SinkKeeps, taskState>>

\* gst_mpp_enc_convert: imports the buffer, or fails, or copies it on the CPU
\* with the stream lock released.
Convert ==
  /\ sinkPc = "convert"
  /\ \/ Drop("refused", "ERROR")
     \/ /\ \/ sinkPc' = "capacity" /\ UNCHANGED stream
           \/ sinkPc' = "copied" /\ stream' = Free
        /\ UNCHANGED <<frameVars, mutex, cur, op, upstream, downstream, taskRet,
                       ctxVars, faults>>
  /\ UNCHANGED <<SinkKeeps, taskState, resDirty>>

Copied ==
  /\ sinkPc = "copied" /\ stream = Free
  /\ \/ Drop("refused", "ERROR")
     \/ /\ sinkPc' = "capacity" /\ stream' = "sink"
        /\ UNCHANGED <<frameVars, mutex, cur, op, upstream, downstream, taskRet,
                       ctxVars, faults>>
  /\ UNCHANGED <<SinkKeeps, taskState, resDirty>>

\* Without a second look at flushing after the wait, a late frame gets in.
AdmitAlways == Enqueue

\* output_buffer now holds the converted input, so a frame refused from here on
\* is finished with it: the source pad pushes it unless it refuses buffers.
AdmitOrFlush ==
  IF flushing
    THEN Drop(IF downstream = "OK" THEN "raw" ELSE "flushed", "FLUSHING")
    ELSE Enqueue

Capacity ==
  /\ sinkPc = "capacity"
  /\ IF pending >= MaxPending
       THEN /\ sinkPc' = "capwait" /\ stream' = Free
            /\ UNCHANGED <<frameVars, mutex, cur, op, upstream, downstream,
                           taskRet, ctxVars, faults>>
       ELSE AdmitOrFlush
  /\ UNCHANGED <<SinkKeeps, taskState, resDirty>>

\* The producer waits for room or for a flush, not for room alone.
Room == pending < MaxPending
RoomOrFlush == pending < MaxPending \/ flushing

CapacityWake ==
  /\ sinkPc = "capwait" /\ RoomOrFlush
  /\ sinkPc' = "caprelock"
  /\ UNCHANGED <<frameVars, flagVars, taskVars, lockVars, cur, op, upstream,
                 downstream, resDirty, appPc, ctxVars, countVars>>

CapacityRelock ==
  /\ sinkPc = "caprelock" /\ stream = Free /\ AdmitOrFlush
  /\ UNCHANGED <<SinkKeeps, taskState, resDirty>>

-----------------------------------------------------------------------------
(* gst_mpp_enc_reset, by the sink thread (final = FALSE) or App (final = TRUE) *)

\* Publish draining and flushing under the stream lock, then let go of it;
\* flushing alone would throw the pending packets away.
PublishFlushing == stream = Free /\ flushing' = TRUE /\ UNCHANGED draining
Publish == stream = Free /\ draining' = TRUE /\ flushing' = TRUE

\* After gst_mpp_enc_stop_task: the flags take the values of the session to
\* come, mpi->reset runs, and the stream lock is held to the end.
StopFlags(final) ==
  /\ flushing' = final /\ draining' = FALSE /\ taskRet' = "OK"

\* What no drain delivered is forgotten, though the base class may still list it.
Forget ==
  /\ queue' = <<>> /\ pending' = 0 /\ taskRet' = "OK"
  /\ desync' = (desync \/ queue # <<>> \/ mpp # <<>>)

\* Once deactivated, the source pad no longer takes FLUSH_STOP.
SrcInactive == appPc \in {"srcoff", "sinkoff"} \/ upstream = "off"

\* The steps of reset between the publication and the end, with the program
\* counter pc of the thread who that runs them.
TakeMutex(who, pc, pc2) ==
  /\ pc = "rlock" /\ mutex = Free /\ mutex' = who /\ pc2 = "rlocked"
  /\ UNCHANGED <<frameVars, flagVars, taskVars, stream, ctxVars, faults>>

\* gst_mpp_enc_stop_task.  A started task is woken; unless draining is still
\* set, what is pending is forgotten.
StopTask(who, final, pc, pc2) ==
  /\ pc = "rlocked" /\ stream = Free
  /\ IF taskState = "STARTED"
       THEN /\ pending' = IF draining THEN pending ELSE 0
            /\ desync' = (desync \/ (~draining /\ (queue # <<>> \/ mpp # <<>>)))
            /\ pc2 = "rstop" /\ UNCHANGED <<flagVars, stream>>
       ELSE /\ StopFlags(final) /\ stream' = who /\ pc2 = "rdrain"
            /\ UNCHANGED <<pending, desync>>
  /\ UNCHANGED <<list, queue, mpp, ready, log, taskVars, mutex, ctxVars, faults>>

\* The task has paused; gst_pad_stop_task joins it.
JoinTask(pc, pc2) ==
  /\ pc = "rstop" /\ taskState # "STARTED" /\ taskPc = "idle"
  /\ taskState' = "STOPPED" /\ pc2 = "rrelock"
  /\ UNCHANGED <<frameVars, flagVars, taskPc, progress, lockVars, ctxVars, faults>>

Relock(who, final, pc, pc2) ==
  /\ pc = "rrelock" /\ stream = Free /\ stream' = who
  /\ StopFlags(final) /\ pc2 = "rdrain"
  /\ UNCHANGED <<frameVars, taskVars, mutex, ctxVars, faults>>

\* Polls through the normal output path.
DrainReset(pc, pc2) ==
  /\ pc = "rdrain" /\ (PollPacket \/ PollFault) /\ pc2 = pc
  /\ UNCHANGED <<flushing, draining, taskVars, lockVars>>

ResetStep(who, final, pc, pc2) ==
  \/ TakeMutex(who, pc, pc2)
  \/ StopTask(who, final, pc, pc2)
  \/ JoinTask(pc, pc2)
  \/ Relock(who, final, pc, pc2)
  \/ DrainReset(pc, pc2)

\* The sink thread begins a reset for EOS, for new caps, or for FLUSH_STOP.
SinkReset(reason) ==
  /\ sinkPc = "idle" /\ (OverlapResets \/ appPc = "idle")
  /\ resets < MaxResets /\ resets' = resets + 1
  /\ IF reason = "flush" THEN upstream = "flushing" ELSE upstream = "flowing"
  /\ Publish /\ op' = reason /\ sinkPc' = "rlock"
  /\ UNCHANGED <<frameVars, taskRet, taskVars, lockVars, cur, upstream,
                 downstream, resDirty, appPc, ctxVars, next, faults,
                 resChanges, session>>

SinkResetStep ==
  /\ ResetStep("sink", FALSE, sinkPc, sinkPc')
  /\ UNCHANGED <<cur, op, upstream, downstream, resDirty, appPc, next,
                 resChanges, resets, session>>

\* The reset ends.  finish and set_format ask for a full drain.
SinkResetDone ==
  /\ sinkPc = "rdrain" /\ op # "flush" /\ NoProgress
  /\ upstream' = IF upstream # "flowing" THEN upstream
                 ELSE IF taskRet # "OK" \/ ~FullyDrained THEN "stopped"
                 ELSE IF op = "eos" THEN "eos" ELSE "flowing"
  /\ Forget
  /\ stream' = Free /\ mutex' = Free /\ sinkPc' = "idle" /\ op' = "none"
  /\ UNCHANGED <<list, mpp, ready, log, flushing, draining, taskVars, cur,
                 downstream, resDirty, appPc, ctxVars, countVars>>

\* After flush the base class clears its frames and forwards FLUSH_STOP.
SinkFlushDone ==
  /\ sinkPc = "rdrain" /\ op = "flush" /\ NoProgress
  /\ upstream' = IF upstream = "off" THEN "off" ELSE "flowing"
  /\ downstream' = IF SrcInactive THEN downstream ELSE "OK"
  /\ EndFirst(Len(list), "cleared")
  /\ queue' = <<>> /\ pending' = 0 /\ taskRet' = "OK" /\ desync' = (mpp # <<>>)
  /\ stream' = Free /\ mutex' = Free /\ sinkPc' = "idle" /\ op' = "none"
  /\ UNCHANGED <<mpp, ready, flushing, draining, taskVars, cur, resDirty, appPc,
                 ctxVars, countVars>>

\* FLUSH_START: upstream stops pushing and the source pad refuses buffers.
FlushStart ==
  /\ upstream \in {"flowing", "stopped", "eos"}
  /\ (OverlapResets \/ appPc = "idle") /\ resets < MaxResets
  /\ upstream' = "flushing" /\ downstream' = "FLUSHING"
  /\ UNCHANGED <<frameVars, flagVars, taskVars, lockVars, sinkPc, cur, op,
                 resDirty, appPc, ctxVars, countVars>>

\* The width or height property is set while the encoder has an input format.
SetResolution ==
  /\ appPc # "ready" /\ resChanges < MaxResChanges
  /\ resChanges' = resChanges + 1
  /\ resDirty' = TRUE
  /\ UNCHANGED <<frameVars, flagVars, taskVars, lockVars, sinkPc, cur, op,
                 upstream, downstream, appPc, ctxVars, next, faults,
                 resets, session>>

-----------------------------------------------------------------------------
(* App: gst_mpp_enc_change_state, gst_mpp_enc_stop, gst_mpp_enc_start *)

\* PAUSED->READY resets before the parent deactivates the pads.
Teardown ==
  /\ appPc = "idle" /\ (OverlapResets \/ op = "none")
  /\ Publish /\ appPc' = "rlock"
  /\ UNCHANGED <<frameVars, taskRet, taskVars, lockVars, sinkVars, ctxVars,
                 countVars>>

AppResetStep ==
  /\ ResetStep("app", TRUE, appPc, appPc')
  /\ UNCHANGED <<sinkVars, next, resChanges, resets, session>>

AppResetDone ==
  /\ appPc = "rdrain" /\ upstream # "off" /\ NoProgress
  /\ Forget /\ stream' = Free /\ mutex' = Free /\ appPc' = "reset"
  /\ UNCHANGED <<list, mpp, ready, log, flushing, draining, taskVars, sinkVars,
                 ctxVars, countVars>>

\* The source pad goes first, and waits for the task to leave the loop function.
DeactivateSrc ==
  /\ appPc = "reset" /\ appPc' = "srcoff" /\ downstream' = "FLUSHING"
  /\ UNCHANGED <<frameVars, flagVars, taskVars, lockVars, sinkPc, cur, op,
                 upstream, resDirty, ctxVars, countVars>>

DeactivateSink ==
  /\ appPc = "srcoff" /\ taskPc = "idle" /\ appPc' = "sinkoff" /\ upstream' = "off"
  /\ UNCHANGED <<frameVars, flagVars, taskVars, lockVars, sinkPc, cur, op,
                 downstream, resDirty, ctxVars, countVars>>

\* gst_mpp_enc_stop, once the sink thread has left the pad, resets again ...
Stop ==
  /\ appPc = "sinkoff" /\ sinkPc = "idle" /\ Publish /\ appPc' = "rlock"
  /\ UNCHANGED <<frameVars, taskRet, taskVars, lockVars, sinkVars, ctxVars,
                 countVars>>

\* ... and destroys the context; the base class clears its frames.
StopDone ==
  /\ appPc = "rdrain" /\ upstream = "off" /\ NoProgress
  /\ EndFirst(Len(list), "cleared")
  /\ queue' = <<>> /\ mpp' = <<>> /\ ready' = 0 /\ pending' = 0
  /\ taskRet' = "OK" /\ desync' = FALSE
  /\ stream' = Free /\ mutex' = Free /\ appPc' = "ready"
  /\ UNCHANGED <<flushing, draining, taskVars, sinkVars, ctxVars, countVars>>

Start ==
  /\ appPc = "ready" /\ session < MaxSessions /\ session' = session + 1
  /\ appPc' = "idle" /\ flushing' = FALSE /\ pending' = 0 /\ taskRet' = "OK"
  /\ queue' = <<>> /\ attempts' = 0 /\ posted' = FALSE
  /\ upstream' = "flowing" /\ downstream' = "OK"
  /\ UNCHANGED <<list, mpp, ready, log, desync, draining, taskVars, lockVars,
                 sinkPc, cur, op, resDirty, ctx, next, faults,
                 resChanges, resets>>

-----------------------------------------------------------------------------
\* A restart that failed in mpp_create leaves self->mpi NULL: the next MPP call
\* goes through it, and the process dies where it stands.
NullCall ==
  /\ ctx = "none"
  /\ \/ taskPc \in {"send", "poll", "drain"}
     \/ sinkPc \in {"ressend", "respoll", "rdrain"}
     \/ appPc = "rdrain"

\* The same when a late packet has finished a frame that is still queued.
NullFrame ==
  queue # <<>> /\ ~HeadListed /\ (taskPc = "send" \/ sinkPc = "ressend")

TaskStep == TaskEnter \/ TaskWake \/ TaskLock \/ TaskSend \/ TaskPoll
              \/ TaskKernelFaults \/ TaskDrain \/ TaskLeave
HandleFrameStep ==
  SinkTakesMutex \/ Admit \/ ResolutionSend \/ ResolutionPoll
    \/ ResolutionCheck \/ Convert \/ Copied \/ Capacity \/ CapacityWake
    \/ CapacityRelock
SinkStep == HandleFrameStep \/ SinkResetStep \/ SinkResetDone \/ SinkFlushDone
AppStep == AppResetStep \/ AppResetDone \/ DeactivateSrc \/ DeactivateSink
             \/ Stop \/ StopDone

Step == \/ HwComplete \/ TaskStep
        \/ Chain \/ ChainRefused \/ SinkStep
        \/ \E reason \in {"eos", "caps", "flush"} : SinkReset(reason)
        \/ FlushStart \/ SetResolution
        \/ Teardown \/ AppStep \/ Start

\* The element rests in READY, or the process has died.
AtRest == (appPc = "ready" \/ NullCall \/ NullFrame) /\ UNCHANGED vars

Next == Step \/ AtRest

Spec == Init /\ [][Next]_vars

-----------------------------------------------------------------------------
(* What the scheduler and the hardware owe.  The locks are ordinary mutexes:   *)
(* a thread waiting for one that is released again and again gets it at last,  *)
(* so the steps that acquire one are strongly fair.  A running thread goes on  *)
(* (weak fairness), a job ends, and an application that was told of an error   *)
(* takes the element down.                                                     *)

SinkAcquires == SinkTakesMutex \/ Admit \/ Copied \/ CapacityRelock
                  \/ (SinkResetStep /\ sinkPc # "rdrain")

Fairness ==
  /\ WF_vars(HwComplete)
  /\ SF_vars(TaskLock) /\ WF_vars(TaskStep)
  /\ SF_vars(SinkAcquires) /\ WF_vars(SinkStep)
  /\ WF_vars(upstream = "flushing" /\ SinkReset("flush"))
  /\ SF_vars(AppResetStep) /\ SF_vars(Stop) /\ SF_vars(DeactivateSink)
  /\ WF_vars(AppStep)
  /\ SF_vars(posted /\ Teardown)

FairSpec == Spec /\ Fairness

-----------------------------------------------------------------------------
(* Properties *)

FrameIds == 1..MaxFrames
EndedRecord == [frame : FrameIds, kind : Kinds, data : FrameIds]

\* Every variable keeps its range.
FrameTypeOK ==
  /\ list \in Seq(FrameIds) /\ queue \in Seq(FrameIds) /\ mpp \in Seq(FrameIds)
  /\ ready \in 0..Len(mpp) /\ pending \in Int
  /\ log \in Seq(EndedRecord) /\ desync \in BOOLEAN
ControlTypeOK ==
  /\ flushing \in BOOLEAN /\ draining \in BOOLEAN /\ taskRet \in FlowReturn
  /\ taskState \in {"STOPPED", "STARTED", "PAUSED"}
  /\ taskPc \in {"idle", "wait", "want", "send", "poll", "kernel", "drain", "leave"}
  /\ progress \in BOOLEAN
  /\ stream \in {Free, "task", "sink", "app"} /\ mutex \in {Free, "sink", "app"}
  /\ sinkPc \in {"idle", "lock", "locked", "ressend", "respoll", "rescheck",
                 "convert", "copied", "capacity", "capwait", "caprelock"} \cup ResetPcs
  /\ cur \in 0..MaxFrames /\ op \in {"none", "eos", "caps", "flush"}
  /\ upstream \in {"flowing", "stopped", "eos", "flushing", "off"}
  /\ downstream \in {"OK", "FLUSHING"} /\ resDirty \in BOOLEAN
  /\ appPc \in {"idle", "reset", "srcoff", "sinkoff", "ready"} \cup ResetPcs
  /\ ctx \in {"live", "none"} /\ attempts \in 0..RestartBudget
  /\ posted \in BOOLEAN
  /\ next \in 1..(MaxFrames + 1) /\ faults \in 0..MaxFaults
  /\ resChanges \in 0..MaxResChanges /\ resets \in 0..MaxResets
  /\ session \in Nat
TypeOK == FrameTypeOK /\ ControlTypeOK

\* pending_frames counts exactly the frames that are queued or inside MPP, and
\* never passes max-pending: across restarts, drains and resets the counter that
\* gates the producer neither leaks a slot nor invents one.
Accounting ==
  ~desync => pending = Len(queue) + Len(mpp) /\ pending <= MaxPending

\* A producer that saw room still has it when it has the stream lock again.
RoomKept == (~desync /\ sinkPc = "caprelock") => pending < MaxPending \/ flushing

\* The base class, the encoder's queue and MPP hold the same frames in the same
\* order: first those inside MPP, then those queued, then the one in handle_frame.
Current == IF cur = 0 THEN <<>> ELSE <<cur>>
FrameOrder == ~desync => list = mpp \o queue \o Current

\* Which thread holds which lock, by where it stands.
HandlePcs == {"lock", "locked", "ressend", "respoll", "rescheck", "convert",
              "copied", "capacity", "capwait", "caprelock"}
TaskHolds == {"send", "poll", "kernel", "drain", "leave"}
SinkHolds == {"ressend", "respoll", "rescheck", "convert", "capacity", "rdrain"}
SinkOwns == (HandlePcs \ {"lock"}) \cup (ResetPcs \ {"rlock"})
LockInv ==
  /\ stream = "task" <=> taskPc \in TaskHolds
  /\ stream = "sink" <=> sinkPc \in SinkHolds
  /\ stream = "app"  <=> appPc = "rdrain"
  /\ mutex = "sink"  <=> sinkPc \in SinkOwns
  /\ mutex = "app"   <=> appPc \in ResetPcs \ {"rlock"}

\* What each thread may count on where it stands.
ThreadInv ==
  /\ cur # 0 <=> sinkPc \in HandlePcs
  /\ taskPc # "idle" => taskState = "STARTED"
  /\ appPc \in {"rrelock", "rdrain", "ready"} => taskState # "STARTED"
  /\ appPc \in {"sinkoff", "ready"} => upstream = "off"
  /\ upstream = "off" => appPc \in {"sinkoff", "ready"} \cup ResetPcs
  /\ (upstream = "off" /\ appPc # "sinkoff") => sinkPc = "idle"
  /\ appPc = "ready" => list = <<>> /\ queue = <<>> /\ mpp = <<>> /\ pending = 0

\* The inductive invariant behind Accounting and Paired: no two threads touch the
\* frames at once, and no reset leaves a thread where it could.
IndInv == TypeOK /\ LockInv /\ ThreadInv /\ FrameOrder /\ Accounting /\ RoomKept

\* A frame the base class was given is either still listed or was finished, and
\* was finished once: no path through refusal, restart, flush or stop finishes a
\* frame twice or loses one.  Every frame has a place, and there are no more places
\* than frames.
Listed(f) == \E i \in 1..Len(list) : list[i] = f
Finished(f) == \E i \in 1..Len(log) : log[i].frame = f
FramesConserved ==
  /\ \A f \in 1..(next - 1) : Listed(f) \/ Finished(f)
  /\ Len(list) + Len(log) = next - 1

\* Coded pictures leave in the order their frames arrived, and so do the frames
\* they are pushed with, which is what lets poll_packet set DTS = PTS: also across
\* restarts, resets and sessions.
CodedInOrder ==
  \A i, j \in 1..Len(log) :
    (i < j /\ log[i].kind = "coded" /\ log[j].kind = "coded")
      => log[i].frame < log[j].frame /\ log[i].data < log[j].data

\* "This encoded frame must be the oldest one": a packet is pushed with the frame
\* it codes, unless a refusal or a timed-out drain has left frames behind.
PairedStep ==
  ~desync => \A i \in (Len(log) + 1)..Len(log') :
               log'[i].kind = "coded" => log'[i].frame = log'[i].data
Paired == [][PairedStep]_vars

\* Packets are thrown away as flushed only under a teardown: an EOS, a caps change
\* or a FLUSH_STOP drains (docs/ENCODER-RUNTIME-CONTRACT.md, EOS drain admission).
FlushedInTeardown ==
  [][\A i \in (Len(log) + 1)..Len(log') :
       log'[i].kind = "flushed" => appPc # "idle"]_vars

\* When finish reports OK for EOS, every frame upstream pushed has been finished,
\* also after a push that failed with frames queued: refused properties and jobs
\* that outlive a drain aside, a drain that left a frame behind is no success.
EosComplete == upstream = "eos" => list = <<>>

\* Once PAUSED->READY has published flushing, no frame is accepted.
LateFramesRefused ==
  [][Len(queue') > Len(queue) => appPc = "idle"]_vars

\* A resolution change never touches the frame template while a frame converted
\* for the old geometry is still to be sent or is inside MPP: whether handle_frame
\* found nothing to drain or comes from the drain.
DrainedBeforeReconfigure ==
  [][(sinkPc # "convert" /\ sinkPc' = "convert" /\ (resDirty \/ sinkPc = "rescheck")
      /\ ~desync)
       => list = <<cur>>]_vars

\* A producer blocked on max-pending is released, whatever the hardware, the
\* restarts and the resets do; the application takes down what was reported dead.
ProducerReleased == sinkPc = "capwait" ~> sinkPc # "capwait"

\* EOS, caps and flush resets end.
SinkResetEnds == sinkPc \in ResetPcs ~> sinkPc = "idle"

\* PAUSED->READY, once begun, ends: no thread waits for one that waits for it.
TeardownEnds == appPc = "rlock" ~> appPc = "ready"

\* docs/ENCODER-RUNTIME-CONTRACT.md, late input during teardown: "Final
\* PAUSED->READY reset stops the output task".
ResetStopsTask == appPc = "rstop" ~> taskState # "STARTED"

(* What the documentation and the comments say without the exceptions *)

\* gstmppenc.c, poll_packet: "This encoded frame must be the oldest one".
OldestIsCoded ==
  \A i \in 1..Len(log) : log[i].kind = "coded" => log[i].frame = log[i].data

\* README.md: "Late queued frames during encoder teardown are rejected": a
\* rejected frame produces no output.
RejectedNotPushed == \A i \in 1..Len(log) : log[i].kind # "raw"
=============================================================================
