-------------------------- MODULE MppEncoder_proofs --------------------------
(***************************************************************************)
(* Proofs about MppEncoder, for every value of its constants.              *)
(***************************************************************************)
EXTENDS MppEncoder, SequenceLemmas

-----------------------------------------------------------------------------
(* Types: what the operations on the frames return *)

\* Finishing the first n frames without output keeps list and log in range.
LEMMA EndFirstType ==
  ASSUME FrameTypeOK, NEW n \in 0..Len(list), NEW kind \in Kinds, EndFirst(n, kind)
  PROVE  list' \in Seq(FrameIds) /\ log' \in Seq(EndedRecord)
<1> DEFINE e == [i \in 1..n |-> Ended(list[i], kind, list[i])]
<1>1. n \in Nat /\ Len(list) \in Nat /\ \A i \in 1..n : i \in 1..Len(list)
  BY LenProperties DEF FrameTypeOK
<1>2. \A i \in 1..n : list[i] \in FrameIds
  BY <1>1, ElementOfSeq DEF FrameTypeOK
<1>3. \A i \in 1..n : Ended(list[i], kind, list[i]) \in EndedRecord
  BY <1>2 DEF Ended, EndedRecord
<1>4. e \in [1..n -> EndedRecord]
  BY <1>3
<1>5. e \in Seq(EndedRecord)
  BY <1>1, <1>4, SeqDef
<1> HIDE DEF e
<1>6. log \o e \in Seq(EndedRecord)
  BY <1>5, ConcatProperties DEF FrameTypeOK
<1>7. list' \in Seq(FrameIds)
  BY SuffixType DEF EndFirst, FrameTypeOK
<1> QED BY <1>6, <1>7 DEF EndFirst, e

\* So does finishing the frame that handle_frame holds.
LEMMA EndCurType ==
  ASSUME FrameTypeOK, cur \in FrameIds, NEW kind \in Kinds, EndCur(kind)
  PROVE  list' \in Seq(FrameIds) /\ log' \in Seq(EndedRecord)
<1>1. list # <<>> => SubSeq(list, 1, Len(list) - 1) \in Seq(FrameIds)
  BY FrontType DEF FrameTypeOK
<1>2. Ended(cur, kind, cur) \in EndedRecord
  BY DEF Ended, EndedRecord
<1> QED BY <1>1, <1>2, AppendProperties DEF EndCur, FrameTypeOK

\* encode_put_frame moves a frame from the queue to MPP, all in range.
LEMMA SendFrameType ==
  ASSUME FrameTypeOK, SendFrame
  PROVE  FrameTypeOK'
<1>1. Head(queue) \in FrameIds /\ Tail(queue) \in Seq(FrameIds)
  BY HeadTailProperties DEF SendFrame, HeadListed, FrameTypeOK
<1>2. /\ Append(mpp, Head(queue)) \in Seq(FrameIds)
      /\ Len(Append(mpp, Head(queue))) = Len(mpp) + 1
  BY <1>1, AppendProperties DEF FrameTypeOK
<1>3. Len(mpp) \in Nat
  BY LenProperties DEF FrameTypeOK
<1>4. ready' \in 0..Len(mpp')
  BY <1>2, <1>3 DEF SendFrame, HeadListed, FrameTypeOK
<1> QED BY <1>1, <1>2, <1>4 DEF SendFrame, HeadListed, FrameTypeOK, EndedRecord, FrameIds

\* A polled packet, pushed or dropped, leaves every frame variable in range.
LEMMA PollPacketType ==
  ASSUME FrameTypeOK, PollPacket, PushOutcomes \subseteq {"OK", "ERROR"},
         taskRet \in FlowReturn
  PROVE  FrameTypeOK' /\ taskRet' \in FlowReturn
<1>1. Len(mpp) \in Nat /\ mpp # <<>>
  BY EmptySeq, LenProperties DEF FrameTypeOK, PollPacket
<1>2. Head(mpp) \in FrameIds /\ Tail(mpp) \in Seq(FrameIds) /\ Len(Tail(mpp)) = Len(mpp) - 1
  BY <1>1, HeadTailProperties DEF FrameTypeOK
<1>3. ready' \in 0..Len(mpp')
  BY <1>1, <1>2 DEF PollPacket, FrameTypeOK
<1>4. /\ list' \in Seq(FrameIds) /\ log' \in Seq(EndedRecord)
      /\ taskRet' \in FlowReturn
  <2>1. CASE list = <<>>
    BY <2>1 DEF PollPacket, FrameTypeOK
  <2>2. CASE list # <<>>
    <3>1. Head(list) \in FrameIds /\ Tail(list) \in Seq(FrameIds)
      BY <2>2, HeadTailProperties DEF FrameTypeOK
    <3>2. \A kind \in Kinds : Ended(Head(list), kind, Head(mpp)) \in EndedRecord
      BY <1>2, <3>1 DEF Ended, EndedRecord
    <3>3. \A kind \in Kinds :
            Append(log, Ended(Head(list), kind, Head(mpp))) \in Seq(EndedRecord)
      BY <3>2, AppendProperties DEF FrameTypeOK
    <3>4. {"coded", "empty", "flushed"} \subseteq Kinds
      BY DEF Kinds
    <3>5. log' \in Seq(EndedRecord)
      BY <2>2, <3>3, <3>4 DEF PollPacket
    <3>6. taskRet' \in FlowReturn
      BY <2>2 DEF PollPacket, PushResults, FlowReturn
    <3> QED BY <2>2, <3>1, <3>5, <3>6 DEF PollPacket
  <2> QED BY <2>1, <2>2
<1>5. pending' \in Int /\ UNCHANGED <<queue, desync>>
  BY DEF PollPacket, FrameTypeOK
<1> QED BY <1>2, <1>3, <1>4, <1>5 DEF PollPacket, FrameTypeOK, EndedRecord, FrameIds

\* The variables a recovery writes, apart from the frames.
RecoveryTypeOK ==
  /\ taskRet \in FlowReturn /\ ctx \in {"live", "none"}
  /\ attempts \in 0..RestartBudget /\ posted \in BOOLEAN /\ faults \in 0..MaxFaults

\* gst_mpp_enc_discard_submitted_frames keeps its four variables in range.
LEMMA DiscardType ==
  ASSUME FrameTypeOK, DiscardSubmitted
  PROVE  list' \in Seq(FrameIds) /\ log' \in Seq(EndedRecord) /\ pending' \in Int
<1> DEFINE submitted == pending - Len(queue)
           n == IF submitted < 0 THEN 0
                ELSE IF submitted < Len(list) THEN submitted ELSE Len(list)
<1>1. Len(queue) \in Nat /\ Len(list) \in Nat /\ submitted \in Int
  BY LenProperties DEF FrameTypeOK
<1>2. n \in 0..Len(list)
  BY <1>1
<1>3. EndFirst(n, "restart") /\ pending' = Len(queue)
  BY DEF DiscardSubmitted
<1> HIDE DEF n
<1>4. "restart" \in Kinds
  BY DEF Kinds
<1> QED BY <1>1, <1>2, <1>3, <1>4, EndFirstType

\* A runtime error, restarted or not, leaves frames and recovery in range.
LEMMA RuntimeErrorType ==
  ASSUME ConstantsAssumption, FrameTypeOK, RecoveryTypeOK, flushing \in BOOLEAN,
         RuntimeError, UNCHANGED <<queue, desync>>
  PROVE  FrameTypeOK' /\ RecoveryTypeOK'
<1>1. faults' \in 0..MaxFaults
  BY DEF RuntimeError, RecoveryTypeOK, ConstantsAssumption
<1>2. CASE /\ taskRet' = "ERROR"
           /\ UNCHANGED <<list, mpp, ready, pending, log, ctx, attempts, posted>>
  BY <1>1, <1>2 DEF FrameTypeOK, RecoveryTypeOK, FlowReturn, EndedRecord, FrameIds
<1>3. CASE RestartContext
  <2> PICK expired \in BOOLEAN :
        LET used == IF expired THEN 0 ELSE attempts
        IN \/ /\ Exhausted(used)
              /\ attempts' = used /\ taskRet' = "ERROR" /\ posted' = TRUE
              /\ UNCHANGED <<list, mpp, ready, pending, log, ctx>>
           \/ /\ ~Exhausted(used)
              /\ attempts' = used + 1
              /\ DiscardSubmitted /\ mpp' = <<>> /\ ready' = 0
              /\ \/ UNCHANGED <<ctx, taskRet, posted>>
                 \/ /\ RestartMayFail /\ ctx' \in {"live", "none"}
                    /\ taskRet' = "ERROR" /\ posted' = TRUE
    BY <1>3 DEF RestartContext
  <2> DEFINE used == IF expired THEN 0 ELSE attempts
  <2>1. used \in 0..RestartBudget
    BY DEF RecoveryTypeOK, ConstantsAssumption
  <2>2. CASE /\ attempts' = used /\ taskRet' = "ERROR" /\ posted' = TRUE
             /\ UNCHANGED <<list, mpp, ready, pending, log, ctx>>
    BY <1>1, <2>1, <2>2
       DEF FrameTypeOK, RecoveryTypeOK, FlowReturn, EndedRecord, FrameIds
  <2>3. CASE /\ ~Exhausted(used) /\ attempts' = used + 1
             /\ DiscardSubmitted /\ mpp' = <<>> /\ ready' = 0
             /\ \/ UNCHANGED <<ctx, taskRet, posted>>
                \/ /\ ctx' \in {"live", "none"} /\ taskRet' = "ERROR" /\ posted' = TRUE
    <3>1. attempts' \in 0..RestartBudget
      BY <2>1, <2>3 DEF Exhausted, ConstantsAssumption
    <3>2. RecoveryTypeOK'
      BY <1>1, <2>3, <3>1 DEF RecoveryTypeOK, FlowReturn
    <3>3. mpp' \in Seq(FrameIds) /\ ready' \in 0..Len(mpp')
      BY <2>3, EmptySeq
    <3>4. list' \in Seq(FrameIds) /\ log' \in Seq(EndedRecord) /\ pending' \in Int
      BY <2>3, DiscardType
    <3> QED BY <3>2, <3>3, <3>4 DEF FrameTypeOK, EndedRecord, FrameIds
  <2> QED BY <2>2, <2>3
<1> QED BY <1>2, <1>3 DEF RuntimeError

-----------------------------------------------------------------------------
(* Locks *)

\* Each step leaves the locks with the threads whose place says they hold them.
LEMMA LockStep ==
  ASSUME ControlTypeOK, LockInv, [Next]_vars
  PROVE  LockInv'
<1> USE DEF ControlTypeOK, LockInv, TaskHolds, SinkHolds, SinkOwns, HandlePcs,
            ResetPcs, Free, lockVars
<1>1. CASE HwComplete
  BY <1>1 DEF HwComplete, sinkVars, taskVars
<1>2. CASE TaskEnter
  BY <1>2 DEF TaskEnter, sinkVars, taskVars
<1>3. CASE TaskWake
  BY <1>3 DEF TaskWake, sinkVars, taskVars
<1>4. CASE TaskLock
  BY <1>4 DEF TaskLock, sinkVars, taskVars
<1>5. CASE TaskSend
  BY <1>5 DEF TaskSend, TaskKeeps, sinkVars, taskVars
<1>6. CASE TaskPoll
  BY <1>6 DEF TaskPoll, TaskKeeps, sinkVars, taskVars
<1>7. CASE TaskKernelFaults
  BY <1>7 DEF TaskKernelFaults, TaskKeeps, sinkVars, taskVars
<1>8. CASE TaskDrain
  BY <1>8 DEF TaskDrain, TaskKeeps, sinkVars, taskVars
<1>9. CASE TaskLeave
  BY <1>9 DEF TaskLeave, sinkVars, taskVars
<1>10. CASE Chain
  BY <1>10 DEF Chain, sinkVars, taskVars
<1>11. CASE ChainRefused
  BY <1>11 DEF ChainRefused, sinkVars, taskVars
<1>12. CASE SinkTakesMutex
  BY <1>12 DEF SinkTakesMutex, sinkVars, taskVars
<1>13. CASE Admit
  BY <1>13 DEF Admit, SinkKeeps, Drop, Return, sinkVars, taskVars
<1>14. CASE ResolutionSend
  BY <1>14 DEF ResolutionSend, SinkKeeps, sinkVars, taskVars
<1>15. CASE ResolutionPoll
  BY <1>15 DEF ResolutionPoll, SinkKeeps, sinkVars, taskVars
<1>16. CASE ResolutionCheck
  BY <1>16 DEF ResolutionCheck, SinkKeeps, Drop, Return, sinkVars, taskVars
<1>17. CASE Convert
  BY <1>17 DEF Convert, SinkKeeps, Drop, Return, sinkVars, taskVars
<1>18. CASE Copied
  BY <1>18 DEF Copied, SinkKeeps, Drop, Return, sinkVars, taskVars
<1>19. CASE Capacity
  BY <1>19 DEF Capacity, SinkKeeps, AdmitOrFlush, Drop, Enqueue, Return, sinkVars, taskVars
<1>20. CASE CapacityWake
  BY <1>20 DEF CapacityWake, sinkVars, taskVars
<1>21. CASE CapacityRelock
  BY <1>21 DEF CapacityRelock, SinkKeeps, AdmitOrFlush, Drop, Enqueue, Return, sinkVars, taskVars
<1>22. CASE \E reason \in {"eos", "caps", "flush"} : SinkReset(reason)
  BY <1>22 DEF SinkReset, Publish, sinkVars, taskVars
<1>23. CASE SinkResetStep
  BY <1>23
     DEF SinkResetStep, ResetStep, TakeMutex, StopTask, JoinTask, Relock, DrainReset, sinkVars,
         taskVars
<1>24. CASE SinkResetDone
  BY <1>24 DEF SinkResetDone, sinkVars, taskVars
<1>25. CASE SinkFlushDone
  BY <1>25 DEF SinkFlushDone, sinkVars, taskVars
<1>26. CASE FlushStart
  BY <1>26 DEF FlushStart, sinkVars, taskVars
<1>27. CASE SetResolution
  BY <1>27 DEF SetResolution, sinkVars, taskVars
<1>28. CASE Teardown
  BY <1>28 DEF Teardown, Publish, sinkVars, taskVars
<1>29. CASE AppResetStep
  BY <1>29
     DEF AppResetStep, ResetStep, TakeMutex, StopTask, JoinTask, Relock, DrainReset, sinkVars,
         taskVars
<1>30. CASE AppResetDone
  BY <1>30 DEF AppResetDone, sinkVars, taskVars
<1>31. CASE DeactivateSrc
  BY <1>31 DEF DeactivateSrc, sinkVars, taskVars
<1>32. CASE DeactivateSink
  BY <1>32 DEF DeactivateSink, sinkVars, taskVars
<1>33. CASE Stop
  BY <1>33 DEF Stop, Publish, sinkVars, taskVars
<1>34. CASE StopDone
  BY <1>34 DEF StopDone, sinkVars, taskVars
<1>35. CASE Start
  BY <1>35 DEF Start, sinkVars, taskVars
<1>36. CASE UNCHANGED vars
  BY <1>36 DEF vars, sinkVars, taskVars
<1> QED
  BY <1>1, <1>2, <1>3, <1>4, <1>5, <1>6, <1>7, <1>8, <1>9, <1>10, <1>11, <1>12, <1>13, <1>14, <1>15, <1>16, <1>17, <1>18, <1>19, <1>20, <1>21, <1>22, <1>23, <1>24, <1>25, <1>26, <1>27, <1>28, <1>29, <1>30, <1>31, <1>32, <1>33, <1>34, <1>35, <1>36
     DEF Next, Step, AtRest, TaskStep, SinkStep, HandleFrameStep, AppStep

-----------------------------------------------------------------------------
(* Threads *)

\* Each step leaves every thread what it counts on where it stands.
LEMMA ThreadStep ==
  ASSUME TypeOK, LockInv, ThreadInv, [Next]_vars
  PROVE  ThreadInv'
<1> USE DEF TypeOK, ControlTypeOK, LockInv, ThreadInv, TaskHolds, SinkHolds, SinkOwns,
            HandlePcs, ResetPcs, Free
<1>0. next # 0 /\ SubSeq(list, Len(list) + 1, Len(list)) = <<>>
  <2>1. Len(list) \in Nat
    BY LenProperties DEF FrameTypeOK
  <2>2. Len(list) + 1 \in Int /\ Len(list) \in Int /\ Len(list) < Len(list) + 1
    BY <2>1
  <2>3. SubSeq(list, Len(list) + 1, Len(list)) = <<>>
    BY <2>2, SubSeqEmpty
  <2> QED BY <2>3
<1>1. CASE HwComplete
  BY <1>1 DEF HwComplete, sinkVars, taskVars, lockVars, frameVars
<1>2. CASE TaskEnter
  BY <1>2 DEF TaskEnter, sinkVars, taskVars, lockVars, frameVars
<1>3. CASE TaskWake
  BY <1>3 DEF TaskWake, sinkVars, taskVars, lockVars, frameVars
<1>4. CASE TaskLock
  BY <1>4 DEF TaskLock, sinkVars, taskVars, lockVars, frameVars
<1>5. CASE TaskSend
  BY <1>5 DEF TaskSend, TaskKeeps, sinkVars, taskVars, lockVars, frameVars
<1>6. CASE TaskPoll
  BY <1>6 DEF TaskPoll, TaskKeeps, sinkVars, taskVars, lockVars, frameVars
<1>7. CASE TaskKernelFaults
  BY <1>7 DEF TaskKernelFaults, TaskKeeps, sinkVars, taskVars, lockVars, frameVars
<1>8. CASE TaskDrain
  BY <1>8 DEF TaskDrain, TaskKeeps, sinkVars, taskVars, lockVars, frameVars
<1>9. CASE TaskLeave
  BY <1>9 DEF TaskLeave, sinkVars, taskVars, lockVars, frameVars
<1>10. CASE Chain
  BY <1>0, <1>10 DEF Chain, sinkVars, taskVars, lockVars, frameVars
<1>11. CASE ChainRefused
  BY <1>11 DEF ChainRefused, sinkVars, taskVars, lockVars, frameVars
<1>12. CASE SinkTakesMutex
  BY <1>12 DEF SinkTakesMutex, sinkVars, taskVars, lockVars, frameVars
<1>13. CASE Admit
  BY <1>13 DEF Admit, SinkKeeps, Drop, Return, sinkVars, taskVars, lockVars, frameVars
<1>14. CASE ResolutionSend
  BY <1>14 DEF ResolutionSend, SinkKeeps, sinkVars, taskVars, lockVars, frameVars
<1>15. CASE ResolutionPoll
  BY <1>15 DEF ResolutionPoll, SinkKeeps, sinkVars, taskVars, lockVars, frameVars
<1>16. CASE ResolutionCheck
  BY <1>16 DEF ResolutionCheck, SinkKeeps, Drop, Return, sinkVars, taskVars, lockVars, frameVars
<1>17. CASE Convert
  BY <1>17 DEF Convert, SinkKeeps, Drop, Return, sinkVars, taskVars, lockVars, frameVars
<1>18. CASE Copied
  BY <1>18 DEF Copied, SinkKeeps, Drop, Return, sinkVars, taskVars, lockVars, frameVars
<1>19. CASE Capacity
  BY <1>19
     DEF Capacity, SinkKeeps, AdmitOrFlush, Drop, Enqueue, Return, sinkVars, taskVars, lockVars,
         frameVars
<1>20. CASE CapacityWake
  BY <1>20 DEF CapacityWake, sinkVars, taskVars, lockVars, frameVars
<1>21. CASE CapacityRelock
  BY <1>21
     DEF CapacityRelock, SinkKeeps, AdmitOrFlush, Drop, Enqueue, Return, sinkVars, taskVars,
         lockVars, frameVars
<1>22. CASE \E reason \in {"eos", "caps", "flush"} : SinkReset(reason)
  BY <1>22 DEF SinkReset, Publish, sinkVars, taskVars, lockVars, frameVars
<1>23. CASE SinkResetStep
  BY <1>23
     DEF SinkResetStep, ResetStep, TakeMutex, StopTask, JoinTask, Relock, DrainReset, sinkVars,
         taskVars, lockVars, frameVars
<1>24. CASE SinkResetDone
  BY <1>24 DEF SinkResetDone, sinkVars, taskVars, lockVars, frameVars
<1>25. CASE SinkFlushDone
  BY <1>25 DEF SinkFlushDone, sinkVars, taskVars, lockVars, frameVars
<1>26. CASE FlushStart
  BY <1>26 DEF FlushStart, sinkVars, taskVars, lockVars, frameVars
<1>27. CASE SetResolution
  BY <1>27 DEF SetResolution, sinkVars, taskVars, lockVars, frameVars
<1>28. CASE Teardown
  BY <1>28 DEF Teardown, Publish, sinkVars, taskVars, lockVars, frameVars
<1>29. CASE AppResetStep
  BY <1>29
     DEF AppResetStep, ResetStep, TakeMutex, StopTask, JoinTask, Relock, DrainReset, sinkVars,
         taskVars, lockVars, frameVars
<1>30. CASE AppResetDone
  BY <1>30 DEF AppResetDone, sinkVars, taskVars, lockVars, frameVars
<1>31. CASE DeactivateSrc
  BY <1>31 DEF DeactivateSrc, sinkVars, taskVars, lockVars, frameVars
<1>32. CASE DeactivateSink
  BY <1>32 DEF DeactivateSink, sinkVars, taskVars, lockVars, frameVars
<1>33. CASE Stop
  BY <1>33 DEF Stop, Publish, sinkVars, taskVars, lockVars, frameVars
<1>34. CASE StopDone
  BY <1>0, <1>34 DEF StopDone, EndFirst, sinkVars, taskVars, lockVars, frameVars
<1>35. CASE Start
  BY <1>35 DEF Start, sinkVars, taskVars, lockVars, frameVars
<1>36. CASE UNCHANGED vars
  BY <1>36 DEF vars, sinkVars, taskVars, lockVars, frameVars
<1> QED
  BY <1>1, <1>2, <1>3, <1>4, <1>5, <1>6, <1>7, <1>8, <1>9, <1>10, <1>11, <1>12,
     <1>13, <1>14, <1>15, <1>16, <1>17, <1>18, <1>19, <1>20, <1>21, <1>22, <1>23, <1>24,
     <1>25, <1>26, <1>27, <1>28, <1>29, <1>30, <1>31, <1>32, <1>33, <1>34, <1>35, <1>36
     DEF Next, Step, AtRest, TaskStep, SinkStep, HandleFrameStep, AppStep

-----------------------------------------------------------------------------
(* Types: every step *)

\* Any of the outcomes of a call into MPP.
MppCall ==
  \/ SendFrame \/ SendNothing \/ SendFault \/ PollPacket \/ PollNothing \/ PollFault
  \/ UNCHANGED <<frameVars, taskRet, ctxVars, faults>>
  \/ RuntimeError /\ UNCHANGED <<queue, desync>>

\* Any call into MPP keeps frames and recovery state in range.
LEMMA MppCallType ==
  ASSUME ConstantsAssumption, TypeOK, MppCall
  PROVE  FrameTypeOK' /\ RecoveryTypeOK'
<1>1. FrameTypeOK /\ RecoveryTypeOK /\ flushing \in BOOLEAN
  BY DEF TypeOK, ControlTypeOK, RecoveryTypeOK
<1>2. CASE SendFrame
  BY <1>1, <1>2, SendFrameType DEF SendFrame, HeadListed, RecoveryTypeOK, ctxVars
<1>3. CASE PollPacket
  BY <1>1, <1>3, PollPacketType DEF PollPacket, RecoveryTypeOK, ctxVars, ConstantsAssumption
<1>4. CASE RuntimeError /\ UNCHANGED <<queue, desync>>
  BY <1>1, <1>4, RuntimeErrorType
<1>5. CASE UNCHANGED <<frameVars, taskRet, ctxVars, faults>>
  BY <1>1, <1>5 DEF FrameTypeOK, RecoveryTypeOK, frameVars, ctxVars, EndedRecord, FrameIds
<1> QED
  BY <1>2, <1>3, <1>4, <1>5
     DEF MppCall, SendNothing, SendFault, PollNothing, PollFault

\* The ways out of handle_frame: a refused frame, and a queued one.
LEMMA DropType ==
  ASSUME TypeOK, ThreadInv, sinkPc \in HandlePcs, NEW kind \in Kinds,
         NEW flow \in FlowReturn, Drop(kind, flow)
  PROVE  FrameTypeOK'
<1>1. cur \in FrameIds
  BY DEF TypeOK, ControlTypeOK, ThreadInv, FrameIds
<1>2. list' \in Seq(FrameIds) /\ log' \in Seq(EndedRecord)
  BY <1>1, EndCurType DEF Drop, TypeOK
<1> QED
  BY <1>2 DEF Drop, TypeOK, FrameTypeOK, EndedRecord, FrameIds

\* A frame accepted by handle_frame leaves the frame variables in range.
LEMMA EnqueueType ==
  ASSUME TypeOK, ThreadInv, sinkPc \in HandlePcs, Enqueue
  PROVE  FrameTypeOK'
<1>1. cur \in FrameIds
  BY DEF TypeOK, ControlTypeOK, ThreadInv, FrameIds
<1>2. Append(queue, cur) \in Seq(FrameIds)
  BY <1>1, AppendProperties DEF TypeOK, FrameTypeOK
<1> QED
  BY <1>2 DEF Enqueue, TypeOK, FrameTypeOK, EndedRecord, FrameIds

\* The end of handle_frame, accepted or refused, keeps them in range.
LEMMA AdmitOrFlushType ==
  ASSUME TypeOK, ThreadInv, sinkPc \in HandlePcs, AdmitOrFlush
  PROVE  FrameTypeOK'
<1>1. CASE Enqueue
  BY <1>1, EnqueueType
<1>2. CASE Drop("raw", "FLUSHING")
  BY <1>2, DropType DEF Kinds, FlowReturn
<1>3. CASE Drop("flushed", "FLUSHING")
  BY <1>3, DropType DEF Kinds, FlowReturn
<1> QED BY <1>1, <1>2, <1>3 DEF AdmitOrFlush

\* The frames a step leaves in the base class's hands when it clears its list.
LEMMA ClearType ==
  ASSUME FrameTypeOK, EndFirst(Len(list), "cleared")
  PROVE  list' = <<>> /\ list' \in Seq(FrameIds) /\ log' \in Seq(EndedRecord)
<1>1. Len(list) \in 0..Len(list) /\ "cleared" \in Kinds
  BY LenProperties DEF FrameTypeOK, Kinds
<1>2. list' \in Seq(FrameIds) /\ log' \in Seq(EndedRecord)
  BY <1>1, EndFirstType
<1>3. Len(list) + 1 \in Int /\ Len(list) \in Int /\ Len(list) < Len(list) + 1
  BY <1>1
<1>4. list' = <<>>
  BY <1>3, SubSeqEmpty DEF EndFirst
<1> QED BY <1>2, <1>4

\* Each step keeps the frame variables in their ranges.
LEMMA FrameTypeStep ==
  ASSUME ConstantsAssumption, TypeOK, ThreadInv, [Next]_vars
  PROVE  FrameTypeOK'
<1> USE DEF TypeOK
<1>s. UNCHANGED frameVars => FrameTypeOK'
  BY DEF frameVars, FrameTypeOK, EndedRecord, FrameIds
<1>1. CASE HwComplete
  <2>1. Len(mpp) \in Nat
    BY LenProperties DEF FrameTypeOK
  <2>2. ready' \in 0..Len(mpp')
    BY <1>1, <2>1 DEF HwComplete, FrameTypeOK
  <2> QED BY <1>1, <2>2 DEF HwComplete, FrameTypeOK, EndedRecord, FrameIds
<1>2. CASE TaskEnter
  BY <1>2, <1>s DEF TaskEnter
<1>3. CASE TaskWake
  BY <1>3, <1>s DEF TaskWake
<1>4. CASE TaskLock
  BY <1>4, <1>s DEF TaskLock
<1>5. CASE TaskSend
  BY <1>5, MppCallType DEF TaskSend, MppCall
<1>6. CASE TaskPoll
  BY <1>6, MppCallType DEF TaskPoll, MppCall
<1>7. CASE TaskKernelFaults
  BY <1>7, MppCallType DEF TaskKernelFaults, MppCall
<1>8. CASE TaskDrain
  <2>1. CASE MppCall
    BY <2>1, MppCallType
  <2>2. CASE UNCHANGED frameVars
    BY <2>2, <1>s
  <2> QED BY <1>8, <2>1, <2>2 DEF TaskDrain, MppCall
<1>9. CASE TaskLeave
  BY <1>9, <1>s DEF TaskLeave
<1>10. CASE Chain
  <2>1. Append(list, next) \in Seq(FrameIds)
    BY <1>10, AppendProperties DEF Chain, FrameTypeOK, ControlTypeOK, FrameIds, ConstantsAssumption
  <2> QED BY <1>10, <2>1 DEF Chain, FrameTypeOK, EndedRecord, FrameIds
<1>11. CASE ChainRefused
  <2>1. Append(list, next) \in Seq(FrameIds)
    BY <1>11, AppendProperties
       DEF ChainRefused, FrameTypeOK, ControlTypeOK, FrameIds, ConstantsAssumption
  <2> QED BY <1>11, <2>1 DEF ChainRefused, FrameTypeOK, EndedRecord, FrameIds
<1>12. CASE SinkTakesMutex
  BY <1>12, <1>s DEF SinkTakesMutex
<1>13. CASE Admit
  <2>1. CASE Drop("flushed", "FLUSHING")
    BY <1>13, <2>1, DropType DEF Admit, HandlePcs, Kinds, FlowReturn
  <2>2. CASE UNCHANGED frameVars
    BY <2>2, <1>s
  <2> QED BY <1>13, <2>1, <2>2 DEF Admit
<1>14. CASE ResolutionSend
  BY <1>14, MppCallType DEF ResolutionSend, MppCall
<1>15. CASE ResolutionPoll
  BY <1>15, MppCallType DEF ResolutionPoll, MppCall
<1>16. CASE ResolutionCheck
  <2>1. CASE Drop("refused", "ERROR")
    BY <1>16, <2>1, DropType DEF ResolutionCheck, HandlePcs, Kinds, FlowReturn
  <2>2. CASE UNCHANGED frameVars
    BY <2>2, <1>s
  <2> QED BY <1>16, <2>1, <2>2 DEF ResolutionCheck
<1>17. CASE Convert
  <2>1. CASE Drop("refused", "ERROR")
    BY <1>17, <2>1, DropType DEF Convert, HandlePcs, Kinds, FlowReturn
  <2>2. CASE UNCHANGED frameVars
    BY <2>2, <1>s
  <2> QED BY <1>17, <2>1, <2>2 DEF Convert
<1>18. CASE Copied
  <2>1. CASE Drop("refused", "ERROR")
    BY <1>18, <2>1, DropType DEF Copied, HandlePcs, Kinds, FlowReturn
  <2>2. CASE UNCHANGED frameVars
    BY <2>2, <1>s
  <2> QED BY <1>18, <2>1, <2>2 DEF Copied
<1>19. CASE Capacity
  <2>1. CASE AdmitOrFlush
    BY <1>19, <2>1, AdmitOrFlushType DEF Capacity, HandlePcs
  <2>2. CASE UNCHANGED frameVars
    BY <2>2, <1>s
  <2> QED BY <1>19, <2>1, <2>2 DEF Capacity
<1>20. CASE CapacityWake
  BY <1>20, <1>s DEF CapacityWake
<1>21. CASE CapacityRelock
  <2>1. CASE AdmitOrFlush
    BY <1>21, <2>1, AdmitOrFlushType DEF CapacityRelock, HandlePcs
  <2>2. CASE UNCHANGED frameVars
    BY <2>2, <1>s
  <2> QED BY <1>21, <2>1, <2>2 DEF CapacityRelock
<1>22. CASE \E reason \in {"eos", "caps", "flush"} : SinkReset(reason)
  BY <1>22, <1>s DEF SinkReset
<1>23. CASE SinkResetStep
  <2>1. CASE MppCall
    BY <2>1, MppCallType
  <2>2. CASE UNCHANGED <<list, queue, mpp, ready, log>> /\ pending' \in {pending, 0} /\ desync' \in BOOLEAN
    BY <2>2 DEF FrameTypeOK, EndedRecord, FrameIds
  <2> QED BY <1>23, <2>1, <2>2 DEF SinkResetStep, ResetStep, TakeMutex, StopTask, JoinTask, Relock,
       DrainReset, MppCall, frameVars, FrameTypeOK
<1>24. CASE SinkResetDone
  <2>1. UNCHANGED <<list, mpp, ready, log>> /\ queue' = <<>> /\ pending' = 0
        /\ desync' \in BOOLEAN
    BY <1>24 DEF SinkResetDone, Forget, FrameTypeOK
  <2> QED BY <2>1, EmptySeq DEF FrameTypeOK, EndedRecord, FrameIds
<1>25. CASE SinkFlushDone
  <2>1. list' \in Seq(FrameIds) /\ log' \in Seq(EndedRecord)
    BY <1>25, ClearType DEF SinkFlushDone
  <2>2. UNCHANGED <<mpp, ready>> /\ queue' = <<>> /\ pending' = 0 /\ desync' \in BOOLEAN
    BY <1>25 DEF SinkFlushDone
  <2>3. mpp' \in Seq(FrameIds) /\ ready' \in 0..Len(mpp')
    BY <2>2, EmptySeq DEF FrameTypeOK
  <2> QED BY <2>1, <2>2, <2>3, EmptySeq DEF FrameTypeOK, EndedRecord, FrameIds
<1>26. CASE FlushStart
  BY <1>26, <1>s DEF FlushStart
<1>27. CASE SetResolution
  BY <1>27, <1>s DEF SetResolution
<1>28. CASE Teardown
  BY <1>28, <1>s DEF Teardown
<1>29. CASE AppResetStep
  <2>1. CASE MppCall
    BY <2>1, MppCallType
  <2>2. CASE UNCHANGED <<list, queue, mpp, ready, log>> /\ pending' \in {pending, 0} /\ desync' \in BOOLEAN
    BY <2>2 DEF FrameTypeOK, EndedRecord, FrameIds
  <2> QED BY <1>29, <2>1, <2>2 DEF AppResetStep, ResetStep, TakeMutex, StopTask, JoinTask, Relock,
       DrainReset, MppCall, frameVars, FrameTypeOK
<1>30. CASE AppResetDone
  <2>1. UNCHANGED <<list, mpp, ready, log>> /\ queue' = <<>> /\ pending' = 0
        /\ desync' \in BOOLEAN
    BY <1>30 DEF AppResetDone, Forget, FrameTypeOK
  <2> QED BY <2>1, EmptySeq DEF FrameTypeOK, EndedRecord, FrameIds
<1>31. CASE DeactivateSrc
  BY <1>31, <1>s DEF DeactivateSrc
<1>32. CASE DeactivateSink
  BY <1>32, <1>s DEF DeactivateSink
<1>33. CASE Stop
  BY <1>33, <1>s DEF Stop
<1>34. CASE StopDone
  <2>1. list' \in Seq(FrameIds) /\ log' \in Seq(EndedRecord)
    BY <1>34, ClearType DEF StopDone
  <2>2. mpp' = <<>> /\ ready' = 0 /\ queue' = <<>> /\ pending' = 0 /\ desync' \in BOOLEAN
    BY <1>34 DEF StopDone
  <2>3. mpp' \in Seq(FrameIds) /\ ready' \in 0..Len(mpp')
    BY <2>2, EmptySeq DEF FrameTypeOK
  <2> QED BY <2>1, <2>2, <2>3, EmptySeq DEF FrameTypeOK, EndedRecord, FrameIds
<1>35. CASE Start
  <2>1. UNCHANGED <<list, mpp, ready, log, desync>> /\ queue' = <<>> /\ pending' = 0
    BY <1>35 DEF Start
  <2> QED BY <2>1, EmptySeq DEF FrameTypeOK, EndedRecord, FrameIds
<1>36. CASE UNCHANGED vars
  BY <1>36, <1>s DEF vars
<1> QED
  BY <1>1, <1>2, <1>3, <1>4, <1>5, <1>6, <1>7, <1>8, <1>9, <1>10, <1>11, <1>12,
     <1>13, <1>14, <1>15, <1>16, <1>17, <1>18, <1>19, <1>20, <1>21, <1>22, <1>23, <1>24,
     <1>25, <1>26, <1>27, <1>28, <1>29, <1>30, <1>31, <1>32, <1>33, <1>34, <1>35, <1>36
     DEF Next, Step, AtRest, TaskStep, SinkStep, HandleFrameStep, AppStep

\* Each step keeps the other variables in their ranges.
LEMMA ControlTypeStep ==
  ASSUME ConstantsAssumption, TypeOK, [Next]_vars
  PROVE  ControlTypeOK'
<1>r. RecoveryTypeOK
  BY DEF TypeOK, ControlTypeOK, RecoveryTypeOK
<1> USE DEF TypeOK, ControlTypeOK, ResetPcs, Free, FlowReturn
<1>1. CASE HwComplete
  BY <1>1 DEF HwComplete, frameVars, flagVars, taskVars, lockVars, sinkVars, ctxVars, countVars
<1>2. CASE TaskEnter
  BY <1>2 DEF TaskEnter, frameVars, flagVars, taskVars, lockVars, sinkVars, ctxVars, countVars
<1>3. CASE TaskWake
  BY <1>3 DEF TaskWake, frameVars, flagVars, taskVars, lockVars, sinkVars, ctxVars, countVars
<1>4. CASE TaskLock
  <2>b. progress' \in BOOLEAN
    BY <1>4 DEF TaskLock
  <2> QED BY <1>4, <2>b DEF TaskLock, flagVars, taskVars, lockVars, sinkVars, ctxVars, countVars
<1>5. CASE TaskSend
  <2>1. RecoveryTypeOK'
    BY <1>5, MppCallType DEF TaskSend, MppCall
  <2> QED BY <1>5, <2>1 DEF TaskSend, TaskKeeps, RecoveryTypeOK, taskVars, lockVars, sinkVars
<1>6. CASE TaskPoll
  <2>b. progress' \in BOOLEAN
    BY <1>6 DEF TaskPoll
  <2>1. RecoveryTypeOK'
    BY <1>6, MppCallType DEF TaskPoll, MppCall
  <2> QED BY <1>6, <2>1, <2>b DEF TaskPoll, TaskKeeps, RecoveryTypeOK, taskVars, lockVars, sinkVars
<1>7. CASE TaskKernelFaults
  <2>1. RecoveryTypeOK'
    BY <1>7, MppCallType DEF TaskKernelFaults, MppCall
  <2> QED BY <1>7, <2>1
             DEF TaskKernelFaults, TaskKeeps, RecoveryTypeOK, taskVars, lockVars, sinkVars
<1>8. CASE TaskDrain
  <2>1. RecoveryTypeOK'
    <3>1. CASE MppCall
      BY <3>1, MppCallType
    <3>2. CASE taskRet' = "FLUSHING" /\ UNCHANGED <<ctxVars, faults>>
      BY <1>r, <3>2 DEF RecoveryTypeOK, ctxVars
    <3> QED BY <1>8, <3>1, <3>2 DEF TaskDrain, MppCall
  <2> QED BY <1>8, <2>1 DEF TaskDrain, TaskKeeps, RecoveryTypeOK, lockVars, sinkVars
<1>9. CASE TaskLeave
  BY <1>9 DEF TaskLeave, frameVars, flagVars, taskVars, lockVars, sinkVars, ctxVars, countVars
<1>10. CASE Chain
  BY <1>10
     DEF Chain, ConstantsAssumption, frameVars, flagVars, taskVars, lockVars, sinkVars, ctxVars,
         countVars
<1>11. CASE ChainRefused
  BY <1>11
     DEF ChainRefused, ConstantsAssumption, frameVars, flagVars, taskVars, lockVars, sinkVars,
         ctxVars, countVars
<1>12. CASE SinkTakesMutex
  BY <1>12 DEF SinkTakesMutex, frameVars, flagVars, taskVars, lockVars, sinkVars, ctxVars, countVars
<1>13. CASE Admit
  <2>b. resDirty' \in BOOLEAN
    BY <1>13 DEF Admit, SinkKeeps, Drop, Return, sinkVars
  <2> QED BY <1>13, <2>b
             DEF Admit, SinkKeeps, Drop, Return, flagVars, taskVars, lockVars, sinkVars, ctxVars,
                 countVars
<1>14. CASE ResolutionSend
  <2>1. RecoveryTypeOK'
    BY <1>14, MppCallType DEF ResolutionSend, MppCall
  <2> QED BY <1>14, <2>1 DEF ResolutionSend, SinkKeeps, RecoveryTypeOK, taskVars, lockVars, sinkVars
<1>15. CASE ResolutionPoll
  <2>1. RecoveryTypeOK'
    BY <1>15, MppCallType DEF ResolutionPoll, MppCall
  <2> QED BY <1>15, <2>1 DEF ResolutionPoll, SinkKeeps, RecoveryTypeOK, taskVars, lockVars, sinkVars
<1>16. CASE ResolutionCheck
  <2>b. resDirty' \in BOOLEAN
    BY <1>16 DEF ResolutionCheck, SinkKeeps, Drop, Return, sinkVars
  <2> QED BY <1>16, <2>b
             DEF ResolutionCheck, SinkKeeps, Drop, Return, flagVars, taskVars, lockVars, sinkVars,
                 ctxVars, countVars
<1>17. CASE Convert
  BY <1>17
     DEF Convert, SinkKeeps, Drop, Return, frameVars, flagVars, taskVars, lockVars, sinkVars,
         ctxVars, countVars
<1>18. CASE Copied
  BY <1>18
     DEF Copied, SinkKeeps, Drop, Return, frameVars, flagVars, taskVars, lockVars, sinkVars,
         ctxVars, countVars
<1>19. CASE Capacity
  <2>1. CASE pending >= MaxPending
    BY <1>19, <2>1
       DEF Capacity, SinkKeeps, frameVars, flagVars, taskVars, lockVars, sinkVars, ctxVars,
           countVars
  <2>2. CASE pending < MaxPending /\ flushing
    BY <1>19, <2>2
       DEF Capacity, SinkKeeps, AdmitOrFlush, Drop, Return, flagVars, taskVars, lockVars,
           sinkVars, ctxVars, countVars
  <2>3. CASE pending < MaxPending /\ ~flushing
    BY SMTT(30), <1>19, <2>3
       DEF Capacity, SinkKeeps, AdmitOrFlush, Enqueue, Return, flagVars, taskVars, lockVars,
           sinkVars, ctxVars, countVars
  <2> QED BY <2>1, <2>2, <2>3 DEF FrameTypeOK, ConstantsAssumption
<1>20. CASE CapacityWake
  BY <1>20 DEF CapacityWake, frameVars, flagVars, taskVars, lockVars, sinkVars, ctxVars, countVars
<1>21. CASE CapacityRelock
  <2>1. CASE flushing
    BY <1>21, <2>1
       DEF CapacityRelock, SinkKeeps, AdmitOrFlush, Drop, Return, flagVars, taskVars, lockVars,
           sinkVars, ctxVars, countVars
  <2>2. CASE ~flushing
    BY <1>21, <2>2
       DEF CapacityRelock, SinkKeeps, AdmitOrFlush, Enqueue, Return, flagVars, taskVars, lockVars,
           sinkVars, ctxVars, countVars
  <2> QED BY <2>1, <2>2
<1>22. CASE \E reason \in {"eos", "caps", "flush"} : SinkReset(reason)
  BY <1>22
     DEF SinkReset, Publish, ConstantsAssumption, frameVars, flagVars, taskVars, lockVars,
         sinkVars, ctxVars, countVars
<1>23. CASE SinkResetStep
  <2>b. flushing' \in BOOLEAN /\ draining' \in BOOLEAN
    BY <1>23 DEF SinkResetStep, ResetStep, TakeMutex, StopTask, JoinTask,
       Relock, DrainReset, StopFlags, flagVars
  <2>1. RecoveryTypeOK'
    <3>1. CASE MppCall
      BY <3>1, MppCallType
    <3>2. CASE taskRet' \in {taskRet, "OK"} /\ UNCHANGED <<ctxVars, faults>>
      BY <1>r, <3>2 DEF RecoveryTypeOK, ctxVars
    <3> QED BY <1>23, <3>1, <3>2
               DEF SinkResetStep, ResetStep, TakeMutex, StopTask, JoinTask, Relock,
         DrainReset, StopFlags, MppCall, flagVars
  <2> QED BY <1>23, <2>1, <2>b
             DEF SinkResetStep, RecoveryTypeOK, ResetStep, TakeMutex, StopTask, JoinTask,
       Relock, DrainReset, StopFlags, flagVars, taskVars, lockVars, sinkVars
<1>24. CASE SinkResetDone
  BY <1>24
     DEF SinkResetDone, Forget, frameVars, flagVars, taskVars, lockVars, sinkVars, ctxVars,
         countVars
<1>25. CASE SinkFlushDone
  BY <1>25 DEF SinkFlushDone, frameVars, flagVars, taskVars, lockVars, sinkVars, ctxVars, countVars
<1>26. CASE FlushStart
  BY <1>26 DEF FlushStart, frameVars, flagVars, taskVars, lockVars, sinkVars, ctxVars, countVars
<1>27. CASE SetResolution
  BY <1>27
     DEF SetResolution, ConstantsAssumption, frameVars, flagVars, taskVars, lockVars, sinkVars,
         ctxVars, countVars
<1>28. CASE Teardown
  BY <1>28
     DEF Teardown, Publish, frameVars, flagVars, taskVars, lockVars, sinkVars, ctxVars, countVars
<1>29. CASE AppResetStep
  <2>b. flushing' \in BOOLEAN /\ draining' \in BOOLEAN
    BY <1>29 DEF AppResetStep, ResetStep, TakeMutex, StopTask, JoinTask,
       Relock, DrainReset, StopFlags, flagVars
  <2>1. RecoveryTypeOK'
    <3>1. CASE MppCall
      BY <3>1, MppCallType
    <3>2. CASE taskRet' \in {taskRet, "OK"} /\ UNCHANGED <<ctxVars, faults>>
      BY <1>r, <3>2 DEF RecoveryTypeOK, ctxVars
    <3> QED BY <1>29, <3>1, <3>2 DEF AppResetStep, ResetStep, TakeMutex, StopTask, JoinTask, Relock,
         DrainReset, StopFlags, MppCall, flagVars
  <2> QED BY <1>29, <2>1, <2>b
             DEF AppResetStep, RecoveryTypeOK, ResetStep, TakeMutex, StopTask, JoinTask,
       Relock, DrainReset, StopFlags, flagVars, taskVars, lockVars, sinkVars
<1>30. CASE AppResetDone
  BY <1>30
     DEF AppResetDone, Forget, frameVars, flagVars, taskVars, lockVars, sinkVars, ctxVars,
         countVars
<1>31. CASE DeactivateSrc
  BY <1>31 DEF DeactivateSrc, frameVars, flagVars, taskVars, lockVars, sinkVars, ctxVars, countVars
<1>32. CASE DeactivateSink
  BY <1>32 DEF DeactivateSink, frameVars, flagVars, taskVars, lockVars, sinkVars, ctxVars, countVars
<1>33. CASE Stop
  BY <1>33 DEF Stop, Publish, frameVars, flagVars, taskVars, lockVars, sinkVars, ctxVars, countVars
<1>34. CASE StopDone
  BY <1>34 DEF StopDone, frameVars, flagVars, taskVars, lockVars, sinkVars, ctxVars, countVars
<1>35. CASE Start
  <2>b. flushing' \in BOOLEAN /\ posted' \in BOOLEAN
    BY <1>35 DEF Start
  <2> QED BY <1>35, <2>b
             DEF Start, ConstantsAssumption, flagVars, taskVars, lockVars, sinkVars, ctxVars,
                 countVars
<1>36. CASE UNCHANGED vars
  BY <1>36 DEF vars, frameVars, flagVars, taskVars, lockVars, sinkVars, ctxVars, countVars
<1> QED
  BY <1>1, <1>2, <1>3, <1>4, <1>5, <1>6, <1>7, <1>8, <1>9, <1>10, <1>11, <1>12,
     <1>13, <1>14, <1>15, <1>16, <1>17, <1>18, <1>19, <1>20, <1>21, <1>22, <1>23, <1>24,
     <1>25, <1>26, <1>27, <1>28, <1>29, <1>30, <1>31, <1>32, <1>33, <1>34, <1>35, <1>36
     DEF Next, Step, AtRest, TaskStep, SinkStep, HandleFrameStep, AppStep

-----------------------------------------------------------------------------
(* Frames and their count *)

\* The three lists agree on the frames and their order, and pending counts them.
Order == list = mpp \o queue \o Current
Count == pending = Len(queue) + Len(mpp)

\* The lists as they stand agree, and their parts are sequences of frames.
LEMMA AgreeNow ==
  ASSUME TypeOK, FrameOrder, Accounting
  PROVE  /\ Current \in Seq(FrameIds) /\ mpp \o queue \in Seq(FrameIds)
         /\ queue \o Current \in Seq(FrameIds)
         /\ Len(mpp) \in Nat /\ Len(queue) \in Nat
         /\ ~desync => Order /\ Count
         /\ ~desync => list = mpp \o (queue \o Current)
<1>1. /\ mpp \in Seq(FrameIds) /\ queue \in Seq(FrameIds)
      /\ cur \in 0..MaxFrames
  BY DEF TypeOK, FrameTypeOK, ControlTypeOK
<1>2. Current \in Seq(FrameIds)
  <2>1. CASE cur = 0
    BY <2>1, EmptySeq DEF Current
  <2>2. CASE cur # 0
    <3>1. cur \in FrameIds
      BY <1>1, <2>2 DEF FrameIds
    <3>2. <<cur>> \in Seq(FrameIds)
      BY <3>1
    <3> QED BY <2>2, <3>2 DEF Current
  <2> QED BY <2>1, <2>2
<1>3. /\ mpp \o queue \in Seq(FrameIds) /\ queue \o Current \in Seq(FrameIds)
      /\ Len(mpp) \in Nat /\ Len(queue) \in Nat
  BY <1>1, <1>2, ConcatProperties, LenProperties
<1>4. (mpp \o queue) \o Current = mpp \o (queue \o Current)
  BY <1>1, <1>2, ConcatAssociative
<1> QED BY <1>2, <1>3, <1>4 DEF Order, Count, FrameOrder, Accounting

\* A call into MPP keeps the lists in agreement and never adds to pending: a
\* frame moves from the queue into MPP, the oldest leaves both MPP and the base
\* class, or a restart drops from the base class what MPP held.
LEMMA MppCallSync ==
  ASSUME TypeOK, FrameOrder, Accounting, MppCall, UNCHANGED cur, ~desync'
  PROVE  ~desync /\ Order' /\ Count' /\ pending' <= pending
<1>1. /\ mpp \in Seq(FrameIds) /\ queue \in Seq(FrameIds) /\ list \in Seq(FrameIds)
      /\ Current \in Seq(FrameIds) /\ mpp \o queue \in Seq(FrameIds)
      /\ Len(mpp) \in Nat /\ Len(queue) \in Nat
  BY AgreeNow DEF TypeOK, FrameTypeOK
<1>2. ~desync
  BY DEF MppCall, SendFrame, SendNothing, SendFault, PollPacket, PollNothing,
     PollFault, frameVars
<1>3. /\ list = (mpp \o queue) \o Current /\ list = mpp \o (queue \o Current)
      /\ Count /\ pending \in Int /\ pending <= pending
  BY SMTT(30), <1>2, AgreeNow DEF Order, TypeOK, FrameTypeOK
<1>c. Current' = Current
  BY DEF Current
<1>4. CASE SendFrame
  <2>1. Append(mpp, Head(queue)) \o Tail(queue) = mpp \o queue
    BY <1>1, <1>4, MoveHead DEF SendFrame, HeadListed
  <2>2. /\ Head(queue) \in FrameIds /\ Tail(queue) \in Seq(FrameIds)
        /\ Len(Tail(queue)) = Len(queue) - 1
    BY <1>1, <1>4, HeadTailProperties DEF SendFrame, HeadListed
  <2>3. Len(Append(mpp, Head(queue))) = Len(mpp) + 1
    BY <1>1, <2>2, AppendProperties
  <2>4. /\ mpp' = Append(mpp, Head(queue)) /\ queue' = Tail(queue)
        /\ list' = list /\ pending' = pending
    BY <1>4 DEF SendFrame, HeadListed
  <2>5. Order'
    BY <1>3, <1>c, <2>1, <2>4 DEF Order
  <2>6. Len(Tail(queue)) + Len(Append(mpp, Head(queue))) = Len(queue) + Len(mpp)
    BY <1>1, <2>2, <2>3
  <2>7. Count'
    BY <1>3, <2>4, <2>6 DEF Count
  <2> QED BY <1>2, <1>3, <2>4, <2>5, <2>7
<1>5. CASE PollPacket
  <2>1. mpp # <<>>
    BY <1>1, <1>5, EmptySeq DEF PollPacket, TypeOK, FrameTypeOK
  <2>2. mpp \o queue # <<>> /\ Tail(mpp \o queue) = Tail(mpp) \o queue
    BY <1>1, <2>1, ConcatHeadTail
  <2>3. /\ (mpp \o queue) \o Current # <<>>
        /\ Tail((mpp \o queue) \o Current) = Tail(mpp \o queue) \o Current
    BY SMTT(30), <1>1, <2>2, ConcatHeadTail
  <2>4. list # <<>> /\ Tail(list) = (Tail(mpp) \o queue) \o Current
    BY <1>3, <2>2, <2>3
  <2>5. Len(Tail(mpp)) = Len(mpp) - 1
    BY <1>1, <2>1, HeadTailProperties
  <2>6. /\ mpp' = Tail(mpp) /\ queue' = queue /\ list' = Tail(list)
        /\ pending' = pending - 1
    BY <1>5, <2>4 DEF PollPacket
  <2>7. Order'
    BY <1>c, <2>4, <2>6 DEF Order
  <2>c. /\ pending = Len(queue) + Len(mpp)
        /\ Len(queue) \in Nat /\ Len(mpp) \in Nat
    BY <1>1, <1>3 DEF Count
  <2>8. pending - 1 = Len(queue) + Len(Tail(mpp)) /\ pending - 1 <= pending
    BY <2>c, <2>5
  <2>9. Count' /\ pending' <= pending
    BY <2>6, <2>8 DEF Count
  <2> QED BY <1>2, <2>7, <2>9
<1>6. CASE UNCHANGED <<list, mpp, queue, pending>>
  <2>1. Order' /\ Count'
    BY <1>3, <1>6, <1>c DEF Order, Count
  <2> QED BY <1>2, <1>3, <1>6, <2>1
<1>7. CASE DiscardSubmitted /\ mpp' = <<>> /\ UNCHANGED queue
  <2>1. queue \o Current \in Seq(FrameIds)
    BY <1>1, ConcatProperties
  <2>2. Len(list) = Len(mpp) + Len(queue \o Current) /\ Len(queue \o Current) \in Nat
    BY <1>1, <1>3, <2>1, ConcatProperties, LenProperties
  <2>3. EndFirst(Len(mpp), "restart") /\ pending' = Len(queue)
    <3>1. pending - Len(queue) = Len(mpp) /\ ~(Len(mpp) < 0) /\ Len(mpp) <= Len(list)
      BY <1>1, <1>3, <2>2 DEF Count
    <3>2. Len(mpp) < Len(list) \/ Len(mpp) = Len(list)
      BY <1>1, <2>2
    <3> QED BY <1>7, <3>1, <3>2 DEF DiscardSubmitted
  <2>4. list' = queue \o Current
    BY SMTT(30), <1>1, <1>3, <2>1, <2>3, ConcatSuffix DEF EndFirst
  <2>5. <<>> \o queue = queue /\ Len(<<>>) = 0
    BY <1>1, ConcatEmptySeq, EmptySeq
  <2>6. Order'
    BY <1>7, <1>c, <2>4, <2>5 DEF Order
  <2>7. Len(queue) = Len(queue) + 0 /\ Len(queue) <= pending
    BY <1>1, <1>3 DEF Count
  <2>8. Count' /\ pending' <= pending
    BY <1>7, <2>3, <2>5, <2>7 DEF Count
  <2> QED BY <1>2, <2>6, <2>8
<1>8. CASE RuntimeError /\ UNCHANGED <<queue, desync>>
  BY <1>6, <1>7, <1>8 DEF RuntimeError, RestartContext
<1> QED
  BY <1>4, <1>5, <1>6, <1>8
     DEF MppCall, SendNothing, SendFault, PollNothing, PollFault, frameVars

\* A frame refused in handle_frame leaves the base class's list, where it was
\* the newest.
LEMMA DropSync ==
  ASSUME TypeOK, ThreadInv, FrameOrder, Accounting, sinkPc \in HandlePcs,
         NEW kind, NEW flow, Drop(kind, flow), ~desync'
  PROVE  ~desync /\ Order' /\ Count'
<1>1. ~desync /\ UNCHANGED <<queue, mpp, pending>> /\ EndCur(kind) /\ cur' = 0
  BY DEF Drop, Return
<1>2. cur \in FrameIds /\ Current = <<cur>> /\ Current' = <<>>
  BY <1>1 DEF ThreadInv, TypeOK, ControlTypeOK, FrameIds, Current
<1>3. /\ mpp \o queue \in Seq(FrameIds) /\ list = (mpp \o queue) \o <<cur>>
      /\ Count
  BY <1>1, <1>2, AgreeNow DEF Order
<1>4. list # <<>> /\ list[Len(list)] = cur /\ SubSeq(list, 1, Len(list) - 1) = mpp \o queue
  BY <1>2, <1>3, AppendedFront
<1>5. list' = mpp \o queue
  BY <1>1, <1>4 DEF EndCur
<1>6. (mpp \o queue) \o <<>> = mpp \o queue
  BY <1>3, ConcatEmptySeq
<1>7. Order'
  BY <1>1, <1>2, <1>5, <1>6 DEF Order
<1>8. Count'
  BY <1>1, <1>3 DEF Count
<1> QED BY <1>1, <1>7, <1>8

\* A frame accepted in handle_frame is the newest of the queue.
LEMMA EnqueueSync ==
  ASSUME TypeOK, ThreadInv, FrameOrder, Accounting, sinkPc \in HandlePcs,
         Enqueue, ~desync'
  PROVE  ~desync /\ Order' /\ Count' /\ pending' = pending + 1
<1>1. /\ ~desync /\ UNCHANGED <<list, mpp>> /\ queue' = Append(queue, cur)
      /\ pending' = pending + 1 /\ cur' = 0
  BY DEF Enqueue, Return
<1>2. cur \in FrameIds /\ Current = <<cur>> /\ Current' = <<>>
  BY <1>1 DEF ThreadInv, TypeOK, ControlTypeOK, FrameIds, Current
<1>3. mpp \in Seq(FrameIds) /\ queue \in Seq(FrameIds)
  BY DEF TypeOK, FrameTypeOK
<1>4. /\ list = mpp \o (queue \o <<cur>>) /\ queue \o <<cur>> \in Seq(FrameIds)
      /\ Count /\ Len(mpp) \in Nat /\ Len(queue) \in Nat
  BY <1>1, <1>2, AgreeNow DEF Order
<1>5. queue' = queue \o <<cur>> /\ Len(queue') = Len(queue) + 1
  BY <1>1, <1>2, <1>3, AppendIsConcat, AppendProperties
<1>6. mpp \o queue' \in Seq(FrameIds) /\ (mpp \o queue') \o <<>> = mpp \o queue'
  BY <1>3, <1>4, <1>5, ConcatProperties, ConcatEmptySeq
<1>7. Order'
  BY <1>1, <1>2, <1>4, <1>5, <1>6 DEF Order
<1>8. pending + 1 = (Len(queue) + 1) + Len(mpp)
  BY <1>4 DEF Count
<1>9. Count'
  BY <1>1, <1>5, <1>8 DEF Count
<1> QED BY <1>1, <1>7, <1>9

\* Each step keeps the frame lists in agreement and the counter exact.
LEMMA SyncStep ==
  ASSUME ConstantsAssumption, IndInv, [Next]_vars
  PROVE  FrameOrder' /\ Accounting' /\ RoomKept'
<1> USE DEF IndInv
<1>t. /\ TypeOK /\ LockInv /\ ThreadInv /\ FrameOrder /\ Accounting /\ RoomKept
      /\ MaxPending \in Nat \ {0} /\ pending \in Int
  BY DEF TypeOK, FrameTypeOK, ConstantsAssumption
<1>k. (~desync' => Order' /\ Count' /\ pending' <= MaxPending) => FrameOrder' /\ Accounting'
  BY DEF Order, Count, FrameOrder, Accounting
<1>b. ~desync => Order /\ Count /\ pending <= MaxPending
  BY <1>t, AgreeNow DEF Accounting
<1>a. (~desync' => ~desync /\ UNCHANGED <<list, queue, mpp, pending, cur>>)
        => FrameOrder' /\ Accounting'
  BY DEF FrameOrder, Accounting, Current
\* Steps that leave the frames alone.
<1>s. ASSUME ~desync' => ~desync /\ UNCHANGED <<list, queue, mpp, pending, cur>>,
             sinkPc' = "caprelock" => (UNCHANGED sinkPc /\ (flushing => flushing'))
      PROVE  FrameOrder' /\ Accounting' /\ RoomKept'
  BY <1>s, <1>a DEF RoomKept
\* Steps that call into MPP.
<1>c. ASSUME MppCall, UNCHANGED cur,
             sinkPc' = "caprelock" => sinkPc = "caprelock" /\ UNCHANGED flushing
      PROVE  FrameOrder' /\ Accounting' /\ RoomKept'
  <2>1. ~desync' => ~desync /\ Order' /\ Count' /\ pending' <= pending
    BY <1>t, <1>c, MppCallSync
  <2>2. pending' \in Int
    BY <1>t, <1>c, MppCallType DEF FrameTypeOK
  <2>3. ~desync' => pending' <= MaxPending
    BY <1>t, <1>b, <2>1, <2>2
  <2>4. RoomKept'
    BY <1>t, <1>c, <2>1, <2>2 DEF RoomKept
  <2> QED BY <1>k, <2>1, <2>3, <2>4
\* Ways out of handle_frame.
<1>d. ASSUME NEW kind, NEW flow, sinkPc \in HandlePcs, Drop(kind, flow)
      PROVE  FrameOrder' /\ Accounting' /\ RoomKept'
  <2>1. ~desync' => ~desync /\ Order' /\ Count'
    BY <1>t, <1>d, DropSync
  <2>2. pending' = pending /\ sinkPc' = "idle"
    BY <1>d DEF Drop, Return
  <2> QED BY <1>k, <1>b, <2>1, <2>2 DEF RoomKept
<1>e. ASSUME sinkPc \in HandlePcs, Enqueue, ~desync => pending < MaxPending
      PROVE  FrameOrder' /\ Accounting' /\ RoomKept'
  <2>1. ~desync' => ~desync /\ Order' /\ Count' /\ pending' = pending + 1
    BY <1>t, <1>e, EnqueueSync
  <2>2. sinkPc' = "idle"
    BY <1>e DEF Enqueue, Return
  <2>3. ~desync' => pending' <= MaxPending
    BY <1>t, <1>e, <2>1
  <2> QED BY <1>k, <2>1, <2>2, <2>3 DEF RoomKept
\* Empty lists agree.
<1>o. ASSUME list' = <<>>, queue' = <<>>, mpp' = <<>>, pending' = 0, cur' = 0
      PROVE  FrameOrder' /\ Accounting'
  <2>1. <<>> \in Seq(FrameIds) /\ Len(<<>>) = 0 /\ <<>> \o <<>> = <<>>
    BY EmptySeq, ConcatEmptySeq
  <2>2. Current' = <<>>
    BY <1>o DEF Current
  <2>3. Order'
    BY <1>o, <2>1, <2>2 DEF Order
  <2>4. Count' /\ pending' <= MaxPending
    BY <1>o, <1>t, <2>1 DEF Count
  <2> QED BY <1>k, <2>3, <2>4
<1>z. (~desync /\ queue = <<>> /\ mpp = <<>>) => pending = 0
  <2>1. Len(<<>>) = 0
    BY EmptySeq
  <2> QED BY <1>b, <2>1 DEF Count
\* Two threads never hold the mutex.
<1>l. /\ sinkPc = "caprelock" => appPc \notin ResetPcs \ {"rlock"}
      /\ sinkPc \notin ResetPcs \/ sinkPc # "caprelock"
  BY <1>t DEF LockInv, SinkOwns, HandlePcs, ResetPcs
<1>1. CASE HwComplete
  <2>1. UNCHANGED <<list, queue, mpp, pending, desync, cur>> /\ (sinkPc' = "caprelock" => UNCHANGED <<sinkPc, flushing>>)
    BY <1>1 DEF HwComplete, frameVars, flagVars, sinkVars
  <2> QED BY <2>1, <1>s
<1>2. CASE TaskEnter
  <2>1. UNCHANGED <<list, queue, mpp, pending, desync, cur>> /\ (sinkPc' = "caprelock" => UNCHANGED <<sinkPc, flushing>>)
    BY <1>2 DEF TaskEnter, frameVars, flagVars, sinkVars
  <2> QED BY <2>1, <1>s
<1>3. CASE TaskWake
  <2>1. UNCHANGED <<list, queue, mpp, pending, desync, cur>> /\ (sinkPc' = "caprelock" => UNCHANGED <<sinkPc, flushing>>)
    BY <1>3 DEF TaskWake, frameVars, flagVars, sinkVars
  <2> QED BY <2>1, <1>s
<1>4. CASE TaskLock
  <2>1. UNCHANGED <<list, queue, mpp, pending, desync, cur>> /\ (sinkPc' = "caprelock" => UNCHANGED <<sinkPc, flushing>>)
    BY <1>4 DEF TaskLock, frameVars, flagVars, sinkVars
  <2> QED BY <2>1, <1>s
<1>5. CASE TaskSend
  <2>1. MppCall /\ UNCHANGED cur
    BY <1>5 DEF TaskSend, MppCall, TaskKeeps, sinkVars
  <2>2. sinkPc' = "caprelock" => sinkPc = "caprelock" /\ UNCHANGED flushing
    BY <1>5 DEF TaskSend, TaskKeeps, sinkVars
  <2> QED BY <2>1, <2>2, <1>c
<1>6. CASE TaskPoll
  <2>1. MppCall /\ UNCHANGED cur
    BY <1>6 DEF TaskPoll, MppCall, TaskKeeps, sinkVars
  <2>2. sinkPc' = "caprelock" => sinkPc = "caprelock" /\ UNCHANGED flushing
    BY <1>6 DEF TaskPoll, TaskKeeps, sinkVars
  <2> QED BY <2>1, <2>2, <1>c
<1>7. CASE TaskKernelFaults
  <2>1. MppCall /\ UNCHANGED cur
    BY <1>7 DEF TaskKernelFaults, MppCall, TaskKeeps, sinkVars
  <2>2. sinkPc' = "caprelock" => sinkPc = "caprelock" /\ UNCHANGED flushing
    BY <1>7 DEF TaskKernelFaults, TaskKeeps, sinkVars
  <2> QED BY <2>1, <2>2, <1>c
<1>8. CASE TaskDrain
  <2>1. (MppCall /\ UNCHANGED cur) \/ UNCHANGED <<frameVars, cur>>
    BY <1>8 DEF TaskDrain, MppCall, TaskKeeps, sinkVars
  <2>2. UNCHANGED <<sinkPc, flushing>>
    BY <1>8 DEF TaskDrain, TaskKeeps, sinkVars
  <2> QED BY <2>1, <2>2, <1>c, <1>s DEF frameVars
<1>9. CASE TaskLeave
  <2>1. UNCHANGED <<list, queue, mpp, pending, desync, cur>> /\ (sinkPc' = "caprelock" => UNCHANGED <<sinkPc, flushing>>)
    BY <1>9 DEF TaskLeave, frameVars, flagVars, sinkVars
  <2> QED BY <2>1, <1>s
<1>10. CASE Chain
  <2>1. /\ list' = Append(list, next) /\ cur' = next /\ sinkPc' = "lock"
        /\ UNCHANGED <<queue, mpp, pending, desync>> /\ next \in FrameIds /\ cur = 0
    BY <1>10 DEF Chain, TypeOK, ControlTypeOK, ThreadInv, HandlePcs, FrameIds
  <2>2. CASE ~desync
    <3>1. mpp \o queue \in Seq(FrameIds) /\ list = (mpp \o queue) \o <<>> /\ Count
      BY <2>1, <2>2, AgreeNow DEF Order, Current
    <3>2. list = mpp \o queue /\ next # 0
      BY <2>1, <3>1, ConcatEmptySeq DEF FrameIds
    <3>3. list' = (mpp \o queue) \o <<next>>
      BY <2>1, <3>1, <3>2, AppendIsConcat
    <3>4. Order' /\ Count'
      BY <2>1, <3>1, <3>2, <3>3 DEF Order, Count, Current
    <3> QED BY <2>1, <2>2, <3>4, <1>b, <1>k DEF RoomKept
  <2>3. CASE desync
    BY <2>1, <2>3 DEF FrameOrder, Accounting, RoomKept
  <2> QED BY <2>2, <2>3
<1>11. CASE ChainRefused
  BY <1>11 DEF ChainRefused, FrameOrder, Accounting, RoomKept
<1>12. CASE SinkTakesMutex
  <2>1. UNCHANGED <<list, queue, mpp, pending, desync, cur>> /\ (sinkPc' = "caprelock" => UNCHANGED <<sinkPc, flushing>>)
    BY <1>12 DEF SinkTakesMutex, frameVars, flagVars, sinkVars
  <2> QED BY <2>1, <1>s
<1>13. CASE Admit
  <2>1. CASE Drop("flushed", "FLUSHING")
    BY <1>13, <2>1, <1>d DEF Admit, HandlePcs
  <2>2. CASE UNCHANGED <<frameVars, cur>> /\ sinkPc' # "caprelock"
    BY <2>2, <1>s DEF frameVars
  <2> QED BY <1>13, <2>1, <2>2 DEF Admit, SinkKeeps
<1>14. CASE ResolutionSend
  <2>1. MppCall /\ UNCHANGED cur
    BY <1>14 DEF ResolutionSend, MppCall, SinkKeeps
  <2>2. sinkPc' = "caprelock" => sinkPc = "caprelock" /\ UNCHANGED flushing
    BY <1>14 DEF ResolutionSend, SinkKeeps
  <2> QED BY <2>1, <2>2, <1>c
<1>15. CASE ResolutionPoll
  <2>1. MppCall /\ UNCHANGED cur
    BY <1>15 DEF ResolutionPoll, MppCall, SinkKeeps
  <2>2. sinkPc' = "caprelock" => sinkPc = "caprelock" /\ UNCHANGED flushing
    BY <1>15 DEF ResolutionPoll, SinkKeeps
  <2> QED BY <2>1, <2>2, <1>c
<1>16. CASE ResolutionCheck
  <2>1. CASE Drop("refused", "ERROR")
    BY <1>16, <2>1, <1>d DEF ResolutionCheck, HandlePcs
  <2>2. CASE UNCHANGED <<frameVars, cur>> /\ sinkPc' # "caprelock"
    BY <2>2, <1>s DEF frameVars
  <2> QED BY <1>16, <2>1, <2>2 DEF ResolutionCheck, SinkKeeps
<1>17. CASE Convert
  <2>1. CASE Drop("refused", "ERROR")
    BY <1>17, <2>1, <1>d DEF Convert, HandlePcs
  <2>2. CASE UNCHANGED <<frameVars, cur>> /\ sinkPc' # "caprelock"
    BY <2>2, <1>s DEF frameVars
  <2> QED BY <1>17, <2>1, <2>2 DEF Convert, SinkKeeps
<1>18. CASE Copied
  <2>1. CASE Drop("refused", "ERROR")
    BY <1>18, <2>1, <1>d DEF Copied, HandlePcs
  <2>2. CASE UNCHANGED <<frameVars, cur>> /\ sinkPc' # "caprelock"
    BY <2>2, <1>s DEF frameVars
  <2> QED BY <1>18, <2>1, <2>2 DEF Copied, SinkKeeps
<1>19. CASE Capacity
  <2>1. CASE AdmitOrFlush /\ ~(pending >= MaxPending)
    <3>1. ~flushing /\ ~desync => pending < MaxPending
      BY <1>19, <2>1 DEF TypeOK, FrameTypeOK, ConstantsAssumption
    <3>2. CASE Enqueue /\ ~flushing
      BY <1>19, <3>1, <3>2, <1>e DEF Capacity, HandlePcs
    <3>3. CASE Drop("raw", "FLUSHING")
      BY <1>19, <3>3, <1>d DEF Capacity, HandlePcs
    <3>4. CASE Drop("flushed", "FLUSHING")
      BY <1>19, <3>4, <1>d DEF Capacity, HandlePcs
    <3> QED BY <2>1, <3>2, <3>3, <3>4 DEF AdmitOrFlush
  <2>2. CASE UNCHANGED <<frameVars, cur>> /\ sinkPc' # "caprelock"
    BY <2>2, <1>s DEF frameVars
  <2> QED BY <1>19, <2>1, <2>2 DEF Capacity
<1>20. CASE CapacityWake
  <2>1. UNCHANGED <<list, queue, mpp, pending, desync, cur, flushing>>
        /\ (pending < MaxPending \/ flushing)
    BY <1>20 DEF CapacityWake, RoomOrFlush, frameVars, flagVars
  <2> QED BY <2>1, <1>a DEF RoomKept
<1>21. CASE CapacityRelock
  <2>1. CASE AdmitOrFlush
    <3>1. ~flushing /\ ~desync => pending < MaxPending
      BY <1>21, <2>1 DEF CapacityRelock, RoomKept, TypeOK, FrameTypeOK
    <3>2. CASE Enqueue /\ ~flushing
      BY <1>21, <3>1, <3>2, <1>e DEF CapacityRelock, HandlePcs
    <3>3. CASE Drop("raw", "FLUSHING")
      BY <1>21, <3>3, <1>d DEF CapacityRelock, HandlePcs
    <3>4. CASE Drop("flushed", "FLUSHING")
      BY <1>21, <3>4, <1>d DEF CapacityRelock, HandlePcs
    <3> QED BY <2>1, <3>2, <3>3, <3>4 DEF AdmitOrFlush
  <2>2. CASE UNCHANGED <<frameVars, cur>> /\ sinkPc' # "caprelock"
    BY <2>2, <1>s DEF frameVars
  <2> QED BY <1>21, <2>1, <2>2 DEF CapacityRelock
<1>22. CASE \E reason \in {"eos", "caps", "flush"} : SinkReset(reason)
  <2>1. UNCHANGED <<frameVars, cur>> /\ sinkPc' # "caprelock"
    BY <1>22 DEF SinkReset
  <2> QED BY <2>1, <1>s DEF frameVars
<1>23. CASE SinkResetStep
  <2>r. cur' = cur /\ (sinkPc' = "caprelock" => sinkPc = "caprelock")
    BY <1>23
       DEF SinkResetStep, ResetStep, sinkVars, TakeMutex, StopTask, JoinTask, Relock, DrainReset
  <2>1. CASE TakeMutex("sink", sinkPc, sinkPc')
    BY <2>1, <2>r, <1>s DEF TakeMutex, frameVars, flagVars
  <2>2. CASE StopTask("sink", FALSE, sinkPc, sinkPc')
    <3>1. /\ UNCHANGED <<list, queue, mpp>> /\ pending' \in {pending, 0}
          /\ ~desync' => ~desync
          /\ desync' \/ pending' = pending \/ (queue = <<>> /\ mpp = <<>> /\ pending' = 0)
      BY <2>2 DEF StopTask
    <3>2. (queue = <<>> /\ mpp = <<>>) => (~desync => pending = 0)
      BY <1>z
    <3>3. ~desync' => ~desync /\ UNCHANGED <<list, queue, mpp, pending, cur>>
      BY <3>1, <3>2, <2>r DEF TypeOK, FrameTypeOK
    <3>4. sinkPc' # "caprelock"
      BY <2>2, <2>r, <1>23, <1>l DEF StopTask, SinkResetStep, ResetPcs
    <3> QED BY <3>3, <3>4, <1>s
  <2>3. CASE JoinTask(sinkPc, sinkPc')
    BY <2>3, <2>r, <1>s DEF JoinTask, frameVars, flagVars
  <2>4. CASE Relock("sink", FALSE, sinkPc, sinkPc')
    <3>1. sinkPc' # "caprelock"
      BY <2>4, <2>r, <1>23, <1>l DEF Relock, SinkResetStep, ResetPcs
    <3> QED BY <2>4, <2>r, <3>1, <1>s DEF Relock, frameVars
  <2>5. CASE DrainReset(sinkPc, sinkPc')
    <3>1. MppCall /\ UNCHANGED <<cur, flushing>>
      BY <2>5, <2>r DEF DrainReset, MppCall
    <3> QED BY <3>1, <2>r, <1>c
  <2> QED BY <1>23, <2>1, <2>2, <2>3, <2>4, <2>5 DEF SinkResetStep, ResetStep
<1>24. CASE SinkResetDone
  <2>1. /\ UNCHANGED <<list, mpp, cur>> /\ queue' = <<>> /\ pending' = 0
        /\ ~desync' => ~desync /\ queue = <<>> /\ mpp = <<>>
        /\ sinkPc' # "caprelock"
    BY <1>24, <1>l DEF SinkResetDone, Forget, sinkVars, ResetPcs
  <2>2. ~desync' => ~desync /\ UNCHANGED <<list, queue, mpp, pending, cur>>
    BY <2>1, <1>z DEF TypeOK, FrameTypeOK
  <2> QED BY <2>1, <2>2, <1>s
<1>25. CASE SinkFlushDone
  <2>1. /\ EndFirst(Len(list), "cleared") /\ queue' = <<>> /\ pending' = 0
        /\ ~desync' => mpp' = <<>>
        /\ sinkPc' = "idle" /\ cur' = 0
    BY <1>25 DEF SinkFlushDone, NoProgress, ThreadInv, HandlePcs, ResetPcs, sinkVars
  <2>2. list' = <<>>
    BY <2>1, ClearType DEF TypeOK
  <2>3. ~desync' => FrameOrder' /\ Accounting'
    BY <2>1, <2>2, <1>o
  <2> QED BY <2>1, <2>3 DEF FrameOrder, Accounting, RoomKept
<1>26. CASE FlushStart
  <2>1. UNCHANGED <<list, queue, mpp, pending, desync, cur>> /\ (sinkPc' = "caprelock" => UNCHANGED <<sinkPc, flushing>>)
    BY <1>26 DEF FlushStart, frameVars, flagVars, sinkVars
  <2> QED BY <2>1, <1>s
<1>27. CASE SetResolution
  <2>1. UNCHANGED <<list, queue, mpp, pending, desync, cur>> /\ (sinkPc' = "caprelock" => UNCHANGED <<sinkPc, flushing>>)
    BY <1>27 DEF SetResolution, frameVars, flagVars, sinkVars
  <2> QED BY <2>1, <1>s
<1>28. CASE Teardown
  <2>1. UNCHANGED <<frameVars, cur, sinkPc>> /\ flushing'
    BY <1>28 DEF Teardown, Publish, sinkVars
  <2> QED BY <2>1, <1>s DEF frameVars
<1>29. CASE AppResetStep
  <2>r. cur' = cur /\ (sinkPc' = "caprelock" => sinkPc = "caprelock")
    BY <1>29
       DEF AppResetStep, ResetStep, sinkVars, TakeMutex, StopTask, JoinTask, Relock, DrainReset
  <2>1. CASE TakeMutex("app", appPc, appPc')
    BY <2>1, <2>r, <1>s DEF TakeMutex, frameVars, flagVars
  <2>2. CASE StopTask("app", TRUE, appPc, appPc')
    <3>1. /\ UNCHANGED <<list, queue, mpp>> /\ pending' \in {pending, 0}
          /\ ~desync' => ~desync
          /\ desync' \/ pending' = pending \/ (queue = <<>> /\ mpp = <<>> /\ pending' = 0)
      BY <2>2 DEF StopTask
    <3>2. (queue = <<>> /\ mpp = <<>>) => (~desync => pending = 0)
      BY <1>z
    <3>3. ~desync' => ~desync /\ UNCHANGED <<list, queue, mpp, pending, cur>>
      BY <3>1, <3>2, <2>r DEF TypeOK, FrameTypeOK
    <3>4. sinkPc' # "caprelock"
      BY <2>2, <2>r, <1>29, <1>l DEF StopTask, AppResetStep, ResetPcs
    <3> QED BY <3>3, <3>4, <1>s
  <2>3. CASE JoinTask(appPc, appPc')
    BY <2>3, <2>r, <1>s DEF JoinTask, frameVars, flagVars
  <2>4. CASE Relock("app", TRUE, appPc, appPc')
    <3>1. sinkPc' # "caprelock"
      BY <2>4, <2>r, <1>29, <1>l DEF Relock, AppResetStep, ResetPcs
    <3> QED BY <2>4, <2>r, <3>1, <1>s DEF Relock, frameVars
  <2>5. CASE DrainReset(appPc, appPc')
    <3>1. MppCall /\ UNCHANGED <<cur, flushing>>
      BY <2>5, <2>r DEF DrainReset, MppCall
    <3> QED BY <3>1, <2>r, <1>c
  <2> QED BY <1>29, <2>1, <2>2, <2>3, <2>4, <2>5 DEF AppResetStep, ResetStep
<1>30. CASE AppResetDone
  <2>1. /\ UNCHANGED <<list, mpp, cur>> /\ queue' = <<>> /\ pending' = 0
        /\ ~desync' => ~desync /\ queue = <<>> /\ mpp = <<>>
        /\ sinkPc' # "caprelock"
    BY <1>30, <1>l DEF AppResetDone, Forget, sinkVars, ResetPcs
  <2>2. ~desync' => ~desync /\ UNCHANGED <<list, queue, mpp, pending, cur>>
    BY <2>1, <1>z DEF TypeOK, FrameTypeOK
  <2> QED BY <2>1, <2>2, <1>s
<1>31. CASE DeactivateSrc
  <2>1. UNCHANGED <<list, queue, mpp, pending, desync, cur>> /\ (sinkPc' = "caprelock" => UNCHANGED <<sinkPc, flushing>>)
    BY <1>31 DEF DeactivateSrc, frameVars, flagVars, sinkVars
  <2> QED BY <2>1, <1>s
<1>32. CASE DeactivateSink
  <2>1. UNCHANGED <<list, queue, mpp, pending, desync, cur>> /\ (sinkPc' = "caprelock" => UNCHANGED <<sinkPc, flushing>>)
    BY <1>32 DEF DeactivateSink, frameVars, flagVars, sinkVars
  <2> QED BY <2>1, <1>s
<1>33. CASE Stop
  <2>1. UNCHANGED <<frameVars, cur, sinkPc>> /\ flushing'
    BY <1>33 DEF Stop, Publish, sinkVars
  <2> QED BY <2>1, <1>s DEF frameVars
<1>34. CASE StopDone
  <2>1. /\ EndFirst(Len(list), "cleared") /\ queue' = <<>> /\ pending' = 0
        /\ ~desync' => mpp' = <<>>
        /\ sinkPc' = "idle" /\ cur' = 0
    BY <1>34 DEF StopDone, NoProgress, ThreadInv, HandlePcs, ResetPcs, sinkVars
  <2>2. list' = <<>>
    BY <2>1, ClearType DEF TypeOK
  <2>3. ~desync' => FrameOrder' /\ Accounting'
    BY <2>1, <2>2, <1>o
  <2> QED BY <2>1, <2>3 DEF FrameOrder, Accounting, RoomKept
<1>35. CASE Start
  <2>1. /\ list = <<>> /\ queue = <<>> /\ mpp = <<>> /\ cur = 0 /\ sinkPc = "idle"
        /\ queue' = <<>> /\ pending' = 0 /\ UNCHANGED <<list, mpp, sinkPc, cur>>
    BY <1>35 DEF Start, ThreadInv, HandlePcs
  <2> QED BY <2>1, <1>o DEF FrameOrder, Accounting, RoomKept
<1>36. CASE UNCHANGED vars
  <2>1. UNCHANGED <<list, queue, mpp, pending, desync, cur>> /\ UNCHANGED <<sinkPc, flushing>>
    BY <1>36 DEF vars, frameVars, sinkVars, flagVars
  <2> QED BY <2>1, <1>s
<1> QED
  BY <1>1, <1>2, <1>3, <1>4, <1>5, <1>6, <1>7, <1>8, <1>9, <1>10, <1>11, <1>12,
     <1>13, <1>14, <1>15, <1>16, <1>17, <1>18, <1>19, <1>20, <1>21, <1>22, <1>23, <1>24,
     <1>25, <1>26, <1>27, <1>28, <1>29, <1>30, <1>31, <1>32, <1>33, <1>34, <1>35, <1>36
     DEF Next, Step, AtRest, TaskStep, SinkStep, HandleFrameStep, AppStep

-----------------------------------------------------------------------------
(* Packets and frames *)

\* What a step appends to the log holds each frame's own picture.
NewPaired == \A i \in (Len(log) + 1)..Len(log') : log'[i].frame = log'[i].data

\* So does what the base class finishes without a packet ...
LEMMA AppendPaired ==
  ASSUME FrameTypeOK, NEW e \in EndedRecord, e.frame = e.data, log' = Append(log, e)
  PROVE  NewPaired
<1>1. Len(log) \in Nat /\ Len(log') = Len(log) + 1 /\ log'[Len(log) + 1] = e
  BY LenProperties, AppendProperties DEF FrameTypeOK
<1>2. \A i \in (Len(log) + 1)..(Len(log) + 1) : i = Len(log) + 1
  BY <1>1
<1> QED BY <1>1, <1>2 DEF NewPaired

\* ... a frame refused in handle_frame ...
LEMMA EndCurPaired ==
  ASSUME TypeOK, NEW kind, EndCur(kind)
  PROVE  NewPaired
<1> DEFINE e == Ended(cur, kind, cur)
<1>1. log' = Append(log, e) /\ e.frame = e.data
  BY DEF EndCur, Ended
<1> HIDE DEF e
<1>2. Len(log) \in Nat /\ Len(log') = Len(log) + 1 /\ log'[Len(log) + 1] = e
  BY <1>1, LenProperties, AppendProperties DEF TypeOK, FrameTypeOK
<1>3. \A i \in (Len(log) + 1)..(Len(log) + 1) : i = Len(log) + 1
  BY <1>2
<1> QED BY <1>1, <1>2, <1>3 DEF NewPaired

\* ... one by one, or several at once.
LEMMA EndFirstPaired ==
  ASSUME FrameTypeOK, NEW n \in 0..Len(list), NEW kind, EndFirst(n, kind)
  PROVE  NewPaired
<1> DEFINE e == [i \in 1..n |-> Ended(list[i], kind, list[i])]
           R == [frame : FrameIds, kind : Kinds \cup {kind}, data : FrameIds]
<1>1. /\ n \in Nat /\ Len(list) \in Nat /\ \A i \in 1..n : i \in 1..Len(list)
      /\ Len(log) \in Nat
  BY LenProperties DEF FrameTypeOK
<1>2. \A i \in 1..n : list[i] \in FrameIds
  BY <1>1, ElementOfSeq DEF FrameTypeOK
<1>3. \A i \in 1..n : e[i] \in R /\ e[i].frame = e[i].data
  BY <1>2 DEF Ended
<1>4. e \in [1..n -> R]
  BY <1>3
<1>5. e \in Seq(R) /\ Len(e) = n
  BY <1>1, <1>4, SeqDef, LenProperties
<1>6. log \in Seq(R)
  <2>1. EndedRecord \subseteq R
    BY DEF EndedRecord
  <2> HIDE DEF R
  <2> QED BY <2>1, SeqMonotonic DEF FrameTypeOK
<1>7. log' = log \o e
  BY DEF EndFirst
<1> HIDE DEF e, R
<1>8. /\ Len(log') = Len(log) + n
      /\ \A i \in 1..(Len(log) + n) :
           log'[i] = IF i <= Len(log) THEN log[i] ELSE e[i - Len(log)]
  BY <1>5, <1>6, <1>7, ConcatProperties
<1>9. ASSUME NEW i \in (Len(log) + 1)..(Len(log) + n)
      PROVE  log'[i].frame = log'[i].data
  <2>1. i \in 1..(Len(log) + n) /\ ~(i <= Len(log)) /\ i - Len(log) \in 1..n
    BY <1>1
  <2> QED BY <1>3, <1>8, <2>1
<1> QED BY <1>8, <1>9 DEF NewPaired

\* A packet is pushed with the oldest frame, which is the one it codes.
LEMMA MppCallPaired ==
  ASSUME TypeOK, FrameOrder, Accounting, MppCall, ~desync
  PROVE  NewPaired
<1>s. UNCHANGED log => NewPaired
  <2>1. Len(log) \in Nat
    BY LenProperties DEF TypeOK, FrameTypeOK
  <2>2. \A i \in (Len(log) + 1)..Len(log) : FALSE
    BY <2>1
  <2> QED BY <2>2 DEF NewPaired
<1>1. CASE PollPacket
  <2>1. /\ mpp \in Seq(FrameIds) /\ queue \in Seq(FrameIds) /\ list \in Seq(FrameIds)
        /\ Current \in Seq(FrameIds) /\ mpp \o queue \in Seq(FrameIds) /\ mpp # <<>>
    BY <1>1, AgreeNow, EmptySeq DEF PollPacket, TypeOK, FrameTypeOK
  <2>2. mpp \o queue # <<>> /\ Head(mpp \o queue) = Head(mpp)
    BY <2>1, ConcatHeadTail
  <2>3. Head((mpp \o queue) \o Current) = Head(mpp \o queue)
    BY <2>1, <2>2, ConcatHeadTail
  <2>4. Head(list) = Head(mpp)
    BY <2>2, <2>3, AgreeNow DEF Order
  <2>5. Head(mpp) \in FrameIds
    BY <2>1, HeadTailProperties
  <2>6. CASE \E kind \in Kinds : log' = Append(log, Ended(Head(list), kind, Head(mpp)))
    <3> PICK kind \in Kinds : log' = Append(log, Ended(Head(list), kind, Head(mpp)))
      BY <2>6
    <3> DEFINE e == Ended(Head(list), kind, Head(mpp))
    <3>1. e \in EndedRecord /\ e.frame = e.data
      BY <2>4, <2>5 DEF Ended, EndedRecord
    <3> QED BY <3>1, AppendPaired DEF TypeOK
  <2>7. CASE UNCHANGED log
    BY <2>7, <1>s
  <2> QED BY <1>1, <2>6, <2>7 DEF PollPacket, Kinds
<1>2. CASE DiscardSubmitted
  <2>1. Len(list) \in Nat /\ Len(queue) \in Nat /\ pending \in Int
    BY LenProperties DEF TypeOK, FrameTypeOK
  <2> DEFINE submitted == pending - Len(queue)
             n == IF submitted < 0 THEN 0
                  ELSE IF submitted < Len(list) THEN submitted ELSE Len(list)
  <2>2. n \in 0..Len(list)
    BY <2>1
  <2>3. EndFirst(n, "restart")
    BY <1>2 DEF DiscardSubmitted
  <2> HIDE DEF n
  <2> QED BY <2>2, <2>3, EndFirstPaired DEF TypeOK
<1>3. CASE RuntimeError
  BY <1>2, <1>3, <1>s DEF RuntimeError, RestartContext
<1> QED
  BY <1>1, <1>3, <1>s DEF MppCall, SendFrame, SendNothing, SendFault, PollNothing,
     PollFault, frameVars

\* Each step pairs packets with their frames.
LEMMA PairedByStep ==
  ASSUME IndInv, [Next]_vars
  PROVE  PairedStep
<1> SUFFICES ASSUME ~desync PROVE NewPaired
  BY DEF PairedStep, NewPaired
<1> USE DEF IndInv
<1>s. UNCHANGED log => NewPaired
  <2>1. Len(log) \in Nat
    BY LenProperties DEF TypeOK, FrameTypeOK
  <2>2. \A i \in (Len(log) + 1)..Len(log) : FALSE
    BY <2>1
  <2> QED BY <2>2 DEF NewPaired
<1>c. MppCall => NewPaired
  BY MppCallPaired
<1>1. CASE HwComplete
  BY <1>1, <1>s DEF HwComplete
<1>2. CASE TaskEnter
  BY <1>2, <1>s DEF TaskEnter, frameVars
<1>3. CASE TaskWake
  BY <1>3, <1>s DEF TaskWake, frameVars
<1>4. CASE TaskLock
  BY <1>4, <1>s DEF TaskLock, frameVars
<1>5. CASE TaskSend
  <2>1. MppCall \/ UNCHANGED log
    BY <1>5 DEF TaskSend, MppCall, frameVars
  <2> QED BY <2>1, <1>s, <1>c
<1>6. CASE TaskPoll
  <2>1. MppCall \/ UNCHANGED log
    BY <1>6 DEF TaskPoll, MppCall, frameVars
  <2> QED BY <2>1, <1>s, <1>c
<1>7. CASE TaskKernelFaults
  <2>1. MppCall \/ UNCHANGED log
    BY <1>7 DEF TaskKernelFaults, MppCall, frameVars
  <2> QED BY <2>1, <1>s, <1>c
<1>8. CASE TaskDrain
  <2>1. MppCall \/ UNCHANGED log
    BY <1>8 DEF TaskDrain, MppCall, frameVars
  <2> QED BY <2>1, <1>s, <1>c
<1>9. CASE TaskLeave
  BY <1>9, <1>s DEF TaskLeave, frameVars
<1>10. CASE Chain
  BY <1>10, <1>s DEF Chain
<1>11. CASE ChainRefused
  BY <1>11, <1>s DEF ChainRefused
<1>12. CASE SinkTakesMutex
  BY <1>12, <1>s DEF SinkTakesMutex, frameVars
<1>13. CASE Admit
  <2>1. (\E kind : EndCur(kind)) \/ UNCHANGED log
    BY <1>13 DEF Admit, Drop, frameVars
  <2> QED BY <2>1, <1>s, EndCurPaired
<1>14. CASE ResolutionSend
  <2>1. MppCall \/ UNCHANGED log
    BY <1>14 DEF ResolutionSend, MppCall, frameVars
  <2> QED BY <2>1, <1>s, <1>c
<1>15. CASE ResolutionPoll
  <2>1. MppCall \/ UNCHANGED log
    BY <1>15 DEF ResolutionPoll, MppCall, frameVars
  <2> QED BY <2>1, <1>s, <1>c
<1>16. CASE ResolutionCheck
  <2>1. (\E kind : EndCur(kind)) \/ UNCHANGED log
    BY <1>16 DEF ResolutionCheck, Drop, frameVars
  <2> QED BY <2>1, <1>s, EndCurPaired
<1>17. CASE Convert
  <2>1. (\E kind : EndCur(kind)) \/ UNCHANGED log
    BY <1>17 DEF Convert, Drop, frameVars
  <2> QED BY <2>1, <1>s, EndCurPaired
<1>18. CASE Copied
  <2>1. (\E kind : EndCur(kind)) \/ UNCHANGED log
    BY <1>18 DEF Copied, Drop, frameVars
  <2> QED BY <2>1, <1>s, EndCurPaired
<1>19. CASE Capacity
  <2>1. (\E kind : EndCur(kind)) \/ UNCHANGED log
    BY <1>19 DEF Capacity, AdmitOrFlush, Drop, Enqueue, frameVars
  <2> QED BY <2>1, <1>s, EndCurPaired
<1>20. CASE CapacityWake
  BY <1>20, <1>s DEF CapacityWake, frameVars
<1>21. CASE CapacityRelock
  <2>1. (\E kind : EndCur(kind)) \/ UNCHANGED log
    BY <1>21 DEF CapacityRelock, AdmitOrFlush, Drop, Enqueue, frameVars
  <2> QED BY <2>1, <1>s, EndCurPaired
<1>22. CASE \E reason \in {"eos", "caps", "flush"} : SinkReset(reason)
  BY <1>22, <1>s DEF SinkReset, frameVars
<1>23. CASE SinkResetStep
  <2>1. MppCall \/ UNCHANGED log
    BY <1>23 DEF SinkResetStep, ResetStep, TakeMutex, StopTask, JoinTask, Relock, DrainReset,
       MppCall, frameVars
  <2> QED BY <2>1, <1>s, <1>c
<1>24. CASE SinkResetDone
  BY <1>24, <1>s DEF SinkResetDone
<1>25. CASE SinkFlushDone
  <2>1. Len(list) \in 0..Len(list)
    BY LenProperties DEF TypeOK, FrameTypeOK
  <2> QED BY <1>25, <2>1, EndFirstPaired DEF SinkFlushDone, TypeOK
<1>26. CASE FlushStart
  BY <1>26, <1>s DEF FlushStart, frameVars
<1>27. CASE SetResolution
  BY <1>27, <1>s DEF SetResolution, frameVars
<1>28. CASE Teardown
  BY <1>28, <1>s DEF Teardown, frameVars
<1>29. CASE AppResetStep
  <2>1. MppCall \/ UNCHANGED log
    BY <1>29 DEF AppResetStep, ResetStep, TakeMutex, StopTask, JoinTask, Relock, DrainReset,
       MppCall, frameVars
  <2> QED BY <2>1, <1>s, <1>c
<1>30. CASE AppResetDone
  BY <1>30, <1>s DEF AppResetDone
<1>31. CASE DeactivateSrc
  BY <1>31, <1>s DEF DeactivateSrc, frameVars
<1>32. CASE DeactivateSink
  BY <1>32, <1>s DEF DeactivateSink, frameVars
<1>33. CASE Stop
  BY <1>33, <1>s DEF Stop, frameVars
<1>34. CASE StopDone
  <2>1. Len(list) \in 0..Len(list)
    BY LenProperties DEF TypeOK, FrameTypeOK
  <2> QED BY <1>34, <2>1, EndFirstPaired DEF StopDone, TypeOK
<1>35. CASE Start
  BY <1>35, <1>s DEF Start
<1>36. CASE UNCHANGED vars
  BY <1>36, <1>s DEF vars, frameVars
<1> QED
  BY <1>1, <1>2, <1>3, <1>4, <1>5, <1>6, <1>7, <1>8, <1>9, <1>10, <1>11, <1>12,
     <1>13, <1>14, <1>15, <1>16, <1>17, <1>18, <1>19, <1>20, <1>21, <1>22, <1>23, <1>24,
     <1>25, <1>26, <1>27, <1>28, <1>29, <1>30, <1>31, <1>32, <1>33, <1>34, <1>35, <1>36
     DEF Next, Step, AtRest, TaskStep, SinkStep, HandleFrameStep, AppStep

-----------------------------------------------------------------------------
(* The theorems *)

\* The element starts with the invariant.
LEMMA InitInv ==
  ASSUME ConstantsAssumption, Init
  PROVE  IndInv
<1>1. <<>> \in Seq(FrameIds) /\ <<>> \in Seq(EndedRecord) /\ Len(<<>>) = 0
      /\ <<>> \o <<>> = <<>>
  BY EmptySeq, ConcatEmptySeq
<1>b. /\ desync \in BOOLEAN /\ flushing \in BOOLEAN /\ draining \in BOOLEAN
      /\ progress \in BOOLEAN /\ resDirty \in BOOLEAN /\ posted \in BOOLEAN
  BY DEF Init
<1>2. FrameTypeOK
  BY <1>1, <1>b DEF Init, FrameTypeOK
<1>3. ControlTypeOK
  BY <1>b DEF Init, ControlTypeOK, ConstantsAssumption, FlowReturn, ResetPcs, Free
<1>4. LockInv /\ ThreadInv
  BY DEF Init, LockInv, ThreadInv, TaskHolds, SinkHolds, SinkOwns, HandlePcs, ResetPcs, Free
<1>5. FrameOrder /\ Accounting /\ RoomKept
  BY <1>1 DEF Init, FrameOrder, Accounting, RoomKept, Current, ConstantsAssumption
<1> QED BY <1>2, <1>3, <1>4, <1>5 DEF IndInv, TypeOK

\* IndInv is inductive.
LEMMA InvStep ==
  ASSUME ConstantsAssumption, IndInv, [Next]_vars
  PROVE  IndInv'
<1>1. FrameTypeOK' /\ ControlTypeOK'
  BY FrameTypeStep, ControlTypeStep DEF IndInv
<1>2. LockInv' /\ ThreadInv'
  BY LockStep, ThreadStep DEF IndInv, TypeOK
<1>3. FrameOrder' /\ Accounting' /\ RoomKept'
  BY SyncStep
<1> QED BY <1>1, <1>2, <1>3 DEF IndInv, TypeOK

\* Whatever the constants, every state of the encoder satisfies IndInv: the locks
\* are held by the threads that the code says hold them, the three frame lists
\* agree, and pending counts what is queued or inside MPP.
THEOREM InvariantHolds == Spec => []IndInv
<1>1. Init => IndInv
  BY InitInv, ConstantsAssumption
<1>2. IndInv /\ [Next]_vars => IndInv'
  BY InvStep, ConstantsAssumption
<1> QED BY <1>1, <1>2, PTL DEF Spec

\* Every variable keeps its range.
THEOREM TypeCorrect == Spec => []TypeOK
<1>1. IndInv => TypeOK
  BY DEF IndInv
<1> QED BY <1>1, InvariantHolds, PTL

\* pending_frames counts the frames queued and inside MPP and never passes
\* max-pending, across restarts, drains, flushes and sessions.
THEOREM AccountingHolds == Spec => []Accounting
<1>1. IndInv => Accounting
  BY DEF IndInv
<1> QED BY <1>1, InvariantHolds, PTL

\* Every packet is pushed with the frame it codes, as long as no refusal and no
\* timed-out drain has left frames behind.
THEOREM PairedHolds == Spec => Paired
<1>1. IndInv /\ [Next]_vars => [PairedStep]_vars
  BY PairedByStep
<1> QED BY <1>1, InvariantHolds, PTL DEF Spec, Paired

-----------------------------------------------------------------------------
(* What a step does to the frames *)

\* The frames stay where they are.
StayPut == UNCHANGED <<list, queue, mpp, log, next, cur>> /\ pending' \in {pending, 0}
\* A call into MPP moves them.
MppMoves == MppCall /\ UNCHANGED <<next, cur>>
\* The base class lists a new frame, in handle_frame's hands or refused already.
Arrives ==
  /\ upstream = "flowing" /\ cur = 0 /\ cur' \in {0, next} /\ next <= MaxFrames
  /\ list' = Append(list, next) /\ next' = next + 1
  /\ UNCHANGED <<queue, mpp, pending, log>>
\* handle_frame finishes the frame without a packet ...
Leaves(kind) ==
  /\ sinkPc \in HandlePcs /\ kind # "coded" /\ (kind = "flushed" => flushing)
  /\ EndCur(kind) /\ cur' = 0
  /\ UNCHANGED <<queue, mpp, pending, next>>
\* ... or queues it, as long as nothing is flushed.
Joins ==
  /\ sinkPc \in HandlePcs /\ ~flushing
  /\ queue' = Append(queue, cur) /\ pending' = pending + 1 /\ cur' = 0
  /\ UNCHANGED <<list, mpp, log, next>>
\* A reset forgets the queue.
Forgets == queue' = <<>> /\ pending' = 0 /\ UNCHANGED <<list, mpp, log, next, cur>>
\* The base class clears its list, after a drain.
Clears ==
  /\ EndFirst(Len(list), "cleared") /\ queue' = <<>> /\ pending' = 0
  /\ mpp' \in {mpp, <<>>} /\ (MppTimely => mpp' = <<>>)
  /\ cur = 0 /\ UNCHANGED <<next, cur>>

FrameMoves ==
  \/ StayPut \/ MppMoves \/ Arrives
  \/ \E kind \in Kinds : Leaves(kind)
  \/ Joins \/ Forgets \/ Clears

\* Every step moves the frames in one of these ways.
LEMMA FramesMove ==
  ASSUME TypeOK, ThreadInv, [Next]_vars
  PROVE  FrameMoves
<1> USE DEF FrameMoves
<1>u. UNCHANGED <<frameVars, next, cur>> => FrameMoves
  BY DEF StayPut, frameVars
<1>m. MppCall /\ UNCHANGED <<next, cur>> => FrameMoves
  BY DEF MppMoves
<1>d. ASSUME NEW kind \in Kinds \ {"coded"}, NEW flow, sinkPc \in HandlePcs,
             Drop(kind, flow), UNCHANGED next, kind = "flushed" => flushing
      PROVE  FrameMoves
  <2>1. Leaves(kind)
    BY <1>d DEF Drop, Return, Leaves
  <2> QED BY <2>1
<1>k. {"flushed", "refused", "raw"} \subseteq Kinds \ {"coded"}
  BY DEF Kinds
<1>a. ASSUME AdmitOrFlush, sinkPc \in HandlePcs, UNCHANGED next
      PROVE  FrameMoves
  <2>1. CASE flushing
    BY <1>a, <2>1, <1>d, <1>k DEF AdmitOrFlush
  <2>2. CASE ~flushing
    BY <1>a, <2>2 DEF AdmitOrFlush, Enqueue, Return, Joins
  <2> QED BY <2>1, <2>2
<1>1. CASE HwComplete
  BY <1>1 DEF HwComplete, StayPut, sinkVars, countVars
<1>2. CASE TaskEnter
  BY <1>2, <1>u DEF TaskEnter, sinkVars, countVars
<1>3. CASE TaskWake
  BY <1>3, <1>u DEF TaskWake, sinkVars, countVars
<1>4. CASE TaskLock
  BY <1>4, <1>u DEF TaskLock, sinkVars, countVars
<1>5. CASE TaskSend
  BY <1>5, <1>m, <1>u DEF TaskSend, MppCall, TaskKeeps, sinkVars, countVars
<1>6. CASE TaskPoll
  BY <1>6, <1>m, <1>u DEF TaskPoll, MppCall, TaskKeeps, sinkVars, countVars
<1>7. CASE TaskKernelFaults
  BY <1>7, <1>m, <1>u DEF TaskKernelFaults, MppCall, TaskKeeps, sinkVars, countVars
<1>8. CASE TaskDrain
  BY <1>8, <1>m, <1>u DEF TaskDrain, MppCall, TaskKeeps, sinkVars, countVars
<1>9. CASE TaskLeave
  BY <1>9, <1>u DEF TaskLeave, sinkVars, countVars
<1>10. CASE Chain
  BY <1>10 DEF Chain, Arrives, ThreadInv, HandlePcs
<1>11. CASE ChainRefused
  BY <1>11 DEF ChainRefused, Arrives, ThreadInv, HandlePcs
<1>12. CASE SinkTakesMutex
  BY <1>12, <1>u DEF SinkTakesMutex, sinkVars, countVars
<1>13. CASE Admit
  <2>1. CASE flushing
    BY <1>13, <2>1, <1>d, <1>k DEF Admit, SinkKeeps, HandlePcs
  <2>2. CASE ~flushing
    BY <1>13, <2>2, <1>u DEF Admit, SinkKeeps
  <2> QED BY <2>1, <2>2
<1>14. CASE ResolutionSend
  BY <1>14, <1>m DEF ResolutionSend, MppCall, SinkKeeps
<1>15. CASE ResolutionPoll
  BY <1>15, <1>m DEF ResolutionPoll, MppCall, SinkKeeps
<1>16. CASE ResolutionCheck
  <2>1. CASE Drop("refused", "ERROR")
    BY <1>16, <2>1, <1>d, <1>k DEF ResolutionCheck, SinkKeeps, HandlePcs
  <2>2. CASE UNCHANGED <<frameVars, cur>>
    BY <1>16, <2>2, <1>u DEF ResolutionCheck, SinkKeeps
  <2> QED BY <1>16, <2>1, <2>2 DEF ResolutionCheck
<1>17. CASE Convert
  <2>1. CASE Drop("refused", "ERROR")
    BY <1>17, <2>1, <1>d, <1>k DEF Convert, SinkKeeps, HandlePcs
  <2>2. CASE UNCHANGED <<frameVars, cur>>
    BY <1>17, <2>2, <1>u DEF Convert, SinkKeeps
  <2> QED BY <1>17, <2>1, <2>2 DEF Convert
<1>18. CASE Copied
  <2>1. CASE Drop("refused", "ERROR")
    BY <1>18, <2>1, <1>d, <1>k DEF Copied, SinkKeeps, HandlePcs
  <2>2. CASE UNCHANGED <<frameVars, cur>>
    BY <1>18, <2>2, <1>u DEF Copied, SinkKeeps
  <2> QED BY <1>18, <2>1, <2>2 DEF Copied
<1>19. CASE Capacity
  <2>1. CASE UNCHANGED <<frameVars, cur>>
    BY <1>19, <2>1, <1>u DEF Capacity, SinkKeeps
  <2> QED BY <1>19, <2>1, <1>a DEF Capacity, SinkKeeps, HandlePcs
<1>20. CASE CapacityWake
  BY <1>20, <1>u DEF CapacityWake, sinkVars, countVars
<1>21. CASE CapacityRelock
  BY <1>21, <1>a DEF CapacityRelock, SinkKeeps, HandlePcs
<1>22. CASE \E reason \in {"eos", "caps", "flush"} : SinkReset(reason)
  BY <1>22, <1>u DEF SinkReset
<1>23. CASE SinkResetStep
  <2>1. CASE DrainReset(sinkPc, sinkPc')
    BY <1>23, <2>1, <1>m DEF SinkResetStep, DrainReset, MppCall, sinkVars
  <2>2. CASE ~DrainReset(sinkPc, sinkPc')
    BY <1>23, <2>2 DEF SinkResetStep, ResetStep, TakeMutex, StopTask, JoinTask, Relock, StayPut,
       frameVars, sinkVars
  <2> QED BY <2>1, <2>2
<1>24. CASE SinkResetDone
  BY <1>24 DEF SinkResetDone, Forget, Forgets, sinkVars, countVars
<1>25. CASE SinkFlushDone
  BY <1>25 DEF SinkFlushDone, NoProgress, Clears, ThreadInv, HandlePcs, sinkVars, countVars
<1>26. CASE FlushStart
  BY <1>26, <1>u DEF FlushStart, sinkVars, countVars
<1>27. CASE SetResolution
  BY <1>27, <1>u DEF SetResolution, sinkVars, countVars
<1>28. CASE Teardown
  BY <1>28, <1>u DEF Teardown, sinkVars, countVars
<1>29. CASE AppResetStep
  <2>1. CASE DrainReset(appPc, appPc')
    BY <1>29, <2>1, <1>m DEF AppResetStep, DrainReset, MppCall, sinkVars
  <2>2. CASE ~DrainReset(appPc, appPc')
    BY <1>29, <2>2 DEF AppResetStep, ResetStep, TakeMutex, StopTask, JoinTask, Relock, StayPut,
       frameVars, sinkVars
  <2> QED BY <2>1, <2>2
<1>30. CASE AppResetDone
  BY <1>30 DEF AppResetDone, Forget, Forgets, sinkVars, countVars
<1>31. CASE DeactivateSrc
  BY <1>31, <1>u DEF DeactivateSrc, sinkVars, countVars
<1>32. CASE DeactivateSink
  BY <1>32, <1>u DEF DeactivateSink, sinkVars, countVars
<1>33. CASE Stop
  BY <1>33, <1>u DEF Stop, sinkVars, countVars
<1>34. CASE StopDone
  BY <1>34 DEF StopDone, Clears, ThreadInv, HandlePcs, sinkVars, countVars
<1>35. CASE Start
  BY <1>35 DEF Start, Forgets
<1>36. CASE UNCHANGED vars
  BY <1>36, <1>u DEF vars, sinkVars, countVars
<1> QED
  BY <1>1, <1>2, <1>3, <1>4, <1>5, <1>6, <1>7, <1>8, <1>9, <1>10, <1>11, <1>12,
     <1>13, <1>14, <1>15, <1>16, <1>17, <1>18, <1>19, <1>20, <1>21, <1>22, <1>23, <1>24,
     <1>25, <1>26, <1>27, <1>28, <1>29, <1>30, <1>31, <1>32, <1>33, <1>34, <1>35, <1>36
     DEF Next, Step, AtRest, TaskStep, SinkStep, HandleFrameStep, AppStep

-----------------------------------------------------------------------------
(* Order of the coded pictures *)

\* Frames are numbered as they arrive: a list rises, and stays below or above one.
Rising(s) == \A i, j \in 1..Len(s) : i < j => s[i] < s[j]
Below(s, b) == \A i \in 1..Len(s) : s[i] < b
Above(s, a) == \A i \in 1..Len(s) : a < s[i]

\* t is what is left of s when some first and some last elements go.
Within(t, s) ==
  \E d \in Nat : Len(t) + d <= Len(s) /\ \A i \in 1..Len(t) : t[i] = s[d + i]

\* What is left of a list still rises and still is below or above a number.
LEMMA WithinKeeps ==
  ASSUME NEW s \in Seq(FrameIds), NEW t \in Seq(FrameIds), Within(t, s)
  PROVE  /\ Rising(s) => Rising(t)
         /\ \A b \in Nat : Below(s, b) => Below(t, b)
         /\ \A a \in Nat : Above(s, a) => Above(t, a)
<1> PICK d \in Nat : Len(t) + d <= Len(s) /\ \A i \in 1..Len(t) : t[i] = s[d + i]
  BY DEF Within
<1>1. Len(s) \in Nat /\ Len(t) \in Nat
  BY LenProperties
<1>2. \A i \in 1..Len(t) : d + i \in 1..Len(s)
  BY <1>1
<1>3. Rising(s) => Rising(t)
  <2> SUFFICES ASSUME Rising(s), NEW i \in 1..Len(t), NEW j \in 1..Len(t), i < j
               PROVE  t[i] < t[j]
    BY DEF Rising
  <2>1. d + i < d + j
    OBVIOUS
  <2> QED BY <1>2, <2>1 DEF Rising
<1> QED BY <1>2, <1>3 DEF Below, Above

\* An element above a rising list extends it.
LEMMA AppendKeeps ==
  ASSUME NEW s \in Seq(FrameIds), NEW e \in FrameIds, Rising(s), Below(s, e)
  PROVE  /\ Append(s, e) \in Seq(FrameIds) /\ Rising(Append(s, e))
         /\ \A b \in Nat : e < b => Below(Append(s, e), b)
         /\ \A a \in Nat : a < e /\ Above(s, a) => Above(Append(s, e), a)
<1> DEFINE t == Append(s, e)
<1>1. /\ t \in Seq(FrameIds) /\ Len(s) \in Nat /\ Len(t) = Len(s) + 1
      /\ \A i \in 1..Len(s) : t[i] = s[i] /\ s[i] \in FrameIds
      /\ t[Len(s) + 1] = e
  BY LenProperties, AppendProperties, ElementOfSeq
<1> HIDE DEF t
<1>2. \A i \in 1..Len(t) : i \in 1..Len(s) \/ i = Len(s) + 1
  BY <1>1
<1>3. ASSUME NEW i \in 1..Len(t), NEW j \in 1..Len(t), i < j
      PROVE  t[i] < t[j]
  <2>1. i \in 1..Len(s)
    BY <1>1, <1>3
  <2>2. CASE j \in 1..Len(s)
    BY <1>1, <1>3, <2>1, <2>2 DEF Rising
  <2>3. CASE j = Len(s) + 1
    BY <1>1, <2>1, <2>3 DEF Below
  <2> QED BY <1>2, <2>2, <2>3
<1>4. ASSUME NEW b \in Nat, e < b, NEW i \in 1..Len(t)
      PROVE  t[i] < b
  <2>1. CASE i \in 1..Len(s)
    <3>1. t[i] < e /\ t[i] \in Nat /\ e \in Nat
      BY <1>1, <2>1 DEF Below, FrameIds
    <3> QED BY <1>4, <3>1
  <2>2. CASE i = Len(s) + 1
    BY <1>1, <1>4, <2>2
  <2> QED BY <1>2, <2>1, <2>2
<1>5. ASSUME NEW a \in Nat, a < e, Above(s, a), NEW i \in 1..Len(t)
      PROVE  a < t[i]
  BY <1>1, <1>2, <1>5 DEF Above
<1> QED BY <1>1, <1>3, <1>4, <1>5 DEF Rising, Below, Above, t

\* The first element of a rising list is below the others.
LEMMA HeadBelow ==
  ASSUME NEW s \in Seq(FrameIds), s # <<>>
  PROVE  /\ Head(s) \in FrameIds /\ Head(s) = s[1] /\ Tail(s) \in Seq(FrameIds)
         /\ Within(Tail(s), s)
         /\ Rising(s) => Above(Tail(s), Head(s))
         /\ \A b : Below(s, b) => Head(s) < b
         /\ \A a : Above(s, a) => a < Head(s)
<1>1. /\ Len(s) \in Nat \ {0} /\ Head(s) = s[1] /\ Tail(s) \in Seq(FrameIds)
      /\ Len(Tail(s)) = Len(s) - 1 /\ Head(s) \in FrameIds
      /\ \A i \in 1..Len(Tail(s)) : Tail(s)[i] = s[i + 1]
  BY LenProperties, EmptySeq, HeadTailProperties
<1>2. 1 \in 1..Len(s) /\ \A i \in 1..Len(Tail(s)) : i + 1 \in 1..Len(s) /\ 1 < i + 1
  BY <1>1
<1>3. Within(Tail(s), s)
  <2>1. Len(Tail(s)) + 1 <= Len(s) /\ \A i \in 1..Len(Tail(s)) : Tail(s)[i] = s[1 + i]
    BY <1>1
  <2> QED BY <2>1 DEF Within
<1>4. Rising(s) => Above(Tail(s), Head(s))
  BY <1>1, <1>2 DEF Rising, Above
<1> QED BY <1>1, <1>2, <1>3, <1>4 DEF Below, Above

\* The ways a list loses elements leave what is Within it.
LEMMA Leftovers ==
  ASSUME NEW m \in Seq(FrameIds), NEW q \in Seq(FrameIds)
  PROVE  /\ Within(m, m) /\ Within(<<>>, m)
         /\ Within(m, m \o q) /\ Within(q, m \o q)
         /\ \A n \in 0..Len(m) : Within(SubSeq(m, n + 1, Len(m)), m)
         /\ m # <<>> => Within(SubSeq(m, 1, Len(m) - 1), m)
<1>1. /\ Len(m) \in Nat /\ Len(q) \in Nat /\ Len(<<>>) = 0
      /\ Len(m \o q) = Len(m) + Len(q)
      /\ \A i \in 1..(Len(m) + Len(q)) :
           (m \o q)[i] = IF i <= Len(m) THEN m[i] ELSE q[i - Len(m)]
  BY LenProperties, EmptySeq, ConcatProperties
<1>2. Within(m, m)
  <2>1. Len(m) + 0 <= Len(m) /\ \A i \in 1..Len(m) : m[i] = m[0 + i]
    BY <1>1
  <2> QED BY <2>1 DEF Within
<1>3. Within(<<>>, m)
  <2>1. 0 + 0 <= Len(m) /\ \A i \in 1..0 : FALSE
    BY <1>1
  <2> QED BY <1>1, <2>1 DEF Within
<1>4. Within(m, m \o q)
  <2>1. /\ Len(m) + 0 <= Len(m \o q)
        /\ \A i \in 1..Len(m) : 0 + i \in 1..(Len(m) + Len(q)) /\ i <= Len(m) /\ 0 + i = i
    BY <1>1
  <2>2. \A i \in 1..Len(m) : m[i] = (m \o q)[0 + i]
    BY <1>1, <2>1
  <2> QED BY <2>1, <2>2 DEF Within
<1>5. Within(q, m \o q)
  <2>1. /\ Len(q) + Len(m) <= Len(m \o q)
        /\ \A i \in 1..Len(q) : /\ Len(m) + i \in 1..(Len(m) + Len(q))
                                /\ ~(Len(m) + i <= Len(m)) /\ Len(m) + i - Len(m) = i
    BY <1>1
  <2>2. \A i \in 1..Len(q) : q[i] = (m \o q)[Len(m) + i]
    BY <1>1, <2>1
  <2> QED BY <1>1, <2>1, <2>2 DEF Within
<1>6. ASSUME NEW n \in 0..Len(m)
      PROVE  Within(SubSeq(m, n + 1, Len(m)), m)
  <2> DEFINE t == SubSeq(m, n + 1, Len(m))
  <2>1. Len(t) = Len(m) - n /\ \A i \in 1..(Len(m) - n) : t[i] = m[n + i]
    BY SuffixType
  <2> HIDE DEF t
  <2>2. n \in Nat /\ Len(t) + n <= Len(m) /\ \A i \in 1..Len(t) : t[i] = m[n + i]
    BY <1>1, <2>1
  <2>3. Within(t, m)
    BY <2>2 DEF Within
  <2> QED BY <2>3 DEF t
<1>7. ASSUME m # <<>>
      PROVE  Within(SubSeq(m, 1, Len(m) - 1), m)
  <2> DEFINE t == SubSeq(m, 1, Len(m) - 1)
  <2>1. Len(t) = Len(m) - 1 /\ \A i \in 1..(Len(m) - 1) : t[i] = m[i]
    BY <1>7, FrontType
  <2> HIDE DEF t
  <2>2. Len(t) + 0 <= Len(m) /\ \A i \in 1..Len(t) : t[i] = m[0 + i]
    BY <1>1, <2>1
  <2>3. Within(t, m)
    BY <2>2 DEF Within
  <2> QED BY <2>3 DEF t
<1> QED BY <1>2, <1>3, <1>4, <1>5, <1>6, <1>7

\* What handle_frame has accepted and no packet was polled for.
Accepted == mpp \o queue
\* Accepted frames are older than the one being handled, or the one to come.
Newest == IF cur = 0 THEN next ELSE cur

\* A coded frame is older than those listed, and its picture than those accepted.
CodedBehind ==
  \A i \in 1..Len(log) : log[i].kind = "coded" =>
    /\ log[i].frame < next /\ Above(list, log[i].frame)
    /\ log[i].data < Newest /\ Above(Accepted, log[i].data)

\* The inductive invariant behind CodedInOrder.
OrderInv ==
  /\ cur # 0 => cur = next - 1
  /\ Rising(list) /\ Below(list, next)
  /\ Rising(Accepted) /\ Below(Accepted, Newest)
  /\ CodedBehind /\ CodedInOrder

\* What the log gains holds no coded picture.
NoneCoded ==
  \A i \in 1..Len(log') : log'[i].kind = "coded" => i \in 1..Len(log) /\ log'[i] = log[i]

\* Frames that end without a packet add none.
LEMMA AppendNoneCoded ==
  ASSUME log \in Seq(EndedRecord), NEW e, e.kind # "coded", log' = Append(log, e)
  PROVE  NoneCoded
<1> DEFINE R == EndedRecord \cup {e}
<1>1. log \in Seq(R) /\ e \in R
  BY SeqMonotonic
<1> HIDE DEF R
<1>2. /\ Len(log') = Len(log) + 1 /\ log'[Len(log) + 1] = e
      /\ \A i \in 1..Len(log) : log'[i] = log[i]
  BY <1>1, AppendProperties
<1>3. \A i \in 1..(Len(log) + 1) : i \in 1..Len(log) \/ i = Len(log) + 1
  BY LenProperties
<1> QED BY <1>2, <1>3 DEF NoneCoded

LEMMA EndFirstNoneCoded ==
  ASSUME FrameTypeOK, NEW n \in 0..Len(list), NEW kind \in Kinds \ {"coded"},
         EndFirst(n, kind)
  PROVE  NoneCoded /\ Within(list', list)
<1> DEFINE e == [i \in 1..n |-> Ended(list[i], kind, list[i])]
<1>1. n \in Nat /\ Len(list) \in Nat /\ \A i \in 1..n : i \in 1..Len(list)
  BY LenProperties DEF FrameTypeOK
<1>2. \A i \in 1..n : e[i] \in EndedRecord /\ e[i].kind = kind
  BY <1>1, ElementOfSeq DEF FrameTypeOK, Ended, EndedRecord
<1>3. e \in [1..n -> EndedRecord]
  BY <1>2
<1>4. e \in Seq(EndedRecord) /\ Len(e) = n
  BY <1>1, <1>3, SeqDef, LenProperties
<1>5. log' = log \o e
  BY DEF EndFirst
<1> HIDE DEF e
<1>6. /\ Len(log') = Len(log) + n /\ Len(log) \in Nat
      /\ \A i \in 1..(Len(log) + n) :
           log'[i] = IF i <= Len(log) THEN log[i] ELSE e[i - Len(log)]
  BY <1>4, <1>5, ConcatProperties, LenProperties DEF FrameTypeOK
<1>7. ASSUME NEW i \in 1..(Len(log) + n), ~(i <= Len(log))
      PROVE  log'[i].kind # "coded"
  <2>1. i - Len(log) \in 1..n
    BY <1>1, <1>6, <1>7
  <2> QED BY <1>2, <1>6, <1>7, <2>1
<1>8. NoneCoded
  <2> SUFFICES ASSUME NEW i \in 1..(Len(log) + n), log'[i].kind = "coded"
               PROVE  i \in 1..Len(log) /\ log'[i] = log[i]
    BY <1>6 DEF NoneCoded
  <2>1. i <= Len(log)
    BY <1>7
  <2> QED BY <1>1, <1>6, <2>1
<1>9. Within(list', list)
  BY Leftovers DEF EndFirst, FrameTypeOK
<1> QED BY <1>8, <1>9

\* A call into MPP takes from the lists; what it adds to the log is a packet pushed
\* with the oldest frame, or nothing coded.
LEMMA MppCallOrder ==
  ASSUME TypeOK, MppCall
  PROVE  \/ /\ list # <<>> /\ mpp # <<>> /\ UNCHANGED queue
            /\ list' = Tail(list) /\ mpp' = Tail(mpp)
            /\ log' = Append(log, Ended(Head(list), "coded", Head(mpp)))
         \/ NoneCoded /\ Within(list', list) /\ Within(Accepted', Accepted)
<1>1. /\ mpp \in Seq(FrameIds) /\ queue \in Seq(FrameIds) /\ list \in Seq(FrameIds)
      /\ log \in Seq(EndedRecord) /\ Accepted \in Seq(FrameIds) /\ FrameTypeOK
  BY ConcatProperties DEF TypeOK, FrameTypeOK, Accepted
<1>u. UNCHANGED log => NoneCoded
  BY DEF NoneCoded
<1>w. /\ UNCHANGED list => Within(list', list)
      /\ UNCHANGED <<mpp, queue>> => Within(Accepted', Accepted)
  BY <1>1, Leftovers DEF Accepted
<1>4. CASE SendFrame
  <2>1. Append(mpp, Head(queue)) \o Tail(queue) = mpp \o queue
    BY <1>1, <1>4, MoveHead DEF SendFrame, HeadListed
  <2>2. Accepted' = Accepted
    BY <1>4, <2>1 DEF SendFrame, HeadListed, Accepted
  <2>3. Within(Accepted', Accepted)
    BY <1>1, <2>2, Leftovers
  <2>4. UNCHANGED <<list, log>>
    BY <1>4 DEF SendFrame, HeadListed
  <2> QED BY <1>u, <1>w, <2>3, <2>4
<1>5. CASE PollPacket
  <2>1. mpp # <<>> /\ queue' = queue /\ mpp' = Tail(mpp)
    BY <1>1, <1>5, EmptySeq DEF PollPacket, TypeOK, FrameTypeOK
  <2>2. Accepted # <<>> /\ Tail(Accepted) = Tail(mpp) \o queue
    BY <1>1, <2>1, ConcatHeadTail DEF Accepted
  <2>3. Within(Accepted', Accepted)
    BY <1>1, <2>1, <2>2, HeadBelow DEF Accepted
  <2>4. CASE list = <<>>
    BY <1>5, <1>u, <1>w, <2>3, <2>4 DEF PollPacket
  <2>5. CASE list # <<>> /\ log' = Append(log, Ended(Head(list), "coded", Head(mpp)))
    BY <1>5, <2>1, <2>5 DEF PollPacket
  <2>6. CASE /\ list # <<>>
             /\ \E kind \in {"flushed", "empty"} :
                  log' = Append(log, Ended(Head(list), kind, Head(mpp)))
    <3>1. PICK kind \in {"flushed", "empty"} :
            log' = Append(log, Ended(Head(list), kind, Head(mpp)))
      BY <2>6
    <3> DEFINE e == Ended(Head(list), kind, Head(mpp))
    <3>2. e.kind # "coded"
      BY DEF Ended
    <3>3. NoneCoded
      BY <1>1, <3>1, <3>2, AppendNoneCoded
    <3>4. Within(list', list)
      BY <1>1, <1>5, <2>6, HeadBelow DEF PollPacket
    <3> QED BY <2>3, <3>3, <3>4
  <2> QED BY <1>5, <2>4, <2>5, <2>6 DEF PollPacket
<1>6. CASE UNCHANGED <<list, mpp, queue, log>>
  BY <1>6, <1>u, <1>w
<1>7. CASE DiscardSubmitted /\ mpp' = <<>> /\ UNCHANGED queue
  <2>1. Len(list) \in Nat /\ Len(queue) \in Nat /\ pending \in Int
    BY LenProperties DEF TypeOK, FrameTypeOK
  <2> DEFINE submitted == pending - Len(queue)
             n == IF submitted < 0 THEN 0
                  ELSE IF submitted < Len(list) THEN submitted ELSE Len(list)
  <2>2. n \in 0..Len(list)
    BY <2>1
  <2>3. EndFirst(n, "restart")
    BY <1>7 DEF DiscardSubmitted
  <2> HIDE DEF n
  <2>4. NoneCoded /\ Within(list', list)
    BY <1>1, <2>2, <2>3, EndFirstNoneCoded DEF Kinds
  <2>5. <<>> \o queue = queue
    BY <1>1, ConcatEmptySeq
  <2>6. Within(Accepted', Accepted)
    BY <1>1, <1>7, <2>5, Leftovers DEF Accepted
  <2> QED BY <2>4, <2>6
<1>8. CASE RuntimeError /\ UNCHANGED <<queue, desync>>
  BY <1>6, <1>7, <1>8 DEF RuntimeError, RestartContext
<1> QED
  BY <1>4, <1>5, <1>6, <1>8
     DEF MppCall, SendNothing, SendFault, PollNothing, PollFault, frameVars

\* As long as the log gains nothing coded, and no list a frame older than those it
\* was compared with, the order of the log stands.
LEMMA CodedStays ==
  ASSUME FrameTypeOK, CodedBehind, CodedInOrder, NoneCoded,
         next \in Nat, next' \in Nat, Newest \in Nat, Newest' \in Nat,
         next <= next', Newest <= Newest',
         \A a \in Nat : a < next /\ Above(list, a) => Above(list', a),
         \A a \in Nat : a < Newest /\ Above(Accepted, a) => Above(Accepted', a)
  PROVE  CodedBehind' /\ CodedInOrder'
<1>1. \A i \in 1..Len(log) : log[i].frame \in Nat /\ log[i].data \in Nat
  <2>1. \A i \in 1..Len(log) : log[i] \in EndedRecord
    BY ElementOfSeq DEF FrameTypeOK
  <2>2. \A e \in EndedRecord : e.frame \in FrameIds /\ e.data \in FrameIds
    BY DEF EndedRecord
  <2>3. \A f \in FrameIds : f \in Nat
    BY DEF FrameIds
  <2> QED BY <2>1, <2>2, <2>3
<1>2. CodedBehind'
  <2> SUFFICES ASSUME NEW i \in 1..Len(log'), log'[i].kind = "coded"
               PROVE  /\ log'[i].frame < next' /\ Above(list', log'[i].frame)
                      /\ log'[i].data < Newest' /\ Above(Accepted', log'[i].data)
    BY DEF CodedBehind, Above
  <2>1. i \in 1..Len(log) /\ log'[i] = log[i]
    BY DEF NoneCoded
  <2>2. /\ log[i].frame < next /\ Above(list, log[i].frame)
        /\ log[i].data < Newest /\ Above(Accepted, log[i].data)
    BY <2>1 DEF CodedBehind
  <2>3. Above(list', log[i].frame) /\ Above(Accepted', log[i].data)
    BY <1>1, <2>1, <2>2
  <2>4. log[i].frame < next' /\ log[i].data < Newest'
    BY <1>1, <2>1, <2>2
  <2> QED BY <2>1, <2>3, <2>4
<1>3. CodedInOrder'
  BY DEF CodedInOrder, NoneCoded
<1> QED BY <1>2, <1>3

\* Each step keeps the pictures in order.
LEMMA OrderStep ==
  ASSUME ConstantsAssumption, TypeOK, TypeOK', ThreadInv, OrderInv, [Next]_vars
  PROVE  OrderInv'
<1>1. /\ mpp \in Seq(FrameIds) /\ queue \in Seq(FrameIds) /\ list \in Seq(FrameIds)
      /\ log \in Seq(EndedRecord) /\ Accepted \in Seq(FrameIds) /\ FrameTypeOK
      /\ list' \in Seq(FrameIds) /\ Accepted' \in Seq(FrameIds)
      /\ log' \in Seq(EndedRecord)
  BY ConcatProperties DEF TypeOK, FrameTypeOK, Accepted
<1>2. /\ next \in Nat /\ next' \in Nat /\ cur \in Nat /\ cur' \in Nat
      /\ Newest \in Nat /\ Newest' \in Nat /\ (cur # 0 => cur = next - 1)
  BY DEF TypeOK, ControlTypeOK, Newest, OrderInv
<1>o. /\ Rising(list) /\ Below(list, next) /\ Rising(Accepted) /\ Below(Accepted, Newest)
      /\ CodedBehind /\ CodedInOrder
  BY DEF OrderInv
<1>u. UNCHANGED log => NoneCoded
  BY DEF NoneCoded
\* Steps that only take from the lists.
<1>w. ASSUME NoneCoded, Within(list', list), Within(Accepted', Accepted),
             next' = next, Newest <= Newest', cur' # 0 => cur' = next' - 1
      PROVE  OrderInv'
  <2>1. /\ Rising(list') /\ Below(list', next)
        /\ \A a \in Nat : Above(list, a) => Above(list', a)
    BY <1>1, <1>2, <1>o, <1>w, WithinKeeps
  <2>2. /\ Rising(Accepted') /\ Below(Accepted', Newest)
        /\ \A a \in Nat : Above(Accepted, a) => Above(Accepted', a)
    BY <1>1, <1>2, <1>o, <1>w, WithinKeeps
  <2>3. Below(Accepted', Newest')
    <3>1. \A i \in 1..Len(Accepted') : Accepted'[i] \in Nat
      BY SMTT(30), <1>1, ElementOfSeq DEF FrameIds
    <3> QED BY <1>2, <1>w, <2>2, <3>1 DEF Below
  <2>4. CodedBehind' /\ CodedInOrder'
    BY SMTT(30), <1>1, <1>2, <1>o, <1>w, <2>1, <2>2, CodedStays
  <2> QED BY <1>w, <2>1, <2>2, <2>3, <2>4 DEF OrderInv, Rising, Below
<1>3. CASE StayPut
  <2>1. NoneCoded /\ Within(list', list) /\ Within(Accepted', Accepted)
    BY <1>1, <1>3, <1>u, Leftovers DEF StayPut, Accepted
  <2> QED BY <1>2, <1>3, <1>w, <2>1 DEF StayPut, Newest
<1>4. CASE MppMoves
  <2>1. UNCHANGED <<next, cur, Newest>>
    BY <1>4 DEF MppMoves, Newest
  <2>2. CASE NoneCoded /\ Within(list', list) /\ Within(Accepted', Accepted)
    BY <1>2, <1>w, <2>1, <2>2
  <2>3. CASE /\ list # <<>> /\ mpp # <<>> /\ UNCHANGED queue
             /\ list' = Tail(list) /\ mpp' = Tail(mpp)
             /\ log' = Append(log, Ended(Head(list), "coded", Head(mpp)))
    <3> DEFINE e == Ended(Head(list), "coded", Head(mpp))
               n == Len(log) + 1
    <3>1. Accepted # <<>> /\ Head(Accepted) = Head(mpp) /\ Accepted' = Tail(Accepted)
      BY ZenonT(30), <1>1, <2>3, ConcatHeadTail DEF Accepted
    <3>2. /\ Head(list) \in FrameIds /\ Head(list) < next
          /\ Rising(list') /\ Below(list', next) /\ Above(list', Head(list))
          /\ \A a \in Nat : Above(list, a) => Above(list', a) /\ a < Head(list)
      BY <1>1, <1>2, <1>o, <2>3, HeadBelow, WithinKeeps
    <3>3. /\ Head(mpp) \in FrameIds /\ Head(mpp) < Newest
          /\ Rising(Accepted') /\ Below(Accepted', Newest) /\ Above(Accepted', Head(mpp))
          /\ \A a \in Nat : Above(Accepted, a) => Above(Accepted', a) /\ a < Head(mpp)
      BY <1>1, <1>2, <1>o, <3>1, HeadBelow, WithinKeeps
    <3>4. e \in EndedRecord /\ e.frame = Head(list) /\ e.data = Head(mpp)
      BY <3>2, <3>3 DEF Ended, EndedRecord, Kinds
    <3> HIDE DEF e
    <3>5. /\ Len(log) \in Nat /\ Len(log') = n /\ log'[n] = e
          /\ \A i \in 1..Len(log) : log'[i] = log[i]
      BY <1>1, <2>3, <3>4, LenProperties, AppendProperties DEF e
    <3>6. \A i \in 1..n : i \in 1..Len(log) \/ i = n
      BY <3>5
    <3>7. \A i \in 1..Len(log) : log[i].frame \in Nat /\ log[i].data \in Nat
      <4>1. \A i \in 1..Len(log) : log[i] \in EndedRecord
        BY <1>1, ElementOfSeq
      <4>2. \A r \in EndedRecord : r.frame \in FrameIds /\ r.data \in FrameIds
        BY DEF EndedRecord
      <4>3. \A f \in FrameIds : f \in Nat
        BY DEF FrameIds
      <4> QED BY <4>1, <4>2, <4>3
    <3>8. ASSUME NEW i \in 1..Len(log), log[i].kind = "coded"
          PROVE  /\ log[i].frame < next /\ Above(list', log[i].frame)
                 /\ log[i].frame < e.frame
                 /\ log[i].data < Newest /\ Above(Accepted', log[i].data)
                 /\ log[i].data < e.data
      <4>1. /\ log[i].frame < next /\ Above(list, log[i].frame)
            /\ log[i].data < Newest /\ Above(Accepted, log[i].data)
        BY <1>o, <3>8 DEF CodedBehind
      <4> QED BY <3>2, <3>3, <3>4, <3>7, <3>8, <4>1
    <3>9. CodedBehind'
      <4> SUFFICES ASSUME NEW i \in 1..n, log'[i].kind = "coded"
                   PROVE  /\ log'[i].frame < next /\ Above(list', log'[i].frame)
                          /\ log'[i].data < Newest /\ Above(Accepted', log'[i].data)
        BY <2>1, <3>5 DEF CodedBehind, Above
      <4>1. CASE i \in 1..Len(log)
        BY <3>5, <3>8, <4>1
      <4>2. CASE i = n
        BY <3>2, <3>3, <3>4, <3>5, <4>2
      <4> QED BY <3>6, <4>1, <4>2
    <3>10. CodedInOrder'
      <4> SUFFICES ASSUME NEW i \in 1..n, NEW j \in 1..n, i < j,
                          log'[i].kind = "coded", log'[j].kind = "coded"
                   PROVE  log'[i].frame < log'[j].frame /\ log'[i].data < log'[j].data
        BY <3>5 DEF CodedInOrder
      <4>1. i \in 1..Len(log) /\ log'[i] = log[i]
        BY <3>5
      <4>2. CASE j \in 1..Len(log)
        BY <1>o, <3>5, <4>1, <4>2 DEF CodedInOrder
      <4>3. CASE j = n
        BY <3>5, <3>8, <4>1, <4>3
      <4> QED BY <3>6, <4>2, <4>3
    <3> QED BY <1>2, <2>1, <3>2, <3>3, <3>9, <3>10 DEF OrderInv, Rising, Below
  <2> QED BY <1>4, <2>2, <2>3, MppCallOrder DEF MppMoves
<1>5. CASE Arrives
  <2>1. next \in FrameIds
    BY <1>5 DEF Arrives, TypeOK, ControlTypeOK, FrameIds
  <2>2. /\ Rising(list') /\ Below(list', next + 1)
        /\ \A a \in Nat : a < next /\ Above(list, a) => Above(list', a)
    <3>1. list' = Append(list, next) /\ next + 1 \in Nat /\ next < next + 1
      BY <1>2, <1>5 DEF Arrives
    <3> QED BY <1>1, <1>2, <1>o, <2>1, <3>1, AppendKeeps
  <2>3. /\ Accepted' = Accepted /\ Newest = next /\ Newest <= Newest'
        /\ (cur' # 0 => cur' = next' - 1)
    BY <1>2, <1>5 DEF Arrives, Accepted, Newest
  <2>4. Below(Accepted', Newest')
    <3>1. \A i \in 1..Len(Accepted) : Accepted[i] \in Nat
      BY SMTT(30), <1>1, ElementOfSeq DEF FrameIds
    <3> QED BY SMTT(30), <1>2, <1>o, <2>3, <3>1 DEF Below
  <2>5. CodedBehind' /\ CodedInOrder'
    <3>1. NoneCoded /\ next <= next'
      BY <1>2, <1>5, <1>u DEF Arrives
    <3> QED BY <1>1, <1>2, <1>o, <2>2, <2>3, <3>1, CodedStays
  <2> QED BY <1>5, <1>o, <2>2, <2>3, <2>4, <2>5 DEF Arrives, OrderInv, Rising, Below
<1>6. CASE \E kind \in Kinds : Leaves(kind)
  <2>1. PICK kind \in Kinds : Leaves(kind)
    BY <1>6
  <2>2. /\ UNCHANGED <<queue, mpp, next>> /\ cur' = 0 /\ cur # 0 /\ cur < next
        /\ kind # "coded" /\ EndCur(kind)
    BY <1>2, <2>1 DEF Leaves, ThreadInv
  <2> DEFINE e == Ended(cur, kind, cur)
  <2>3. e.kind # "coded" /\ log' = Append(log, e)
    BY <2>2 DEF EndCur, Ended
  <2> HIDE DEF e
  <2>4. NoneCoded
    BY <1>1, <2>3, AppendNoneCoded
  <2>5. Within(list', list)
    BY <1>1, <2>2, Leftovers DEF EndCur
  <2>6. Within(Accepted', Accepted)
    BY <1>1, <2>2, Leftovers DEF Accepted
  <2>7. Newest <= Newest'
    BY <1>2, <2>2 DEF Newest
  <2> QED BY <1>w, <2>2, <2>4, <2>5, <2>6, <2>7
<1>7. CASE Joins
  <2>1. cur # 0 /\ cur \in FrameIds /\ cur < next /\ Newest = cur /\ Newest' = next
    BY <1>2, <1>7 DEF Joins, ThreadInv, TypeOK, ControlTypeOK, FrameIds, Newest
  <2>2. Accepted' = Append(Accepted, cur)
    <3>1. mpp \o Append(queue, cur) = Append(mpp \o queue, cur)
      <4>1. mpp \in Seq(FrameIds) /\ queue \in Seq(FrameIds) /\ cur \in FrameIds
        BY <1>1, <2>1
      <4> QED BY ONLY <4>1, ConcatAppend
    <3> QED BY <1>7, <3>1 DEF Joins, Accepted
  <2>3. /\ Rising(Accepted') /\ Below(Accepted', next)
        /\ \A a \in Nat : a < cur /\ Above(Accepted, a) => Above(Accepted', a)
    BY <1>1, <1>2, <1>o, <2>1, <2>2, AppendKeeps
  <2>4. CodedBehind' /\ CodedInOrder'
    <3>1. /\ NoneCoded /\ next' = next /\ list' = list
          /\ next <= next' /\ Newest <= Newest'
      BY <1>2, <1>7, <1>u, <2>1 DEF Joins
    <3> QED BY <1>1, <1>2, <1>o, <2>1, <2>3, <3>1, CodedStays
  <2> QED BY <1>7, <1>o, <2>1, <2>3, <2>4 DEF Joins, OrderInv, Rising, Below
<1>8. CASE Forgets
  <2>1. mpp \o <<>> = mpp
    BY <1>1, ConcatEmptySeq
  <2>2. NoneCoded /\ Within(list', list) /\ Within(Accepted', Accepted)
    BY <1>1, <1>8, <1>u, <2>1, Leftovers DEF Forgets, Accepted
  <2> QED BY <1>2, <1>8, <1>w, <2>2 DEF Forgets, Newest
<1>9. CASE Clears
  <2>1. /\ EndFirst(Len(list), "cleared") /\ queue' = <<>> /\ mpp' \in {mpp, <<>>}
        /\ UNCHANGED <<next, cur>>
    BY <1>9 DEF Clears
  <2>2. Len(list) \in 0..Len(list) /\ "cleared" \in Kinds \ {"coded"}
    BY <1>1, LenProperties DEF Kinds
  <2>3. NoneCoded /\ Within(list', list)
    BY <1>1, <2>1, <2>2, EndFirstNoneCoded
  <2>4. Accepted' \in {mpp, <<>>}
    BY <1>1, <2>1, ConcatEmptySeq, EmptySeq DEF Accepted
  <2>5. Within(Accepted', Accepted)
    BY <1>1, <2>4, Leftovers DEF Accepted
  <2> QED BY <1>2, <1>w, <2>1, <2>3, <2>5 DEF Newest
<1> QED
  BY <1>3, <1>4, <1>5, <1>6, <1>7, <1>8, <1>9, FramesMove DEF FrameMoves

\* Coded pictures leave in the order their frames arrived, whatever is refused,
\* restarted, reset or torn down meanwhile.
THEOREM CodedOrderHolds == Spec => []CodedInOrder
<1> DEFINE Inv == IndInv /\ OrderInv
<1>1. Init => Inv
  <2> SUFFICES ASSUME Init PROVE OrderInv
    BY InitInv, ConstantsAssumption
  <2>1. <<>> \o <<>> = <<>> /\ Len(<<>>) = 0 /\ 1..0 = {}
    BY EmptySeq, ConcatEmptySeq
  <2> QED
    BY <2>1 DEF Init, OrderInv, Rising, Below, Above, CodedBehind, CodedInOrder, Accepted
<1>2. Inv /\ [Next]_vars => Inv'
  BY InvStep, OrderStep, ConstantsAssumption DEF IndInv
<1>3. Inv => CodedInOrder
  BY DEF OrderInv
<1> QED BY <1>1, <1>2, <1>3, PTL DEF Spec

-----------------------------------------------------------------------------
(* Resets *)

\* Until its flags are cleared a reset has published both.
Early == ResetPcs \ {"rdrain"}

\* What the flags say of the resets under way: without a teardown flushing means
\* that a reset of the sink thread has yet to stop the task; under one, unless
\* resets overlap, it stays set until the element starts again.
ResetInv ==
  /\ op = "none" <=> sinkPc \notin ResetPcs
  /\ (appPc = "idle" /\ flushing) => draining /\ sinkPc \in Early
  /\ ~OverlapResets =>
       /\ appPc # "idle" => flushing /\ op = "none"
       /\ (sinkPc \in Early \/ appPc \in Early) => draining

\* Each step keeps the flags and the resets in step.
LEMMA ResetInvStep ==
  ASSUME ConstantsAssumption, ControlTypeOK, LockInv, ThreadInv, ResetInv, [Next]_vars
  PROVE  ResetInv'
<1> USE DEF ControlTypeOK, ResetInv, Early, ResetPcs, flagVars
<1>1. CASE HwComplete
  BY <1>1 DEF HwComplete, sinkVars
<1>2. CASE TaskEnter
  BY <1>2 DEF TaskEnter, sinkVars
<1>3. CASE TaskWake
  BY <1>3 DEF TaskWake, sinkVars
<1>4. CASE TaskLock
  BY <1>4 DEF TaskLock, sinkVars
<1>5. CASE TaskSend
  BY <1>5 DEF TaskSend, TaskKeeps, sinkVars
<1>6. CASE TaskPoll
  BY <1>6 DEF TaskPoll, TaskKeeps, sinkVars
<1>7. CASE TaskKernelFaults
  BY <1>7 DEF TaskKernelFaults, TaskKeeps, sinkVars
<1>8. CASE TaskDrain
  BY <1>8 DEF TaskDrain, TaskKeeps, sinkVars
<1>9. CASE TaskLeave
  BY <1>9 DEF TaskLeave, sinkVars
<1>10. CASE Chain
  BY <1>10 DEF Chain, sinkVars
<1>11. CASE ChainRefused
  BY <1>11 DEF ChainRefused, sinkVars
<1>12. CASE SinkTakesMutex
  BY <1>12 DEF SinkTakesMutex, sinkVars
<1>13. CASE Admit
  BY <1>13 DEF Admit, SinkKeeps, Drop, Return, sinkVars
<1>14. CASE ResolutionSend
  BY <1>14 DEF ResolutionSend, SinkKeeps, sinkVars
<1>15. CASE ResolutionPoll
  BY <1>15 DEF ResolutionPoll, SinkKeeps, sinkVars
<1>16. CASE ResolutionCheck
  BY <1>16 DEF ResolutionCheck, SinkKeeps, Drop, Return, sinkVars
<1>17. CASE Convert
  BY <1>17 DEF Convert, SinkKeeps, Drop, Return, sinkVars
<1>18. CASE Copied
  BY <1>18 DEF Copied, SinkKeeps, Drop, Return, sinkVars
<1>19. CASE Capacity
  BY <1>19 DEF Capacity, SinkKeeps, AdmitOrFlush, Drop, Enqueue, Return, sinkVars
<1>20. CASE CapacityWake
  BY <1>20 DEF CapacityWake, sinkVars
<1>21. CASE CapacityRelock
  BY <1>21 DEF CapacityRelock, SinkKeeps, AdmitOrFlush, Drop, Enqueue, Return, sinkVars
<1>22. CASE \E reason \in {"eos", "caps", "flush"} : SinkReset(reason)
  BY <1>22 DEF SinkReset, Publish, sinkVars
<1>23. CASE SinkResetStep
  BY <1>23
     DEF SinkResetStep, ResetStep, TakeMutex, StopTask, JoinTask, Relock, DrainReset, StopFlags,
         sinkVars
<1>24. CASE SinkResetDone
  BY <1>24 DEF SinkResetDone, sinkVars
<1>25. CASE SinkFlushDone
  BY <1>25 DEF SinkFlushDone, sinkVars
<1>26. CASE FlushStart
  BY <1>26 DEF FlushStart, sinkVars
<1>27. CASE SetResolution
  BY <1>27 DEF SetResolution, sinkVars
<1>28. CASE Teardown
  BY <1>28 DEF Teardown, Publish, sinkVars
<1>29. CASE AppResetStep
  BY <1>29
     DEF AppResetStep, ResetStep, TakeMutex, StopTask, JoinTask, Relock, DrainReset, StopFlags,
         sinkVars
<1>30. CASE AppResetDone
  BY <1>30 DEF AppResetDone, sinkVars
<1>31. CASE DeactivateSrc
  BY <1>31 DEF DeactivateSrc, sinkVars
<1>32. CASE DeactivateSink
  BY <1>32 DEF DeactivateSink, sinkVars
<1>33. CASE Stop
  BY <1>33 DEF Stop, Publish, LockInv, SinkOwns, HandlePcs, ThreadInv, sinkVars
<1>34. CASE StopDone
  BY <1>34 DEF StopDone, sinkVars
<1>35. CASE Start
  BY <1>35 DEF Start, sinkVars
<1>36. CASE UNCHANGED vars
  BY <1>36 DEF vars, sinkVars
<1> QED
  BY <1>1, <1>2, <1>3, <1>4, <1>5, <1>6, <1>7, <1>8, <1>9, <1>10, <1>11, <1>12,
     <1>13, <1>14, <1>15, <1>16, <1>17, <1>18, <1>19, <1>20, <1>21, <1>22, <1>23, <1>24,
     <1>25, <1>26, <1>27, <1>28, <1>29, <1>30, <1>31, <1>32, <1>33, <1>34, <1>35, <1>36
     DEF Next, Step, AtRest, TaskStep, SinkStep, HandleFrameStep, AppStep

\* Every state of the encoder satisfies ResetInv.
LEMMA ResetsHold == Spec => [](IndInv /\ ResetInv)
<1>1. Init => IndInv /\ ResetInv
  BY InitInv, ConstantsAssumption DEF Init, ResetInv, Early, ResetPcs
<1>2. IndInv /\ ResetInv /\ [Next]_vars => (IndInv /\ ResetInv)'
  BY InvStep, ResetInvStep, ConstantsAssumption DEF IndInv, TypeOK
<1> QED BY <1>1, <1>2, PTL DEF Spec

\* What a step appends to the log while no teardown is under way was not flushed.
NewFlushed == \E i \in (Len(log) + 1)..Len(log') : log'[i].kind = "flushed"

\* One record more, of another kind, is no flushed frame.
LEMMA AppendNotFlushed ==
  ASSUME log \in Seq(EndedRecord), NEW e, e.kind # "flushed", log' = Append(log, e)
  PROVE  ~NewFlushed
<1> DEFINE R == EndedRecord \cup {e}
<1>1. log \in Seq(R) /\ e \in R
  BY SeqMonotonic
<1> HIDE DEF R
<1>2. Len(log') = Len(log) + 1 /\ log'[Len(log) + 1] = e /\ Len(log) \in Nat
  BY <1>1, AppendProperties, LenProperties
<1>3. \A i \in (Len(log) + 1)..(Len(log) + 1) : i = Len(log) + 1
  BY <1>2
<1> QED BY <1>2, <1>3 DEF NewFlushed

\* Nor are several, finished at once for another reason.
LEMMA EndFirstNotFlushed ==
  ASSUME FrameTypeOK, NEW n \in 0..Len(list), NEW kind \in Kinds \ {"flushed"},
         EndFirst(n, kind)
  PROVE  ~NewFlushed
<1> DEFINE e == [i \in 1..n |-> Ended(list[i], kind, list[i])]
<1>1. n \in Nat /\ Len(list) \in Nat /\ \A i \in 1..n : i \in 1..Len(list)
  BY LenProperties DEF FrameTypeOK
<1>2. \A i \in 1..n : e[i] \in EndedRecord /\ e[i].kind = kind
  BY <1>1, ElementOfSeq DEF FrameTypeOK, Ended, EndedRecord
<1>3. e \in [1..n -> EndedRecord]
  BY <1>2
<1>4. e \in Seq(EndedRecord) /\ Len(e) = n
  BY <1>1, <1>3, SeqDef, LenProperties
<1>5. log' = log \o e
  BY DEF EndFirst
<1> HIDE DEF e
<1>6. /\ Len(log') = Len(log) + n /\ Len(log) \in Nat
      /\ \A i \in 1..(Len(log) + n) :
           log'[i] = IF i <= Len(log) THEN log[i] ELSE e[i - Len(log)]
  BY <1>4, <1>5, ConcatProperties, LenProperties DEF FrameTypeOK
<1>7. ASSUME NEW i \in (Len(log) + 1)..(Len(log) + n)
      PROVE  log'[i].kind # "flushed"
  <2>1. i - Len(log) \in 1..n /\ i \in 1..(Len(log) + n) /\ ~(i <= Len(log))
    BY <1>1, <1>6, <1>7
  <2> QED BY <1>2, <1>6, <2>1
<1> QED BY <1>6, <1>7 DEF NewFlushed

\* A call into MPP flushes a frame only while flushing without draining.
LEMMA MppCallFlushes ==
  ASSUME TypeOK, MppCall, NewFlushed
  PROVE  flushing /\ ~draining
<1>1. FrameTypeOK /\ log \in Seq(EndedRecord) /\ Len(log) \in Nat
  BY LenProperties DEF TypeOK, FrameTypeOK
<1>u. UNCHANGED log => ~NewFlushed
  BY <1>1 DEF NewFlushed
<1>2. CASE PollPacket
  <2>1. CASE \E kind \in {"empty", "coded"} :
               log' = Append(log, Ended(Head(list), kind, Head(mpp)))
    <3>1. PICK kind \in {"empty", "coded"} :
            log' = Append(log, Ended(Head(list), kind, Head(mpp)))
      BY <2>1
    <3> DEFINE e == Ended(Head(list), kind, Head(mpp))
    <3>2. e.kind # "flushed"
      BY DEF Ended
    <3> QED BY <1>1, <3>1, <3>2, AppendNotFlushed
  <2> QED BY <1>2, <1>u, <2>1 DEF PollPacket
<1>3. CASE DiscardSubmitted
  <2>1. Len(list) \in Nat /\ Len(queue) \in Nat /\ pending \in Int
    BY LenProperties DEF TypeOK, FrameTypeOK
  <2> DEFINE submitted == pending - Len(queue)
             n == IF submitted < 0 THEN 0
                  ELSE IF submitted < Len(list) THEN submitted ELSE Len(list)
  <2>2. n \in 0..Len(list)
    BY <2>1
  <2>3. EndFirst(n, "restart")
    BY <1>3 DEF DiscardSubmitted
  <2> HIDE DEF n
  <2> QED BY <1>1, <2>2, <2>3, EndFirstNotFlushed DEF Kinds
<1>4. CASE RuntimeError
  BY <1>3, <1>4, <1>u DEF RuntimeError, RestartContext
<1> QED
  BY <1>2, <1>4, <1>u DEF MppCall, SendFrame, SendNothing, SendFault, PollNothing,
     PollFault, frameVars

\* Outside a teardown every step, and every way it moves the frames, flushes none.
LEMMA FlushesByStep ==
  ASSUME IndInv, ResetInv, [Next]_vars, NewFlushed
  PROVE  appPc # "idle"
<1>1. FrameTypeOK /\ log \in Seq(EndedRecord) /\ Len(log) \in Nat /\ Len(list) \in Nat
      /\ TypeOK /\ ThreadInv
  BY LenProperties DEF IndInv, TypeOK, FrameTypeOK
<1>u. UNCHANGED log => ~NewFlushed
  BY <1>1 DEF NewFlushed
<1>2. CASE MppMoves
  BY <1>1, <1>2, MppCallFlushes DEF MppMoves, ResetInv
<1>3. CASE \E kind \in Kinds : Leaves(kind)
  <2>1. PICK kind \in Kinds : Leaves(kind)
    BY <1>3
  <2> DEFINE e == Ended(cur, kind, cur)
  <2>2. log' = Append(log, e) /\ e.kind = kind
    BY <2>1 DEF Leaves, EndCur, Ended
  <2> HIDE DEF e
  <2>3. kind = "flushed"
    BY <1>1, <2>2, AppendNotFlushed
  <2> QED BY <2>1, <2>3 DEF Leaves, ResetInv, Early, ResetPcs, HandlePcs
<1>4. CASE Clears
  <2>1. Len(list) \in 0..Len(list) /\ "cleared" \in Kinds \ {"flushed"}
    BY <1>1 DEF Kinds
  <2> QED BY <1>1, <1>4, <2>1, EndFirstNotFlushed DEF Clears
<1> QED
  BY <1>1, <1>2, <1>3, <1>4, <1>u, FramesMove
     DEF FrameMoves, StayPut, Arrives, Joins, Forgets

\* Packets are thrown away as flushed only under a teardown, with any number of
\* resets, overlapping the teardown or not.
THEOREM OnlyTeardownFlushes == Spec => FlushedInTeardown
<1> DEFINE F == \A i \in (Len(log) + 1)..Len(log') :
                  log'[i].kind = "flushed" => appPc # "idle"
<1>1. (IndInv /\ ResetInv) /\ [Next]_vars => [F]_vars
  BY FlushesByStep DEF NewFlushed
<1> QED BY <1>1, ResetsHold, PTL DEF Spec, FlushedInTeardown

\* Unless resets overlap it, no frame is accepted once a teardown has begun.
THEOREM TeardownAdmitsNone ==
  ASSUME ~OverlapResets
  PROVE  Spec => LateFramesRefused
<1> DEFINE L == Len(queue') > Len(queue) => appPc = "idle"
<1>1. ASSUME IndInv, ResetInv, [Next]_vars
      PROVE  L
  <2>1. Len(queue) \in Nat /\ queue \in Seq(FrameIds) /\ Len(<<>>) = 0 /\ TypeOK /\ ThreadInv
    BY <1>1, LenProperties, EmptySeq DEF IndInv, TypeOK, FrameTypeOK
  <2>2. CASE MppMoves
    <3>1. CASE queue # <<>> /\ queue' = Tail(queue)
      BY <2>1, <3>1, HeadTailProperties
    <3> QED
      BY <2>1, <2>2, <3>1 DEF MppMoves, MppCall, SendFrame, HeadListed, SendNothing, SendFault,
         PollPacket, PollNothing, PollFault, RuntimeError, frameVars
  <2>3. CASE Joins
    BY <1>1, <2>3 DEF Joins, ResetInv
  <2> QED
    BY <1>1, <2>1, <2>2, <2>3, FramesMove
       DEF FrameMoves, StayPut, Arrives, Leaves, Forgets, Clears
<1>2. (IndInv /\ ResetInv) /\ [Next]_vars => [L]_vars
  BY <1>1
<1> QED BY <1>2, ResetsHold, PTL DEF Spec, LateFramesRefused

\* handle_frame goes on to convert a frame at once, or from the end of a drain.
LEMMA ConvertEntered ==
  ASSUME ControlTypeOK, [Next]_vars, sinkPc # "convert", sinkPc' = "convert"
  PROVE  \/ /\ sinkPc = "locked" /\ UNCHANGED <<cur, frameVars>>
            /\ resDirty => FullyDrained
         \/ sinkPc = "rescheck" /\ FullyDrained /\ UNCHANGED <<cur, frameVars>>
<1> USE DEF ControlTypeOK, ResetPcs
<1>1. CASE HwComplete
  BY <1>1 DEF HwComplete, sinkVars
<1>2. CASE TaskEnter
  BY <1>2 DEF TaskEnter, sinkVars
<1>3. CASE TaskWake
  BY <1>3 DEF TaskWake, sinkVars
<1>4. CASE TaskLock
  BY <1>4 DEF TaskLock, sinkVars
<1>5. CASE TaskSend
  BY <1>5 DEF TaskSend, TaskKeeps, sinkVars
<1>6. CASE TaskPoll
  BY <1>6 DEF TaskPoll, TaskKeeps, sinkVars
<1>7. CASE TaskKernelFaults
  BY <1>7 DEF TaskKernelFaults, TaskKeeps, sinkVars
<1>8. CASE TaskDrain
  BY <1>8 DEF TaskDrain, TaskKeeps, sinkVars
<1>9. CASE TaskLeave
  BY <1>9 DEF TaskLeave, sinkVars
<1>10. CASE Chain
  BY <1>10 DEF Chain, sinkVars
<1>11. CASE ChainRefused
  BY <1>11 DEF ChainRefused, sinkVars
<1>12. CASE SinkTakesMutex
  BY <1>12 DEF SinkTakesMutex, sinkVars
<1>13. CASE Admit
  BY <1>13 DEF Admit, SinkKeeps, Drop, Return, sinkVars
<1>14. CASE ResolutionSend
  BY <1>14 DEF ResolutionSend, sinkVars
<1>15. CASE ResolutionPoll
  BY <1>15 DEF ResolutionPoll, sinkVars
<1>16. CASE ResolutionCheck
  BY <1>16 DEF ResolutionCheck, SinkKeeps, Drop, Return, sinkVars
<1>17. CASE Convert
  BY <1>17 DEF Convert, SinkKeeps, Drop, Return, sinkVars
<1>18. CASE Copied
  BY <1>18 DEF Copied, SinkKeeps, Drop, Return, sinkVars
<1>19. CASE Capacity
  BY <1>19 DEF Capacity, AdmitOrFlush, Drop, Enqueue, Return, sinkVars
<1>20. CASE CapacityWake
  BY <1>20 DEF CapacityWake, sinkVars
<1>21. CASE CapacityRelock
  BY <1>21 DEF CapacityRelock, AdmitOrFlush, Drop, Enqueue, Return, sinkVars
<1>22. CASE \E reason \in {"eos", "caps", "flush"} : SinkReset(reason)
  BY <1>22 DEF SinkReset, sinkVars
<1>23. CASE SinkResetStep
  BY <1>23 DEF SinkResetStep, ResetStep, TakeMutex, StopTask, JoinTask, Relock, DrainReset, sinkVars
<1>24. CASE SinkResetDone
  BY <1>24 DEF SinkResetDone, sinkVars
<1>25. CASE SinkFlushDone
  BY <1>25 DEF SinkFlushDone, sinkVars
<1>26. CASE FlushStart
  BY <1>26 DEF FlushStart, sinkVars
<1>27. CASE SetResolution
  BY <1>27 DEF SetResolution, sinkVars
<1>28. CASE Teardown
  BY <1>28 DEF Teardown, sinkVars
<1>29. CASE AppResetStep
  BY <1>29 DEF AppResetStep, sinkVars
<1>30. CASE AppResetDone
  BY <1>30 DEF AppResetDone, sinkVars
<1>31. CASE DeactivateSrc
  BY <1>31 DEF DeactivateSrc, sinkVars
<1>32. CASE DeactivateSink
  BY <1>32 DEF DeactivateSink, sinkVars
<1>33. CASE Stop
  BY <1>33 DEF Stop, sinkVars
<1>34. CASE StopDone
  BY <1>34 DEF StopDone, sinkVars
<1>35. CASE Start
  BY <1>35 DEF Start, sinkVars
<1>36. CASE UNCHANGED vars
  BY <1>36 DEF vars, sinkVars
<1> QED
  BY <1>1, <1>2, <1>3, <1>4, <1>5, <1>6, <1>7, <1>8, <1>9, <1>10, <1>11, <1>12,
     <1>13, <1>14, <1>15, <1>16, <1>17, <1>18, <1>19, <1>20, <1>21, <1>22, <1>23, <1>24,
     <1>25, <1>26, <1>27, <1>28, <1>29, <1>30, <1>31, <1>32, <1>33, <1>34, <1>35, <1>36
     DEF Next, Step, AtRest, TaskStep, SinkStep, HandleFrameStep, AppStep

\* When the template is changed for a new resolution, or a frame goes on after the
\* drain that precedes the change, that frame is the only one there is: nothing
\* is queued for the old geometry and nothing is inside MPP.
THEOREM DrainPrecedesReconfigure == Spec => DrainedBeforeReconfigure
<1>1. ASSUME IndInv, [Next]_vars, sinkPc # "convert", sinkPc' = "convert",
             resDirty \/ sinkPc = "rescheck", ~desync
      PROVE  list = <<cur>>
  <2>1. queue = <<>> /\ pending = 0 /\ sinkPc \in {"locked", "rescheck"}
    BY <1>1, ConvertEntered DEF FullyDrained, IndInv, TypeOK
  <2>2. cur # 0 /\ cur \in FrameIds
    BY <1>1, <2>1 DEF IndInv, ThreadInv, HandlePcs, TypeOK, ControlTypeOK, FrameIds
  <2>3. list = mpp \o (queue \o Current) /\ Count /\ mpp \in Seq(FrameIds)
    BY <1>1, AgreeNow DEF IndInv, TypeOK, FrameTypeOK
  <2>4. mpp = <<>>
    BY <2>1, <2>3, EmptySeq, LenProperties DEF Count
  <2>5. /\ <<cur>> \in Seq(FrameIds) /\ Current = <<cur>>
        /\ <<>> \o <<cur>> = <<cur>>
    BY <2>2, ConcatEmptySeq DEF Current
  <2> QED BY <2>1, <2>3, <2>4, <2>5
<1>2. IndInv /\ [Next]_vars =>
        [(sinkPc # "convert" /\ sinkPc' = "convert" /\ (resDirty \/ sinkPc = "rescheck")
          /\ ~desync)
           => list = <<cur>>]_vars
  BY <1>1
<1> QED BY <1>2, InvariantHolds, PTL DEF Spec, DrainedBeforeReconfigure

-----------------------------------------------------------------------------
(* Conservation of frames, and EOS *)

\* No property change is refused, every job ends within a drain, and resets and
\* the teardown follow each other.
Calm == ~Refusable /\ MppTimely /\ ~OverlapResets

\* The frame handle_frame holds is the newest the base class lists.
LastIsCur == cur # 0 => list # <<>> /\ list[Len(list)] = cur

\* Frames a failed drain left behind are in the base class's list alone, and no
\* frame joins them: the element is on its way down, or upstream has stopped.
LeftBehind ==
  desync => /\ queue = <<>> /\ mpp = <<>> /\ pending = 0
            /\ appPc # "idle" \/ (upstream \in {"stopped", "flushing"} /\ cur = 0)

\* The inductive invariant behind EosComplete.
CalmInv ==
  /\ LeftBehind /\ LastIsCur
  /\ op \in {"eos", "caps"} => upstream \in {"flowing", "flushing"}
  /\ appPc = "ready" => ~desync
  /\ EosComplete

\* What a step does to the flags that CalmInv speaks of.
CalmControl ==
  /\ desync' => \/ desync
                \/ queue' = <<>> /\ mpp' = <<>> /\ pending' = 0 /\ UNCHANGED <<list, cur>>
  /\ desync' => appPc' # "idle" \/ (upstream' \in {"stopped", "flushing"} /\ cur' = 0)
  /\ op' \in {"eos", "caps"} => upstream' \in {"flowing", "flushing"}
  /\ appPc' = "ready" => ~desync'
  /\ upstream' = "eos" => \/ upstream = "eos"
                          \/ /\ ~desync /\ queue = <<>> /\ mpp = <<>> /\ cur = 0
                             /\ UNCHANGED list

\* Each step does this to them.
LEMMA CalmControlStep ==
  ASSUME ConstantsAssumption, Calm, IndInv, ResetInv, CalmInv, [Next]_vars
  PROVE  CalmControl
<1> USE DEF CalmInv, Calm
<1>t. ControlTypeOK /\ LockInv /\ ThreadInv /\ desync \in BOOLEAN
  BY DEF IndInv, TypeOK, FrameTypeOK
<1>q. UNCHANGED <<desync, upstream, appPc, op, cur>> => CalmControl
  BY DEF CalmControl, LeftBehind
<1>m. MppCall => UNCHANGED desync
  BY DEF MppCall, SendFrame, SendNothing, SendFault, PollPacket, PollNothing,
     PollFault, frameVars
\* The ways out of handle_frame stop an upstream that flowed, if any.
<1>r. ASSUME NEW flow, Return(flow), sinkPc \in HandlePcs, UNCHANGED <<desync, appPc>>
      PROVE  CalmControl
  <2>1. /\ UNCHANGED op /\ op = "none" /\ cur' = 0
        /\ upstream' = upstream \/ (upstream = "flowing" /\ upstream' = "stopped")
    BY <1>r DEF Return, ResetInv, HandlePcs, ResetPcs
  <2> QED BY <1>r, <2>1 DEF CalmControl, LeftBehind
<1>d. ASSUME NEW kind, NEW flow, Drop(kind, flow), sinkPc \in HandlePcs, UNCHANGED appPc
      PROVE  CalmControl
  BY <1>d, <1>r DEF Drop
<1>a. ASSUME AdmitOrFlush, sinkPc \in HandlePcs, UNCHANGED appPc
      PROVE  CalmControl
  BY <1>a, <1>r, <1>d DEF AdmitOrFlush, Enqueue
<1>1. CASE HwComplete
  BY <1>1, <1>q DEF HwComplete, sinkVars
<1>2. CASE TaskEnter
  BY <1>2, <1>q DEF TaskEnter, frameVars, sinkVars
<1>3. CASE TaskWake
  BY <1>3, <1>q DEF TaskWake, frameVars, sinkVars
<1>4. CASE TaskLock
  BY <1>4, <1>q DEF TaskLock, frameVars, sinkVars
<1>5. CASE TaskSend
  BY <1>5, <1>q, <1>m DEF TaskSend, MppCall, TaskKeeps, frameVars, sinkVars
<1>6. CASE TaskPoll
  BY <1>6, <1>q, <1>m DEF TaskPoll, MppCall, TaskKeeps, frameVars, sinkVars
<1>7. CASE TaskKernelFaults
  BY <1>7, <1>q, <1>m DEF TaskKernelFaults, MppCall, TaskKeeps, frameVars, sinkVars
<1>8. CASE TaskDrain
  BY <1>8, <1>q, <1>m DEF TaskDrain, MppCall, TaskKeeps, frameVars, sinkVars
<1>9. CASE TaskLeave
  BY <1>9, <1>q DEF TaskLeave, frameVars, sinkVars
<1>10. CASE Chain
  BY <1>10, <1>t DEF Chain, CalmControl, LeftBehind, ResetInv, ResetPcs
<1>11. CASE ChainRefused
  BY <1>11 DEF ChainRefused
<1>12. CASE SinkTakesMutex
  BY <1>12, <1>q DEF SinkTakesMutex, frameVars, sinkVars
<1>13. CASE Admit
  <2>1. CASE Drop("flushed", "FLUSHING")
    BY <1>13, <2>1, <1>d DEF Admit, SinkKeeps, HandlePcs
  <2>2. CASE UNCHANGED <<frameVars, cur, op, upstream>>
    BY <1>13, <2>2, <1>q DEF Admit, SinkKeeps, frameVars
  <2> QED BY <1>13, <2>1, <2>2 DEF Admit
<1>14. CASE ResolutionSend
  BY <1>14, <1>q, <1>m DEF ResolutionSend, MppCall, SinkKeeps
<1>15. CASE ResolutionPoll
  BY <1>15, <1>q, <1>m DEF ResolutionPoll, MppCall, SinkKeeps
<1>16. CASE ResolutionCheck
  <2>1. CASE Drop("refused", "ERROR")
    BY <1>16, <2>1, <1>d DEF ResolutionCheck, SinkKeeps, HandlePcs
  <2>2. CASE UNCHANGED <<frameVars, cur, op, upstream>>
    BY <1>16, <2>2, <1>q DEF ResolutionCheck, SinkKeeps, frameVars
  <2> QED BY <1>16, <2>1, <2>2 DEF ResolutionCheck
<1>17. CASE Convert
  <2>1. CASE Drop("refused", "ERROR")
    BY <1>17, <2>1, <1>d DEF Convert, SinkKeeps, HandlePcs
  <2>2. CASE UNCHANGED <<frameVars, cur, op, upstream>>
    BY <1>17, <2>2, <1>q DEF Convert, SinkKeeps, frameVars
  <2> QED BY <1>17, <2>1, <2>2 DEF Convert
<1>18. CASE Copied
  <2>1. CASE Drop("refused", "ERROR")
    BY <1>18, <2>1, <1>d DEF Copied, SinkKeeps, HandlePcs
  <2>2. CASE UNCHANGED <<frameVars, cur, op, upstream>>
    BY <1>18, <2>2, <1>q DEF Copied, SinkKeeps, frameVars
  <2> QED BY <1>18, <2>1, <2>2 DEF Copied
<1>19. CASE Capacity
  <2>1. CASE AdmitOrFlush
    BY <1>19, <2>1, <1>a DEF Capacity, SinkKeeps, HandlePcs
  <2>2. CASE UNCHANGED <<frameVars, cur, op, upstream>>
    BY <1>19, <2>2, <1>q DEF Capacity, SinkKeeps, frameVars
  <2> QED BY <1>19, <2>1, <2>2 DEF Capacity
<1>20. CASE CapacityWake
  BY <1>20, <1>q DEF CapacityWake, frameVars, sinkVars
<1>21. CASE CapacityRelock
  BY <1>21, <1>a DEF CapacityRelock, SinkKeeps, HandlePcs
<1>22. CASE \E reason \in {"eos", "caps", "flush"} : SinkReset(reason)
  BY <1>22 DEF SinkReset, Publish, frameVars, CalmControl, LeftBehind
<1>23. CASE SinkResetStep
  <2>1. UNCHANGED desync
    <3>1. CASE DrainReset(sinkPc, sinkPc')
      BY <1>23, <3>1, <1>m DEF DrainReset, MppCall
    <3>2. CASE StopTask("sink", FALSE, sinkPc, sinkPc')
      BY <1>23, <3>2, <1>t DEF StopTask, ResetInv, Early, ResetPcs
    <3> QED
      BY <1>23, <3>1, <3>2 DEF SinkResetStep, ResetStep, TakeMutex, JoinTask, Relock, frameVars
  <2> QED BY <1>23, <1>q, <2>1 DEF SinkResetStep, sinkVars
<1>24. CASE SinkResetDone
  <2>1. /\ mpp = <<>> /\ UNCHANGED <<mpp, list, cur, appPc>> /\ queue' = <<>> /\ pending' = 0
        /\ op \in {"eos", "caps"} /\ op' = "none" /\ cur = 0
    BY <1>24, <1>t DEF SinkResetDone, NoProgress, Forget, ControlTypeOK, ResetInv, ResetPcs,
       ThreadInv, HandlePcs, sinkVars
  <2>2. appPc = "idle" /\ upstream \in {"flowing", "flushing"}
    BY <2>1 DEF ResetInv
  <2>3. ~desync => ~desync' \/ queue # <<>>
    BY <1>24, <2>1 DEF SinkResetDone, Forget
  <2>4. CASE upstream = "flushing"
    BY <1>24, <2>1, <2>2, <2>4 DEF SinkResetDone, CalmControl
  <2>5. CASE upstream = "flowing"
    <3>1. ~desync
      BY <2>2, <2>5 DEF LeftBehind
    <3>2. queue # <<>> => upstream' = "stopped"
      BY <1>24, <2>5 DEF SinkResetDone, FullyDrained
    <3>3. upstream' = "eos" => queue = <<>>
      BY <1>24, <3>2
    <3> QED BY <2>1, <2>2, <2>3, <3>1, <3>2, <3>3 DEF CalmControl
  <2> QED BY <2>2, <2>4, <2>5
<1>25. CASE SinkFlushDone
  <2>1. ~desync' /\ op' = "none" /\ upstream' \in {"off", "flowing"}
    BY <1>25 DEF SinkFlushDone, NoProgress
  <2> QED BY <2>1 DEF CalmControl
<1>26. CASE FlushStart
  BY <1>26 DEF FlushStart, frameVars, CalmControl, LeftBehind
<1>27. CASE SetResolution
  BY <1>27, <1>q DEF SetResolution, frameVars, sinkVars
<1>28. CASE Teardown
  BY <1>28 DEF Teardown, Publish, frameVars, sinkVars, CalmControl, LeftBehind
<1>29. CASE AppResetStep
  <2>1. UNCHANGED desync
    <3>1. CASE DrainReset(appPc, appPc')
      BY <1>29, <3>1, <1>m DEF DrainReset, MppCall
    <3>2. CASE StopTask("app", TRUE, appPc, appPc')
      BY <1>29, <3>2, <1>t DEF StopTask, ResetInv, Early, ResetPcs
    <3> QED
      BY <1>29, <3>1, <3>2 DEF AppResetStep, ResetStep, TakeMutex, JoinTask, Relock, frameVars
  <2>2. appPc' \notin {"idle", "ready"}
    BY <1>29, <1>t DEF AppResetStep, ResetStep, TakeMutex, StopTask, JoinTask, Relock, DrainReset,
       ControlTypeOK, ResetPcs
  <2> QED BY <1>29, <2>1, <2>2 DEF AppResetStep, sinkVars, CalmControl, LeftBehind
<1>30. CASE AppResetDone
  <2>1. /\ mpp = <<>> /\ UNCHANGED <<mpp, list, cur, upstream, op>> /\ queue' = <<>>
        /\ pending' = 0 /\ appPc' = "reset"
    BY <1>30 DEF AppResetDone, NoProgress, Forget, sinkVars
  <2> QED BY <2>1 DEF CalmControl
<1>31. CASE DeactivateSrc
  BY <1>31 DEF DeactivateSrc, frameVars, CalmControl, LeftBehind
<1>32. CASE DeactivateSink
  BY <1>32 DEF DeactivateSink, frameVars, CalmControl, LeftBehind, ResetInv
<1>33. CASE Stop
  BY <1>33 DEF Stop, Publish, frameVars, sinkVars, CalmControl, LeftBehind
<1>34. CASE StopDone
  <2>1. ~desync' /\ UNCHANGED <<op, upstream>>
    BY <1>34 DEF StopDone, sinkVars
  <2> QED BY <2>1 DEF CalmControl
<1>35. CASE Start
  <2>1. ~desync' /\ UNCHANGED op /\ upstream' = "flowing"
    BY <1>35 DEF Start
  <2> QED BY <2>1 DEF CalmControl
<1>36. CASE UNCHANGED vars
  BY <1>36, <1>q DEF vars, frameVars, sinkVars
<1> QED
  BY <1>1, <1>2, <1>3, <1>4, <1>5, <1>6, <1>7, <1>8, <1>9, <1>10, <1>11, <1>12,
     <1>13, <1>14, <1>15, <1>16, <1>17, <1>18, <1>19, <1>20, <1>21, <1>22, <1>23, <1>24,
     <1>25, <1>26, <1>27, <1>28, <1>29, <1>30, <1>31, <1>32, <1>33, <1>34, <1>35, <1>36
     DEF Next, Step, AtRest, TaskStep, SinkStep, HandleFrameStep, AppStep

\* Lists only lose frames to the log: no place is lost and none is added.
Conserved ==
  /\ \A f \in FrameIds : Listed(f) \/ Finished(f) => Listed(f)' \/ Finished(f)'
  /\ Len(list') + Len(log') = Len(list) + Len(log)

\* Finishing the first frames conserves them, and the last one stays the last.
LEMMA EndFirstConserves ==
  ASSUME FrameTypeOK, NEW n \in 0..Len(list), NEW kind \in Kinds, EndFirst(n, kind)
  PROVE  /\ Conserved
         /\ list' # <<>> => list # <<>> /\ list'[Len(list')] = list[Len(list)]
         /\ n = 0 => Len(list') = Len(list)
<1> DEFINE e == [i \in 1..n |-> Ended(list[i], kind, list[i])]
<1>1. n \in Nat /\ Len(list) \in Nat /\ \A i \in 1..n : i \in 1..Len(list)
  BY LenProperties DEF FrameTypeOK
<1>2. \A i \in 1..n : e[i] \in EndedRecord /\ e[i].frame = list[i]
  BY <1>1, ElementOfSeq DEF FrameTypeOK, Ended, EndedRecord
<1>3. e \in [1..n -> EndedRecord]
  BY <1>2
<1>4. e \in Seq(EndedRecord) /\ Len(e) = n
  BY <1>1, <1>3, SeqDef, LenProperties
<1>5. log' = log \o e /\ list' = SubSeq(list, n + 1, Len(list))
  BY DEF EndFirst
<1> HIDE DEF e
<1>6. /\ Len(log') = Len(log) + n /\ Len(log) \in Nat
      /\ \A i \in 1..(Len(log) + n) :
           log'[i] = IF i <= Len(log) THEN log[i] ELSE e[i - Len(log)]
  BY <1>4, <1>5, ConcatProperties, LenProperties DEF FrameTypeOK
<1>7. /\ list' \in Seq(FrameIds) /\ Len(list') = Len(list) - n
      /\ \A i \in 1..(Len(list) - n) : list'[i] = list[n + i]
  BY <1>5, SuffixType DEF FrameTypeOK
<1>8. ASSUME NEW f \in FrameIds, Finished(f)
      PROVE  Finished(f)'
  <2>1. PICK i \in 1..Len(log) : log[i].frame = f
    BY <1>8 DEF Finished
  <2>2. i \in 1..Len(log') /\ log'[i] = log[i]
    BY <1>1, <1>6
  <2> QED BY <2>1, <2>2 DEF Finished
<1>9. ASSUME NEW f \in FrameIds, Listed(f)
      PROVE  Listed(f)' \/ Finished(f)'
  <2>1. PICK i \in 1..Len(list) : list[i] = f
    BY <1>9 DEF Listed
  <2>2. CASE i <= n
    <3>1. /\ Len(log) + i \in 1..Len(log') /\ ~(Len(log) + i <= Len(log)) /\ i \in 1..n
          /\ Len(log) + i - Len(log) = i
      BY <1>1, <1>6, <2>2
    <3>2. log'[Len(log) + i].frame = f
      BY <1>2, <1>6, <2>1, <3>1
    <3> QED BY <3>1, <3>2 DEF Finished
  <2>3. CASE ~(i <= n)
    <3>1. i - n \in 1..(Len(list) - n) /\ n + (i - n) = i
      BY <1>1, <2>3
    <3>2. list'[i - n] = f /\ i - n \in 1..Len(list')
      BY <1>7, <2>1, <3>1
    <3> QED BY <3>2 DEF Listed
  <2> QED BY <2>2, <2>3
<1>10. ASSUME list' # <<>>
       PROVE  list # <<>> /\ list'[Len(list')] = list[Len(list)]
  <2>1. Len(list') # 0 /\ Len(list') \in Nat
    BY <1>7, <1>10, EmptySeq, LenProperties
  <2>2. Len(list) - n \in 1..(Len(list) - n) /\ n + (Len(list) - n) = Len(list) /\ Len(list) # 0
    BY <1>1, <1>7, <2>1
  <2> QED BY <1>7, <2>2, EmptySeq
<1>11. Len(list') + Len(log') = Len(list) + Len(log)
  BY <1>1, <1>6, <1>7
<1> QED BY <1>1, <1>7, <1>8, <1>9, <1>10, <1>11 DEF Conserved

\* So does finishing one frame at either end of the list.
LEMMA FinishConserves ==
  ASSUME FrameTypeOK, list # <<>>, NEW r \in EndedRecord, log' = Append(log, r),
         \/ list' = Tail(list) /\ r.frame = Head(list)
         \/ list' = SubSeq(list, 1, Len(list) - 1) /\ r.frame = list[Len(list)]
  PROVE  Conserved
<1>1. /\ Len(list) \in Nat \ {0} /\ Len(log) \in Nat /\ Len(log') = Len(log) + 1
      /\ log'[Len(log) + 1] = r /\ \A i \in 1..Len(log) : log'[i] = log[i]
  BY LenProperties, EmptySeq, AppendProperties DEF FrameTypeOK
<1>2. ASSUME NEW f \in FrameIds, Finished(f)
      PROVE  Finished(f)'
  <2>1. PICK i \in 1..Len(log) : log[i].frame = f
    BY <1>2 DEF Finished
  <2>2. i \in 1..Len(log') /\ log'[i] = log[i]
    BY <1>1
  <2> QED BY <2>1, <2>2 DEF Finished
<1>3. ASSUME NEW f \in FrameIds, f = r.frame
      PROVE  Finished(f)'
  <2>1. Len(log) + 1 \in 1..Len(log')
    BY <1>1
  <2> QED BY <1>1, <1>3, <2>1 DEF Finished
<1>4. CASE list' = Tail(list) /\ r.frame = Head(list)
  <2>1. /\ Len(list') = Len(list) - 1 /\ Head(list) = list[1]
        /\ \A i \in 1..Len(list') : list'[i] = list[i + 1]
    BY <1>4, HeadTailProperties DEF FrameTypeOK
  <2>2. ASSUME NEW f \in FrameIds, Listed(f), f # r.frame
        PROVE  Listed(f)'
    <3>1. PICK i \in 1..Len(list) : list[i] = f
      BY <2>2 DEF Listed
    <3>2. i # 1
      BY <1>4, <2>1, <2>2, <3>1
    <3>3. i - 1 \in 1..Len(list') /\ (i - 1) + 1 = i
      BY <1>1, <2>1, <3>2
    <3> QED BY <2>1, <3>1, <3>3 DEF Listed
  <2>3. Len(list') + Len(log') = Len(list) + Len(log)
    BY <1>1, <2>1
  <2> QED BY <1>2, <1>3, <2>2, <2>3 DEF Conserved
<1>5. CASE list' = SubSeq(list, 1, Len(list) - 1) /\ r.frame = list[Len(list)]
  <2>1. /\ Len(list') = Len(list) - 1
        /\ \A i \in 1..(Len(list) - 1) : list'[i] = list[i]
    BY <1>5, FrontType DEF FrameTypeOK
  <2>2. ASSUME NEW f \in FrameIds, Listed(f), f # r.frame
        PROVE  Listed(f)'
    <3>1. PICK i \in 1..Len(list) : list[i] = f
      BY <2>2 DEF Listed
    <3>2. i # Len(list)
      BY <1>5, <2>2, <3>1
    <3>3. i \in 1..(Len(list) - 1) /\ i \in 1..Len(list')
      BY <1>1, <2>1, <3>2
    <3> QED BY <2>1, <3>1, <3>3 DEF Listed
  <2>3. Len(list') + Len(log') = Len(list) + Len(log)
    BY <1>1, <2>1
  <2> QED BY <1>2, <1>3, <2>2, <2>3 DEF Conserved
<1> QED BY <1>4, <1>5

\* A call into MPP conserves the frames; with none left behind outside the base
\* class's list it does not touch that list either.
LEMMA MppCallConserves ==
  ASSUME TypeOK, MppCall
  PROVE  /\ Conserved
         /\ list = <<>> => list' = <<>>
         /\ (queue = <<>> /\ mpp = <<>> /\ pending = 0) =>
              /\ queue' = <<>> /\ mpp' = <<>> /\ pending' = 0
              /\ Len(list') = Len(list)
              /\ list # <<>> => list' # <<>> /\ list'[Len(list')] = list[Len(list)]
<1>1. /\ mpp \in Seq(FrameIds) /\ queue \in Seq(FrameIds) /\ list \in Seq(FrameIds)
      /\ log \in Seq(EndedRecord) /\ FrameTypeOK /\ pending \in Int /\ ready \in 0..Len(mpp)
      /\ Len(list) \in Nat /\ Len(queue) \in Nat /\ Len(mpp) \in Nat /\ Len(<<>>) = 0
  BY LenProperties, EmptySeq DEF TypeOK, FrameTypeOK
<1>c. UNCHANGED <<list, log>> => Conserved
  BY DEF Conserved, Listed, Finished
<1>2. CASE SendFrame
  BY <1>2, <1>c DEF SendFrame, HeadListed
<1>3. CASE PollPacket
  <2>1. mpp # <<>>
    BY <1>1, <1>3 DEF PollPacket
  <2>2. CASE list = <<>>
    BY <1>3, <1>c, <2>1, <2>2 DEF PollPacket
  <2>3. CASE list # <<>>
    <3>1. PICK kind \in {"flushed", "empty", "coded"} :
            log' = Append(log, Ended(Head(list), kind, Head(mpp)))
      BY <1>3, <2>3 DEF PollPacket
    <3> DEFINE r == Ended(Head(list), kind, Head(mpp))
    <3>2. Head(list) \in FrameIds /\ Head(mpp) \in FrameIds
      BY <1>1, <2>1, <2>3, HeadTailProperties
    <3>3. r \in EndedRecord /\ r.frame = Head(list)
      BY <3>2 DEF Ended, EndedRecord, Kinds
    <3> HIDE DEF r
    <3>4. list' = Tail(list) /\ log' = Append(log, r)
      BY <1>3, <2>3, <3>1 DEF PollPacket, r
    <3>5. Conserved
      BY <1>1, <2>3, <3>3, <3>4, FinishConserves
    <3> QED BY <2>1, <2>3, <3>5
  <2> QED BY <2>2, <2>3
<1>4. CASE DiscardSubmitted /\ mpp' = <<>> /\ UNCHANGED queue
  <2> DEFINE submitted == pending - Len(queue)
             n == IF submitted < 0 THEN 0
                  ELSE IF submitted < Len(list) THEN submitted ELSE Len(list)
  <2>1. n \in 0..Len(list) /\ (queue = <<>> /\ pending = 0 => n = 0)
    BY <1>1
  <2>2. EndFirst(n, "restart") /\ pending' = Len(queue)
    BY <1>4 DEF DiscardSubmitted
  <2> HIDE DEF n
  <2>3. /\ Conserved
        /\ list' # <<>> => list # <<>> /\ list'[Len(list')] = list[Len(list)]
        /\ n = 0 => Len(list') = Len(list)
    BY <1>1, <2>1, <2>2, EndFirstConserves DEF Kinds
  <2>4. list' \in Seq(FrameIds) /\ Len(list') \in Nat
    <3>1. list' \in Seq(FrameIds)
      BY <1>1, <2>1, <2>2, EndFirstType DEF Kinds
    <3> QED BY <3>1, LenProperties
  <2>5. Len(list') # 0 <=> list' # <<>>
    BY <2>4, EmptySeq
  <2>6. Len(list) # 0 <=> list # <<>>
    BY <1>1, EmptySeq
  <2>7. list = <<>> => list' = <<>>
    BY <2>3
  <2>8. ASSUME queue = <<>>, mpp = <<>>, pending = 0
        PROVE  /\ pending' = 0 /\ Len(list') = Len(list)
               /\ list # <<>> => list' # <<>> /\ list'[Len(list')] = list[Len(list)]
    BY <1>1, <2>1, <2>2, <2>3, <2>5, <2>6, <2>8
  <2> QED BY <1>4, <2>3, <2>7, <2>8
<1>5. CASE UNCHANGED <<list, mpp, queue, log, pending>>
  BY <1>5, <1>c
<1>6. CASE RuntimeError /\ UNCHANGED <<queue, desync>>
  BY <1>4, <1>5, <1>6 DEF RuntimeError, RestartContext
<1> QED
  BY <1>2, <1>3, <1>5, <1>6
     DEF MppCall, SendNothing, SendFault, PollNothing, PollFault, frameVars

\* The three lists agree, so the frame in handle_frame comes last.
LEMMA OrderGivesLast ==
  ASSUME IndInv
  PROVE  /\ ~desync => LastIsCur
         /\ (~desync /\ queue = <<>> /\ mpp = <<>> /\ cur = 0) => list = <<>>
<1> SUFFICES ASSUME ~desync
             PROVE  LastIsCur /\ (queue = <<>> /\ mpp = <<>> /\ cur = 0 => list = <<>>)
  OBVIOUS
<1>1. mpp \o queue \in Seq(FrameIds) /\ Current \in Seq(FrameIds)
      /\ list = (mpp \o queue) \o Current /\ cur \in 0..MaxFrames
  BY AgreeNow DEF IndInv, TypeOK, ControlTypeOK, Order
<1>2. LastIsCur
  <2> SUFFICES ASSUME cur # 0 PROVE list # <<>> /\ list[Len(list)] = cur
    BY DEF LastIsCur
  <2>1. cur \in FrameIds /\ Current = <<cur>>
    BY <1>1 DEF FrameIds, Current
  <2> QED BY <1>1, <2>1, AppendedFront
<1>3. <<>> \o <<>> = <<>>
  BY EmptySeq, ConcatEmptySeq
<1> QED BY <1>1, <1>2, <1>3 DEF Current

\* Each step leaves frames behind only where no frame can join them.
LEMMA CalmStep ==
  ASSUME ConstantsAssumption, Calm, IndInv, IndInv', ~desync' => LastIsCur',
         ResetInv, CalmInv, [Next]_vars
  PROVE  CalmInv'
<1>1. CalmControl
  BY CalmControlStep
<1>2. TypeOK /\ ThreadInv /\ FrameTypeOK /\ list \in Seq(FrameIds) /\ next \in 1..(MaxFrames + 1)
  BY DEF IndInv, TypeOK, FrameTypeOK, ControlTypeOK
<1>3. FrameMoves
  BY <1>2, FramesMove
<1>4. ASSUME desync, desync'
      PROVE  queue' = <<>> /\ mpp' = <<>> /\ pending' = 0 /\ LastIsCur'
  <2>1. /\ queue = <<>> /\ mpp = <<>> /\ pending = 0 /\ LastIsCur
        /\ appPc # "idle" \/ (upstream \in {"stopped", "flushing"} /\ cur = 0)
    BY <1>4 DEF CalmInv, LeftBehind
  <2>2. ~Joins
    <3>1. ASSUME Joins PROVE appPc = "idle" /\ cur # 0
      BY <1>2, <3>1 DEF Joins, ResetInv, Calm, ThreadInv
    <3> QED BY <2>1, <3>1
  <2>3. queue' = <<>> /\ mpp' = <<>> /\ pending' = 0 /\ LastIsCur'
    <3>1. CASE StayPut
      BY <2>1, <3>1 DEF StayPut, LastIsCur
    <3>2. CASE MppMoves
      <4>1. /\ queue' = <<>> /\ mpp' = <<>> /\ pending' = 0
            /\ list # <<>> => list' # <<>> /\ list'[Len(list')] = list[Len(list)]
        BY <1>2, <2>1, <3>2, MppCallConserves DEF MppMoves
      <4> QED BY <2>1, <3>2, <4>1 DEF LastIsCur, MppMoves
    <3>3. CASE Arrives
      <4>1. next \in FrameIds
        BY <1>2, <3>3 DEF Arrives, FrameIds, ConstantsAssumption
      <4>2. list' \in Seq(FrameIds) /\ Len(list') = Len(list) + 1 /\ list'[Len(list) + 1] = next
        BY <1>2, <3>3, <4>1, AppendProperties DEF Arrives
      <4>3. Len(list) \in Nat /\ list' # <<>>
        BY <1>2, <4>2, LenProperties, EmptySeq
      <4> QED BY <2>1, <3>3, <4>2, <4>3 DEF Arrives, LastIsCur
    <3>4. CASE \E kind \in Kinds : Leaves(kind)
      BY <2>1, <3>4 DEF Leaves, LastIsCur
    <3>5. CASE Forgets
      BY <2>1, <3>5 DEF Forgets, LastIsCur
    <3>6. CASE Clears
      BY <2>1, <3>6 DEF Clears, LastIsCur
    <3> QED BY <1>3, <2>2, <3>1, <3>2, <3>3, <3>4, <3>5, <3>6 DEF FrameMoves
  <2> QED BY <2>3
<1>5. ASSUME ~desync, desync'
      PROVE  queue' = <<>> /\ mpp' = <<>> /\ pending' = 0 /\ LastIsCur'
  BY <1>1, <1>5 DEF CalmControl, CalmInv, LastIsCur
<1>6. LeftBehind' /\ LastIsCur'
  BY <1>1, <1>4, <1>5 DEF CalmControl, LeftBehind
<1>7. EosComplete'
  <2> SUFFICES ASSUME upstream' = "eos" PROVE list' = <<>>
    BY DEF EosComplete
  <2>1. CASE ~desync /\ queue = <<>> /\ mpp = <<>> /\ cur = 0 /\ UNCHANGED list
    BY <2>1, OrderGivesLast
  <2>2. CASE upstream = "eos"
    <3>1. list = <<>>
      BY <2>2 DEF CalmInv, EosComplete
    <3>2. MppMoves => list' = <<>>
      BY <1>2, <3>1, MppCallConserves DEF MppMoves
    <3>3. Clears => list' = <<>>
      BY <1>2, ClearType DEF Clears
    <3> QED
      BY <1>3, <2>2, <3>1, <3>2, <3>3
         DEF FrameMoves, StayPut, Arrives, Leaves, EndCur, Joins, Forgets
  <2> QED BY <1>1, <2>1, <2>2 DEF CalmControl
<1> QED BY <1>1, <1>6, <1>7 DEF CalmInv, CalmControl

\* Each step finds a place for every frame, and for each frame one place.
LEMMA ConservedStep ==
  ASSUME ConstantsAssumption, TypeOK, ThreadInv, LastIsCur, FramesConserved, [Next]_vars
  PROVE  FramesConserved'
<1>1. /\ FrameTypeOK /\ list \in Seq(FrameIds) /\ log \in Seq(EndedRecord)
      /\ Len(list) \in Nat /\ Len(log) \in Nat
      /\ next \in 1..(MaxFrames + 1) /\ cur \in 0..MaxFrames /\ MaxFrames \in Nat
  BY LenProperties DEF TypeOK, FrameTypeOK, ControlTypeOK, ConstantsAssumption
<1>c. ASSUME Conserved, next' = next
      PROVE  FramesConserved'
  <2>1. \A f \in 1..(next - 1) : f \in FrameIds
    BY <1>1 DEF FrameIds
  <2>2. \A f \in 1..(next - 1) : Listed(f)' \/ Finished(f)'
    BY <1>c, <2>1 DEF FramesConserved, Conserved
  <2>3. Len(list') + Len(log') = next - 1
    BY <1>c DEF FramesConserved, Conserved
  <2> QED BY <1>c, <2>2, <2>3 DEF FramesConserved, Listed, Finished
<1>u. UNCHANGED <<list, log>> => Conserved
  BY DEF Conserved, Listed, Finished
<1>2. CASE StayPut \/ Joins \/ Forgets
  BY <1>2, <1>c, <1>u DEF StayPut, Joins, Forgets
<1>3. CASE MppMoves
  BY <1>3, <1>c, MppCallConserves DEF MppMoves
<1>4. CASE Arrives
  <2>1. next \in FrameIds /\ next' = next + 1 /\ log' = log
    BY <1>1, <1>4 DEF Arrives, FrameIds
  <2>2. /\ Len(list') = Len(list) + 1 /\ list'[Len(list) + 1] = next
        /\ \A i \in 1..Len(list) : list'[i] = list[i]
    BY <1>1, <1>4, <2>1, AppendProperties DEF Arrives
  <2>3. ASSUME NEW f \in 1..next
        PROVE  Listed(f)' \/ Finished(f)'
    <3>1. CASE f = next
      <4>1. Len(list) + 1 \in 1..Len(list')
        BY <1>1, <2>2
      <4> QED BY <2>2, <3>1, <4>1 DEF Listed
    <3>2. CASE f # next /\ Listed(f)
      <4>1. PICK i \in 1..Len(list) : list[i] = f
        BY <3>2 DEF Listed
      <4>2. i \in 1..Len(list') /\ list'[i] = f
        BY <1>1, <2>2, <4>1
      <4> QED BY <4>2 DEF Listed
    <3>3. CASE f # next /\ Finished(f)
      BY <2>1, <3>3 DEF Finished
    <3>4. f # next => f \in 1..(next - 1)
      BY <1>1
    <3> QED BY <3>1, <3>2, <3>3, <3>4 DEF FramesConserved
  <2>4. next' - 1 = next /\ Len(list') + Len(log') = next' - 1
    BY SMTT(30), <1>1, <2>1, <2>2 DEF FramesConserved
  <2> QED BY <2>3, <2>4 DEF FramesConserved, Listed, Finished
<1>5. CASE \E kind \in Kinds : Leaves(kind)
  <2>1. PICK kind \in Kinds : Leaves(kind)
    BY <1>5
  <2>2. EndCur(kind) /\ cur \in FrameIds /\ next' = next /\ list # <<>> /\ list[Len(list)] = cur
    BY <1>1, <2>1 DEF Leaves, ThreadInv, LastIsCur, FrameIds
  <2> DEFINE r == Ended(cur, kind, cur)
  <2>3. r \in EndedRecord /\ r.frame = cur
    BY <2>2 DEF Ended, EndedRecord
  <2> HIDE DEF r
  <2>4. list' = SubSeq(list, 1, Len(list) - 1) /\ log' = Append(log, r)
    BY <2>2 DEF EndCur, r
  <2>5. Conserved
    BY <1>1, <2>2, <2>3, <2>4, FinishConserves
  <2> QED BY <1>c, <2>2, <2>5
<1>6. CASE Clears
  <2>1. Len(list) \in 0..Len(list) /\ "cleared" \in Kinds
    BY <1>1 DEF Kinds
  <2>2. Conserved
    BY <1>1, <1>6, <2>1, EndFirstConserves DEF Clears
  <2> QED BY <1>6, <1>c, <2>2 DEF Clears
<1> QED BY <1>2, <1>3, <1>4, <1>5, <1>6, FramesMove DEF FrameMoves

\* What is inside MPP or queued, and the frame in handle_frame, each have a place
\* in the base class's list, also when refused frames have one too: no packet ever
\* comes for a frame that is not there, and no restart discards too many.
Covered ==
  /\ Len(mpp) + Len(queue) <= Len(list)
  /\ cur # 0 => Len(mpp) + Len(queue) < Len(list)
  /\ pending <= Len(mpp) + Len(queue)
  /\ LastIsCur

\* A call into MPP takes from the list no more than it takes out of MPP.
LEMMA MppCallCovers ==
  ASSUME ConstantsAssumption, TypeOK, MppCall, Covered, UNCHANGED cur
  PROVE  Covered'
<1>1. /\ mpp \in Seq(FrameIds) /\ queue \in Seq(FrameIds) /\ list \in Seq(FrameIds)
      /\ FrameTypeOK /\ pending \in Int /\ ready \in 0..Len(mpp)
      /\ Len(list) \in Nat /\ Len(queue) \in Nat /\ Len(mpp) \in Nat /\ Len(<<>>) = 0
  BY LenProperties, EmptySeq DEF TypeOK, FrameTypeOK
<1>2. CASE SendFrame
  <2>1. queue # <<>> /\ Head(queue) \in FrameIds
    BY <1>1, <1>2, HeadTailProperties DEF SendFrame, HeadListed
  <2>2. Len(queue') = Len(queue) - 1 /\ Len(mpp') = Len(mpp) + 1
    BY <1>1, <1>2, <2>1, HeadTailProperties, AppendProperties DEF SendFrame
  <2>3. UNCHANGED <<list, pending, cur>>
    BY <1>2 DEF SendFrame
  <2>4. LastIsCur'
    BY <2>3 DEF Covered, LastIsCur
  <2>5. Len(mpp') + Len(queue') = Len(mpp) + Len(queue)
    BY <1>1, <2>2
  <2> QED BY <2>3, <2>4, <2>5 DEF Covered
<1>3. CASE PollPacket
  <2>1. mpp # <<>> /\ Len(mpp) # 0
    BY <1>1, <1>3 DEF PollPacket
  <2>2. Len(mpp') = Len(mpp) - 1 /\ pending' = pending - 1 /\ UNCHANGED queue
    BY <1>1, <1>3, <2>1, HeadTailProperties DEF PollPacket
  <2>3. list # <<>> /\ Len(list) # 0
    BY <1>1, <2>1, EmptySeq DEF Covered
  <2>4. list' = Tail(list)
    BY <1>3, <2>3 DEF PollPacket
  <2>5. /\ list' \in Seq(FrameIds) /\ Len(list') = Len(list) - 1
        /\ \A i \in 1..Len(list') : list'[i] = list[i + 1]
    BY <1>1, <2>3, <2>4, HeadTailProperties
  <2>6. ASSUME cur' # 0
        PROVE  list' # <<>> /\ list'[Len(list')] = cur'
    <3>1. Len(list') \in 1..Len(list') /\ Len(list') + 1 = Len(list)
      BY <1>1, <2>1, <2>5, <2>6 DEF Covered
    <3> QED BY SMTT(30), <1>1, <2>5, <2>6, <3>1, EmptySeq DEF Covered, LastIsCur
  <2> QED BY <1>1, <2>1, <2>2, <2>5, <2>6 DEF Covered, LastIsCur
<1>4. CASE DiscardSubmitted /\ mpp' = <<>> /\ UNCHANGED queue
  <2> DEFINE submitted == pending - Len(queue)
             n == IF submitted < 0 THEN 0
                  ELSE IF submitted < Len(list) THEN submitted ELSE Len(list)
  <2>1. n \in 0..Len(list) /\ n <= Len(mpp)
    BY <1>1 DEF Covered
  <2>2. EndFirst(n, "restart") /\ pending' = Len(queue)
    BY <1>4 DEF DiscardSubmitted
  <2> HIDE DEF n
  <2>3. list' = SubSeq(list, n + 1, Len(list)) /\ "restart" \in Kinds
    BY <2>2 DEF EndFirst, Kinds
  <2>4. list' \in Seq(FrameIds) /\ Len(list') = Len(list) - n
    BY <1>1, <2>1, <2>3, SuffixType
  <2>5. list' # <<>> => list # <<>> /\ list'[Len(list')] = list[Len(list)]
    BY <1>1, <2>1, <2>2, <2>3, EndFirstConserves
  <2>6. Len(mpp') = 0 /\ Len(queue') = Len(queue)
    BY <1>1, <1>4
  <2>7. cur' # 0 => list' # <<>>
    BY <1>1, <2>1, <2>4, EmptySeq DEF Covered
  <2> QED BY SMTT(30), <1>1, <2>1, <2>2, <2>4, <2>5, <2>6, <2>7 DEF Covered, LastIsCur
<1>5. CASE UNCHANGED <<list, mpp, queue, pending>>
  BY <1>5 DEF Covered, LastIsCur
<1>6. CASE RuntimeError /\ UNCHANGED <<queue, desync>>
  BY <1>4, <1>5, <1>6 DEF RuntimeError, RestartContext
<1> QED
  BY <1>2, <1>3, <1>5, <1>6
     DEF MppCall, SendNothing, SendFault, PollNothing, PollFault, frameVars

\* With jobs that end in time every other way of moving frames keeps them covered.
LEMMA CoveredStep ==
  ASSUME ConstantsAssumption, MppTimely, TypeOK, ThreadInv, Covered, [Next]_vars
  PROVE  Covered'
<1>1. /\ mpp \in Seq(FrameIds) /\ queue \in Seq(FrameIds) /\ list \in Seq(FrameIds)
      /\ FrameTypeOK /\ pending \in Int /\ Len(<<>>) = 0
      /\ Len(list) \in Nat /\ Len(queue) \in Nat /\ Len(mpp) \in Nat
      /\ next \in 1..(MaxFrames + 1) /\ cur \in 0..MaxFrames /\ MaxFrames \in Nat
  BY LenProperties, EmptySeq DEF TypeOK, FrameTypeOK, ControlTypeOK, ConstantsAssumption
<1>2. CASE StayPut
  BY <1>1, <1>2 DEF StayPut, Covered, LastIsCur
<1>3. CASE MppMoves
  BY <1>3, MppCallCovers DEF MppMoves
<1>4. CASE Arrives
  <2>1. next \in FrameIds
    BY <1>1, <1>4 DEF Arrives, FrameIds
  <2>2. list' \in Seq(FrameIds) /\ Len(list') = Len(list) + 1 /\ list'[Len(list) + 1] = next
    BY <1>1, <1>4, <2>1, AppendProperties DEF Arrives
  <2>3. list' # <<>>
    BY <1>1, <2>2, EmptySeq
  <2> QED BY <1>1, <1>4, <2>2, <2>3 DEF Arrives, Covered, LastIsCur
<1>5. CASE \E kind \in Kinds : Leaves(kind)
  <2>1. cur # 0 /\ cur' = 0 /\ list # <<>> /\ list' = SubSeq(list, 1, Len(list) - 1)
        /\ UNCHANGED <<queue, mpp, pending>>
    BY <1>5 DEF Leaves, EndCur, ThreadInv, Covered, LastIsCur
  <2>2. Len(list') = Len(list) - 1
    BY <1>1, <2>1, FrontType
  <2> QED BY <1>1, <2>1, <2>2 DEF Covered, LastIsCur
<1>6. CASE Joins
  <2>1. cur # 0 /\ cur \in FrameIds
    BY <1>1, <1>6 DEF Joins, ThreadInv, FrameIds
  <2>2. Len(queue') = Len(queue) + 1
    BY <1>1, <1>6, <2>1, AppendProperties DEF Joins
  <2> QED BY <1>1, <1>6, <2>1, <2>2 DEF Joins, Covered, LastIsCur
<1>7. CASE Forgets
  BY <1>1, <1>7 DEF Forgets, Covered, LastIsCur
<1>8. CASE Clears
  <2>1. list' = <<>> /\ queue' = <<>> /\ mpp' = <<>> /\ pending' = 0 /\ cur' = 0
    BY <1>1, <1>8, ClearType DEF Clears
  <2> QED BY <1>1, <2>1 DEF Covered, LastIsCur
<1> QED BY <1>2, <1>3, <1>4, <1>5, <1>6, <1>7, <1>8, FramesMove DEF FrameMoves

\* CalmInv holds in every state of a calm encoder.
LEMMA CalmHolds ==
  ASSUME Calm
  PROVE  Spec => []CalmInv
<1> DEFINE Last == ~desync => LastIsCur
           B == IndInv /\ ResetInv /\ Last
<1>1. Spec => []B
  <2>1. IndInv => Last
    BY OrderGivesLast
  <2> QED BY <2>1, ResetsHold, PTL
<1>2. Init => CalmInv
  BY DEF Init, CalmInv, LeftBehind, LastIsCur, EosComplete
<1>3. B /\ B' /\ CalmInv /\ [Next]_vars => CalmInv'
  BY CalmStep, ConstantsAssumption
<1> HIDE DEF B
<1> QED BY <1>1, <1>2, <1>3, PTL DEF Spec

\* While every job ends within a drain no frame is lost and none is finished
\* twice: through restarts, flushes, drains that fail, refused properties, and
\* resets and teardowns that overlap.
THEOREM ConservationHolds ==
  ASSUME MppTimely
  PROVE  Spec => []FramesConserved
<1> DEFINE I == Covered /\ FramesConserved
<1>1. Init => I
  <2>1. Len(<<>>) = 0 /\ 1..(1 - 1) = {}
    BY EmptySeq
  <2> QED BY <2>1 DEF Init, FramesConserved, Covered, LastIsCur
<1>2. IndInv /\ I /\ [Next]_vars => I'
  <2> SUFFICES ASSUME IndInv, Covered, FramesConserved, [Next]_vars PROVE I'
    OBVIOUS
  <2>1. TypeOK /\ ThreadInv /\ LastIsCur
    BY DEF IndInv, Covered
  <2> QED BY <2>1, CoveredStep, ConservedStep, ConstantsAssumption
<1>3. I => FramesConserved
  OBVIOUS
<1> HIDE DEF I
<1> QED BY <1>1, <1>2, <1>3, InvariantHolds, PTL DEF Spec

\* Unless a property is refused, a job outlives a drain or resets overlap, finish
\* reports OK for EOS only when every frame pushed has been finished: a drain that
\* left a frame behind is no success.
THEOREM EosHolds ==
  ASSUME ~Refusable, MppTimely, ~OverlapResets
  PROVE  Spec => []EosComplete
<1>1. Calm
  BY DEF Calm
<1>2. CalmInv => EosComplete
  BY DEF CalmInv
<1> QED BY <1>1, <1>2, CalmHolds, PTL
=============================================================================
