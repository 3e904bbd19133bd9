----------------------------- MODULE MppDecoder -----------------------------
(***************************************************************************)
(* The decoder base (gstmppdec.c) with the video and the JPEG decoder      *)
(* (gstmppvideodec.c, gstmppjpegdec.c) and the MPP as an external queue.   *)
(*                                                                         *)
(* Three threads: "S" streams (frames, drains, flushes, new caps), "A" is  *)
(* the application's state changes, "T" is the output task.  self->mutex   *)
(* is held by S or A through handle_frame and reset, and the stream lock   *)
(* is dropped at every point where those wait; a step is what one thread   *)
(* does with the stream lock in hand, or one call made without it.         *)
(*                                                                         *)
(* A frame is the number of the input it came from; the picture the MPP    *)
(* makes of input n is picture n.  Times are small numbers, two of them    *)
(* less than 5 ms apart only when equal.                                   *)
(***************************************************************************)
EXTENDS Integers, Sequences, FiniteSets, SequencesExt

CONSTANTS
  NFrames,      \* bound: frames that arrive
  FramePts,     \* the time stamp each carries, or NoPts
  ParamSets,    \* the frames of nothing but parameter sets
  MaxPending,   \* GST_MPP_DEC_MAX_PENDING_FRAMES
  DecodeOnly,   \* how far get_frame walks before it discards decode-only frames
  QueueSize,    \* external: packets the MPP takes
  MaxDrains, MaxFlushes, MaxStops,   \* bounds: drains, flushes, teardowns
  InfoAt        \* external: the pictures the MPP announces a change before

Frames == 1..NFrames
NoPts == 99
NoPic == 0
Nobody == "-"

ASSUME DecoderAssumption ==
  /\ NFrames \in Nat \ {0} /\ FramePts \in [Frames -> (0..98) \cup {NoPts}]
  /\ ParamSets \subseteq Frames /\ InfoAt \subseteq Frames
  /\ {MaxPending, DecodeOnly, QueueSize} \subseteq Nat \ {0}
  /\ {MaxDrains, MaxFlushes, MaxStops} \subseteq Nat

VARIABLES
  dec,      \* struct _GstMppDec
  list,     \* the base class's pending frames, oldest first
  ready,    \* ready_frames
  fr,       \* per frame: its time stamp and its output_buffer
  task,     \* the source pad's task
  mpp,      \* external: what the MPP holds
  mutex,    \* who holds self->mutex
  pc,       \* where the threads are
  op,       \* what S and A are doing: reset's arguments and results
  got,      \* what the task holds: the MPP frame and the codec frame of it
  life,     \* up, or down
  flow,     \* the last result upstream saw
  fed,      \* frames that arrived
  shown,    \* pictures pushed downstream
  epoch,    \* flushes and restarts that returned; per frame, the one it was sent in
  left      \* what the bounds leave

vars == <<dec, list, ready, fr, task, mpp, mutex, pc, op, got, life, flow, fed,
          shown, epoch, left>>

Fresh == [flushing |-> FALSE, draining |-> FALSE, gen |-> 0, ret |-> "ok",
          decoded |-> FALSE, seen |-> FALSE, useMpp |-> TRUE, mixed |-> FALSE,
          convert |-> FALSE, jpeg |-> FALSE, alloc |-> FALSE]
NoOp == [kind |-> "none", drain |-> FALSE, final |-> FALSE, gen |-> 0,
         result |-> "ok", overtaken |-> FALSE]
NoItem == [what |-> "none", pic |-> NoPic, pts |-> NoPts, sel |-> 0]

Init ==
  /\ \E j, c \in BOOLEAN : /\ c => j             \* the JPEG decoder's caps tell
                           /\ dec = [Fresh EXCEPT !.convert = c, !.jpeg = j]
  /\ list = <<>> /\ ready = <<>>
  /\ fr = [n \in Frames |-> [pts |-> FramePts[n], buf |-> NoPic]]
  /\ task = "stopped" /\ mpp = <<>> /\ mutex = Nobody
  /\ pc = [t \in {"S", "A", "T"} |-> "idle"]
  /\ op = [t \in {"S", "A"} |-> NoOp]
  /\ got = NoItem
  /\ life = "up" /\ flow = "ok" /\ fed = 0 /\ shown = <<>>
  /\ epoch = [now |-> 0, of |-> [n \in Frames |-> 0]]
  /\ left = [drains |-> MaxDrains, flushes |-> MaxFlushes, stops |-> MaxStops]

Goto(t, l) == pc' = [pc EXCEPT ![t] = l]

\* The elements of s at the positions I, in their order; s without what is in F.
Nth(I, k) == CHOOSE i \in I : Cardinality({j \in I : j < i}) = k - 1
Picked(s, I) == [k \in 1..Cardinality(I) |-> s[Nth(I, k)]]
Without(s, F) == Picked(s, {i \in DOMAIN s : s[i] \notin F})

-----------------------------------------------------------------------------
(* gst_mpp_dec_get_frame: the frame a picture is shown as.  Its operators  *)
(* take the list and the time stamps and return what the step needs.       *)

Time(n) == fr[n].pts
Valid(n) == Time(n) # NoPts
Earliest(F) == CHOOSE n \in F : \A m \in F :
                 Time(n) < Time(m) \/ (Time(n) = Time(m) /\ n <= m)

\* The list cut to its bound: the oldest beyond it are released.
Trimmed == SubSeq(list, Len(list) - (IF Len(list) > MaxPending THEN MaxPending ELSE Len(list)) + 1,
                  Len(list))

\* The first picture takes the oldest frame without a time, else the earliest.
FirstFrame(L) ==
  LET untimed == {i \in DOMAIN L : ~Valid(L[i])}
  IN IF untimed # {} THEN L[Nth(untimed, 1)] ELSE Earliest(ToSet(L))

\* ABS (GST_CLOCK_DIFF (f->pts, pts)) < 5 ms: "no time" is -1 there, next to 0.
Close(n, pts) == Valid(n) /\ (Time(n) = pts \/ (pts = NoPts /\ Time(n) = 0))

\* Later pictures: [sel, gone], the frame (0: none) and the frames discarded.
Match(L, pts) ==
  LET first(I) == IF I = {} THEN Len(L) + 1 ELSE Nth(I, 1)
      close == first({i \in DOMAIN L : Close(L[i], pts)})
      blank == first({i \in DOMAIN L : ~Valid(L[i]) /\ pts = NoPts})
      stop == IF close < blank THEN close ELSE blank
      late == {i \in 1..(stop - 1) : ~Valid(L[i]) /\ dec.mixed /\ i > DecodeOnly}
      guess == {L[i] : i \in {j \in 1..(stop - 1) \ late :
                                ~(pts # NoPts /\ Valid(L[j]) /\ Time(L[j]) > pts)}}
      outdated(n) == {m \in ToSet(L) : Valid(m) /\ Time(m) < Time(n)}
      dropped == {L[i] : i \in late}
  IN CASE close < blank -> [sel |-> L[close], gone |-> dropped \cup outdated(L[close])]
       [] blank < close -> [sel |-> L[blank], gone |-> dropped]
       [] OTHER -> [sel |-> IF guess = {} THEN 0 ELSE Earliest(guess), gone |-> dropped]

\* get_frame as a whole.  0 stands for "missing frame"; with no match the
\* oldest is taken; with use_mpp_pts the frame takes the MPP's time.
GetFrame(pts) ==
  LET L == Trimmed
      time == IF pts = 0 THEN NoPts ELSE pts
      first == ~dec.decoded
      m == CASE first -> [sel |-> FirstFrame(L), gone |-> {}]
             [] ~first /\ ~dec.seen -> [sel |-> L[1], gone |-> {}]
             [] OTHER -> Match(L, time)
      uses == dec.useMpp /\ ~(first /\ pts = NoPts)
  IN IF list = <<>> THEN [sel |-> 0, gone |-> {}, uses |-> dec.useMpp, pts |-> NoPts]
     ELSE [sel |-> IF m.sel = 0 THEN L[1] ELSE m.sel,
           gone |-> m.gone \cup (ToSet(list) \ ToSet(L)), uses |-> uses,
           pts |-> IF first THEN NoPts ELSE time]

-----------------------------------------------------------------------------
(* gst_mpp_dec_handle_frame, on the streaming thread *)

\* The pads of an element on its way down are deactivated before stop.
Streaming == /\ life = "up" /\ pc["S"] = "idle"
             /\ pc["A"] \notin {"deactivated", "stopped"} /\ op["A"].kind # "stop"

\* The base class adds the frame to its list before handle_frame is called.
HandleFrame ==
  /\ Streaming /\ flow = "ok" /\ fed < NFrames
  /\ fed' = fed + 1 /\ list' = Append(list, fed + 1)
  /\ op' = [op EXCEPT !["S"] = [NoOp EXCEPT !.kind = "frame"]]
  /\ Goto("S", "lock")
  /\ UNCHANGED <<dec, ready, fr, task, mpp, mutex, got, life, flow, shown, epoch, left>>

Cur == fed

HandledLocked(r, drop) ==      \* mutant of Handled: the mutex is kept
  /\ list' = IF drop THEN Without(list, {Cur}) ELSE list
  /\ flow' = r /\ UNCHANGED mutex
  /\ op' = [op EXCEPT !["S"] = NoOp]
  /\ Goto("S", "idle")

\* S returns to upstream with r, the frame dropped from the list when asked.
Handled(r, drop) ==
  /\ list' = IF drop THEN Without(list, {Cur}) ELSE list
  /\ flow' = r /\ mutex' = Nobody
  /\ op' = [op EXCEPT !["S"] = NoOp]
  /\ Goto("S", "idle")

HandleLocked ==
  /\ pc["S"] = "lock" /\ op["S"].kind = "frame" /\ mutex = Nobody
  /\ IF dec.flushing THEN Handled("error", TRUE) /\ UNCHANGED <<dec, task>>
     ELSE \/ /\ mutex' = "S" /\ dec' = [dec EXCEPT !.alloc = TRUE]
             /\ task' = "started"
             /\ Goto("S", "packet")
             /\ UNCHANGED <<list, flow, op>>
          \/ /\ ~dec.alloc                      \* no allocator
             /\ Handled("error", TRUE) /\ UNCHANGED <<dec, task>>
  /\ UNCHANGED <<ready, fr, mpp, got, life, fed, shown, epoch, left>>

\* The JPEG decoder copies the input to a buffer of the MPP's; there may be none.
NoPacket == dec.jpeg /\ Handled("error", TRUE)

\* get_mpp_packet, made without the stream lock.
HandlePacket ==
  /\ pc["S"] = "packet"
  /\ \/ /\ dec' = [dec EXCEPT !.seen = @ \/ FramePts[Cur] # NoPts]
        /\ Goto("S", "send") /\ UNCHANGED <<list, flow, mutex, op>>
     \/ NoPacket /\ UNCHANGED dec
  /\ UNCHANGED <<ready, fr, task, mpp, got, life, fed, shown, epoch, left>>

\* send_mpp_packet_unlocked: a full queue is tried again, without an end, for
\* as long as the task has no result.
HandleSend ==
  /\ pc["S"] = "send"
  /\ \/ dec.ret # "ok" /\ Goto("S", "dropped") /\ UNCHANGED <<mpp, epoch, op>>
     \/ /\ dec.ret = "ok" /\ Len(mpp) < QueueSize
        /\ mpp' = mpp \o (IF Cur \in InfoAt THEN <<[what |-> "info", pic |-> Cur]>> ELSE <<>>)
                      \o (IF Cur \in ParamSets THEN <<>> ELSE <<[what |-> "pic", pic |-> Cur]>>)
        /\ epoch' = [epoch EXCEPT !.of[Cur] = epoch.now]
        /\ Goto("S", "sent") /\ UNCHANGED op
     \/ /\ dec.ret = "ok"                       \* an error of the MPP
        /\ Goto("S", "dropped") /\ op' = [op EXCEPT !["S"].result = "error"]
        /\ UNCHANGED <<mpp, epoch>>
  /\ UNCHANGED <<dec, list, ready, fr, task, mutex, got, life, flow, fed, shown, left>>

\* A frame of parameter sets makes no picture and is released here.
HandleSent ==
  /\ \/ pc["S"] = "sent" /\ Handled(dec.ret, Cur \in ParamSets)
     \/ pc["S"] = "dropped"
          /\ Handled(IF op["S"].result = "error" THEN "error" ELSE dec.ret, TRUE)
  /\ UNCHANGED <<dec, ready, fr, task, mpp, got, life, fed, shown, epoch, left>>

-----------------------------------------------------------------------------
(* gst_mpp_dec_reset, called by drain, finish, set_format, flush, the      *)
(* PAUSED to READY change and stop                                         *)

\* mpi->reset drops what the MPP holds; a drain waiting on that is overtaken.
ResetBegins(t, kind, drain, final) ==
  /\ op' = [u \in {"S", "A"} |->
              IF u = t THEN [NoOp EXCEPT !.kind = kind, !.drain = drain, !.final = final]
              ELSE [op[u] EXCEPT !.overtaken = @ \/ ~drain]]
  /\ IF drain THEN UNCHANGED <<dec, mpp>>
     ELSE dec' = [dec EXCEPT !.gen = @ + 1] /\ mpp' = <<>>
  /\ Goto(t, "lock")

Drain ==
  /\ Streaming /\ left.drains > 0
  /\ \E kind \in {"drain", "finish"} : ResetBegins("S", kind, TRUE, FALSE)
  /\ left' = [left EXCEPT !.drains = @ - 1]
  /\ UNCHANGED <<list, ready, fr, task, mutex, got, life, flow, fed, shown, epoch>>

\* set_format with other caps than the last.
SetFormat ==
  /\ Streaming /\ left.drains > 0
  /\ ResetBegins("S", "caps", TRUE, FALSE)
  /\ left' = [left EXCEPT !.drains = @ - 1]
  /\ UNCHANGED <<list, ready, fr, task, mutex, got, life, flow, fed, shown, epoch>>

Flush ==
  /\ Streaming /\ left.flushes > 0
  /\ ResetBegins("S", "flush", FALSE, FALSE)
  /\ left' = [left EXCEPT !.flushes = @ - 1]
  /\ UNCHANGED <<list, ready, fr, task, mutex, got, life, flow, fed, shown, epoch>>

ChangeState ==
  /\ life = "up" /\ pc["A"] = "idle" /\ left.stops > 0
  /\ ResetBegins("A", "ready", FALSE, TRUE)
  /\ left' = [left EXCEPT !.stops = @ - 1]
  /\ UNCHANGED <<list, ready, fr, task, mutex, got, life, flow, fed, shown, epoch>>

\* gst_video_decoder_finish_frame: the frame leaves the list, and its picture,
\* when it has one, is pushed.
Pushed(F) == LET pics == [i \in DOMAIN F |-> fr[F[i]].buf]
             IN shown \o Picked(pics, {i \in DOMAIN pics : pics[i] # NoPic})
Emptied(F) == [n \in Frames |-> IF n \in F THEN [fr[n] EXCEPT !.buf = NoPic] ELSE fr[n]]

ReadyFinished(finish) ==       \* mutant of FlushReady: a flush shows it too
  /\ ready' = <<>>
  /\ shown' = Pushed(ready)
  /\ fr' = Emptied(ToSet(ready))

\* flush_ready_frames: the frame kept back is finished, or released.
FlushReady(finish) ==
  /\ ready' = <<>>
  /\ shown' = IF finish THEN Pushed(ready) ELSE shown
  /\ fr' = Emptied(ToSet(ready))

\* The JPEG decoder's set_format knows the size and the format of its pictures, and
\* turns the converter on; nothing but a start turns it off.
JpegConverts(kind, c) == IF dec.jpeg /\ kind = "caps" THEN dec.convert => c
                         ELSE c = dec.convert

\* gst_mpp_dec_clear_allocator, in finish, set_format and stop.
ClearsAllocator(kind) == kind \in {"finish", "caps", "stop"}

\* What reset does once the task has ended, and its caller after it.
Clear(t, failed, mayFail) ==
  LET o == op[t]
      before == IF dec.ret = "eos" THEN "ok" ELSE dec.ret
      result == IF failed THEN "error" ELSE before
  IN /\ \E c \in BOOLEAN :
          /\ JpegConverts(o.kind, c)
          /\ dec' = [dec EXCEPT !.flushing = o.final, !.draining = FALSE, !.ret = "ok",
                                !.decoded = FALSE, !.convert = c,
                                !.alloc = @ /\ ~ClearsAllocator(o.kind)]
     /\ mpp' = IF o.drain THEN <<>> ELSE mpp
     /\ FlushReady(o.drain)
     /\ list' = <<>> /\ mutex' = Nobody
     /\ epoch' = IF o.drain THEN epoch ELSE [epoch EXCEPT !.now = @ + 1]
     /\ op' = [op EXCEPT ![t] = NoOp]
     /\ flow' = CASE o.kind \in {"drain", "finish"} ->
                       IF result = "ok" /\ mayFail THEN "error" ELSE result
                  [] o.kind = "flush" -> "ok"
                  [] OTHER -> flow
     /\ Goto(t, IF t = "A" THEN (IF o.kind = "ready" THEN "deactivating" ELSE "stopped")
                ELSE "idle")

\* stop_task finds no started task: nothing is shut down or waited for.
ResetUntasked(t) ==
  /\ pc[t] = "lock" /\ op[t].kind # "frame" /\ mutex = Nobody /\ task # "started"
  /\ \E fails \in BOOLEAN :
       /\ fails => op[t].drain /\ ready # <<>>
       /\ Clear(t, FALSE, fails)
  /\ UNCHANGED <<task, got, life, fed, left>>

ResetLocked(t) ==
  /\ pc[t] = "lock" /\ op[t].kind # "frame" /\ mutex = Nobody /\ task = "started"
  /\ mutex' = t
  /\ dec' = [dec EXCEPT !.flushing = TRUE, !.draining = op[t].drain]
  /\ op' = [op EXCEPT ![t].gen = dec.gen]
  /\ Goto(t, IF op[t].drain THEN "shutdown" ELSE "join")
  /\ UNCHANGED <<list, ready, fr, task, mpp, got, life, flow, fed, shown, epoch, left>>

\* The end of stream is in the MPP's queue; or its shutdown has failed.
EosSent(t) == /\ Len(mpp) < QueueSize
              /\ mpp' = Append(mpp, [what |-> "eos", pic |-> NoPic])
              /\ Goto(t, "wait") /\ UNCHANGED op
ShutdownFailed(t) == op' = [op EXCEPT ![t].result = "error"] /\ Goto(t, "join")

\* The video decoder puts a packet; when the queue stays full, or on an error, it
\* resets the MPP.
VideoShutdown(t) ==
  /\ pc[t] = "shutdown" /\ ~dec.jpeg
  /\ EosSent(t) \/ (ShutdownFailed(t) /\ mpp' = <<>>)
  /\ UNCHANGED <<dec, list, ready, fr, task, mutex, got, life, flow, fed, shown, epoch, left>>

\* The JPEG decoder waits for an input task, and gives up when a reset came between.
JpegShutdown(t) ==
  /\ pc[t] = "shutdown" /\ dec.jpeg
  /\ IF dec.gen # op[t].gen THEN Goto(t, "join") /\ UNCHANGED <<mpp, op>>
     ELSE EosSent(t) \/ (ShutdownFailed(t) /\ UNCHANGED mpp)
  /\ UNCHANGED <<dec, list, ready, fr, task, mutex, got, life, flow, fed, shown, epoch, left>>

NotWaited(t) ==                \* mutant of WaitPaused: stopped at once
  /\ pc[t] = "wait"
  /\ Goto(t, "join")
  /\ UNCHANGED <<dec, list, ready, fr, task, mpp, mutex, op, got, life, flow, fed, shown,
                 epoch, left>>

\* Until the task has paused itself.
WaitPaused(t) ==
  /\ pc[t] = "wait" /\ task # "started"
  /\ Goto(t, "join")
  /\ UNCHANGED <<dec, list, ready, fr, task, mpp, mutex, op, got, life, flow, fed, shown,
                 epoch, left>>

\* gst_pad_stop_task: no further turn of the loop, and the last one over.
StopTask(t) ==
  /\ pc[t] = "join" /\ task # "stopped"
  /\ task' = "stopped"
  /\ UNCHANGED <<dec, list, ready, fr, mpp, mutex, pc, op, got, life, flow, fed, shown,
                 epoch, left>>

NotJoined(t) ==                \* mutant of ResetEnds: the last turn still runs
  /\ pc[t] = "join" /\ task = "stopped"
  /\ Clear(t, op[t].result = "error", FALSE)
  /\ UNCHANGED <<task, got, life, fed, left>>

ResetEnds(t) ==
  /\ pc[t] = "join" /\ task = "stopped" /\ pc["T"] = "idle"
  /\ \E fails \in BOOLEAN :
       /\ fails => op[t].drain /\ ready # <<>>
       /\ Clear(t, op[t].result = "error", fails)
  /\ UNCHANGED <<task, got, life, fed, left>>

-----------------------------------------------------------------------------
(* The output task: gst_mpp_dec_loop *)

\* poll_mpp_frame, without the stream lock.  The MPP gives its pictures in
\* display order, each with a time of its own making or with none.
Poll ==
  /\ pc["T"] = "idle" /\ task = "started"
  /\ \E i \in DOMAIN mpp :
       /\ i > 1 => \A j \in 1..i : mpp[j].what = "pic"
       /\ \E pts \in {NoPts} \cup {FramePts[n] : n \in {mpp[i].pic} \ {NoPic}} :
            got' = [NoItem EXCEPT !.what = mpp[i].what, !.pic = mpp[i].pic, !.pts = pts]
       /\ mpp' = RemoveAt(mpp, i)
  /\ Goto("T", "got")
  /\ UNCHANGED <<dec, list, ready, fr, task, mutex, op, life, flow, fed, shown, epoch, left>>

\* The end of a turn with the result ret: anything but ok pauses the task.
TurnEnds(d) ==
  /\ dec' = d
  /\ task' = IF d.ret # "ok" /\ task = "started" THEN "paused" ELSE task
  /\ got' = NoItem
  /\ Goto("T", "idle")

\* What finish_frame and a negotiation come back with: which error does not matter.
FlowResults == {"ok", "error"}

TurnInfo ==
  /\ pc["T"] = "got" /\ got.what = "info"
  /\ \E ret \in FlowResults, c \in BOOLEAN :
       /\ dec.convert => c
       /\ TurnEnds([dec EXCEPT !.ret = ret, !.convert = c])
  /\ UNCHANGED <<list, ready, fr, mpp, mutex, op, life, flow, fed, shown, epoch, left>>

TurnEos ==
  /\ pc["T"] = "got" /\ got.what = "eos"
  /\ FlushReady(TRUE)
  /\ list' = Without(list, ToSet(ready))
  /\ \E ret \in IF ready = <<>> THEN {"ok"} ELSE FlowResults :
       TurnEnds([dec EXCEPT !.ret = IF ret = "ok" THEN "eos" ELSE ret])
  /\ UNCHANGED <<mpp, mutex, op, life, flow, fed, epoch, left>>

\* The picture's frame is found; the turn ends here when the element is being
\* flushed, the picture is bad, or its new size is refused.  A new size may also
\* turn the converter on.
TurnPicture ==
  /\ pc["T"] = "got" /\ got.what = "pic"
  /\ \E g \in {GetFrame(got.pts)} :
     LET d == [dec EXCEPT !.decoded = TRUE, !.useMpp = g.uses]
         timed == IF g.uses /\ g.sel # 0 THEN [fr EXCEPT ![g.sel].pts = g.pts] ELSE fr
         dropping == dec.flushing /\ ~dec.draining
     IN \/ /\ g.sel = 0
           /\ TurnEnds(d) /\ UNCHANGED <<list, fr>>
        \/ /\ g.sel # 0
           /\ fr' = timed
           /\ \E c \in BOOLEAN :
                /\ dec.convert \/ dropping => c = dec.convert
                /\ \/ /\ list' = Without(list, g.gone \cup {g.sel})
                      /\ TurnEnds([d EXCEPT !.convert = c])
                   \/ /\ ~dropping /\ ~dec.convert /\ list' = Without(list, g.gone)
                      /\ TurnEnds([d EXCEPT !.ret = "error", !.convert = c])
                   \/ /\ ~dropping /\ dec.alloc /\ list' = Without(list, g.gone)
                      /\ dec' = [d EXCEPT !.convert = c]
                      /\ got' = [got EXCEPT !.sel = g.sel]
                      /\ Goto("T", "buffer") /\ UNCHANGED task
  /\ UNCHANGED <<ready, mpp, mutex, op, life, flow, fed, shown, epoch, left>>

\* With the converter the stream lock is dropped for the RGA's work, and the
\* frame is finished at once; it may fail, which ends the negotiation.
TurnConverted ==
  /\ pc["T"] = "buffer" /\ dec.convert
  /\ \/ /\ list' = Without(list, {got.sel})
        /\ TurnEnds([dec EXCEPT !.ret = "error"])
        /\ UNCHANGED <<fr, shown>>
     \/ \E ret \in FlowResults :
          /\ shown' = Append(shown, got.pic)
          /\ list' = Without(list, {got.sel})
          /\ fr' = Emptied({got.sel})
          /\ TurnEnds([dec EXCEPT !.ret = ret])
  /\ UNCHANGED <<ready, mpp, mutex, op, life, flow, fed, epoch, left>>

\* Without it the MPP still reads the last picture it gave, so each is kept
\* back until the next one is there.
TurnKept ==
  /\ pc["T"] = "buffer" /\ ~dec.convert
  /\ LET buffered == [fr EXCEPT ![got.sel].buf = got.pic]
     IN \E ret \in FlowResults, mixed \in BOOLEAN :
          /\ ready' = <<got.sel>>
          /\ IF ready = <<>>
             THEN fr' = buffered /\ ret = "ok" /\ UNCHANGED <<list, shown>>
             ELSE /\ shown' = IF buffered[ready[1]].buf = NoPic THEN shown
                              ELSE Append(shown, buffered[ready[1]].buf)
                  /\ fr' = [buffered EXCEPT ![ready[1]].buf = NoPic]
                  /\ list' = Without(list, {ready[1]})
          /\ TurnEnds([dec EXCEPT !.ret = ret, !.mixed = mixed])
  /\ UNCHANGED <<mpp, mutex, op, life, flow, fed, epoch, left>>

-----------------------------------------------------------------------------
(* The rest of a teardown, and the next start *)

\* The parent's change_state deactivates the pads: no one streams any more.
Deactivate ==
  /\ pc["A"] = "deactivating" /\ pc["S"] = "idle" /\ pc["T"] = "idle"
  /\ task' = "stopped"
  /\ Goto("A", "deactivated")
  /\ UNCHANGED <<dec, list, ready, fr, mpp, mutex, op, got, life, flow, fed, shown,
                 epoch, left>>

Stop ==
  /\ pc["A"] = "deactivated"
  /\ ResetBegins("A", "stop", FALSE, TRUE)
  /\ UNCHANGED <<list, ready, fr, task, mutex, got, life, flow, fed, shown, epoch, left>>

\* The context is destroyed.
Stopped ==
  /\ pc["A"] = "stopped"
  /\ life' = "down" /\ mpp' = <<>>
  /\ Goto("A", "idle")
  /\ UNCHANGED <<dec, list, ready, fr, task, mutex, op, got, flow, fed, shown, epoch, left>>

Start ==
  /\ life = "down" /\ pc["A"] = "idle" /\ pc["S"] = "idle"
  /\ life' = "up" /\ flow' = "ok"
  /\ \E c \in BOOLEAN : /\ c => dec.jpeg
                        /\ dec' = [Fresh EXCEPT !.convert = c, !.jpeg = dec.jpeg]
  /\ UNCHANGED <<list, ready, fr, task, mpp, mutex, pc, op, got, fed, shown, epoch, left>>

StreamStep == HandleFrame \/ HandleLocked \/ HandlePacket \/ HandleSend \/ HandleSent
              \/ Drain \/ SetFormat \/ Flush
ResetStep(t) == ResetUntasked(t) \/ ResetLocked(t) \/ VideoShutdown(t) \/ JpegShutdown(t)
                \/ WaitPaused(t) \/ StopTask(t) \/ ResetEnds(t)
TaskStep == Poll \/ TurnInfo \/ TurnEos \/ TurnPicture \/ TurnConverted \/ TurnKept
AppStep == ChangeState \/ Deactivate \/ Stop \/ Stopped \/ Start

Next == StreamStep \/ TaskStep \/ AppStep \/ \E t \in {"S", "A"} : ResetStep(t)

Spec == Init /\ [][Next]_vars

\* What a thread goes on with, and its turns at the mutex.
GoesOn(t) == \/ VideoShutdown(t) \/ JpegShutdown(t) \/ WaitPaused(t) \/ StopTask(t) \/ ResetEnds(t)
             \/ t = "S" /\ (HandlePacket \/ HandleSend \/ HandleSent)
             \/ t = "A" /\ (Deactivate \/ Stop \/ Stopped)
Locks(t) == ResetUntasked(t) \/ ResetLocked(t) \/ (t = "S" /\ HandleLocked)

\* Threads that can go on do; no waiter for the mutex is passed over for ever;
\* the MPP gives what it holds.
FairSpec == /\ Spec /\ WF_vars(TaskStep)
            /\ \A t \in {"S", "A"} : WF_vars(GoesOn(t)) /\ SF_vars(Locks(t))

-----------------------------------------------------------------------------
(* Properties *)

\* Types, and that at most one frame is kept back.
TypeOK ==
  /\ dec.ret \in FlowResults \cup {"eos"} /\ dec.gen \in Nat
  /\ \A f \in {"flushing", "draining", "decoded", "seen", "useMpp", "mixed", "convert",
               "jpeg", "alloc"} : dec[f] \in BOOLEAN
  /\ list \in Seq(Frames) /\ ready \in Seq(Frames) /\ Len(ready) <= 1
  /\ fr \in [Frames -> [pts : 0..NoPts, buf : Frames \cup {NoPic}]]
  /\ task \in {"stopped", "started", "paused"}
  /\ \A i \in DOMAIN mpp : mpp[i].what \in {"pic", "info", "eos"}
  /\ mutex \in {Nobody, "S", "A"} /\ life \in {"up", "down"}
  /\ shown \in Seq(Frames) /\ fed \in 0..NFrames

\* gst_mpp_dec_reset clears what the task works on (mpp_frame, ready_frames,
\* the allocator, the frames) only when no turn of the loop is under way, and
\* destroys the context only then.
ClearedAlone ==
  /\ task = "stopped" /\ pc["T"] # "idle" => \E t \in {"S", "A"} : pc[t] = "join"
  /\ life = "down" => pc["T"] = "idle" /\ task = "stopped"
  /\ pc["T"] = "buffer" => dec.alloc /\ got.sel # 0

\* gst_mpp_dec_drain, finish: a drain that reports OK has shown or dropped every
\* picture of the packets it followed before the MPP is reset, unless the element
\* is on its way down.
DrainedBeforeReset ==
  [][  op["S"].kind \in {"drain", "finish"} /\ op'["S"].kind = "none" /\ flow' = "ok"
         /\ ~op["S"].overtaken /\ pc["A"] = "idle"
       => mpp = <<>> /\ ready' = <<>> /\ list' = <<>>]_vars

\* gst_mpp_dec_flush: nothing sent before a flush, or before a restart, is shown by
\* it or after it.
NothingStale ==
  [][Len(shown') > Len(shown) => epoch.of[shown'[Len(shown')]] = epoch'.now]_vars

\* Leaving PAUSED ends, unless it overtook a drain.
TeardownEnds == pc["A"] # "idle" ~> (pc["A"] = "idle" \/ op["S"].overtaken)
=============================================================================
