------------------------------ MODULE RgaAsync ------------------------------
(***************************************************************************)
(* The asynchronous path of rgaconvert (gstrgaconvert.c).  The streaming   *)
(* thread "S" submits a buffer to the RGA and hands out the one before it; *)
(* the application thread "A" flushes, takes the element down, brings it   *)
(* back and finalizes it; the process-wide reaper outlives both; the       *)
(* hardware ends a job at any time, or never.  A step is one critical      *)
(* section of self->lock, or one call made outside it.                     *)
(*                                                                         *)
(* A frame (GstRgaPendingFrame) is counted by its references.  A buffer    *)
(* has at most two: the one of its job, with a fence, and the one          *)
(* submit_input_buffer makes of an output that needs no waiting.           *)
(***************************************************************************)
EXTENDS Naturals, Sequences, FiniteSets

CONSTANTS
  NBufs,       \* bound: buffers that arrive
  MaxFlushes,  \* bound: flushes
  MaxStops,    \* bound: times the element is taken down
  StopPolls,   \* how often stop looks before its five seconds are over
  MaxToggles,  \* bound: changes of async-depth
  Calm         \* the application touches the element only between buffers

ASSUME AsyncAssumption ==
  /\ NBufs \in Nat \ {0} /\ MaxFlushes \in Nat /\ MaxStops \in Nat
  /\ StopPolls \in Nat \ {0} /\ MaxToggles \in Nat /\ Calm \in BOOLEAN

Bufs == 1..NBufs
Frames == Bufs \X {"job", "ready"}
NoFrame == <<0, "none">>
NoBuf == 0
Threads == {"S", "A"}

VARIABLES
  el,       \* struct _GstRgaConvert: what self->lock guards
  fr,       \* the frames, by buffer and kind
  job,      \* external: the hardware's jobs
  pc, my,   \* where the threads are, and the streaming thread's locals
  snap,     \* the frames a thread's reap holds, and those it has yet to poll
  escaped,  \* frame_reaper's list
  reaping,  \* frame_reaper.started
  life,     \* started, stopped or finalized
  flow,     \* the last result upstream saw
  fed,      \* buffers that arrived
  shown,    \* outputs pushed downstream
  left      \* what the bounds leave: flushes, stops, toggles; stop's polls

vars == <<el, fr, job, pc, my, snap, escaped, reaping, life, flow, fed, shown, left>>

Blank == [refs |-> 0, submitted |-> TRUE, fence |-> "none", out |-> FALSE]
Idle == [cur |-> NoBuf, depth |-> 0, gen |-> 0, f |-> NoFrame, res |-> "ok",
         status |-> "pending", out |-> NoBuf, tret |-> "none"]

Init ==
  /\ el = [pend |-> NoFrame, rdy |-> NoFrame, quar |-> {}, flushing |-> FALSE,
           gen |-> 0, disabled |-> FALSE, custom |-> FALSE, waiters |-> 0,
           submits |-> 0, depth |-> 1]
  /\ fr = [f \in Frames |-> Blank]
  /\ job = [n \in Bufs |-> "none"]
  /\ pc = [t \in Threads |-> "idle"]
  /\ my = Idle
  /\ snap = [t \in Threads |-> [held |-> {}, todo |-> {}, then |-> "idle"]]
  /\ escaped = {} /\ reaping = FALSE
  /\ life = "started" /\ flow = "ok" /\ fed = 0 /\ shown = <<>>
  /\ left = [flushes |-> MaxFlushes, stops |-> MaxStops, toggles |-> MaxToggles, polls |-> 0]

-----------------------------------------------------------------------------
(* Frames and fences *)

Live(f) == fr[f].refs > 0
Ref(fs, n) == [f \in Frames |-> IF f \in fs THEN [fr[f] EXCEPT !.refs = @ + n] ELSE fr[f]]
Unref(fs, n) == [f \in Frames |-> IF f \in fs THEN [fr[f] EXCEPT !.refs = @ - n] ELSE fr[f]]

\* Mutant of FenceStatus: a fence librga did not give counts as signalled.
MissingSignalled(f) ==
  CASE fr[f].fence # "fd" -> "complete"
    [] OTHER -> CASE job[f[1]] = "done" -> "complete"
                  [] job[f[1]] = "error" -> "failed"
                  [] OTHER -> "pending"

\* gst_mpp_rga_fence_status: no fence is a job done, a missing one is never over.
FenceStatus(f) ==
  CASE fr[f].fence = "none" -> "complete"
    [] fr[f].fence = "missing" -> "pending"
    [] OTHER -> CASE job[f[1]] = "done" -> "complete"
                  [] job[f[1]] = "error" -> "failed"
                  [] OTHER -> "pending"

Terminal(f) == fr[f].submitted /\ FenceStatus(f) # "pending"

Slots == {el.pend, el.rdy} \ {NoFrame}
Quarantined == [el EXCEPT !.quar = @ \cup Slots, !.pend = NoFrame, !.rdy = NoFrame]

Goto(t, l) == pc' = [pc EXCEPT ![t] = l]

\* Enter reap, to go on at l.
Reap(t, l) == /\ Goto(t, "reap")
              /\ snap' = [snap EXCEPT ![t].then = l]

\* The streaming thread returns r to upstream: its own references are gone.
Return(r) == /\ Goto("S", "idle") /\ my' = Idle
             /\ flow' = r

rest == <<life, fed, shown, left, escaped, reaping>>

-----------------------------------------------------------------------------
(* gst_rga_convert_reap, on either thread.  With nothing in quarantine it  *)
(* only counts itself in and out.                                          *)

ReapSnapshot(t) ==
  /\ pc[t] = "reap"
  /\ IF el.quar = {} THEN Goto(t, snap[t].then) /\ UNCHANGED <<el, fr, snap>>
     ELSE /\ el' = [el EXCEPT !.waiters = @ + 1]
          /\ snap' = [snap EXCEPT ![t].held = el.quar, ![t].todo = el.quar]
          /\ fr' = Ref(el.quar, 1)
          /\ Goto(t, "poll")
  /\ UNCHANGED <<job, my, flow, rest>>

\* Mutant of ReapPoll: what another thread has reaped meanwhile is reaped again.
ReapTwice(t) ==
  /\ pc[t] = "poll"
  /\ \E f \in snap[t].todo :
       /\ snap' = [snap EXCEPT ![t].todo = @ \ {f}]
       /\ IF Terminal(f)
          THEN el' = [el EXCEPT !.quar = @ \ {f}] /\ fr' = Unref({f}, 1)
          ELSE UNCHANGED <<el, fr>>
  /\ UNCHANGED <<job, pc, my, flow, rest>>

ReapPoll(t) ==
  /\ pc[t] = "poll"
  /\ \E f \in snap[t].todo :
       /\ snap' = [snap EXCEPT ![t].todo = @ \ {f}]
       /\ IF Terminal(f) /\ f \in el.quar
          THEN el' = [el EXCEPT !.quar = @ \ {f}] /\ fr' = Unref({f}, 1)
          ELSE UNCHANGED <<el, fr>>
  /\ UNCHANGED <<job, pc, my, flow, rest>>

ReapEnd(t) ==
  /\ pc[t] = "poll" /\ snap[t].todo = {}
  /\ fr' = Unref(snap[t].held, 1)
  /\ el' = [el EXCEPT !.waiters = @ - 1]
  /\ snap' = [snap EXCEPT ![t].held = {}]
  /\ Goto(t, snap[t].then)
  /\ UNCHANGED <<job, my, flow, rest>>

-----------------------------------------------------------------------------
(* The streaming thread: chain, submit_input_buffer, transform *)

StreamLockTaken == pc["A"] # "idle" /\ snap["A"].then = "unflush"

Chain ==
  /\ pc["S"] = "idle" /\ life = "started" /\ flow = "ok" /\ fed < NBufs
  /\ ~el.flushing /\ ~StreamLockTaken /\ pc["A"] # "stopping"
  /\ fed' = fed + 1
  /\ my' = [Idle EXCEPT !.cur = fed + 1]
  /\ Reap("S", "submit")
  /\ UNCHANGED <<el, fr, job, flow, life, shown, left, escaped, reaping>>

\* Any serialized event but FLUSH_STOP drains what is older, whatever comes of it.
SerializedEvent ==
  /\ pc["S"] = "idle" /\ life = "started" /\ ~el.flushing /\ ~StreamLockTaken
  /\ pc["A"] # "stopping" /\ Slots # {}
  /\ my' = [Idle EXCEPT !.tret = "event"]
  /\ Goto("S", "drain")
  /\ UNCHANGED <<el, fr, job, snap, flow, rest>>

Submit ==
  /\ pc["S"] = "submit"
  /\ el' = [el EXCEPT !.custom = FALSE]
  /\ CASE el.flushing -> Return("flushing")
       [] ~el.flushing /\ (el.depth = 0 \/ el.disabled) ->
            /\ Goto("S", "drain") /\ my' = [my EXCEPT !.tret = "submit"] /\ UNCHANGED flow
       [] OTHER -> Goto("S", "shift") /\ UNCHANGED <<my, flow>>
  /\ UNCHANGED <<fr, job, snap, rest>>

\* Asserts that nothing is ready: see SlotsFree.
Shift ==
  /\ pc["S"] = "shift"
  /\ el' = [el EXCEPT !.rdy = el.pend, !.pend = NoFrame, !.custom = TRUE]
  /\ Goto("S", "prepare")
  /\ UNCHANGED <<fr, job, my, snap, flow, rest>>

\* The output buffer, the layouts and the crop; async-depth is read again.
Prepare ==
  /\ pc["S"] = "prepare"
  /\ \/ Return("error")
     \/ /\ my' = [my EXCEPT !.depth = IF el.disabled THEN 0 ELSE el.depth]
        /\ Goto("S", "enter") /\ UNCHANGED flow
  /\ UNCHANGED <<el, fr, job, snap, rest>>

\* Copies through system memory (staged) are converted synchronously.
Enter ==
  /\ pc["S"] = "enter"
  /\ IF el.flushing THEN Return("flushing") /\ UNCHANGED el
     ELSE /\ el' = [el EXCEPT !.submits = @ + 1]
          /\ \E staged \in BOOLEAN :
               Goto("S", IF my.depth > 0 /\ ~staged THEN "record" ELSE "blit")
          /\ UNCHANGED <<my, flow>>
  /\ UNCHANGED <<fr, job, snap, rest>>

JobFrame == <<my.cur, "job">>

\* Asserts that nothing is pending: see SlotsFree.
Record ==
  /\ pc["S"] = "record"
  /\ IF el.flushing
     THEN Return("flushing") /\ el' = [el EXCEPT !.submits = @ - 1] /\ UNCHANGED fr
     ELSE /\ fr' = [fr EXCEPT ![JobFrame] =
                      [refs |-> 2, submitted |-> FALSE, fence |-> "none", out |-> TRUE]]
          /\ el' = [el EXCEPT !.pend = JobFrame]
          /\ my' = [my EXCEPT !.gen = el.gen]
          /\ Goto("S", "native") /\ UNCHANGED flow
  /\ UNCHANGED <<job, snap, rest>>

\* improcessOpt: it starts a job and gives its fence, starts one and gives
\* none, fails after it started one, or fails.
Native ==
  /\ pc["S"] = "native"
  /\ \E r \in {"ok", "nofence", "late", "fail"} :
       /\ my' = [my EXCEPT !.res = r]
       /\ job' = IF r = "fail" THEN job ELSE [job EXCEPT ![my.cur] = "busy"]
  /\ Goto("S", "publish")
  /\ UNCHANGED <<el, fr, snap, flow, rest>>

FenceOf(r) == CASE r = "nofence" -> "missing" [] r = "fail" -> "none" [] OTHER -> "fd"

Publish ==
  /\ pc["S"] = "publish"
  /\ fr' = [fr EXCEPT ![JobFrame].fence = FenceOf(my.res), ![JobFrame].submitted = TRUE]
  /\ LET mine == el.pend = JobFrame IN
     el' = IF my.res = "ok" THEN el
           ELSE [el EXCEPT !.disabled = TRUE,
                           !.quar = IF mine THEN @ \cup {JobFrame} ELSE @,
                           !.pend = IF mine THEN NoFrame ELSE @]
  /\ my' = [my EXCEPT !.res = IF el.flushing \/ my.gen # el.gen THEN "flushing" ELSE @]
  /\ Goto("S", "settle")
  /\ UNCHANGED <<job, snap, flow, rest>>

Settle ==
  /\ pc["S"] = "settle"
  /\ fr' = Unref({JobFrame}, 1)
  /\ el' = [el EXCEPT !.submits = @ - 1]
  /\ CASE my.res = "flushing" -> Return("flushing")
       [] my.res = "ok" -> Goto("S", "converted") /\ UNCHANGED <<my, flow>>
       [] OTHER -> Return("error")
  /\ UNCHANGED <<job, snap, rest>>

\* improcess: the call lasts as long as the job.
Blit ==
  /\ pc["S"] = "blit"
  /\ \/ Return("error") /\ el' = [el EXCEPT !.submits = @ - 1] /\ UNCHANGED job
     \/ /\ job' = [job EXCEPT ![my.cur] = "busy"]
        /\ Goto("S", "blitting") /\ UNCHANGED <<el, my, flow>>
  /\ UNCHANGED <<fr, snap, rest>>

BlitReturn ==
  /\ pc["S"] = "blitting" /\ job[my.cur] # "busy"
  /\ el' = [el EXCEPT !.submits = @ - 1]
  /\ IF job[my.cur] = "done" THEN Goto("S", "converted") /\ UNCHANGED <<my, flow>>
     ELSE Return("error")
  /\ UNCHANGED <<fr, job, snap, rest>>

\* Mutant of Converted: a flush that came during the conversion is not seen.
ConvertedFlushed ==
  /\ pc["S"] = "converted"
  /\ IF el.custom
     THEN /\ IF el.pend = NoFrame
             THEN /\ fr' = [fr EXCEPT ![<<my.cur, "ready">>] = [Blank EXCEPT !.refs = 1, !.out = TRUE]]
                  /\ el' = [el EXCEPT !.pend = <<my.cur, "ready">>]
             ELSE UNCHANGED <<el, fr>>
          /\ my' = Idle
          /\ Reap("S", "generate")
     ELSE /\ my' = [my EXCEPT !.out = my.cur, !.cur = NoBuf, !.tret = "generate"]
          /\ Goto("S", "push") /\ UNCHANGED <<el, fr, snap>>
  /\ UNCHANGED <<job, flow, rest>>

\* Back in submit_input_buffer, an output that is not pending is made so;
\* back in the parent's generate_output, it is the output.
Converted ==
  /\ pc["S"] = "converted"
  /\ IF el.custom
     THEN /\ IF el.pend = NoFrame /\ ~el.flushing
             THEN /\ fr' = [fr EXCEPT ![<<my.cur, "ready">>] = [Blank EXCEPT !.refs = 1, !.out = TRUE]]
                  /\ el' = [el EXCEPT !.pend = <<my.cur, "ready">>]
             ELSE UNCHANGED <<el, fr>>
          /\ my' = Idle
          /\ Reap("S", "generate")
     ELSE /\ my' = [my EXCEPT !.out = my.cur, !.cur = NoBuf, !.tret = "generate"]
          /\ Goto("S", "push") /\ UNCHANGED <<el, fr, snap>>
  /\ UNCHANGED <<job, flow, rest>>

-----------------------------------------------------------------------------
(* generate_output, take_ready and drain_pending *)

Generate ==
  /\ pc["S"] = "generate"
  /\ CASE el.flushing -> Return("flushing")
       [] ~el.flushing /\ el.custom ->
            Goto("S", "take") /\ my' = [my EXCEPT !.tret = "generate"] /\ UNCHANGED flow
       [] OTHER -> IF my.cur = NoBuf THEN Return("ok")
                   ELSE Goto("S", "prepare") /\ UNCHANGED <<my, flow>>
  /\ UNCHANGED <<el, fr, job, snap, rest>>

Drain ==
  /\ pc["S"] = "drain"
  /\ el' = IF el.rdy = NoFrame THEN [el EXCEPT !.rdy = el.pend, !.pend = NoFrame] ELSE el
  /\ IF Slots # {} THEN Goto("S", "take") /\ UNCHANGED <<my, snap>>
     ELSE IF my.tret = "event" THEN Goto("S", "idle") /\ my' = Idle /\ UNCHANGED snap
     ELSE Reap("S", "generate") /\ UNCHANGED my
  /\ UNCHANGED <<fr, job, flow, rest>>

Take ==
  /\ pc["S"] = "take"
  /\ IF el.rdy = NoFrame
     THEN /\ IF my.tret = "generate" THEN Return("ok") ELSE Goto("S", "drain") /\ UNCHANGED <<my, flow>>
          /\ UNCHANGED <<el, fr>>
     ELSE /\ el' = [el EXCEPT !.waiters = @ + 1]
          /\ fr' = Ref({el.rdy}, 1)
          /\ my' = [my EXCEPT !.f = el.rdy]
          /\ Goto("S", "wait") /\ UNCHANGED flow
  /\ UNCHANGED <<job, snap, rest>>

\* Poll until the fence is terminal, 100 ms are over or the frame is gone.
Wait ==
  /\ pc["S"] = "wait"
  /\ my' = [my EXCEPT !.status = IF el.flushing \/ el.rdy # my.f THEN "pending" ELSE FenceStatus(my.f)]
  /\ Goto("S", "taken")
  /\ UNCHANGED <<el, fr, job, snap, flow, rest>>

Taken ==
  /\ pc["S"] = "taken"
  /\ IF el.flushing \/ el.rdy # my.f
     THEN my' = [my EXCEPT !.res = "flushing"] /\ UNCHANGED <<el, fr>>
     ELSE /\ el' = [el EXCEPT !.rdy = NoFrame,
                              !.disabled = @ \/ my.status # "complete",
                              !.quar = IF my.status = "pending" THEN @ \cup {my.f} ELSE @]
          /\ CASE my.status = "pending" ->
                    my' = [my EXCEPT !.res = "dropped"] /\ UNCHANGED fr
               [] my.status = "complete" ->
                    /\ my' = [my EXCEPT !.res = "output", !.out = my.f[1]]
                    /\ fr' = [fr EXCEPT ![my.f].out = FALSE]
               [] OTHER -> my' = [my EXCEPT !.res = "error"] /\ UNCHANGED fr
  /\ Goto("S", "release")
  /\ UNCHANGED <<job, snap, flow, rest>>

ReleaseFrame ==
  /\ pc["S"] = "release"
  /\ fr' = Unref({my.f}, IF my.res \in {"output", "error"} THEN 2 ELSE 1)
  /\ el' = [el EXCEPT !.waiters = @ - 1]
  /\ my' = [my EXCEPT !.f = NoFrame]
  /\ Reap("S", CASE my.res = "output" -> "push"
                 [] my.res = "dropped" /\ my.tret = "generate" -> "over"
                 [] my.res = "dropped" -> "drain"
                 [] OTHER -> "fail")
  /\ UNCHANGED <<job, flow, rest>>

\* A failed drain ends a submission; what an event's drain returned is ignored.
Over ==
  /\ pc["S"] \in {"over", "fail"}
  /\ IF my.tret = "event" THEN Goto("S", "idle") /\ my' = Idle /\ UNCHANGED flow
     ELSE Return(IF pc["S"] = "over" THEN "ok" ELSE my.res)
  /\ UNCHANGED <<el, fr, job, snap, rest>>

\* Downstream takes the buffer whatever it answers.
Push ==
  /\ pc["S"] = "push"
  /\ shown' = Append(shown, my.out)
  /\ LET draining == my.tret # "generate"
         next == [my EXCEPT !.out = NoBuf, !.res = "ok"]
     IN \/ /\ my' = next /\ UNCHANGED flow
           /\ IF draining THEN Goto("S", "drain") /\ UNCHANGED snap ELSE Reap("S", "generate")
        \/ /\ IF my.tret = "event" THEN Goto("S", "idle") /\ my' = Idle /\ UNCHANGED flow
              ELSE Return("error")
           /\ UNCHANGED snap
  /\ UNCHANGED <<el, fr, job, life, fed, left, escaped, reaping>>

-----------------------------------------------------------------------------
(* The application thread *)

Quiet == Calm => pc["S"] = "idle"

SetAsyncDepth ==
  /\ left.toggles > 0 /\ Quiet
  /\ el' = [el EXCEPT !.depth = 1 - @]
  /\ left' = [left EXCEPT !.toggles = @ - 1]
  /\ UNCHANGED <<fr, job, pc, my, snap, escaped, reaping, life, flow, fed, shown>>

FlushStart ==
  /\ pc["A"] = "idle" /\ life = "started" /\ ~el.flushing /\ left.flushes > 0
  /\ el' = [Quarantined EXCEPT !.flushing = TRUE, !.gen = @ + 1]
  /\ left' = [left EXCEPT !.flushes = @ - 1]
  /\ UNCHANGED <<fr, job, pc, my, snap, escaped, reaping, life, flow, fed, shown>>

\* FLUSH_STOP holds the stream lock from here to FlushStopped.
FlushStop ==
  /\ pc["A"] = "idle" /\ life = "started" /\ el.flushing /\ pc["S"] = "idle"
  /\ el' = Quarantined
  /\ Reap("A", "unflush")
  /\ UNCHANGED <<fr, job, my, flow, rest>>

FlushStopped ==
  /\ pc["A"] = "unflush"
  /\ el' = [el EXCEPT !.flushing = FALSE]
  /\ flow' = "ok"
  /\ Goto("A", "idle")
  /\ snap' = [snap EXCEPT !["A"].then = "idle"]
  /\ UNCHANGED <<fr, job, my, rest>>

\* PAUSED to READY: change_state drains before the parent deactivates the
\* pads, while the streaming thread may still run.
StateDrain ==
  /\ pc["A"] = "idle" /\ life = "started" /\ left.stops > 0 /\ Quiet
  /\ left' = [left EXCEPT !.stops = @ - 1]
  /\ el' = Quarantined
  /\ Reap("A", "stopping")
  /\ UNCHANGED <<fr, job, my, flow, life, fed, shown, escaped, reaping>>

\* The parent stops and starts when the streaming thread is out; the code
\* provides for one that is late inside a counted operation.
OutOrCounted == pc["S"] = "idle" \/ el.submits > 0 \/ el.waiters > 0

StopBegin ==
  /\ pc["A"] = "stopping" /\ OutOrCounted
  /\ el' = [Quarantined EXCEPT !.flushing = TRUE, !.gen = @ + 1]
  /\ left' = [left EXCEPT !.polls = StopPolls]
  /\ Reap("A", "stopcheck")
  /\ UNCHANGED <<fr, job, my, flow, life, fed, shown, escaped, reaping>>

Empty == el.quar = {} /\ el.waiters = 0 /\ el.submits = 0
Stopped == /\ Goto("A", "idle")
           /\ life' = IF life = "stopped" THEN "finalized" ELSE "stopped"

StopEmpty ==
  /\ pc["A"] = "stopcheck" /\ Empty
  /\ Stopped
  /\ UNCHANGED <<el, fr, job, my, snap, flow, fed, shown, left, escaped, reaping>>

\* Mutant of StopAgain: the deadline starts again with every look.
StopAnew ==
  /\ pc["A"] = "stopcheck" /\ ~Empty
  /\ Reap("A", "stopcheck")
  /\ UNCHANGED <<el, fr, job, my, flow, life, fed, shown, left, escaped, reaping>>

StopAgain ==
  /\ pc["A"] = "stopcheck" /\ ~Empty /\ left.polls > 0
  /\ left' = [left EXCEPT !.polls = @ - 1]
  /\ Reap("A", "stopcheck")
  /\ UNCHANGED <<el, fr, job, my, flow, life, fed, shown, escaped, reaping>>

\* The deadline: what is left goes to the reaper, whose thread may not start.
StopEscape ==
  /\ pc["A"] = "stopcheck" /\ ~Empty /\ left.polls = 0
  /\ escaped' = escaped \cup el.quar
  /\ el' = [el EXCEPT !.quar = {}]
  /\ reaping' \in {TRUE, reaping}
  /\ Stopped
  /\ UNCHANGED <<fr, job, my, snap, flow, fed, shown, left>>

\* READY to PAUSED: refused while an operation of the last session is active.
Start ==
  /\ pc["A"] = "idle" /\ life = "stopped" /\ OutOrCounted
  /\ el.waiters = 0 /\ el.submits = 0
  /\ el' = [el EXCEPT !.flushing = FALSE, !.disabled = FALSE, !.custom = FALSE]
  /\ life' = "started" /\ flow' = "ok"
  /\ UNCHANGED <<fr, job, pc, my, snap, escaped, reaping, fed, shown, left>>

\* The last reference is gone; a running callback holds one of its own.
Finalize ==
  /\ pc["A"] = "idle" /\ life = "stopped" /\ pc["S"] = "idle"
  /\ Goto("A", "stopping")
  /\ UNCHANGED <<el, fr, job, my, snap, flow, rest>>

-----------------------------------------------------------------------------
(* The reaper's thread and the hardware *)

ReaperFrees ==
  /\ reaping
  /\ \E f \in escaped : /\ fr[f].refs = 1 /\ Terminal(f)
                        /\ fr' = Unref({f}, 1)
                        /\ escaped' = escaped \ {f}
  /\ UNCHANGED <<el, job, pc, my, snap, reaping, life, flow, fed, shown, left>>

JobEnds ==
  /\ \E n \in Bufs, s \in {"done", "error"} : job[n] = "busy" /\ job' = [job EXCEPT ![n] = s]
  /\ UNCHANGED <<el, fr, pc, my, snap, escaped, reaping, life, flow, fed, shown, left>>

ReapStep(t) == ReapSnapshot(t) \/ ReapPoll(t) \/ ReapEnd(t)

Stream == \/ ReapStep("S") \/ Submit \/ Shift \/ Prepare \/ Enter \/ Record \/ Publish
          \/ Settle \/ Blit \/ BlitReturn \/ Converted \/ Generate \/ Drain \/ Take
          \/ Wait \/ Taken \/ ReleaseFrame \/ Over \/ Push

StopSteps == ReapStep("A") \/ FlushStopped \/ StopBegin \/ StopEmpty \/ StopAgain \/ StopEscape

Next == \/ Stream \/ Native \/ StopSteps \/ Chain \/ SerializedEvent
        \/ SetAsyncDepth \/ FlushStart \/ FlushStop \/ StateDrain \/ Start \/ Finalize
        \/ ReaperFrees \/ JobEnds

Spec == Init /\ [][Next]_vars

\* Threads that are running go on; librga's calls and jobs may never end.
FairSpec == /\ Spec /\ WF_vars(Stream) /\ WF_vars(StopSteps) /\ WF_vars(ReaperFrees)

-----------------------------------------------------------------------------
(* Properties *)

TypeOK ==
  /\ el.pend \in Frames \cup {NoFrame} /\ el.rdy \in Frames \cup {NoFrame}
  /\ el.quar \subseteq Frames /\ escaped \subseteq Frames
  /\ el.waiters \in 0..2 /\ el.submits \in 0..1
  /\ fr \in [Frames -> [refs : 0..4, submitted : BOOLEAN, out : BOOLEAN,
                        fence : {"none", "fd", "missing"}]]
  /\ job \in [Bufs -> {"none", "busy", "done", "error"}]

\* Who holds a frame: a slot, quarantine, the reaper, a poller's snapshot, the
\* waiting or the submitting streaming thread.
One(holds) == IF holds THEN 1 ELSE 0
Placed(f) == One(el.pend = f) + One(el.rdy = f) + One(f \in el.quar) + One(f \in escaped)
Used(f) == /\ f = JobFrame
           /\ pc["S"] \in {"native", "publish", "settle"}
Holders(f) == Placed(f) + One(f \in snap["S"].held) + One(f \in snap["A"].held)
                + One(my.f = f) + One(Used(f))

\* The count of a frame is the number of its holders (gst_rga_frame_ref and
\* unref in every path): a frame is neither freed under a holder nor leaked.
\* A taken frame still has its slot's reference until it is released.
RefsCounted ==
  \A f \in Frames :
    fr[f].refs = Holders(f)
      + One(my.f = f /\ pc["S"] = "release" /\ my.res \in {"output", "error"})

\* While flushing nothing waits to be shown, and both of the code's assertions
\* hold: nothing is ready when a buffer takes its slot, nothing is pending when
\* a job is recorded.
SlotsFree ==
  /\ el.flushing => Slots = {}
  /\ pc["S"] = "shift" => el.rdy = NoFrame
  /\ pc["S"] \in {"enter", "record", "prepare"} => el.pend = NoFrame

\* The buffers the element holds: those of its frames, and the streaming
\* thread's own.
Held == {n \in Bufs : \/ \E k \in {"job", "ready"} : Live(<<n, k>>)
                      \/ my.cur = n \/ my.out = n}

Lease == INSTANCE RgaDmaLease WITH lent <- Held

\* The converter implements the lease of its buffers.
LeaseKept == Lease!Spec

\* Stop returns although a job never ends (the five seconds' deadline).
StopReturns == pc["A"] = "stopcheck" ~> pc["A"] = "idle"
=============================================================================
