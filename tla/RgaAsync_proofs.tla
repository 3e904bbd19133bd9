--------------------------- MODULE RgaAsync_proofs ---------------------------
(***************************************************************************)
(* The asynchronous converter, for any number of buffers, flushes, stops   *)
(* and looks.                                                              *)
(*                                                                         *)
(* Every reference has its holder and both of the code's assertions hold   *)
(* (RefsCounted, SlotsFree), whenever the application acts.  What these    *)
(* need beside the count itself is where the streaming thread may be while *)
(* something is ready (RdyHeld), while nothing is pending (PendFree), and  *)
(* that the frames it is about to make were never counted (Unused).        *)
(*                                                                         *)
(* While the application touches the element only between buffers (Calm),  *)
(* every step is a step of RgaDmaLease or leaves it alone: a job that runs *)
(* has its frame in a place that only the end of the job empties           *)
(* (BusyOwned), and what is shown, in hand, ready, pending and being       *)
(* submitted follow one another in the order of the stream (InOrder).      *)
(***************************************************************************)
EXTENDS RgaAsync, Integers, TLAPS

Labels == {"idle", "reap", "poll", "submit", "shift", "prepare", "enter", "record", "native",
           "publish", "settle", "blit", "blitting", "converted", "generate", "drain", "take",
           "wait", "taken", "release", "over", "fail", "push", "unflush", "stopping", "stopcheck"}

\* Where a thread is; a thread that reaps is where it goes on.
At(t) == IF pc[t] \in {"reap", "poll"} THEN snap[t].then ELSE pc[t]

ElSet == [pend : Frames \cup {NoFrame}, rdy : Frames \cup {NoFrame}, quar : SUBSET Frames,
          flushing : BOOLEAN, gen : Nat, disabled : BOOLEAN, custom : BOOLEAN,
          waiters : Int, submits : Int, depth : 0..1]
FrSet == [refs : Int, submitted : BOOLEAN, fence : {"none", "fd", "missing"}, out : BOOLEAN]
MySet == [cur : Bufs \cup {NoBuf}, depth : 0..1, gen : Nat, f : Frames \cup {NoFrame},
          res : {"ok", "nofence", "late", "fail", "flushing", "output", "dropped", "error"},
          status : {"pending", "complete", "failed"}, out : Bufs \cup {NoBuf},
          tret : {"none", "event", "submit", "generate"}]
SnapSet == [held : SUBSET Frames, todo : SUBSET Frames, then : Labels]

Types ==
  /\ el \in ElSet /\ my \in MySet
  /\ fr \in [Frames -> FrSet]
  /\ snap \in [Threads -> SnapSet]
  /\ pc \in [Threads -> Labels]
  /\ job \in [Bufs -> {"none", "busy", "done", "error"}]
  /\ escaped \subseteq Frames /\ reaping \in BOOLEAN
  /\ life \in {"started", "stopped", "finalized"} /\ flow \in {"ok", "flushing", "error"}
  /\ fed \in 0..NBufs /\ shown \in Seq(Bufs)

-----------------------------------------------------------------------------
(* Where the threads are and what they have in hand *)

Submitting == {"submit", "shift", "prepare", "enter", "record", "native", "publish", "settle",
               "blit", "blitting", "converted"}
Taking == {"drain", "take", "wait", "taken", "release", "over", "fail", "push"}

Control ==
  /\ \A t \in Threads : pc[t] # "poll" => snap[t].held = {}
  /\ \A t \in Threads : snap[t].then \in {"idle", "submit", "generate", "drain", "over", "fail", "push",
                                        "unflush", "stopping", "stopcheck"}
  /\ my.f # NoFrame <=> pc["S"] \in {"wait", "taken", "release"}
  /\ At("S") \notin {"unflush", "stopping", "stopcheck"}
  /\ At("S") = "idle" => pc["S"] = "idle" /\ my = Idle
  /\ At("S") \in Submitting => my.cur # NoBuf
  /\ my.cur # NoBuf => my.cur = fed
  /\ my.out # NoBuf <=> (pc["S"] = "release" /\ my.res = "output") \/ At("S") = "push"
  /\ pc["S"] = "release" => my.res \in {"flushing", "output", "dropped", "error"}
  /\ At("S") = "fail" => my.res \in {"flushing", "error"}
  /\ my.cur # NoBuf /\ At("S") \in Taking => my.tret = "submit" /\ ~el.custom
  /\ At("A") \in {"idle", "unflush", "stopping", "stopcheck"}
  /\ At("A") = "unflush" =>
       pc["S"] = "idle" /\ el.flushing /\ life = "started" /\ snap["A"].then = "unflush"
  /\ At("A") = "stopcheck" \/ life # "started" => el.flushing

\* Frames not made yet have no reference, buffers not submitted yet no job.
Unused ==
  /\ \A n \in Bufs : n > fed =>
       job[n] = "none" /\ fr[<<n, "job">>].refs = 0 /\ fr[<<n, "ready">>].refs = 0
  /\ my.cur # NoBuf =>
       /\ fr[<<my.cur, "ready">>].refs = 0
       /\ pc["S"] \notin {"native", "publish", "settle", "converted"} => fr[JobFrame].refs = 0
       /\ pc["S"] \notin {"publish", "settle", "blitting", "converted"} => job[my.cur] = "none"

\* A frame is in one place.
Apart == \A f \in Frames : Placed(f) <= 1

RdyHeld ==
  el.rdy # NoFrame =>
    \/ At("S") \in (Submitting \ {"submit", "shift"}) \cup {"generate"} /\ el.custom
    \/ At("S") \in {"drain", "take"}
    \/ At("S") \in {"wait", "taken"} /\ el.rdy = my.f
    \/ At("S") = "idle" /\ flow # "ok"

PendFree ==
  /\ At("S") \in {"prepare", "enter", "record"} => el.pend = NoFrame
  /\ At("S") = "generate" /\ my.cur # NoBuf => el.pend = NoFrame /\ ~el.custom

FlushedEmpty == el.flushing => el.pend = NoFrame /\ el.rdy = NoFrame

Inv == Types /\ Control /\ Unused /\ Apart /\ RdyHeld /\ PendFree /\ FlushedEmpty /\ RefsCounted

-----------------------------------------------------------------------------
(* Jobs and their frames *)

\* Only the frame being submitted is not marked so, and it stays in its place.
Submitted ==
  /\ \A f \in Frames : ~fr[f].submitted => f = JobFrame /\ pc["S"] \in {"native", "publish"}
  /\ pc["S"] \in {"native", "publish"} => ~fr[JobFrame].submitted /\ Placed(JobFrame) = 1
  /\ pc["S"] = "publish" /\ my.res = "fail" => job[my.cur] = "none"

\* A submitted frame without a fence has no job that runs, unless it is the
\* unused frame of a buffer that is converted synchronously.
FencesTrue ==
  \A n \in Bufs :
    fr[<<n, "job">>].submitted /\ fr[<<n, "job">>].fence = "none" /\ job[n] = "busy" =>
      my.cur = n /\ pc["S"] = "blitting"

\* The verdict on the frame in hand is the hardware's last word.
StatusTrue ==
  pc["S"] = "taken" /\ my.status # "pending" /\ my.f[2] = "job" => job[my.f[1]] # "busy"

BusyOwned ==
  \A n \in Bufs : job[n] = "busy" =>
    \/ my.cur = n /\ pc["S"] = "blitting"
    \/ Placed(<<n, "job">>) = 1

BusyInv == Submitted /\ FencesTrue /\ StatusTrue /\ BusyOwned

-----------------------------------------------------------------------------
(* The order of the stream, when the application is calm *)

\* What has been shown, the output in hand, the ready, the pending and the
\* current buffer follow one another, and none is later than what arrived.
Ordered(o, r, p, c) ==
  /\ \A i \in 1..Len(shown) : /\ shown[i] <= fed
                              /\ \A n \in {o, r, p, c} \ {NoBuf} : shown[i] < n
  /\ \A n \in {o, r, p, c} : n <= fed
  /\ o # NoBuf => \A n \in {r, p, c} \ {NoBuf} : o < n
  /\ r # NoBuf => \A n \in {p, c} \ {NoBuf} : r < n
  /\ p # NoBuf /\ c # NoBuf => p <= c

InOrder ==
  /\ Ordered(my.out, el.rdy[1], el.pend[1], my.cur)
  /\ el.pend # NoFrame /\ el.pend[1] = my.cur => pc["S"] \in {"native", "publish", "settle", "converted"}

\* A conversion outside the converter's own path finds both slots empty, is not
\* asynchronous, and has ended when its output is in hand.
Synchronous ==
  /\ my.cur # NoBuf /\ ~el.custom /\ At("S") \in Taking \cup {"generate", "prepare"}
       => el.depth = 0 \/ el.disabled
  /\ pc["S"] = "enter" /\ ~el.custom => my.depth = 0
  /\ pc["S"] \in {"record", "native", "publish", "settle"} => el.custom
  /\ pc["S"] \in {"blit", "blitting", "converted"} /\ ~el.custom => el.pend = NoFrame

\* What waits in a slot has its job's fence, or its job is done.
SlotsDone ==
  /\ \A f \in Slots :
       \/ f = JobFrame /\ pc["S"] \in {"native", "publish"}
       \/ IF f[2] = "job" THEN fr[f].fence = "fd" ELSE job[f[1]] = "done"
  /\ pc["S"] \in {"native", "publish"} => el.pend = JobFrame \/ el.flushing
  /\ pc["S"] = "settle" /\ my.res = "ok" => el.pend = JobFrame \/ el.flushing
  /\ pc["S"] = "converted" => \/ job[my.cur] = "done"
                              \/ el.custom /\ (el.pend = JobFrame \/ el.flushing)
  /\ pc["S"] = "taken" /\ my.status = "complete" => job[my.f[1]] = "done"
  /\ my.out # NoBuf => job[my.out] = "done"

OrderInv == InOrder /\ Synchronous /\ SlotsDone
-----------------------------------------------------------------------------
(* Types *)

LEMMA FrameFacts ==
  /\ NoFrame \notin Frames /\ NoBuf \notin Bufs
  /\ \A f \in Frames : f[1] \in Bufs /\ f = <<f[1], f[2]>> /\ f[2] \in {"job", "ready"}
  /\ \A n \in Bufs : <<n, "job">> \in Frames /\ <<n, "ready">> \in Frames
  /\ NoFrame[1] = NoBuf
BY AsyncAssumption DEF Frames, Bufs, NoFrame, NoBuf

LEMMA LabelFacts ==
  /\ \A l \in {"idle", "reap", "poll", "submit", "shift", "prepare", "enter", "record", "native",
              "publish", "settle", "blit", "blitting", "converted"} : l \in Labels
  /\ \A l \in {"generate", "drain", "take", "wait", "taken", "release", "over", "fail", "push",
              "unflush", "stopping", "stopcheck"} : l \in Labels
BY DEF Labels

LEMMA TypesInit == Init => Types
<1> SUFFICES ASSUME Init PROVE Types OBVIOUS
<1>1. el \in ElSet BY FrameFacts DEF Init, ElSet
<1>2. my \in MySet BY FrameFacts DEF Init, MySet, Idle
<1>3. fr \in [Frames -> FrSet] BY DEF Init, FrSet, Blank
<1>4. snap \in [Threads -> SnapSet] BY LabelFacts DEF Init, SnapSet
<1>5. pc \in [Threads -> Labels] BY LabelFacts DEF Init
<1>6. fed \in 0..NBufs /\ shown \in Seq(Bufs) BY AsyncAssumption DEF Init
<1>7. job \in [Bufs -> {"none", "busy", "done", "error"}] BY DEF Init
<1> QED BY <1>1, <1>2, <1>3, <1>4, <1>5, <1>6, <1>7 DEF Init, Types

LEMMA Counted ==
  ASSUME Types, NEW fs \in SUBSET Frames, NEW n \in Nat
  PROVE  Ref(fs, n) \in [Frames -> FrSet] /\ Unref(fs, n) \in [Frames -> FrSet]
<1>1. fr \in [Frames -> FrSet] BY DEF Types
<1>2. \A f \in Frames : fr[f].refs + n \in Int /\ fr[f].refs - n \in Int BY <1>1 DEF FrSet
<1>3. \A f \in Frames : [fr[f] EXCEPT !.refs = @ + n] \in FrSet BY <1>1, <1>2 DEF FrSet
<1>4. \A f \in Frames : [fr[f] EXCEPT !.refs = @ - n] \in FrSet BY <1>1, <1>2 DEF FrSet
<1> QED BY <1>1, <1>3, <1>4 DEF Ref, Unref

LEMMA Went ==
  ASSUME Types, NEW t \in Threads, NEW l \in Labels
  PROVE  /\ Goto(t, l) => pc' \in [Threads -> Labels]
         /\ Reap(t, l) => pc' \in [Threads -> Labels] /\ snap' \in [Threads -> SnapSet]
<1>1. pc \in [Threads -> Labels] /\ snap \in [Threads -> SnapSet] BY DEF Types
<1>2. [snap[t] EXCEPT !.then = l] \in SnapSet BY <1>1 DEF SnapSet
<1> QED BY <1>1, <1>2, LabelFacts DEF Goto, Reap

LEMMA Numbers ==
  ASSUME Types
  PROVE  /\ el.waiters + 1 \in Int /\ el.waiters - 1 \in Int
         /\ el.submits + 1 \in Int /\ el.submits - 1 \in Int
         /\ el.gen \in Nat /\ el.gen + 1 \in Nat /\ el.depth \in 0..1 /\ 1 - el.depth \in 0..1
BY DEF Types, ElSet

LEMMA IdleTyped == Idle \in MySet /\ Blank \in FrSet
BY FrameFacts DEF Idle, MySet, Blank, FrSet

LEMMA Written ==
  ASSUME Types, NEW f, NEW r \in FrSet
  PROVE  [fr EXCEPT ![f] = r] \in [Frames -> FrSet]
BY DEF Types

LEMMA QuarantinedTyped ==
  ASSUME Types
  PROVE  /\ Quarantined \in ElSet /\ Slots \in SUBSET Frames
         /\ Quarantined.pend = NoFrame /\ Quarantined.rdy = NoFrame
         /\ Quarantined.quar = el.quar \cup Slots
         /\ \A g \in Nat : [Quarantined EXCEPT !.flushing = TRUE, !.gen = g] \in ElSet
<1>1. Slots \in SUBSET Frames BY DEF Types, ElSet, Slots
<1>2. Quarantined \in ElSet BY <1>1 DEF Types, ElSet, Quarantined
<1>3. \A g \in Nat : [Quarantined EXCEPT !.flushing = TRUE, !.gen = g] \in ElSet BY <1>2 DEF ElSet
<1> QED BY <1>1, <1>2, <1>3 DEF Types, ElSet, Quarantined

LEMMA TypesStep == ASSUME Types, Control, [Next]_vars PROVE Types'
<1> USE FrameFacts, LabelFacts, IdleTyped
<1>1. ASSUME NEW t \in Threads, ReapSnapshot(t) PROVE Types'
  <2>1. el' \in ElSet BY ZenonT(30), <1>1, Numbers DEF Types, ReapSnapshot, ElSet
  <2>5. el.quar \in SUBSET Frames BY DEF Types, ElSet
  <2>2. fr' \in [Frames -> FrSet]
    <3>1. fr' = fr \/ fr' = Ref(el.quar, 1) BY <1>1 DEF ReapSnapshot
    <3>2. Ref(el.quar, 1) \in [Frames -> FrSet] BY <2>5, Counted
    <3> QED BY <3>1, <3>2 DEF Types
  <2>3. pc' \in [Threads -> Labels] BY <1>1, Went DEF Types, ReapSnapshot, SnapSet, Goto
  <2>4. snap' \in [Threads -> SnapSet] BY <1>1 DEF Types, ReapSnapshot, SnapSet, ElSet
  <2> QED BY <1>1, <2>1, <2>2, <2>3, <2>4 DEF Types, ReapSnapshot, rest
<1>2. ASSUME NEW t \in Threads, ReapPoll(t) PROVE Types'
  <2>1. PICK f \in snap[t].todo :
          /\ snap' = [snap EXCEPT ![t].todo = @ \ {f}]
          /\ \/ el' = [el EXCEPT !.quar = @ \ {f}] /\ fr' = Unref({f}, 1)
             \/ UNCHANGED <<el, fr>>
    BY <1>2 DEF ReapPoll
  <2>2. snap[t] \in SnapSet BY DEF Types
  <2>3. f \in Frames BY <2>2 DEF SnapSet
  <2>4. [snap[t] EXCEPT !.todo = @ \ {f}] \in SnapSet BY <2>2 DEF SnapSet
  <2>5. snap' \in [Threads -> SnapSet] BY <2>1, <2>4 DEF Types
  <2>6. [el EXCEPT !.quar = @ \ {f}] \in ElSet BY DEF Types, ElSet
  <2>7. el' \in ElSet BY <2>1, <2>6 DEF Types
  <2>8. Unref({f}, 1) \in [Frames -> FrSet] BY <2>3, Counted
  <2>9. fr' \in [Frames -> FrSet] BY <2>1, <2>8 DEF Types
  <2> QED BY <1>2, <2>5, <2>7, <2>9 DEF Types, ReapPoll, rest
<1>3. ASSUME NEW t \in Threads, ReapEnd(t) PROVE Types'
  <2>1. snap[t] \in SnapSet BY DEF Types
  <2>2. [snap[t] EXCEPT !.held = {}] \in SnapSet BY <2>1 DEF SnapSet
  <2>3. snap[t].held \in SUBSET Frames /\ snap[t].then \in Labels BY <2>1 DEF SnapSet
  <2>4. snap' \in [Threads -> SnapSet] BY <1>3, <2>2 DEF Types, ReapEnd
  <2>5. el' \in ElSet BY <1>3, Numbers DEF Types, ReapEnd, ElSet
  <2>6. fr' \in [Frames -> FrSet] BY <1>3, <2>3, Counted DEF ReapEnd
  <2>7. pc' \in [Threads -> Labels] BY <1>3, <2>3, Went DEF ReapEnd
  <2> QED BY <1>3, <2>4, <2>5, <2>6, <2>7 DEF Types, ReapEnd, rest
<1>4. CASE Submit
  <2>1. el' \in ElSet BY <1>4, Numbers, QuarantinedTyped DEF Submit, Types, ElSet, MySet
  <2>2. my' \in MySet
    <3>1. [my EXCEPT !.tret = "submit"] \in MySet BY DEF Types, MySet
    <3> QED BY <1>4, <3>1 DEF Types, Submit, Return
  <2>3. pc' \in [Threads -> Labels] BY <1>4, Went DEF Submit, Threads, Return
  <2> QED BY <1>4, <2>1, <2>2, <2>3 DEF Types, Submit, rest, Return
<1>5. CASE Shift
  <2>1. el' \in ElSet BY <1>5, Numbers, QuarantinedTyped DEF Shift, Types, ElSet, MySet
  <2>2. pc' \in [Threads -> Labels] BY <1>5, Went DEF Shift, Threads
  <2> QED BY <1>5, <2>1, <2>2 DEF Types, Shift, rest
<1>6. CASE Prepare
  <2>1. my' \in MySet BY SMTT(30), <1>6, Numbers DEF Types, Prepare, Return, MySet
  <2>2. pc' \in [Threads -> Labels] BY <1>6, Went DEF Prepare, Threads, Return
  <2> QED BY <1>6, <2>1, <2>2 DEF Types, Prepare, rest, Return
<1>7. CASE Enter
  <2>1. [el EXCEPT !.submits = @ + 1] \in ElSet BY Numbers DEF Types, ElSet
  <2>4. el' \in ElSet BY <1>7, <2>1 DEF Enter, Types
  <2>2. my' \in MySet BY <1>7, Numbers DEF Types, Enter, Return, MySet
  <2>3. pc' \in [Threads -> Labels] BY <1>7, Went DEF Enter, Threads, Return
  <2> QED BY <1>7, <2>2, <2>3, <2>4 DEF Types, Enter, rest, Return
<1>8. CASE Record
  <2>1. JobFrame \in Frames BY <1>8 DEF Record, Control, At, Submitting, JobFrame, Types, MySet
  <2>2. /\ [el EXCEPT !.submits = @ - 1] \in ElSet
        /\ [el EXCEPT !.pend = JobFrame] \in ElSet
    BY <2>1, Numbers DEF Types, ElSet
  <2>3. el' \in ElSet BY <1>8, <2>2 DEF Record
  <2>4. [my EXCEPT !.gen = el.gen] \in MySet BY Numbers DEF Types, MySet
  <2>5. my' \in MySet BY <1>8, <2>4 DEF Record, Return
  <2>6. [refs |-> 2, submitted |-> FALSE, fence |-> "none", out |-> TRUE] \in FrSet BY DEF FrSet
  <2>7. fr' \in [Frames -> FrSet] BY <1>8, <2>6, Written DEF Record, Types
  <2>8. pc' \in [Threads -> Labels] BY <1>8, Went DEF Record, Threads, Return
  <2> QED BY <1>8, <2>3, <2>5, <2>7, <2>8 DEF Types, Record, rest, Return
<1>9. CASE Native
  <2>1. my' \in MySet BY SMTT(30), <1>9, Numbers DEF Types, Native, MySet
  <2>2. pc' \in [Threads -> Labels] BY <1>9, Went DEF Native, Threads
  <2>3. job' \in [Bufs -> {"none", "busy", "done", "error"}] BY <1>9 DEF Types, Native
  <2> QED BY <1>9, <2>1, <2>2, <2>3 DEF Types, Native, rest
<1>10. CASE Publish
  <2>1. JobFrame \in Frames BY <1>10 DEF Publish, Control, At, Submitting, JobFrame, Types, MySet
  <2>2. el' \in ElSet
    <3>1. [el EXCEPT !.disabled = TRUE, !.quar = @ \cup {JobFrame}, !.pend = NoFrame] \in ElSet
      BY ZenonT(40), <2>1 DEF Types, ElSet
    <3>2. [el EXCEPT !.disabled = TRUE, !.quar = @, !.pend = @] \in ElSet BY DEF Types, ElSet
    <3> QED BY <1>10, <3>1, <3>2 DEF Publish, Types
  <2>3. my' \in MySet BY <1>10 DEF Publish, Types, MySet
  <2>4. fr' \in [Frames -> FrSet]
    <3>1. fr[JobFrame] \in FrSet BY <2>1 DEF Types
    <3>2. [[fr[JobFrame] EXCEPT !.fence = FenceOf(my.res)] EXCEPT !.submitted = TRUE] \in FrSet
      BY <3>1 DEF FrSet, FenceOf
    <3> QED BY <1>10, <2>1, <3>2 DEF Publish, Types
  <2>5. pc' \in [Threads -> Labels] BY <1>10, Went DEF Publish, Threads
  <2> QED BY <1>10, <2>2, <2>3, <2>4, <2>5 DEF Types, Publish, rest
<1>11. CASE Settle
  <2>1. el' \in ElSet BY <1>11, Numbers, QuarantinedTyped DEF Settle, Types, ElSet, MySet
  <2>2. my' \in MySet BY <1>11, Numbers DEF Types, Settle, Return, MySet
  <2>3. fr' \in [Frames -> FrSet] BY <1>11, Counted, Written DEF Settle, Types, ElSet, MySet
  <2>4. pc' \in [Threads -> Labels] BY <1>11, Went DEF Settle, Threads, Return
  <2> QED BY <1>11, <2>1, <2>2, <2>3, <2>4 DEF Types, Settle, rest, Return
<1>12. CASE Blit
  <2>1. el' \in ElSet
    <3>1. [el EXCEPT !.submits = @ - 1] \in ElSet BY Numbers DEF Types, ElSet
    <3> QED BY <1>12, <3>1 DEF Blit, Types
  <2>2. my' \in MySet BY <1>12, Numbers DEF Types, Blit, Return, MySet
  <2>3. pc' \in [Threads -> Labels] BY <1>12, Went DEF Blit, Threads, Return
  <2>4. job' \in [Bufs -> {"none", "busy", "done", "error"}] BY <1>12 DEF Types, Blit, Return
  <2> QED BY <1>12, <2>1, <2>2, <2>3, <2>4 DEF Types, Blit, rest, Return
<1>13. CASE BlitReturn
  <2>1. el' \in ElSet BY <1>13, Numbers, QuarantinedTyped DEF BlitReturn, Types, ElSet, MySet
  <2>2. my' \in MySet BY <1>13, Numbers DEF Types, BlitReturn, Return, MySet
  <2>3. pc' \in [Threads -> Labels] BY <1>13, Went DEF BlitReturn, Threads, Return
  <2> QED BY <1>13, <2>1, <2>2, <2>3 DEF Types, BlitReturn, rest, Return
<1>14. CASE Converted
  <2>1. el' \in ElSet
    <3>1. <<my.cur, "ready">> \in Frames BY <1>14
                                            DEF Converted, Control, At, Submitting, Types, MySet
    <3>2. [el EXCEPT !.pend = <<my.cur, "ready">>] \in ElSet BY <3>1 DEF Types, ElSet
    <3> QED BY <1>14, <3>2 DEF Converted, Types
  <2>2. my' \in MySet
    <3>1. [my EXCEPT !.out = my.cur, !.cur = NoBuf, !.tret = "generate"] \in MySet BY ZenonT(30)
                                                                                      DEF Types,
                                                                                          MySet
    <3> QED BY <1>14, <3>1 DEF Converted, Types
  <2>3. fr' \in [Frames -> FrSet] BY <1>14, Counted, Written DEF Converted, Types, ElSet, MySet
  <2>4. pc' \in [Threads -> Labels] BY <1>14, Went DEF Converted, Threads
  <2>5. snap' \in [Threads -> SnapSet] BY <1>14, Went DEF Types, Converted, Threads
  <2> QED BY <1>14, <2>1, <2>2, <2>3, <2>4, <2>5 DEF Types, Converted, rest
<1>15. CASE Generate
  <2>1. my' \in MySet
    <3>1. [my EXCEPT !.tret = "generate"] \in MySet BY DEF Types, MySet
    <3> QED BY <1>15, <3>1 DEF Generate, Return, Types
  <2>2. pc' \in [Threads -> Labels] BY <1>15, Went DEF Generate, Threads, Return
  <2> QED BY <1>15, <2>1, <2>2 DEF Types, Generate, rest, Return
<1>16. CASE Drain
  <2>1. el' \in ElSet BY ZenonT(30), <1>16, Numbers, QuarantinedTyped DEF Drain, Types, ElSet, MySet
  <2>2. my' \in MySet BY <1>16, Numbers DEF Types, Drain, MySet
  <2>3. pc' \in [Threads -> Labels] BY <1>16, Went DEF Drain, Threads
  <2>4. snap' \in [Threads -> SnapSet] BY <1>16, Went DEF Types, Drain, Threads
  <2> QED BY <1>16, <2>1, <2>2, <2>3, <2>4 DEF Types, Drain, rest
<1>17. CASE Take
  <2>1. el' \in ElSet
    <3>1. [el EXCEPT !.waiters = @ + 1] \in ElSet BY Numbers DEF Types, ElSet
    <3> QED BY <1>17, <3>1 DEF Take, Types
  <2>2. my' \in MySet
    <3>1. [my EXCEPT !.f = el.rdy] \in MySet BY DEF Types, ElSet, MySet
    <3> QED BY <1>17, <3>1 DEF Take, Return, Types
  <2>3. fr' \in [Frames -> FrSet] BY <1>17, Counted, Written DEF Take, Types, ElSet, MySet
  <2>4. pc' \in [Threads -> Labels] BY <1>17, Went DEF Take, Threads, Return
  <2> QED BY <1>17, <2>1, <2>2, <2>3, <2>4 DEF Types, Take, rest, Return
<1>18. CASE Wait
  <2>1. my' \in MySet BY ZenonT(30), <1>18, Numbers DEF Types, Wait, FenceStatus, MySet
  <2>2. pc' \in [Threads -> Labels] BY <1>18, Went DEF Wait, Threads
  <2> QED BY <1>18, <2>1, <2>2 DEF Types, Wait, rest, FenceStatus
<1>19. CASE Taken
  <2>1. my.f \in Frames BY <1>19 DEF Taken, Control, Types, MySet
  <2>2. el' \in ElSet
    <3>1. \A b \in BOOLEAN : /\ [el EXCEPT !.rdy = NoFrame, !.disabled = b, !.quar = @ \cup {my.f}] \in ElSet
                             /\ [el EXCEPT !.rdy = NoFrame, !.disabled = b, !.quar = @] \in ElSet
      BY <2>1 DEF Types, ElSet
    <3>2. (el.disabled \/ my.status # "complete") \in BOOLEAN OBVIOUS
    <3> QED BY <1>19, <3>1, <3>2 DEF Taken, Types
  <2>3. my' \in MySet
    <3>1. \A r \in {"flushing", "dropped", "error"} : [my EXCEPT !.res = r] \in MySet BY
                                                                                         DEF
                                                                                             Types,
                                                                                             MySet
    <3>2. [my EXCEPT !.res = "output", !.out = my.f[1]] \in MySet BY <2>1 DEF Types, MySet
    <3> QED BY <1>19, <3>1, <3>2 DEF Taken, Types
  <2>4. fr' \in [Frames -> FrSet]
    <3>1. [fr[my.f] EXCEPT !.out = FALSE] \in FrSet BY ZenonT(30), <2>1 DEF Types, FrSet
    <3> QED BY <1>19, <3>1 DEF Taken, Types
  <2>5. pc' \in [Threads -> Labels] BY <1>19, Went DEF Taken, Threads
  <2> QED BY <1>19, <2>2, <2>3, <2>4, <2>5 DEF Types, Taken, rest
<1>20. CASE ReleaseFrame
  <2>1. el' \in ElSet BY <1>20, Numbers, QuarantinedTyped DEF ReleaseFrame, Types, ElSet, MySet
  <2>2. my' \in MySet BY <1>20, Numbers DEF Types, ReleaseFrame, MySet
  <2>3. fr' \in [Frames -> FrSet] BY <1>20, Counted, Written DEF ReleaseFrame, Types, ElSet, MySet
  <2>4. pc' \in [Threads -> Labels] BY <1>20, Went DEF ReleaseFrame, Threads
  <2>5. snap' \in [Threads -> SnapSet] BY <1>20, Went DEF Types, ReleaseFrame, Threads
  <2> QED BY <1>20, <2>1, <2>2, <2>3, <2>4, <2>5 DEF Types, ReleaseFrame, rest
<1>21. CASE Over
  <2>1. my' \in MySet BY <1>21, Numbers DEF Types, Over, Return, MySet
  <2>2. pc' \in [Threads -> Labels] BY <1>21, Went DEF Over, Threads, Return
  <2>3. flow' \in {"ok", "flushing", "error"}
    <3>1. pc["S"] = "fail" /\ my.tret # "event" => my.res \in {"ok", "flushing", "error"}
      BY <1>21 DEF Control, Over, At
    <3> QED BY <1>21, <3>1 DEF Types, Over, Return
  <2> QED BY <1>21, <2>1, <2>2, <2>3 DEF Types, Over, rest, Return
<1>22. CASE Push
  <2>1. my' \in MySet BY ZenonT(30), <1>22, Numbers DEF Types, Push, Return, MySet
  <2>2. pc' \in [Threads -> Labels] BY <1>22, Went DEF Push, Threads, Return
  <2>3. snap' \in [Threads -> SnapSet] BY <1>22, Went DEF Types, Push, Threads
  <2>4. my.out \in Bufs BY <1>22 DEF Push, Control, At, Types, MySet
  <2>5. shown' \in Seq(Bufs) BY <1>22, <2>4 DEF Types, Push
  <2> QED BY <1>22, <2>1, <2>2, <2>3, <2>5 DEF Types, Push, rest, Return
<1>23. CASE SetAsyncDepth
  <2>1. el' \in ElSet BY <1>23, Numbers, QuarantinedTyped DEF SetAsyncDepth, Types, ElSet, MySet
  <2> QED BY <1>23, <2>1 DEF Types, SetAsyncDepth, rest
<1>24. CASE FlushStart
  <2>1. el' \in ElSet
    <3>1. Quarantined.gen \in Nat BY QuarantinedTyped DEF ElSet
    <3>2. Quarantined.gen + 1 \in Nat BY <3>1
    <3> QED BY <1>24, <3>2, QuarantinedTyped DEF FlushStart
  <2> QED BY <1>24, <2>1 DEF Types, FlushStart, rest
<1>25. CASE FlushStop
  <2>1. el' \in ElSet BY <1>25, Numbers, QuarantinedTyped DEF FlushStop, Types, ElSet, MySet
  <2>2. pc' \in [Threads -> Labels] BY <1>25, Went DEF FlushStop, Threads
  <2>3. snap' \in [Threads -> SnapSet] BY <1>25, Went DEF Types, FlushStop, Threads
  <2> QED BY <1>25, <2>1, <2>2, <2>3 DEF Types, FlushStop, rest
<1>26. CASE FlushStopped
  <2>1. el' \in ElSet BY <1>26, Numbers, QuarantinedTyped DEF FlushStopped, Types, ElSet, MySet
  <2>2. pc' \in [Threads -> Labels] BY <1>26, Went DEF FlushStopped, Threads
  <2>3. snap' \in [Threads -> SnapSet] 
    <3>1. [snap["A"] EXCEPT !.then = "idle"] \in SnapSet BY DEF Types, SnapSet, Threads
    <3> QED BY <1>26, <3>1 DEF Types, FlushStopped
  <2> QED BY <1>26, <2>1, <2>2, <2>3 DEF Types, FlushStopped, rest
<1>27. CASE StateDrain
  <2>1. el' \in ElSet BY <1>27, Numbers, QuarantinedTyped DEF StateDrain, Types, ElSet, MySet
  <2>2. pc' \in [Threads -> Labels] BY <1>27, Went DEF StateDrain, Threads
  <2>3. snap' \in [Threads -> SnapSet] BY <1>27, Went DEF Types, StateDrain, Threads
  <2> QED BY <1>27, <2>1, <2>2, <2>3 DEF Types, StateDrain, rest
<1>28. CASE StopBegin
  <2>1. el' \in ElSet
    <3>1. Quarantined.gen \in Nat BY QuarantinedTyped DEF ElSet
    <3>2. Quarantined.gen + 1 \in Nat BY <3>1
    <3> QED BY <1>28, <3>2, QuarantinedTyped DEF StopBegin
  <2>2. pc' \in [Threads -> Labels] BY <1>28, Went DEF StopBegin, Threads
  <2>3. snap' \in [Threads -> SnapSet] BY <1>28, Went DEF Types, StopBegin, Threads
  <2> QED BY <1>28, <2>1, <2>2, <2>3 DEF Types, StopBegin, rest
<1>29. CASE StopEmpty
  <2>1. pc' \in [Threads -> Labels] BY <1>29, Went DEF StopEmpty, Threads, Stopped
  <2> QED BY <1>29, <2>1 DEF Types, StopEmpty, rest, Stopped
<1>30. CASE StopAgain
  <2>1. pc' \in [Threads -> Labels] BY <1>30, Went DEF StopAgain, Threads
  <2>2. snap' \in [Threads -> SnapSet] BY <1>30, Went DEF Types, StopAgain, Threads
  <2> QED BY <1>30, <2>1, <2>2 DEF Types, StopAgain, rest
<1>31. CASE StopEscape
  <2>1. el' \in ElSet BY <1>31, Numbers, QuarantinedTyped DEF StopEscape, Types, ElSet, MySet
  <2>2. pc' \in [Threads -> Labels] BY <1>31, Went DEF StopEscape, Stopped, Threads
  <2>3. escaped' \in SUBSET Frames BY <1>31 DEF Types, StopEscape, ElSet
  <2>4. life' \in {"started", "stopped", "finalized"} BY <1>31 DEF Types, StopEscape, Stopped
  <2>5. reaping' \in BOOLEAN BY <1>31 DEF Types, StopEscape
  <2> QED BY <1>31, <2>1, <2>2, <2>3, <2>4, <2>5 DEF Types, StopEscape
<1>32. CASE Start
  <2>1. el' \in ElSet BY ZenonT(30), <1>32, Numbers, QuarantinedTyped DEF Start, Types, ElSet, MySet
  <2> QED BY <1>32, <2>1 DEF Types, Start, rest
<1>33. CASE Finalize
  <2>1. pc' \in [Threads -> Labels] BY <1>33, Went DEF Finalize, Threads
  <2> QED BY <1>33, <2>1 DEF Types, Finalize, rest
<1>34. CASE ReaperFrees
  <2>1. fr' \in [Frames -> FrSet] BY <1>34, Counted, Written DEF ReaperFrees, Types, ElSet, MySet
  <2> QED BY <1>34, <2>1 DEF Types, ReaperFrees, rest
<1>35. CASE JobEnds
  <2>1. job' \in [Bufs -> {"none", "busy", "done", "error"}] BY <1>35 DEF Types, JobEnds
  <2> QED BY <1>35, <2>1 DEF Types, JobEnds, rest
<1>36. CASE Chain
  <2>5. fed \in 0..NBufs /\ NBufs \in Nat /\ fed < NBufs BY <1>36, AsyncAssumption DEF Types, Chain
  <2>6. fed + 1 \in Bufs /\ fed + 1 \in 0..NBufs BY <2>5 DEF Bufs
  <2>7. [Idle EXCEPT !.cur = fed + 1] \in MySet BY <2>6 DEF MySet
  <2>1. my' \in MySet BY <1>36, <2>7 DEF Chain
  <2>2. pc' \in [Threads -> Labels] BY <1>36, Went DEF Chain, Threads
  <2>3. snap' \in [Threads -> SnapSet] BY <1>36, Went DEF Types, Chain, Threads
  <2>4. fed' \in 0..NBufs BY <1>36, <2>6 DEF Chain
  <2> QED BY <1>36, <2>1, <2>2, <2>3, <2>4 DEF Types, Chain, rest
<1>37. CASE SerializedEvent
  <2>1. my' \in MySet BY <1>37, Numbers DEF Types, SerializedEvent, MySet
  <2>2. pc' \in [Threads -> Labels] BY <1>37, Went DEF SerializedEvent, Threads
  <2> QED BY <1>37, <2>1, <2>2 DEF Types, SerializedEvent, rest
<1>38. CASE UNCHANGED vars BY <1>38 DEF Types, vars
<1> QED BY <1>1, <1>2, <1>3, <1>4, <1>5, <1>6, <1>7, <1>8, <1>9, <1>10, <1>11, <1>12, <1>13, <1>14,
           <1>15, <1>16, <1>17, <1>18, <1>19, <1>20, <1>21, <1>22, <1>23, <1>24, <1>25, <1>26,
           <1>27, <1>28, <1>29, <1>30, <1>31, <1>32, <1>33, <1>34, <1>35, <1>36, <1>37, <1>38
       DEF Next, Stream, StopSteps, ReapStep, Threads

-----------------------------------------------------------------------------
(* What the larger steps do to the fields *)

LEMMA QuarantinedDoes ==
  ASSUME Types, el' = Quarantined \/ el' = [Quarantined EXCEPT !.flushing = TRUE, !.gen = @ + 1]
  PROVE  /\ el'.pend = NoFrame /\ el'.rdy = NoFrame /\ el'.quar = el.quar \cup Slots
         /\ UNCHANGED <<el.custom, el.depth, el.disabled>>
         /\ el'.flushing \in {el.flushing, TRUE}
<1>1. Quarantined \in ElSet BY QuarantinedTyped
<1>2. /\ Quarantined.pend = NoFrame /\ Quarantined.rdy = NoFrame /\ Quarantined.quar = el.quar \cup Slots
      /\ Quarantined.custom = el.custom /\ Quarantined.depth = el.depth
      /\ Quarantined.disabled = el.disabled /\ Quarantined.flushing = el.flushing
  BY DEF Types, ElSet, Quarantined
<1>3. CASE el' = Quarantined BY <1>2, <1>3
<1>4. CASE el' = [Quarantined EXCEPT !.flushing = TRUE, !.gen = @ + 1]
  BY <1>1, <1>2, <1>4 DEF ElSet
<1> QED BY <1>3, <1>4

LEMMA TakenDoes ==
  ASSUME Types, Taken, my.f \in Frames
  PROVE  /\ pc["S"] = "taken" /\ pc' = [pc EXCEPT !["S"] = "release"]
         /\ UNCHANGED <<job, snap, flow, life, fed, shown, escaped, el.flushing, el.custom, el.pend, el.depth,
                        my.cur, my.f, my.tret, my.status>>
         /\ el.disabled => el'.disabled
         /\ \/ /\ el.flushing \/ el.rdy # my.f
               /\ UNCHANGED <<el, fr, my.out>> /\ my'.res = "flushing"
            \/ /\ ~el.flushing /\ el.rdy = my.f /\ el'.rdy = NoFrame
               /\ \/ /\ my.status = "pending" /\ my'.res = "dropped" /\ el'.quar = el.quar \cup {my.f}
                     /\ UNCHANGED <<fr, my.out>>
                  \/ /\ my.status = "complete" /\ my'.res = "output" /\ my'.out = my.f[1] /\ UNCHANGED el.quar
                     /\ fr' = [fr EXCEPT ![my.f].out = FALSE]
                  \/ /\ my.status = "failed" /\ my'.res = "error" /\ UNCHANGED <<el.quar, fr, my.out>>
<1>1. pc["S"] = "taken" /\ pc' = [pc EXCEPT !["S"] = "release"]
      /\ UNCHANGED <<job, snap, flow, life, fed, shown, escaped>>
  BY DEF Taken, Goto, rest
<1>2. el \in ElSet /\ my \in MySet BY DEF Types
<1>3. CASE el.flushing \/ el.rdy # my.f
  <2>1. my' = [my EXCEPT !.res = "flushing"] /\ UNCHANGED <<el, fr>> BY <1>3 DEF Taken
  <2>2. UNCHANGED <<my.cur, my.f, my.tret, my.status, my.out>> /\ my'.res = "flushing" BY <2>1, <1>2
                                                                                          DEF
                                                                                              MySet
  <2> QED BY <1>1, <1>3, <2>1, <2>2
<1>4. CASE ~el.flushing /\ el.rdy = my.f
  <2> DEFINE q == IF my.status = "pending" THEN el.quar \cup {my.f} ELSE el.quar
             d == el.disabled \/ my.status # "complete"
  <2>1. el' = [el EXCEPT !.rdy = NoFrame, !.disabled = d, !.quar = q] BY <1>4 DEF Taken
  <2> HIDE DEF q, d
  <2>2. /\ el'.rdy = NoFrame /\ el'.quar = q /\ UNCHANGED <<el.flushing, el.custom, el.pend, el.depth>>
        /\ el'.disabled = d
    BY <2>1, <1>2 DEF ElSet
  <2>7. el.disabled => d BY DEF d
  <2>3. my.status \in {"pending", "complete", "failed"} BY <1>2 DEF MySet
  <2>4. CASE my.status = "pending"
    <3>1. my' = [my EXCEPT !.res = "dropped"] /\ UNCHANGED fr BY <1>4, <2>4 DEF Taken
    <3>2. UNCHANGED <<my.cur, my.f, my.tret, my.status, my.out>> /\ my'.res = "dropped" BY <3>1, <1>2
                                                                                           DEF
                                                                                               MySet
    <3> QED BY <1>1, <1>4, <2>2, <2>7, <2>4, <3>1, <3>2 DEF q
  <2>5. CASE my.status = "complete"
    <3>1. my' = [my EXCEPT !.res = "output", !.out = my.f[1]] /\ fr' = [fr EXCEPT ![my.f].out = FALSE]
      BY <1>4, <2>5 DEF Taken
    <3>2. UNCHANGED <<my.cur, my.f, my.tret, my.status>> /\ my'.res = "output" /\ my'.out = my.f[1]
      BY <3>1, <1>2 DEF MySet
    <3> QED BY <1>1, <1>4, <2>2, <2>7, <2>5, <3>1, <3>2 DEF q
  <2>6. CASE my.status = "failed"
    <3>1. my' = [my EXCEPT !.res = "error"] /\ UNCHANGED fr BY <1>4, <2>6 DEF Taken
    <3>2. UNCHANGED <<my.cur, my.f, my.tret, my.status, my.out>> /\ my'.res = "error" BY <3>1, <1>2
                                                                                         DEF MySet
    <3> QED BY <1>1, <1>4, <2>2, <2>7, <2>6, <3>1, <3>2 DEF q
  <2> QED BY <2>3, <2>4, <2>5, <2>6
<1> QED BY <1>3, <1>4

LEMMA DrainDoes ==
  ASSUME Types, Drain
  PROVE  /\ pc["S"] = "drain"
         /\ UNCHANGED <<job, fr, flow, life, fed, shown, escaped, el.flushing, el.custom, el.quar, el.depth, el.disabled>>
         /\ IF el.rdy = NoFrame THEN el'.rdy = el.pend /\ el'.pend = NoFrame ELSE el' = el
         /\ \/ Slots # {} /\ Goto("S", "take") /\ UNCHANGED <<my, snap>>
            \/ Slots = {} /\ Goto("S", "idle") /\ my' = Idle /\ UNCHANGED snap
            \/ Slots = {} /\ my.tret # "event" /\ Reap("S", "generate") /\ UNCHANGED my
<1>1. el \in ElSet BY DEF Types
<1>2. el' = IF el.rdy = NoFrame THEN [el EXCEPT !.rdy = el.pend, !.pend = NoFrame] ELSE el BY
                                                                                              DEF
                                                                                                  Drain
<1>3. /\ UNCHANGED <<el.flushing, el.custom, el.quar, el.depth, el.disabled>>
      /\ IF el.rdy = NoFrame THEN el'.rdy = el.pend /\ el'.pend = NoFrame ELSE el' = el
  BY <1>1, <1>2 DEF ElSet
<1> QED BY <1>3 DEF Drain, rest

LEMMA PushDoes ==
  ASSUME Types, Push
  PROVE  /\ pc["S"] = "push" /\ shown' = Append(shown, my.out)
         /\ UNCHANGED <<el, fr, job, life, fed, escaped>>
         /\ \/ /\ my'.out = NoBuf /\ UNCHANGED <<my.cur, my.f, my.tret, flow>>
               /\ \/ Goto("S", "drain") /\ UNCHANGED snap /\ my.tret # "generate"
                  \/ Reap("S", "generate") /\ my.tret = "generate"
            \/ Goto("S", "idle") /\ my' = Idle /\ UNCHANGED snap /\ ((my.tret = "event" /\ UNCHANGED flow) \/ flow' = "error")
<1>1. my \in MySet BY DEF Types
<1>2. CASE my' = [my EXCEPT !.out = NoBuf, !.res = "ok"]
  <2>1. my'.out = NoBuf /\ UNCHANGED <<my.cur, my.f, my.tret>> BY <1>1, <1>2 DEF MySet
  <2> QED BY <1>2, <2>1 DEF Push, Return
<1>3. CASE my' # [my EXCEPT !.out = NoBuf, !.res = "ok"] BY <1>3 DEF Push, Return
<1> QED BY <1>2, <1>3

LEMMA PublishDoes ==
  ASSUME Types, Publish
  PROVE  /\ pc["S"] = "publish" /\ pc' = [pc EXCEPT !["S"] = "settle"]
         /\ UNCHANGED <<job, snap, flow, life, fed, shown, escaped>>
         /\ UNCHANGED <<el.rdy, el.flushing, el.custom, el.depth, my.cur, my.f, my.out, my.tret>>
         /\ IF my.res # "ok" /\ el.pend = JobFrame
            THEN el'.pend = NoFrame /\ el'.quar = el.quar \cup {JobFrame} ELSE UNCHANGED <<el.pend, el.quar>>
         /\ el'.disabled = (el.disabled \/ my.res # "ok")
         /\ my'.res = IF el.flushing \/ my.gen # el.gen THEN "flushing" ELSE my.res
<1>1. el \in ElSet /\ my \in MySet BY DEF Types
<1> DEFINE mine == el.pend = JobFrame
           q == IF mine THEN el.quar \cup {JobFrame} ELSE el.quar
           p == IF mine THEN NoFrame ELSE el.pend
           r == IF el.flushing \/ my.gen # el.gen THEN "flushing" ELSE my.res
<1>2. el' = IF my.res = "ok" THEN el ELSE [el EXCEPT !.disabled = TRUE, !.quar = q, !.pend = p] BY

                                                                                                       DEF
                                                                                                       Publish
<1>3. my' = [my EXCEPT !.res = r] BY DEF Publish
<1>4. my'.res = r /\ UNCHANGED <<my.cur, my.f, my.out, my.tret>>
  <2> HIDE DEF r
  <2> QED BY <1>1, <1>3 DEF MySet
<1>5. CASE my.res = "ok"
  <2>1. el' = el BY <1>2, <1>5
  <2>2. el.disabled \in BOOLEAN BY <1>1 DEF ElSet
  <2> QED BY <1>4, <1>5, <2>1, <2>2 DEF Publish, Goto, rest
<1>6. CASE my.res # "ok"
  <2>1. el' = [el EXCEPT !.disabled = TRUE, !.quar = q, !.pend = p] BY <1>2, <1>6
  <2>2. el'.disabled = TRUE /\ el'.quar = q /\ el'.pend = p /\ UNCHANGED <<el.rdy, el.flushing, el.custom, el.depth>>
    <3> HIDE DEF q, p
    <3> QED BY <1>1, <2>1 DEF ElSet
  <2> QED BY <1>4, <1>6, <2>2 DEF Publish, Goto, rest
<1> QED BY <1>5, <1>6

LEMMA ConvertedDoes ==
  ASSUME Types, Converted
  PROVE  /\ pc["S"] = "converted"
         /\ UNCHANGED <<job, flow, life, fed, shown, escaped, el.flushing, el.custom, el.quar, el.rdy, el.depth, el.disabled>>
         /\ \/ /\ el.custom /\ my' = Idle /\ Reap("S", "generate")
               /\ \/ (el.pend # NoFrame \/ el.flushing) /\ UNCHANGED <<el, fr>>
                  \/ /\ el.pend = NoFrame /\ ~el.flushing /\ el'.pend = <<my.cur, "ready">>
                     /\ fr' = [fr EXCEPT ![<<my.cur, "ready">>] = [Blank EXCEPT !.refs = 1, !.out = TRUE]]
            \/ /\ ~el.custom /\ my'.out = my.cur /\ my'.cur = NoBuf /\ my'.tret = "generate" /\ UNCHANGED my.f
               /\ Goto("S", "push") /\ UNCHANGED <<el, fr, snap>>
<1>1. el \in ElSet /\ my \in MySet BY DEF Types
<1>2. CASE el.custom
  <2>1. CASE el.pend = NoFrame /\ ~el.flushing
    <3>1. el' = [el EXCEPT !.pend = <<my.cur, "ready">>] BY <1>2, <2>1 DEF Converted
    <3>2. el'.pend = <<my.cur, "ready">> /\ UNCHANGED <<el.flushing, el.custom, el.quar, el.rdy, el.depth, el.disabled>>
      BY <1>1, <3>1 DEF ElSet
    <3> QED BY <1>2, <2>1, <3>2 DEF Converted, rest
  <2>2. CASE ~(el.pend = NoFrame /\ ~el.flushing) BY <1>2, <2>2 DEF Converted, rest
  <2> QED BY <2>1, <2>2
<1>3. CASE ~el.custom
  <2>1. my' = [my EXCEPT !.out = my.cur, !.cur = NoBuf, !.tret = "generate"] BY <1>3 DEF Converted
  <2>2. my'.out = my.cur /\ my'.cur = NoBuf /\ my'.tret = "generate" /\ UNCHANGED my.f BY <1>1, <2>1
                                                                                          DEF
                                                                                              MySet
  <2> QED BY <1>3, <2>2 DEF Converted, rest
<1> QED BY <1>2, <1>3

-----------------------------------------------------------------------------
(* Each part of the invariant, step by step *)

LEMMA ControlStep == ASSUME Types, Types', Control, PendFree, Next PROVE Control'
<1> USE FrameFacts DEF Types, ElSet, MySet, SnapSet, Threads, Goto, At, Submitting, Taking, rest
<1>1. ASSUME NEW t \in Threads, ReapSnapshot(t) PROVE Control'
  BY SMTT(30), <1>1 DEF Control, ReapSnapshot
<1>2. ASSUME NEW t \in Threads, ReapPoll(t) PROVE Control'
  BY <1>2 DEF Control, ReapPoll
<1>3. ASSUME NEW t \in Threads, ReapEnd(t) PROVE Control'
  BY <1>3 DEF Control, ReapEnd
<1>4. CASE Submit BY <1>4 DEF Control, Submit, Return, Idle
<1>5. CASE Shift BY <1>5 DEF Control, Shift
<1>6. CASE Prepare BY <1>6 DEF Control, Prepare, Return, Idle
<1>7. CASE Enter BY <1>7 DEF Control, Enter, Return, Idle
<1>8. CASE Record BY <1>8 DEF Control, Record, Return, Idle
<1>9. CASE Native BY <1>9 DEF Control, Native
<1>10. CASE Publish BY <1>10 DEF Control, Publish
<1>11. CASE Settle BY <1>11 DEF Control, Settle, Return, Idle
<1>12. CASE Blit BY <1>12 DEF Control, Blit, Return, Idle
<1>13. CASE BlitReturn BY <1>13 DEF Control, BlitReturn, Return, Idle
<1>14. CASE Converted
  <2> HIDE DEF MySet, ElSet
  <2> QED BY <1>14, ConvertedDoes DEF Control, Idle, Reap
<1>15. CASE Generate BY <1>15 DEF Control, Generate, Return, Idle, PendFree
<1>16. CASE Drain
  <2> HIDE DEF MySet, ElSet
  <2>1. UNCHANGED <<el.flushing, el.custom, life, fed>> /\ pc["S"] = "drain" BY <1>16, DrainDoes
  <2>2. CASE Goto("S", "take") /\ UNCHANGED <<my, snap>> BY <2>1, <2>2 DEF Control
  <2>3. CASE Goto("S", "idle") /\ my' = Idle /\ UNCHANGED snap BY <2>1, <2>3 DEF Control, Idle
  <2>4. CASE Reap("S", "generate") /\ UNCHANGED my BY <2>1, <2>4 DEF Control, Reap
  <2> QED BY <1>16, <2>2, <2>3, <2>4, DrainDoes
<1>17. CASE Take BY <1>17 DEF Control, Take, Return, Idle
<1>18. CASE Wait BY <1>18 DEF Control, Wait
<1>19. CASE Taken
  <2>1. my.f \in Frames BY <1>19 DEF Control, Taken
  <2>2. my.f[1] # NoBuf BY <2>1
  <2> HIDE DEF MySet, ElSet
  <2>3. /\ pc["S"] = "taken" /\ pc' = [pc EXCEPT !["S"] = "release"]
        /\ UNCHANGED <<snap, life, fed, el.flushing, el.custom, my.cur, my.f, my.tret>>
        /\ my'.res \in {"flushing", "output", "dropped", "error"}
        /\ my'.res = "output" => my'.out = my.f[1]
        /\ my'.res # "output" => my'.out = my.out
    BY <1>19, <2>1, TakenDoes
  <2> QED BY <2>2, <2>3 DEF Control
<1>20. CASE ReleaseFrame BY <1>20 DEF Control, ReleaseFrame, Reap
<1>21. CASE Over BY <1>21 DEF Control, Over, Return, Idle
<1>22. CASE Push
  <2> HIDE DEF MySet, ElSet
  <2>1. UNCHANGED <<el, life, fed>> /\ pc["S"] = "push" BY <1>22, PushDoes
  <2>2. CASE Goto("S", "idle") /\ my' = Idle /\ UNCHANGED snap BY <2>1, <2>2 DEF Control, Idle
  <2>3. ASSUME my'.out = NoBuf, UNCHANGED <<my.cur, my.f, my.tret>>, Goto("S", "drain"), UNCHANGED snap
        PROVE  Control'
    BY <2>1, <2>3 DEF Control
  <2>4. ASSUME my'.out = NoBuf, UNCHANGED <<my.cur, my.f, my.tret>>, Reap("S", "generate")
        PROVE  Control'
    BY <2>1, <2>4 DEF Control, Reap
  <2> QED BY <1>22, <2>2, <2>3, <2>4, PushDoes
<1>23. CASE SetAsyncDepth BY <1>23 DEF Control, SetAsyncDepth
<1>24. CASE FlushStart BY <1>24 DEF Control, FlushStart, Quarantined, Slots
<1>25. CASE FlushStop BY <1>25 DEF Control, FlushStop, Reap, Quarantined, Slots
<1>26. CASE FlushStopped BY <1>26 DEF Control, FlushStopped
<1>27. CASE StateDrain BY <1>27 DEF Control, StateDrain, Reap, Quarantined, Slots
<1>28. CASE StopBegin BY <1>28 DEF Control, StopBegin, Reap, Quarantined, Slots
<1>29. CASE StopEmpty BY <1>29 DEF Control, StopEmpty, Stopped
<1>30. CASE StopAgain BY <1>30 DEF Control, StopAgain, Reap
<1>31. CASE StopEscape BY <1>31 DEF Control, StopEscape, Stopped
<1>32. CASE Start BY <1>32 DEF Control, Start
<1>33. CASE Finalize BY <1>33 DEF Control, Finalize
<1>34. CASE ReaperFrees BY <1>34 DEF Control, ReaperFrees
<1>35. CASE JobEnds BY <1>35 DEF Control, JobEnds
<1>36. CASE Chain
  <2>1. my' = [Idle EXCEPT !.cur = fed + 1] /\ fed' = fed + 1 /\ Reap("S", "submit") /\ pc["S"] = "idle"
    BY <1>36 DEF Chain
  <2>2. UNCHANGED <<el, life, flow>> /\ ~StreamLockTaken /\ pc["A"] # "stopping" BY <1>36 DEF Chain
  <2>3. my'.cur = fed' /\ my'.f = NoFrame /\ my'.out = NoBuf BY <2>1 DEF Idle
  <2>4. my'.cur # NoBuf
    <3>1. fed \in Nat BY AsyncAssumption
    <3> QED BY <3>1, <2>1, <2>3 DEF NoBuf
  <2>5. At("A") # "unflush" BY <2>2 DEF StreamLockTaken, Control
  <2> HIDE DEF MySet, ElSet
  <2> QED BY <2>1, <2>2, <2>3, <2>4, <2>5 DEF Control, Reap
<1>37. CASE SerializedEvent BY <1>37 DEF Control, SerializedEvent, Idle, StreamLockTaken
<1> QED BY <1>1, <1>2, <1>3, <1>4, <1>5, <1>6, <1>7, <1>8, <1>9, <1>10, <1>11, <1>12, <1>13, <1>14,
           <1>15, <1>16, <1>17, <1>18, <1>19, <1>20, <1>21, <1>22, <1>23, <1>24, <1>25, <1>26,
           <1>27, <1>28, <1>29, <1>30, <1>31, <1>32, <1>33, <1>34, <1>35, <1>36, <1>37
       DEF Next, Stream, StopSteps, ReapStep, Threads

LEMMA FlushedEmptyStep == ASSUME Types, Types', Control, Control', PendFree, RdyHeld, FlushedEmpty, Next PROVE FlushedEmpty'
<1> USE FrameFacts DEF Types, ElSet, MySet, SnapSet, Threads, Goto, At, Submitting, Taking, rest, PendFree, RdyHeld, FlushedEmpty
<1>1. ASSUME NEW t \in Threads, ReapSnapshot(t) PROVE FlushedEmpty'
  BY <1>1 DEF ReapSnapshot
<1>2. ASSUME NEW t \in Threads, ReapPoll(t) PROVE FlushedEmpty'
  BY <1>2 DEF ReapPoll
<1>3. ASSUME NEW t \in Threads, ReapEnd(t) PROVE FlushedEmpty'
  BY <1>3 DEF ReapEnd
<1>4. CASE Submit BY <1>4 DEF Submit, Return, Idle
<1>5. CASE Shift BY <1>5 DEF Shift
<1>6. CASE Prepare BY <1>6 DEF Prepare, Return, Idle
<1>7. CASE Enter BY <1>7 DEF Enter, Return, Idle
<1>8. CASE Record BY <1>8 DEF Record, Return, Idle
<1>9. CASE Native BY <1>9 DEF Native
<1>10. CASE Publish BY <1>10 DEF Publish
<1>11. CASE Settle BY <1>11 DEF Settle, Return, Idle
<1>12. CASE Blit BY <1>12 DEF Blit, Return, Idle
<1>13. CASE BlitReturn BY <1>13 DEF BlitReturn, Return, Idle
<1>14. CASE Converted BY <1>14, ConvertedDoes DEF Reap, Idle
<1>15. CASE Generate BY <1>15 DEF Generate, Return, Idle
<1>16. CASE Drain BY <1>16, DrainDoes DEF Reap, Idle
<1>17. CASE Take BY <1>17 DEF Take, Return, Idle
<1>18. CASE Wait BY <1>18 DEF Wait
<1>19. CASE Taken
  <2>1. my.f \in Frames BY <1>19 DEF Control, Taken
  <2>2. UNCHANGED <<el.flushing, el.pend>> /\ (el'.rdy = NoFrame \/ el' = el) BY <1>19, <2>1, TakenDoes
  <2> QED BY <2>2
<1>20. CASE ReleaseFrame BY <1>20 DEF ReleaseFrame, Reap
<1>21. CASE Over BY <1>21 DEF Over, Return, Idle
<1>22. CASE Push BY <1>22, PushDoes DEF Reap, Return, Idle
<1>23. CASE SetAsyncDepth BY <1>23 DEF SetAsyncDepth
<1>24. CASE FlushStart BY <1>24, QuarantinedDoes DEF FlushStart
<1>25. CASE FlushStop BY <1>25, QuarantinedDoes DEF FlushStop, Reap
<1>26. CASE FlushStopped BY <1>26 DEF FlushStopped
<1>27. CASE StateDrain BY <1>27, QuarantinedDoes DEF StateDrain, Reap
<1>28. CASE StopBegin BY <1>28, QuarantinedDoes DEF StopBegin, Reap
<1>29. CASE StopEmpty BY <1>29 DEF StopEmpty, Stopped
<1>30. CASE StopAgain BY <1>30 DEF StopAgain, Reap
<1>31. CASE StopEscape BY <1>31 DEF StopEscape, Stopped
<1>32. CASE Start BY <1>32 DEF Start
<1>33. CASE Finalize BY <1>33 DEF Finalize
<1>34. CASE ReaperFrees BY <1>34 DEF ReaperFrees
<1>35. CASE JobEnds BY <1>35 DEF JobEnds
<1>36. CASE Chain BY <1>36 DEF Chain, Reap, Idle, StreamLockTaken
<1>37. CASE SerializedEvent BY <1>37 DEF SerializedEvent, Idle, StreamLockTaken
<1> QED BY <1>1, <1>2, <1>3, <1>4, <1>5, <1>6, <1>7, <1>8, <1>9, <1>10, <1>11, <1>12, <1>13, <1>14,
           <1>15, <1>16, <1>17, <1>18, <1>19, <1>20, <1>21, <1>22, <1>23, <1>24, <1>25, <1>26,
           <1>27, <1>28, <1>29, <1>30, <1>31, <1>32, <1>33, <1>34, <1>35, <1>36, <1>37
       DEF Next, Stream, StopSteps, ReapStep, Threads

LEMMA PendFreeStep == ASSUME Types, Types', Control, Control', PendFree, RdyHeld, FlushedEmpty, Next PROVE PendFree'
<1> USE FrameFacts DEF Types, ElSet, MySet, SnapSet, Threads, Goto, At, Submitting, Taking, rest, PendFree, RdyHeld, FlushedEmpty
<1>1. ASSUME NEW t \in Threads, ReapSnapshot(t) PROVE PendFree'
  BY <1>1 DEF ReapSnapshot
<1>2. ASSUME NEW t \in Threads, ReapPoll(t) PROVE PendFree'
  BY <1>2 DEF ReapPoll
<1>3. ASSUME NEW t \in Threads, ReapEnd(t) PROVE PendFree'
  BY <1>3 DEF ReapEnd
<1>4. CASE Submit BY <1>4 DEF Submit, Return, Idle
<1>5. CASE Shift BY <1>5 DEF Shift
<1>6. CASE Prepare BY <1>6 DEF Prepare, Return, Idle
<1>7. CASE Enter BY <1>7 DEF Enter, Return, Idle
<1>8. CASE Record BY <1>8 DEF Record, Return, Idle
<1>9. CASE Native BY <1>9 DEF Native
<1>10. CASE Publish BY <1>10 DEF Publish
<1>11. CASE Settle BY <1>11 DEF Settle, Return, Idle
<1>12. CASE Blit BY <1>12 DEF Blit, Return, Idle
<1>13. CASE BlitReturn BY <1>13 DEF BlitReturn, Return, Idle
<1>14. CASE Converted BY <1>14, ConvertedDoes DEF Reap, Idle
<1>15. CASE Generate BY <1>15 DEF Generate, Return, Idle
<1>16. CASE Drain
  <2>1. UNCHANGED el.custom /\ pc["S"] = "drain" BY <1>16, DrainDoes
  <2>2. Goto("S", "take") \/ Goto("S", "idle") \/ (Slots = {} /\ Reap("S", "generate") /\ UNCHANGED my)
    BY <1>16, DrainDoes
  <2>3. Slots = {} => el'.pend = NoFrame BY ZenonT(60), <1>16, DrainDoes DEF Slots
  <2> QED BY <2>1, <2>2, <2>3 DEF Reap, Control
<1>17. CASE Take BY <1>17 DEF Take, Return, Idle
<1>18. CASE Wait BY <1>18 DEF Wait
<1>19. CASE Taken BY <1>19, TakenDoes DEF Taken
<1>20. CASE ReleaseFrame BY <1>20 DEF ReleaseFrame, Reap
<1>21. CASE Over BY <1>21 DEF Over, Return, Idle
<1>22. CASE Push
  <2>1. UNCHANGED el /\ pc["S"] = "push" BY <1>22, PushDoes
  <2>2. \/ Goto("S", "drain") \/ Goto("S", "idle")
        \/ UNCHANGED my.cur /\ my.tret = "generate" /\ Reap("S", "generate")
    BY <1>22, PushDoes
  <2> QED BY <2>1, <2>2 DEF Reap, Control
<1>23. CASE SetAsyncDepth BY <1>23 DEF SetAsyncDepth
<1>24. CASE FlushStart BY <1>24, QuarantinedDoes DEF FlushStart
<1>25. CASE FlushStop BY <1>25, QuarantinedDoes DEF FlushStop, Reap
<1>26. CASE FlushStopped BY <1>26 DEF FlushStopped
<1>27. CASE StateDrain BY <1>27, QuarantinedDoes DEF StateDrain, Reap
<1>28. CASE StopBegin BY <1>28, QuarantinedDoes DEF StopBegin, Reap
<1>29. CASE StopEmpty BY <1>29 DEF StopEmpty, Stopped
<1>30. CASE StopAgain BY <1>30 DEF StopAgain, Reap
<1>31. CASE StopEscape BY <1>31 DEF StopEscape, Stopped
<1>32. CASE Start BY <1>32 DEF Start
<1>33. CASE Finalize BY <1>33 DEF Finalize
<1>34. CASE ReaperFrees BY <1>34 DEF ReaperFrees
<1>35. CASE JobEnds BY <1>35 DEF JobEnds
<1>36. CASE Chain BY <1>36 DEF Chain, Reap, Idle, StreamLockTaken
<1>37. CASE SerializedEvent BY <1>37 DEF SerializedEvent, Idle, StreamLockTaken
<1> QED BY <1>1, <1>2, <1>3, <1>4, <1>5, <1>6, <1>7, <1>8, <1>9, <1>10, <1>11, <1>12, <1>13, <1>14,
           <1>15, <1>16, <1>17, <1>18, <1>19, <1>20, <1>21, <1>22, <1>23, <1>24, <1>25, <1>26,
           <1>27, <1>28, <1>29, <1>30, <1>31, <1>32, <1>33, <1>34, <1>35, <1>36, <1>37
       DEF Next, Stream, StopSteps, ReapStep, Threads

LEMMA RdyHeldStep == ASSUME Types, Types', Control, Control', PendFree, RdyHeld, FlushedEmpty, Next PROVE RdyHeld'
<1> USE FrameFacts DEF Types, ElSet, MySet, SnapSet, Threads, Goto, At, Submitting, Taking, rest, PendFree, RdyHeld, FlushedEmpty
<1>1. ASSUME NEW t \in Threads, ReapSnapshot(t) PROVE RdyHeld'
  BY <1>1 DEF ReapSnapshot
<1>2. ASSUME NEW t \in Threads, ReapPoll(t) PROVE RdyHeld'
  BY <1>2 DEF ReapPoll
<1>3. ASSUME NEW t \in Threads, ReapEnd(t) PROVE RdyHeld'
  BY <1>3 DEF ReapEnd
<1>4. CASE Submit BY <1>4 DEF Submit, Return, Idle
<1>5. CASE Shift BY <1>5 DEF Shift
<1>6. CASE Prepare BY <1>6 DEF Prepare, Return, Idle
<1>7. CASE Enter BY <1>7 DEF Enter, Return, Idle
<1>8. CASE Record BY <1>8 DEF Record, Return, Idle
<1>9. CASE Native BY <1>9 DEF Native
<1>10. CASE Publish BY <1>10 DEF Publish
<1>11. CASE Settle BY <1>11 DEF Settle, Return, Idle
<1>12. CASE Blit BY <1>12 DEF Blit, Return, Idle
<1>13. CASE BlitReturn BY <1>13 DEF BlitReturn, Return, Idle
<1>14. CASE Converted BY <1>14, ConvertedDoes DEF Reap, Idle
<1>15. CASE Generate BY <1>15 DEF Generate, Return, Idle
<1>16. CASE Drain
  <2>1. UNCHANGED <<el.custom, flow>> /\ pc["S"] = "drain" BY <1>16, DrainDoes
  <2>2. Goto("S", "take") \/ (Slots = {} /\ (Goto("S", "idle") \/ Reap("S", "generate")))
    BY <1>16, DrainDoes
  <2>3. Slots = {} => el'.rdy = NoFrame BY ZenonT(30), <1>16, DrainDoes DEF Slots
  <2> QED BY <2>1, <2>2, <2>3 DEF Reap
<1>17. CASE Take BY <1>17 DEF Take, Return, Idle
<1>18. CASE Wait BY <1>18 DEF Wait
<1>19. CASE Taken
  <2>1. my.f \in Frames BY <1>19 DEF Control, Taken
  <2>2. pc["S"] = "taken" /\ (el'.rdy = NoFrame \/ (el' = el /\ (el.flushing \/ el.rdy # my.f))) BY <1>19, <2>1, TakenDoes
  <2> QED BY <2>2
<1>20. CASE ReleaseFrame BY <1>20 DEF ReleaseFrame, Reap
<1>21. CASE Over BY <1>21 DEF Over, Return, Idle
<1>22. CASE Push BY <1>22, PushDoes DEF Reap, Return, Idle
<1>23. CASE SetAsyncDepth BY <1>23 DEF SetAsyncDepth
<1>24. CASE FlushStart BY <1>24, QuarantinedDoes DEF FlushStart
<1>25. CASE FlushStop BY <1>25, QuarantinedDoes DEF FlushStop, Reap
<1>26. CASE FlushStopped
  <2>1. el.rdy = NoFrame BY <1>26 DEF FlushStopped, Control
  <2>2. el'.rdy = el.rdy BY <1>26 DEF FlushStopped
  <2> QED BY <2>1, <2>2
<1>27. CASE StateDrain BY <1>27, QuarantinedDoes DEF StateDrain, Reap
<1>28. CASE StopBegin BY <1>28, QuarantinedDoes DEF StopBegin, Reap
<1>29. CASE StopEmpty BY <1>29 DEF StopEmpty, Stopped
<1>30. CASE StopAgain BY <1>30 DEF StopAgain, Reap
<1>31. CASE StopEscape BY <1>31 DEF StopEscape, Stopped
<1>32. CASE Start
  <2>1. el.rdy = NoFrame BY <1>32 DEF Start, Control
  <2>2. el'.rdy = el.rdy BY <1>32 DEF Start
  <2> QED BY <2>1, <2>2
<1>33. CASE Finalize BY <1>33 DEF Finalize
<1>34. CASE ReaperFrees BY <1>34 DEF ReaperFrees
<1>35. CASE JobEnds BY <1>35 DEF JobEnds
<1>36. CASE Chain BY <1>36 DEF Chain, Reap, Idle, StreamLockTaken
<1>37. CASE SerializedEvent BY <1>37 DEF SerializedEvent, Idle, StreamLockTaken
<1> QED BY <1>1, <1>2, <1>3, <1>4, <1>5, <1>6, <1>7, <1>8, <1>9, <1>10, <1>11, <1>12, <1>13, <1>14,
           <1>15, <1>16, <1>17, <1>18, <1>19, <1>20, <1>21, <1>22, <1>23, <1>24, <1>25, <1>26,
           <1>27, <1>28, <1>29, <1>30, <1>31, <1>32, <1>33, <1>34, <1>35, <1>36, <1>37
       DEF Next, Stream, StopSteps, ReapStep, Threads

-----------------------------------------------------------------------------
(* References and their holders *)

Uses == {"native", "publish", "settle"}
Owed(f) == One(my.f = f /\ pc["S"] = "release" /\ my.res \in {"output", "error"})
Places == <<el.pend, el.rdy, el.quar, escaped>>
Hands == <<my.f, snap["S"].held, snap["A"].held>>

LEMMA Ones == \A P \in BOOLEAN : One(P) \in {0, 1} /\ (One(P) = 1 <=> P)
BY DEF One

LEMMA PlacedNat == \A f \in Frames : Placed(f) \in Nat
BY DEF Placed, One

LEMMA TwoZeros ==
  ASSUME NEW x \in Nat, NEW y \in Nat, x + y = 0
  PROVE  x = 0 /\ y = 0
OBVIOUS

LEMMA SumType ==
  ASSUME NEW x \in Nat, NEW y \in Nat
  PROVE  x + y \in Nat
OBVIOUS

\* A frame nobody counts is nowhere.
LEMMA Nowhere ==
  ASSUME RefsCounted, NEW f \in Frames, fr[f].refs = 0
  PROVE  Placed(f) = 0 /\ (\A t \in Threads : f \notin snap[t].held) /\ my.f # f /\ ~Used(f)
<1> DEFINE a == Placed(f)
           b == One(f \in snap["S"].held)
           c == One(f \in snap["A"].held)
           d == One(my.f = f)
           e == One(Used(f))
           g == Owed(f)
<1>1. a + b + c + d + e + g = 0
  BY DEF RefsCounted, Holders, Owed
<1>2. a \in Nat /\ b \in Nat /\ c \in Nat /\ d \in Nat /\ e \in Nat /\ g \in Nat
  BY PlacedNat DEF One, Owed
<1>3. a = 0 /\ b = 0 /\ c = 0 /\ d = 0 /\ e = 0
  <2> HIDE DEF a, b, c, d, e, g
  <2>1. a + b \in Nat
    BY <1>2, SumType
  <2>2. a + b + c \in Nat
    BY <1>2, <2>1, SumType
  <2>3. a + b + c + d \in Nat
    BY <1>2, <2>2, SumType
  <2>4. a + b + c + d + e \in Nat
    BY <1>2, <2>3, SumType
  <2>5. a + b + c + d + e = 0
    BY <1>1, <1>2, <2>4, TwoZeros
  <2>6. a + b + c + d = 0 /\ e = 0
    BY <1>2, <2>3, <2>5, TwoZeros
  <2>7. a + b + c = 0 /\ d = 0
    BY <1>2, <2>2, <2>6, TwoZeros
  <2>8. a + b = 0 /\ c = 0
    BY <1>2, <2>1, <2>7, TwoZeros
  <2>9. a = 0 /\ b = 0
    BY <1>2, <2>8, TwoZeros
  <2> QED BY <2>6, <2>7, <2>8, <2>9
<1> QED BY <1>3 DEF One, Threads

LEMMA PlacedSame ==
  ASSUME UNCHANGED Places PROVE \A f \in Frames : Placed(f)' = Placed(f)
BY DEF Placed, Places

LEMMA PlacedAway ==
  ASSUME Types, Apart, el'.pend = NoFrame, el'.rdy = NoFrame, el'.quar = el.quar \cup Slots, escaped' = escaped
  PROVE  \A f \in Frames : Placed(f)' = Placed(f)
BY FrameFacts DEF Types, ElSet, Apart, Placed, One, Slots

LEMMA PlacedShifted ==
  ASSUME Types, el.rdy = NoFrame, el'.rdy = el.pend, el'.pend = NoFrame, UNCHANGED <<el.quar, escaped>>
  PROVE  \A f \in Frames : Placed(f)' = Placed(f)
BY FrameFacts DEF Types, ElSet, Placed, One

LEMMA UsedSame ==
  ASSUME pc'["S"] \in Uses <=> pc["S"] \in Uses, pc["S"] \in Uses => UNCHANGED my.cur
  PROVE  \A f \in Frames : Used(f)' = Used(f)
BY DEF Used, Uses, JobFrame

LEMMA OwedSame ==
  ASSUME \/ pc["S"] # "release" /\ pc'["S"] # "release"
         \/ UNCHANGED <<pc["S"], my.f, my.res>>
  PROVE  \A f \in Frames : Owed(f)' = Owed(f)
BY DEF Owed, One

LEMMA RefsKept ==
  ASSUME RefsCounted, UNCHANGED Hands, \A f \in Frames : fr'[f].refs = fr[f].refs,
         \A f \in Frames : Placed(f)' = Placed(f) /\ Used(f)' = Used(f) /\ Owed(f)' = Owed(f)
  PROVE  RefsCounted'
<1>1. \A f \in Frames : Holders(f)' = Holders(f) BY DEF Holders, Hands
<1> QED BY <1>1 DEF RefsCounted, Owed

LEMMA HandsKept ==
  ASSUME Apart, RefsCounted, UNCHANGED Hands, \A f \in Frames : fr'[f].refs = fr[f].refs,
         \A f \in Frames : Placed(f)' = Placed(f),
         \/ pc["S"] \notin Uses \cup {"release"} /\ pc'["S"] \notin Uses \cup {"release"}
         \/ pc["S"] \in Uses /\ pc'["S"] \in Uses /\ UNCHANGED my.cur
         \/ UNCHANGED <<pc["S"], my.cur, my.res>>
  PROVE  Apart' /\ RefsCounted'
<1>1. \A f \in Frames : Used(f)' = Used(f) BY UsedSame DEF Used, Uses, JobFrame
<1>2. \A f \in Frames : Owed(f)' = Owed(f) BY OwedSame DEF Uses, Hands
<1>3. RefsCounted' BY <1>1, <1>2, RefsKept
<1> QED BY <1>3 DEF Apart

\* The streaming thread goes from one place where it holds no frame to another.
LEMMA HandsFree ==
  ASSUME Control, Control', Apart, RefsCounted, \A f \in Frames : fr'[f].refs = fr[f].refs,
         UNCHANGED <<snap["S"].held, snap["A"].held>>,
         \A f \in Frames : Placed(f)' = Placed(f),
         pc["S"] \notin Uses \cup {"wait", "taken", "release"},
         pc'["S"] \notin Uses \cup {"wait", "taken", "release"}
  PROVE  Apart' /\ RefsCounted'
<1>1. my.f = NoFrame /\ my'.f = NoFrame BY DEF Control
<1> QED BY <1>1, HandsKept DEF Hands

\* One frame's count and holders change together.
LEMMA OneCounted ==
  ASSUME Apart, RefsCounted, NEW f \in Frames,
         \A g \in Frames : g # f => /\ fr'[g].refs = fr[g].refs /\ Placed(g)' = Placed(g)
                                   /\ Holders(g)' = Holders(g) /\ Owed(g)' = Owed(g),
         Placed(f)' <= 1, fr'[f].refs = Holders(f)' + Owed(f)'
  PROVE  Apart' /\ RefsCounted'
BY DEF Apart, RefsCounted, Owed

LEMMA HoldersSame ==
  ASSUME NEW f, Placed(f)' = Placed(f), UNCHANGED Hands, Used(f)' = Used(f) PROVE Holders(f)' = Holders(f)
BY DEF Holders, Hands

LEMMA Alone ==
  ASSUME Apart, NEW f \in Frames
  PROVE  /\ el.pend = f => el.rdy # f /\ f \notin el.quar /\ f \notin escaped
         /\ el.rdy = f => f \notin el.quar /\ f \notin escaped
         /\ f \in el.quar => f \notin escaped
BY DEF Apart, Placed, One

\* A thread's snapshot and the counts of the frames in it change together.
LEMMA SnapCounted ==
  ASSUME Types, RefsCounted, NEW t \in Threads, UNCHANGED my.f,
         \A u \in Threads : u # t => snap'[u].held = snap[u].held,
         \A f \in Frames : /\ Placed(f)' = Placed(f) /\ Used(f)' = Used(f) /\ Owed(f)' = Owed(f)
                          /\ fr'[f].refs = fr[f].refs + One(f \in snap'[t].held) - One(f \in snap[t].held)
  PROVE  RefsCounted'
<1> SUFFICES ASSUME NEW f \in Frames PROVE fr'[f].refs = Holders(f)' + Owed(f)'
  BY DEF RefsCounted, Owed
<1> DEFINE p == Placed(f)
           s(u) == One(f \in snap[u].held)
           x == One(my.f = f) + One(Used(f))
           o == Owed(f)
<1>1. fr[f].refs = p + s("S") + s("A") + x + o BY PlacedNat DEF RefsCounted, Holders, Owed, One
<1>2. Holders(f)' = p + s("S")' + s("A")' + x BY PlacedNat DEF Holders, One
<1>3. /\ p \in Nat /\ x \in Nat /\ o \in Nat /\ s("S") \in Nat /\ s("A") \in Nat
      /\ s("S")' \in Nat /\ s("A")' \in Nat
  BY PlacedNat DEF One, Owed
<1>4. fr'[f].refs = fr[f].refs + s(t)' - s(t) /\ Owed(f)' = o OBVIOUS
<1>5. CASE t = "S"
  <2>1. s("A")' = s("A") BY <1>5 DEF Threads
  <2> HIDE DEF p, s, x, o
  <2> QED BY <1>1, <1>2, <1>3, <1>4, <1>5, <2>1
<1>6. CASE t = "A"
  <2>1. s("S")' = s("S") BY <1>6 DEF Threads
  <2> HIDE DEF p, s, x, o
  <2> QED BY <1>1, <1>2, <1>3, <1>4, <1>6, <2>1
<1> QED BY <1>5, <1>6 DEF Threads

\* A frame gives up its place and that place's reference.
LEMMA PlaceLost ==
  ASSUME Types, Apart, RefsCounted, NEW h \in Frames, Placed(h) = 1, Placed(h)' = 0, fr' = Unref({h}, 1),
         UNCHANGED Hands,
         \A g \in Frames : g # h => Placed(g)' = Placed(g),
         \A g \in Frames : Used(g)' = Used(g) /\ Owed(g)' = Owed(g)
  PROVE  Apart' /\ RefsCounted'
<1>1. fr'[h].refs = fr[h].refs - 1 /\ \A g \in Frames : g # h => fr'[g] = fr[g]
  BY DEF Types, FrSet, Unref
<1>2. \A g \in Frames : g # h => Holders(g)' = Holders(g) BY DEF Holders, Hands
<1>3. Holders(h)' + 1 = Holders(h) BY DEF Holders, Hands, One
<1>4. fr[h].refs = Holders(h) + Owed(h) BY DEF RefsCounted, Owed
<1>5. Holders(h)' \in Nat /\ Owed(h) \in Nat /\ Owed(h)' = Owed(h) BY DEF Holders, Owed, One
<1>6. fr'[h].refs = Holders(h)' + Owed(h)' BY <1>1, <1>3, <1>4, <1>5
<1>7. \A g \in Frames : g # h => /\ fr'[g].refs = fr[g].refs /\ Placed(g)' = Placed(g)
                                /\ Holders(g)' = Holders(g) /\ Owed(g)' = Owed(g)
  BY <1>1, <1>2
<1>8. Placed(h)' <= 1 OBVIOUS
<1> QED BY <1>6, <1>7, <1>8, OneCounted

LEMMA RefsStep ==
  ASSUME Types, Types', Control, Control', Unused, Apart, RdyHeld, PendFree, FlushedEmpty, RefsCounted, Next
  PROVE  Apart' /\ RefsCounted'
<1> USE FrameFacts DEF Types, MySet, SnapSet, Threads, Goto, rest, Uses
<1>1. ASSUME NEW t \in Threads, ReapSnapshot(t) PROVE Apart' /\ RefsCounted'
  <2>1. UNCHANGED <<my, escaped>> /\ pc[t] = "reap" BY <1>1 DEF ReapSnapshot
  <2>2. pc'[t] \notin Uses \cup {"release"} /\ \A u \in Threads : u # t => pc'[u] = pc[u]
    BY <1>1 DEF ReapSnapshot, Control
  <2>3. \/ pc["S"] \notin Uses \cup {"release"} /\ pc'["S"] \notin Uses \cup {"release"}
        \/ UNCHANGED pc["S"]
    BY <2>1, <2>2
  <2>4. UNCHANGED <<el.pend, el.rdy, el.quar>> BY <1>1 DEF ReapSnapshot, ElSet
  <2>5. \A f \in Frames : Placed(f)' = Placed(f) BY <2>1, <2>4, PlacedSame DEF Places
  <2>6. CASE el.quar = {}
    <3>1. UNCHANGED <<fr, snap>> BY <1>1, <2>6 DEF ReapSnapshot
    <3> QED BY <2>1, <2>3, <2>5, <3>1, HandsKept DEF Hands
  <2>7. CASE el.quar # {}
    <3>1. /\ snap[t].held = {} /\ snap'[t].held = el.quar /\ \A u \in Threads : u # t => snap'[u].held = snap[u].held
          /\ fr' = Ref(el.quar, 1)
      BY <1>1, <2>1, <2>7 DEF ReapSnapshot, Control
    <3>2. \A f \in Frames : Used(f)' = Used(f) /\ Owed(f)' = Owed(f)
      BY <2>1, <2>3, UsedSame, OwedSame
    <3>3. \A f \in Frames : fr'[f].refs = fr[f].refs + One(f \in el.quar)
      <4>1. fr \in [Frames -> FrSet] OBVIOUS
      <4> QED BY <3>1, <4>1 DEF Ref, FrSet, One
    <3>4. \A f \in Frames : fr'[f].refs = fr[f].refs + One(f \in snap'[t].held) - One(f \in snap[t].held)
      <4>1. \A f \in Frames : fr[f].refs \in Int /\ One(f \in snap[t].held) = 0 BY <3>1
                                                                                   DEF FrSet, One
      <4> QED BY <3>1, <3>3, <4>1 DEF One
    <3> QED BY SMTT(30), <2>1, <2>5, <3>1, <3>2, <3>4, SnapCounted DEF Apart
  <2> QED BY <2>6, <2>7
<1>2. ASSUME NEW t \in Threads, ReapPoll(t) PROVE Apart' /\ RefsCounted'
  <2>1. PICK h \in snap[t].todo :
          /\ snap' = [snap EXCEPT ![t].todo = @ \ {h}]
          /\ \/ h \in el.quar /\ el' = [el EXCEPT !.quar = @ \ {h}] /\ fr' = Unref({h}, 1)
             \/ UNCHANGED <<el, fr>>
    BY <1>2 DEF ReapPoll
  <2>2. UNCHANGED <<pc, my, escaped>> /\ \A u \in Threads : snap'[u].held = snap[u].held
    BY <1>2, <2>1 DEF ReapPoll
  <2>3. CASE UNCHANGED <<el, fr>>
    <3>1. \A f \in Frames : Placed(f)' = Placed(f) BY <2>2, <2>3, PlacedSame DEF Places
    <3> QED BY <2>2, <2>3, <3>1, HandsKept DEF Hands
  <2>4. CASE h \in el.quar /\ el' = [el EXCEPT !.quar = @ \ {h}] /\ fr' = Unref({h}, 1)
    <3>1. h \in Frames /\ el'.quar = el.quar \ {h} /\ UNCHANGED <<el.pend, el.rdy>> BY <2>4
                                                                                       DEF ElSet
    <3>2. el.pend # h /\ el.rdy # h /\ h \notin escaped BY <2>4, <3>1, Alone
    <3>3. Placed(h) = 1 /\ Placed(h)' = 0 BY <2>2, <2>4, <3>1, <3>2 DEF Placed, One
    <3>4. \A g \in Frames : g # h => Placed(g)' = Placed(g) BY <2>2, <3>1 DEF Placed, One
    <3>5. \A g \in Frames : Used(g)' = Used(g) /\ Owed(g)' = Owed(g) BY <2>2, UsedSame, OwedSame
    <3> QED BY <2>2, <2>4, <3>1, <3>3, <3>4, <3>5, PlaceLost DEF Hands
  <2> QED BY <2>1, <2>3, <2>4
<1>3. ASSUME NEW t \in Threads, ReapEnd(t) PROVE Apart' /\ RefsCounted'
  <2>1. UNCHANGED <<my, escaped>> /\ pc[t] = "poll" BY <1>3 DEF ReapEnd
  <2>2. pc'[t] \notin Uses \cup {"release"} /\ \A u \in Threads : u # t => pc'[u] = pc[u]
    BY <1>3 DEF ReapEnd, Control
  <2>3. \/ pc["S"] \notin Uses \cup {"release"} /\ pc'["S"] \notin Uses \cup {"release"}
        \/ UNCHANGED pc["S"]
    BY <2>1, <2>2
  <2>4. UNCHANGED <<el.pend, el.rdy, el.quar>> BY <1>3 DEF ReapEnd, ElSet
  <2>5. \A f \in Frames : Placed(f)' = Placed(f) BY <2>1, <2>4, PlacedSame DEF Places
  <2>6. /\ snap'[t].held = {} /\ \A u \in Threads : u # t => snap'[u].held = snap[u].held
        /\ fr' = Unref(snap[t].held, 1)
    BY <1>3 DEF ReapEnd
  <2>7. \A f \in Frames : Used(f)' = Used(f) /\ Owed(f)' = Owed(f)
    BY <2>1, <2>3, UsedSame, OwedSame
  <2>8. \A f \in Frames : fr'[f].refs = fr[f].refs + One(f \in snap'[t].held) - One(f \in snap[t].held)
    <3>1. \A f \in Frames : fr[f].refs \in Int /\ One(f \in snap'[t].held) = 0 BY <2>6
                                                                                  DEF FrSet, One
    <3>2. \A f \in Frames : fr'[f].refs = fr[f].refs - One(f \in snap[t].held)
      <4>1. fr \in [Frames -> FrSet] OBVIOUS
      <4> QED BY <2>6, <4>1 DEF Unref, FrSet, One
    <3> QED BY <3>1, <3>2 DEF One
  <2> QED BY <2>1, <2>5, <2>6, <2>7, <2>8, SnapCounted DEF Apart
<1>4. CASE Submit
  <2>1. \A f \in Frames : Placed(f)' = Placed(f) BY <1>4, PlacedSame
                                                    DEF Submit, Places, ElSet, Return
  <2> QED BY <1>4, <2>1, HandsFree DEF Submit, Return, Idle
<1>5. CASE Shift
  <2>1. el.rdy = NoFrame /\ el'.rdy = el.pend /\ el'.pend = NoFrame /\ UNCHANGED <<el.quar, escaped>>
    BY <1>5 DEF Shift, RdyHeld, At, Submitting, ElSet
  <2>2. \A f \in Frames : Placed(f)' = Placed(f) BY <2>1, PlacedShifted
  <2> QED BY <1>5, <2>2, HandsFree DEF Shift
<1>6. CASE Prepare
  <2>1. \A f \in Frames : Placed(f)' = Placed(f) BY <1>6, PlacedSame
                                                    DEF Prepare, Places, ElSet, Return
  <2> QED BY <1>6, <2>1, HandsFree DEF Prepare, Return, Idle
<1>7. CASE Enter
  <2>1. \A f \in Frames : Placed(f)' = Placed(f) BY <1>7, PlacedSame
                                                    DEF Enter, Places, ElSet, Return
  <2> QED BY <1>7, <2>1, HandsFree DEF Enter, Return, Idle
<1>8. CASE Record
  <2>1. CASE el.flushing
    <3>1. UNCHANGED <<el.pend, el.rdy, el.quar, escaped, fr, snap>> /\ pc["S"] = "record" /\ pc'["S"] = "idle"
      BY <1>8, <2>1 DEF Record, Return, ElSet
    <3>2. \A f \in Frames : Placed(f)' = Placed(f) BY <3>1, PlacedSame DEF Places
    <3> QED BY <3>1, <3>2, HandsFree
  <2>2. CASE ~el.flushing
    <3>1. /\ el'.pend = JobFrame /\ UNCHANGED <<el.rdy, el.quar, escaped, snap>> /\ pc["S"] = "record"
          /\ pc'["S"] = "native" /\ UNCHANGED <<my.cur, my.f>>
      BY <1>8, <2>2 DEF Record, ElSet
    <3>2. JobFrame \in Frames /\ JobFrame' = JobFrame /\ el.pend = NoFrame /\ my.f = NoFrame
      BY <3>1 DEF JobFrame, Control, At, Submitting, PendFree
    <3>3. fr[JobFrame].refs = 0 BY <3>1 DEF Unused, Control, At, Submitting
    <3>4. /\ fr'[JobFrame].refs = 2
          /\ \A g \in Frames : g # JobFrame => fr'[g] = fr[g]
      BY <1>8, <2>2, <3>2 DEF Record
    <3>5. /\ Placed(JobFrame) = 0
          /\ \A t \in Threads : JobFrame \notin snap[t].held
      BY <3>2, <3>3, Nowhere
    <3>6. el.rdy # JobFrame /\ JobFrame \notin el.quar /\ JobFrame \notin escaped BY <3>5
                                                                                     DEF Placed,
                                                                                         One
    <3>7. Placed(JobFrame)' = 1 BY <3>1, <3>2, <3>6 DEF Placed, One
    <3>8. Holders(JobFrame)' = 2 /\ Owed(JobFrame)' = 0 BY <3>1, <3>2, <3>5, <3>7
                                                           DEF Holders, Used, Owed, One
    <3>9. ASSUME NEW g \in Frames, g # JobFrame
          PROVE  Placed(g)' = Placed(g) /\ Holders(g)' = Holders(g) /\ Owed(g)' = Owed(g)
      <4>1. Placed(g)' = Placed(g) BY <3>1, <3>2, <3>9 DEF Placed
      <4>2. Used(g)' = Used(g) BY <3>1, <3>2, <3>9 DEF Used
      <4>3. Owed(g)' = Owed(g) BY <3>1 DEF Owed, One
      <4> QED BY <4>1, <4>2, <4>3, <3>1, HoldersSame DEF Hands
    <3> QED BY <3>2, <3>4, <3>7, <3>8, <3>9, OneCounted
  <2> QED BY <2>1, <2>2
<1>9. CASE Native
  <2>1. \A f \in Frames : Placed(f)' = Placed(f) BY <1>9, PlacedSame DEF Native, Places, ElSet
  <2> QED BY <1>9, <2>1, HandsKept DEF Native, Hands
<1>10. CASE Publish
  <2>1. /\ JobFrame \in Frames /\ pc["S"] = "publish" /\ pc'["S"] = "settle" /\ UNCHANGED <<snap, escaped, my.cur, my.f>>
    BY <1>10 DEF Publish, JobFrame, Control, At, Submitting
  <2>2. \A f \in Frames : fr'[f].refs = fr[f].refs
    <3>1. fr \in [Frames -> FrSet] OBVIOUS
    <3> QED BY <1>10, <3>1 DEF Publish, FrSet
  <2>3. \A f \in Frames : Placed(f)' = Placed(f)
    <3>1. CASE el.pend = JobFrame /\ my.res # "ok"
      <4>1. el'.pend = NoFrame /\ el'.quar = el.quar \cup {JobFrame} /\ UNCHANGED el.rdy BY <1>10, <3>1, PublishDoes
      <4>2. el.rdy # JobFrame /\ JobFrame \notin el.quar BY <2>1, <3>1, Alone
      <4>3. \A f \in Frames : One(el'.pend = f) + One(f \in el'.quar) = One(el.pend = f) + One(f \in el.quar)
        BY <3>1, <4>1, <4>2 DEF One
      <4> QED BY <2>1, <4>1, <4>3 DEF Placed, One
    <3>2. CASE ~(el.pend = JobFrame /\ my.res # "ok")
      <4>1. UNCHANGED <<el.pend, el.rdy, el.quar>> BY <1>10, <3>2, PublishDoes
      <4> QED BY <2>1, <4>1, PlacedSame DEF Places
    <3> QED BY <3>1, <3>2
  <2> QED BY <2>1, <2>2, <2>3, HandsKept DEF Hands
<1>11. CASE Settle
  <2>1. /\ pc["S"] = "settle" /\ pc'["S"] \in {"idle", "converted"} /\ UNCHANGED <<snap, escaped>>
        /\ UNCHANGED <<el.pend, el.rdy, el.quar>>
    BY <1>11 DEF Settle, Return, ElSet
  <2>2. JobFrame \in Frames /\ my.f = NoFrame /\ my'.f = NoFrame
    BY <2>1 DEF JobFrame, Control, At, Submitting
  <2>0. PICK J \in Frames : J = JobFrame BY <2>2
  <2>3. J \in Frames /\ Used(J) /\ ~Used(J)' /\ \A g \in Frames : g # J => ~Used(g) /\ ~Used(g)'
    BY <2>0, <2>1, <2>2 DEF Used, JobFrame
  <2>4. fr'[J].refs = fr[J].refs - 1 /\ \A g \in Frames : g # J => fr'[g] = fr[g]
    <3>1. fr \in [Frames -> FrSet] OBVIOUS
    <3> QED BY <1>11, <2>0, <3>1 DEF Settle, Unref, FrSet
  <2>5. \A f \in Frames : Placed(f)' = Placed(f) /\ Owed(f)' = Owed(f)
    BY <2>1, PlacedSame, OwedSame DEF Places
  <2>6. Owed(J) = 0 BY <2>1 DEF Owed, One
  <2>7. Holders(J)' + 1 = Holders(J)
    <3>1. Used(J) /\ ~Used(J)' /\ UNCHANGED Hands /\ Placed(J)' = Placed(J) /\ Placed(J) \in Nat
      BY <2>1, <2>2, <2>3, <2>5, PlacedNat DEF Hands
    <3> QED BY <3>1 DEF Holders, One, Hands
  <2>8. fr[J].refs = Holders(J) + Owed(J) BY <2>3 DEF RefsCounted, Owed
  <2>9. Holders(J)' \in Nat BY <2>3, PlacedNat DEF Holders, One, Placed
  <2>10. Placed(J)' <= 1 BY <2>3, <2>5 DEF Apart
  <2>11. \A g \in Frames : g # J => /\ fr'[g].refs = fr[g].refs /\ Placed(g)' = Placed(g)
                                   /\ Holders(g)' = Holders(g) /\ Owed(g)' = Owed(g)
    <3>1. \A g \in Frames : g # J => Holders(g)' = Holders(g)
      BY <2>1, <2>2, <2>3, <2>5 DEF Holders, One
    <3> QED BY <2>4, <2>5, <3>1
  <2>12. fr'[J].refs = Holders(J)' + Owed(J)' BY <2>3, <2>4, <2>5, <2>6, <2>7, <2>8, <2>9
  <2> QED BY <2>10, <2>11, <2>12, OneCounted
<1>12. CASE Blit
  <2>1. \A f \in Frames : Placed(f)' = Placed(f) BY <1>12, PlacedSame
                                                    DEF Blit, Places, ElSet, Return
  <2> QED BY <1>12, <2>1, HandsFree DEF Blit, Return, Idle
<1>13. CASE BlitReturn
  <2>1. \A f \in Frames : Placed(f)' = Placed(f) BY <1>13, PlacedSame
                                                    DEF BlitReturn, Places, ElSet, Return
  <2> QED BY <1>13, <2>1, HandsFree DEF BlitReturn, Return, Idle
<1>14. CASE Converted
  <2>1. /\ pc["S"] = "converted" /\ pc'["S"] \in {"reap", "push"} /\ UNCHANGED <<escaped, el.rdy, el.quar>>
        /\ \A u \in Threads : snap'[u].held = snap[u].held
    BY <1>14, ConvertedDoes DEF Reap
  <2>2. CASE UNCHANGED <<el.pend, fr>>
    <3>1. \A f \in Frames : Placed(f)' = Placed(f) BY <2>1, <2>2, PlacedSame DEF Places
    <3> QED BY <2>1, <2>2, <3>1, HandsFree
  <2>3. CASE /\ el.pend = NoFrame /\ el'.pend = <<my.cur, "ready">>
             /\ fr' = [fr EXCEPT ![<<my.cur, "ready">>] = [Blank EXCEPT !.refs = 1, !.out = TRUE]]
    <3>0. PICK h \in Frames : h = <<my.cur, "ready">> BY <2>1 DEF Control, At, Submitting
    <3>1. fr[h].refs = 0 BY <3>0, <2>1 DEF Unused, Control, At, Submitting
    <3>2. fr'[h].refs = 1 /\ \A g \in Frames : g # h => fr'[g] = fr[g]
      BY <2>3, <3>0 DEF Blank
    <3>3. my.f = NoFrame /\ my'.f = NoFrame BY <2>1 DEF Control
    <3>4. Placed(h) = 0 /\ \A u \in Threads : h \notin snap[u].held BY <3>1, Nowhere
    <3>5. el.rdy # h /\ h \notin el.quar /\ h \notin escaped BY <3>4 DEF Placed, One
    <3>6. Placed(h)' = 1 BY <2>1, <2>3, <3>0, <3>5 DEF Placed, One
    <3>7. \A g \in Frames : ~Used(g) /\ ~Used(g)' /\ Owed(g) = 0 /\ Owed(g)' = 0
      BY <2>1 DEF Used, Owed, One
    <3>8. Holders(h)' = 1 BY <2>1, <3>3, <3>4, <3>6, <3>7 DEF Holders, One
    <3>9. \A g \in Frames : g # h => Placed(g)' = Placed(g) BY <2>1, <2>3, <3>0 DEF Placed, One
    <3>10. \A g \in Frames : g # h => Holders(g)' = Holders(g) BY <2>1, <3>3, <3>7, <3>9
                                                                  DEF Holders, One
    <3>11. \A g \in Frames : g # h => /\ fr'[g].refs = fr[g].refs /\ Placed(g)' = Placed(g)
                                     /\ Holders(g)' = Holders(g) /\ Owed(g)' = Owed(g)
      BY <3>2, <3>7, <3>9, <3>10
    <3>12. fr'[h].refs = Holders(h)' + Owed(h)' BY <3>2, <3>7, <3>8
    <3> QED BY <3>6, <3>11, <3>12, OneCounted
  <2> QED BY <1>14, <2>2, <2>3, ConvertedDoes
<1>15. CASE Generate
  <2>1. \A f \in Frames : Placed(f)' = Placed(f) BY <1>15, PlacedSame
                                                    DEF Generate, Places, ElSet, Return
  <2> QED BY <1>15, <2>1, HandsFree DEF Generate, Return, Idle
<1>16. CASE Drain
  <2>1. \A f \in Frames : Placed(f)' = Placed(f)
    <3>1. CASE el.rdy = NoFrame BY <1>16, <3>1, DrainDoes, PlacedShifted
    <3>2. CASE el.rdy # NoFrame BY <1>16, <3>2, DrainDoes, PlacedSame DEF Places
    <3> QED BY <3>1, <3>2
  <2>2. pc["S"] = "drain" /\ UNCHANGED fr /\ (UNCHANGED snap \/ Reap("S", "generate"))
        /\ (Goto("S", "take") \/ Goto("S", "idle") \/ Reap("S", "generate"))
    BY <1>16, DrainDoes
  <2> QED BY <2>1, <2>2, HandsFree DEF Reap
<1>17. CASE Take
  <2>1. pc["S"] = "take" /\ UNCHANGED <<snap, escaped>> /\ UNCHANGED <<el.pend, el.rdy, el.quar>>
    BY <1>17 DEF Take, Return, ElSet
  <2>2. \A f \in Frames : Placed(f)' = Placed(f) BY <2>1, PlacedSame DEF Places
  <2>3. CASE el.rdy = NoFrame
    <3>1. UNCHANGED fr /\ pc'["S"] \in {"idle", "drain"} BY <1>17, <2>3 DEF Take, Return
    <3> QED BY <2>1, <2>2, <3>1, HandsFree
  <2>4. CASE el.rdy # NoFrame
    <3>0. PICK h \in Frames : h = el.rdy BY <2>4 DEF ElSet
    <3>1. h \in Frames /\ my.f = NoFrame /\ my'.f = h /\ pc'["S"] = "wait"
      BY <1>17, <2>1, <2>4, <3>0 DEF Take, Control
    <3>2. fr'[h].refs = fr[h].refs + 1 /\ \A g \in Frames : g # h => fr'[g] = fr[g]
      <4>1. fr \in [Frames -> FrSet] OBVIOUS
      <4> QED BY <1>17, <2>4, <3>0, <4>1 DEF Take, Ref, FrSet
    <3>3. \A g \in Frames : Owed(g) = 0 /\ Owed(g)' = 0 /\ ~Used(g) /\ ~Used(g)'
      BY <2>1, <3>1 DEF Owed, Used, One
    <3>4. \A g \in Frames : g # h => Holders(g)' = Holders(g) BY <2>1, <2>2, <3>1, <3>3
                                                                 DEF Holders, One
    <3>5. Holders(h)' = Holders(h) + 1 BY <2>1, <2>2, <3>1, <3>3, PlacedNat DEF Holders, One
    <3>6. Holders(h) \in Nat BY <3>1, PlacedNat DEF Holders, One
    <3>7. fr[h].refs = Holders(h) + Owed(h) BY <3>1 DEF RefsCounted, Owed
    <3>8. Placed(h)' <= 1 BY <2>2, <3>1 DEF Apart
    <3>9. fr'[h].refs = Holders(h)' + Owed(h)' BY <3>1, <3>2, <3>3, <3>5, <3>6, <3>7
    <3>10. \A g \in Frames : g # h => /\ fr'[g].refs = fr[g].refs /\ Placed(g)' = Placed(g)
                                     /\ Holders(g)' = Holders(g) /\ Owed(g)' = Owed(g)
      BY <2>2, <3>2, <3>3, <3>4
    <3> QED BY <3>8, <3>9, <3>10, OneCounted
  <2> QED BY <2>3, <2>4
<1>18. CASE Wait
  <2>1. \A f \in Frames : Placed(f)' = Placed(f) BY <1>18, PlacedSame DEF Wait, Places, ElSet
  <2> QED BY <1>18, <2>1, HandsKept DEF Wait, Hands
<1>19. CASE Taken
  <2>0. PICK h \in Frames : h = my.f BY <1>19 DEF Taken, Control
  <2>1. /\ pc["S"] = "taken" /\ pc'["S"] = "release" /\ UNCHANGED <<snap, escaped, el.pend>>
        /\ my'.f = h
    BY <1>19, <2>0, TakenDoes
  <2>2. \A g \in Frames : ~Used(g) /\ ~Used(g)' /\ Owed(g) = 0 /\ (g # h => Owed(g)' = 0)
    BY <2>0, <2>1 DEF Used, Owed, One
  <2>3. \A g \in Frames : fr'[g].refs = fr[g].refs
    <3>1. fr \in [Frames -> FrSet] OBVIOUS
    <3>2. fr' = fr \/ fr' = [fr EXCEPT ![h].out = FALSE] BY <1>19, <2>0, TakenDoes
    <3>3. [fr[h] EXCEPT !.out = FALSE].refs = fr[h].refs BY <3>1 DEF FrSet
    <3> QED BY ZenonT(30), <3>1, <3>2, <3>3
  <2>4. CASE my'.res \in {"flushing", "dropped"}
    <3>1. Owed(h)' = 0 BY <2>4 DEF Owed, One
    <3>2. \A f \in Frames : Placed(f)' = Placed(f)
      <4>1. CASE UNCHANGED el BY <2>1, <4>1, PlacedSame DEF Places
      <4>2. CASE el.rdy = h /\ el'.rdy = NoFrame /\ el'.quar = el.quar \cup {h}
        <5>1. h \notin el.quar BY <4>2, Alone
        <5>2. \A f \in Frames : One(el'.rdy = f) + One(f \in el'.quar) = One(el.rdy = f) + One(f \in el.quar)
          BY <4>2, <5>1 DEF One
        <5> QED BY <2>1, <5>2 DEF Placed, One
      <4> QED BY <1>19, <2>0, <2>4, <4>1, <4>2, TakenDoes
    <3>3. \A f \in Frames : Used(f)' = Used(f) /\ Owed(f)' = Owed(f) BY <2>1, <2>2, <3>1, UsedSame
    <3> QED BY <2>0, <2>1, <2>3, <3>2, <3>3, RefsKept DEF Hands, Apart
  <2>5. CASE my'.res \in {"output", "error"}
    <3>1. el.rdy = h /\ el'.rdy = NoFrame /\ UNCHANGED el.quar BY <1>19, <2>0, <2>5, TakenDoes
    <3>2. Owed(h)' = 1 BY <2>1, <2>5 DEF Owed, One
    <3>3. el.pend # h /\ h \notin el.quar /\ h \notin escaped BY <3>1, Alone
    <3>4. Placed(h) = 1 /\ Placed(h)' = 0 BY <2>1, <3>1, <3>3 DEF Placed, One
    <3>5. \A g \in Frames : g # h => Placed(g)' = Placed(g) BY <2>1, <3>1 DEF Placed, One
    <3>6. \A g \in Frames : g # h => Holders(g)' = Holders(g) BY <2>0, <2>1, <2>2, <3>5
                                                                 DEF Holders, One
    <3>7. Holders(h)' + 1 = Holders(h) BY <2>0, <2>1, <2>2, <3>4 DEF Holders, One
    <3>8. fr[h].refs = Holders(h) + Owed(h) BY DEF RefsCounted, Owed
    <3>9. Holders(h)' \in Nat BY <3>4 DEF Holders, One
    <3>10. fr'[h].refs = Holders(h)' + Owed(h)' BY <2>2, <2>3, <3>2, <3>7, <3>8, <3>9
    <3>11. \A g \in Frames : g # h => /\ fr'[g].refs = fr[g].refs /\ Placed(g)' = Placed(g)
                                     /\ Holders(g)' = Holders(g) /\ Owed(g)' = Owed(g)
      BY <2>2, <2>3, <3>5, <3>6
    <3> QED BY <3>4, <3>10, <3>11, OneCounted
  <2> QED BY <1>19, <2>0, <2>4, <2>5, TakenDoes
<1>20. CASE ReleaseFrame
  <2>0. PICK h \in Frames : h = my.f BY <1>20 DEF ReleaseFrame, Control
  <2>1. /\ pc["S"] = "release" /\ pc'["S"] = "reap" /\ UNCHANGED <<escaped, el.pend, el.rdy, el.quar>>
        /\ my'.f = NoFrame /\ \A u \in Threads : snap'[u].held = snap[u].held
    BY <1>20 DEF ReleaseFrame, Reap, ElSet
  <2>2. \A g \in Frames : /\ ~Used(g) /\ ~Used(g)' /\ Owed(g)' = 0 /\ (g # h => Owed(g) = 0)
                          /\ Placed(g)' = Placed(g)
    BY <2>0, <2>1, PlacedSame DEF Used, Owed, One, Places
  <2>3. fr'[h].refs = fr[h].refs - 1 - Owed(h) /\ \A g \in Frames : g # h => fr'[g] = fr[g]
    <3>1. fr \in [Frames -> FrSet] OBVIOUS
    <3>2. fr' = Unref({h}, IF my.res \in {"output", "error"} THEN 2 ELSE 1) BY <1>20, <2>0
                                                                               DEF ReleaseFrame
    <3>3. \A n \in Nat : fr' = Unref({h}, n) => fr'[h].refs = fr[h].refs - n BY <3>1
                                                                                DEF Unref, FrSet
    <3>4. fr[h].refs \in Int BY <3>1 DEF FrSet
    <3>5. CASE my.res \in {"output", "error"}
      <4>1. Owed(h) = 1 BY <2>0, <2>1, <3>5 DEF Owed, One
      <4>2. fr' = Unref({h}, 2) BY <3>2, <3>5
      <4>3. fr'[h].refs = fr[h].refs - 2 BY <3>3, <4>2
      <4> QED BY <3>4, <4>1, <4>2, <4>3 DEF Unref
    <3>6. CASE my.res \notin {"output", "error"}
      <4>1. Owed(h) = 0 BY <3>6 DEF Owed, One
      <4>2. fr' = Unref({h}, 1) BY <3>2, <3>6
      <4>3. fr'[h].refs = fr[h].refs - 1 BY <3>3, <4>2
      <4> QED BY <3>4, <4>1, <4>2, <4>3 DEF Unref
    <3> QED BY <3>5, <3>6
  <2>4. \A g \in Frames : g # h => Holders(g)' = Holders(g) BY <2>0, <2>1, <2>2 DEF Holders, One
  <2>5. Holders(h)' + 1 = Holders(h) BY <2>0, <2>1, <2>2, PlacedNat DEF Holders, One
  <2>6. fr[h].refs = Holders(h) + Owed(h) BY DEF RefsCounted, Owed
  <2>7. Holders(h)' \in Nat /\ Owed(h) \in Nat BY <2>2, PlacedNat DEF Holders, Owed, One
  <2>8. fr'[h].refs = Holders(h)' + Owed(h)' BY <2>2, <2>3, <2>5, <2>6, <2>7
  <2>9. \A g \in Frames : g # h => /\ fr'[g].refs = fr[g].refs /\ Placed(g)' = Placed(g)
                                  /\ Holders(g)' = Holders(g) /\ Owed(g)' = Owed(g)
    BY <2>2, <2>3, <2>4
  <2>10. Placed(h)' <= 1 BY <2>2 DEF Apart
  <2> QED BY <2>8, <2>9, <2>10, OneCounted
<1>21. CASE Over
  <2>1. \A f \in Frames : Placed(f)' = Placed(f) BY <1>21, PlacedSame
                                                    DEF Over, Places, ElSet, Return
  <2> QED BY <1>21, <2>1, HandsFree DEF Over, Return, Idle
<1>22. CASE Push
  <2>1. UNCHANGED <<el, escaped, fr>> /\ pc["S"] = "push" BY <1>22, PushDoes
  <2>2. (Goto("S", "idle") /\ UNCHANGED snap) \/ (Goto("S", "drain") /\ UNCHANGED snap) \/ Reap("S", "generate")
    BY <1>22, PushDoes
  <2>3. \A f \in Frames : Placed(f)' = Placed(f) BY <2>1, PlacedSame DEF Places
  <2> QED BY SMTT(30), <2>1, <2>2, <2>3, HandsFree DEF Reap
<1>23. CASE SetAsyncDepth
  <2>1. \A f \in Frames : Placed(f)' = Placed(f) BY <1>23, PlacedSame
                                                    DEF SetAsyncDepth, Places, ElSet
  <2> QED BY <1>23, <2>1, HandsKept DEF SetAsyncDepth, Hands
<1>24. CASE FlushStart
  <2>1. \A f \in Frames : Placed(f)' = Placed(f) BY <1>24, QuarantinedDoes, PlacedAway
                                                    DEF FlushStart
  <2> QED BY <1>24, <2>1, HandsKept DEF FlushStart, Hands
<1>25. CASE FlushStop
  <2>1. \A f \in Frames : Placed(f)' = Placed(f) BY <1>25, QuarantinedDoes, PlacedAway DEF FlushStop
  <2> QED BY <1>25, <2>1, HandsKept DEF FlushStop, Reap, Hands
<1>26. CASE FlushStopped
  <2>1. \A f \in Frames : Placed(f)' = Placed(f) BY <1>26, PlacedSame
                                                    DEF FlushStopped, Places, ElSet
  <2> QED BY <1>26, <2>1, HandsKept DEF FlushStopped, Hands
<1>27. CASE StateDrain
  <2>1. \A f \in Frames : Placed(f)' = Placed(f) BY <1>27, QuarantinedDoes, PlacedAway
                                                    DEF StateDrain
  <2> QED BY <1>27, <2>1, HandsKept DEF StateDrain, Reap, Hands
<1>28. CASE StopBegin
  <2>1. \A f \in Frames : Placed(f)' = Placed(f) BY <1>28, QuarantinedDoes, PlacedAway DEF StopBegin
  <2> QED BY <1>28, <2>1, HandsKept DEF StopBegin, Reap, Hands
<1>29. CASE StopEmpty
  <2>1. \A f \in Frames : Placed(f)' = Placed(f) BY <1>29, PlacedSame DEF StopEmpty, Places, ElSet
  <2> QED BY <1>29, <2>1, HandsKept DEF StopEmpty, Stopped, Hands
<1>30. CASE StopAgain
  <2>1. \A f \in Frames : Placed(f)' = Placed(f) BY <1>30, PlacedSame DEF StopAgain, Places, ElSet
  <2> QED BY <1>30, <2>1, HandsKept DEF StopAgain, Reap, Hands
<1>31. CASE StopEscape
  <2>1. escaped' = escaped \cup el.quar /\ el'.quar = {} /\ UNCHANGED <<el.pend, el.rdy>>
    BY <1>31 DEF StopEscape, ElSet
  <2>2. \A f \in Frames : One(f \in el'.quar) + One(f \in escaped') = One(f \in el.quar) + One(f \in escaped)
    BY <2>1, Alone DEF One
  <2>3. \A f \in Frames : Placed(f)' = Placed(f) BY <2>1, <2>2 DEF Placed, One
  <2> QED BY <1>31, <2>3, HandsKept DEF StopEscape, Stopped, Hands
<1>32. CASE Start
  <2>1. \A f \in Frames : Placed(f)' = Placed(f) BY <1>32, PlacedSame DEF Start, Places, ElSet
  <2> QED BY <1>32, <2>1, HandsKept DEF Start, Hands
<1>33. CASE Finalize
  <2>1. \A f \in Frames : Placed(f)' = Placed(f) BY <1>33, PlacedSame DEF Finalize, Places, ElSet
  <2> QED BY <1>33, <2>1, HandsKept DEF Finalize, Hands
<1>34. CASE ReaperFrees
  <2>0. PICK h \in escaped : fr' = Unref({h}, 1) /\ escaped' = escaped \ {h} BY <1>34
                                                                                DEF ReaperFrees
  <2>1. UNCHANGED <<el, pc, my, snap>> /\ h \in Frames BY <1>34, <2>0 DEF ReaperFrees
  <2>2. Placed(h) = 1 /\ el.pend # h /\ el.rdy # h /\ h \notin el.quar
    <3>1. el.pend # h /\ el.rdy # h /\ h \notin el.quar BY <2>0, <2>1, Alone
    <3> QED BY <2>0, <3>1 DEF Placed, One
  <2>3. Placed(h)' = 0 BY <2>0, <2>1, <2>2 DEF Placed, One
  <2>4. \A g \in Frames : g # h => Placed(g)' = Placed(g) BY <2>0, <2>1 DEF Placed, One
  <2>5. \A g \in Frames : Used(g)' = Used(g) /\ Owed(g)' = Owed(g) BY <2>1, UsedSame, OwedSame
  <2> QED BY <2>0, <2>1, <2>2, <2>3, <2>4, <2>5, PlaceLost DEF Hands
<1>35. CASE JobEnds
  <2>1. \A f \in Frames : Placed(f)' = Placed(f) BY <1>35, PlacedSame DEF JobEnds, Places, ElSet
  <2> QED BY <1>35, <2>1, HandsKept DEF JobEnds, Hands
<1>36. CASE Chain
  <2>1. \A f \in Frames : Placed(f)' = Placed(f) BY <1>36, PlacedSame DEF Chain, Places, ElSet
  <2> QED BY <1>36, <2>1, HandsFree DEF Chain, Reap, Idle, StreamLockTaken
<1>37. CASE SerializedEvent
  <2>1. \A f \in Frames : Placed(f)' = Placed(f) BY <1>37, PlacedSame
                                                    DEF SerializedEvent, Places, ElSet
  <2> QED BY <1>37, <2>1, HandsFree DEF SerializedEvent, Idle, StreamLockTaken
<1> QED BY <1>1, <1>2, <1>3, <1>4, <1>5, <1>6, <1>7, <1>8, <1>9, <1>10, <1>11, <1>12, <1>13, <1>14,
           <1>15, <1>16, <1>17, <1>18, <1>19, <1>20, <1>21, <1>22, <1>23, <1>24, <1>25, <1>26,
           <1>27, <1>28, <1>29, <1>30, <1>31, <1>32, <1>33, <1>34, <1>35, <1>36, <1>37
       DEF Next, Stream, StopSteps, ReapStep, Threads

\* Counting a frame that has a holder leaves the frames without one at nothing.
LEMMA NoneMade ==
  ASSUME Types, RefsCounted, NEW fs \in SUBSET Frames, NEW n \in Nat,
         UNCHANGED fr \/ fr' = Ref(fs, n) \/ fr' = Unref(fs, n),
         \A f \in fs : Placed(f) # 0 \/ (\E t \in Threads : f \in snap[t].held) \/ my.f = f \/ Used(f)
  PROVE  \A f \in Frames : fr[f].refs = 0 => fr'[f].refs = 0
<1> SUFFICES ASSUME NEW f \in Frames, fr[f].refs = 0 PROVE fr'[f].refs = 0 OBVIOUS
<1>1. f \notin fs BY Nowhere
<1> QED BY <1>1 DEF Ref, Unref

LEMMA NoneMadeByOne ==
  ASSUME Types, RefsCounted, NEW h \in Frames, Placed(h) # 0 \/ my.f = h \/ Used(h),
         fr' = Ref({h}, 1) \/ fr' = Unref({h}, 1) \/ fr' = Unref({h}, 2)
  PROVE  \A f \in Frames : fr[f].refs = 0 => fr'[f].refs = 0
<1>1. \A f \in Frames : fr[f].refs = 0 => f # h BY Nowhere
<1> QED BY <1>1 DEF Ref, Unref

LEMMA PlacedThere ==
  ASSUME NEW f \in Frames, el.pend = f \/ el.rdy = f \/ f \in el.quar \/ f \in escaped
  PROVE  Placed(f) # 0
BY DEF Placed, One

LEMMA UnusedKept ==
  ASSUME Types, Types', Unused, UNCHANGED <<fed, job>>,
         \A f \in Frames : fr[f].refs = 0 => fr'[f].refs = 0,
         \/ my'.cur = NoBuf
         \/ /\ UNCHANGED my.cur
            /\ \/ UNCHANGED pc["S"]
               \/ pc["S"] \notin {"native", "publish", "settle", "blitting", "converted"}
               \/ pc["S"] = "publish" /\ pc'["S"] = "settle"
               \/ pc'["S"] = "converted"
  PROVE  Unused'
<1>1. \A n \in Bufs : n > fed =>
        job'[n] = "none" /\ fr'[<<n, "job">>].refs = 0 /\ fr'[<<n, "ready">>].refs = 0
  BY FrameFacts DEF Unused
<1>2. ASSUME my'.cur # NoBuf
      PROVE  /\ fr'[<<my'.cur, "ready">>].refs = 0
             /\ pc'["S"] \notin {"native", "publish", "settle", "converted"} => fr'[<<my'.cur, "job">>].refs = 0
             /\ pc'["S"] \notin {"publish", "settle", "blitting", "converted"} => job'[my'.cur] = "none"
  <2>1. UNCHANGED my.cur /\ my.cur # NoBuf /\ my.cur \in Bufs BY <1>2 DEF Types, MySet
  <2> QED BY <1>2, <2>1, FrameFacts DEF Unused, JobFrame
<1> QED BY <1>1, <1>2 DEF Unused, JobFrame

LEMMA UnusedStep == ASSUME Types, Types', Control, Control', Unused, RefsCounted, PendFree, Next PROVE Unused'
<1> USE FrameFacts DEF Types, ElSet, MySet, SnapSet, Threads, Goto, At, Submitting, Taking, rest, Unused, JobFrame
<1>1. ASSUME NEW t \in Threads, ReapSnapshot(t) PROVE Unused'
  <2>1. \A f \in el.quar : Placed(f) # 0 BY PlacedThere
  <2>2. \A f \in Frames : fr[f].refs = 0 => fr'[f].refs = 0
    <3>1. UNCHANGED fr \/ fr' = Ref(el.quar, 1) BY <1>1 DEF ReapSnapshot
    <3> QED BY SMTT(30), <2>1, <3>1, NoneMade
  <2>3. UNCHANGED <<fed, job, my>> /\ pc[t] = "reap" /\ \A u \in Threads : u # t => pc'[u] = pc[u]
    BY <1>1 DEF ReapSnapshot
  <2> QED BY <2>2, <2>3, UnusedKept
<1>2. ASSUME NEW t \in Threads, ReapPoll(t) PROVE Unused'
  <2>1. UNCHANGED <<fed, job, my, pc>> BY <1>2 DEF ReapPoll
  <2>2. CASE UNCHANGED fr BY <2>1, <2>2, UnusedKept
  <2>3. CASE \E h \in el.quar : fr' = Unref({h}, 1)
    <3>1. PICK h \in el.quar : fr' = Unref({h}, 1) BY <2>3
    <3>2. {h} \in SUBSET Frames /\ Placed(h) # 0 BY PlacedThere
    <3>3. \A f \in Frames : fr[f].refs = 0 => fr'[f].refs = 0 BY ZenonT(30), <3>1, <3>2, NoneMadeByOne
    <3> QED BY <2>1, <3>3, UnusedKept
  <2>4. PICK f \in snap[t].todo : (f \in el.quar /\ fr' = Unref({f}, 1)) \/ UNCHANGED fr
    BY ZenonT(30), <1>2 DEF ReapPoll
  <2> QED BY ZenonT(30), <2>2, <2>3, <2>4
<1>3. ASSUME NEW t \in Threads, ReapEnd(t) PROVE Unused'
  <2>1. \A f \in Frames : fr[f].refs = 0 => fr'[f].refs = 0
    <3>1. fr' = Unref(snap[t].held, 1) BY <1>3 DEF ReapEnd
    <3>2. snap[t].held \in SUBSET Frames OBVIOUS
    <3> QED BY <3>1, <3>2, NoneMade
  <2>2. UNCHANGED <<fed, job, my>> /\ pc[t] = "poll" /\ \A u \in Threads : u # t => pc'[u] = pc[u]
    BY <1>3 DEF ReapEnd
  <2> QED BY <2>1, <2>2, UnusedKept
<1>4. CASE Submit
  <2>1. UNCHANGED <<fed, job, fr>> /\ pc["S"] = "submit" /\ (my' = Idle \/ UNCHANGED my.cur)
    BY <1>4 DEF Submit, Return
  <2> QED BY <2>1, UnusedKept DEF Idle
<1>5. CASE Shift BY <1>5 DEF Shift
<1>6. CASE Prepare
  <2> QED BY <1>6, UnusedKept DEF Prepare, Return, Idle
<1>7. CASE Enter
  <2> QED BY SMTT(30), <1>7, UnusedKept DEF Enter, Return, Idle
<1>8. CASE Record
  <2>1. CASE el.flushing BY <1>8, <2>1, UnusedKept DEF Record, Return, Idle
  <2>2. CASE ~el.flushing
    <3>1. UNCHANGED <<fed, job, my.cur>> /\ pc["S"] = "record" /\ pc'["S"] = "native"
      BY <1>8, <2>2 DEF Record
    <3>2. my.cur \in Bufs /\ my.cur = fed BY <3>1 DEF Control, At, Submitting
    <3>3. \A f \in Frames : f # <<my.cur, "job">> => fr'[f] = fr[f] BY <1>8, <2>2 DEF Record
    <3>4. <<my.cur, "ready">> \in Frames /\ <<my.cur, "ready">> # <<my.cur, "job">> BY <3>2
    <3>5. fr'[<<my.cur, "ready">>].refs = 0 /\ job[my.cur] = "none" BY ZenonT(30), <3>1, <3>2, <3>3, <3>4
    <3>6. \A n \in Bufs : n > fed => n # my.cur /\ <<n, "job">> \in Frames /\ <<n, "ready">> \in Frames
      BY <3>2 DEF Bufs
    <3>7. \A n \in Bufs : n > fed => fr'[<<n, "job">>].refs = 0 /\ fr'[<<n, "ready">>].refs = 0
      BY <3>3, <3>6
    <3> QED BY <3>1, <3>5, <3>7
  <2> QED BY <2>1, <2>2
<1>9. CASE Native
  <2>1. UNCHANGED <<fed, fr, my.cur>> /\ pc["S"] = "native" /\ pc'["S"] = "publish"
        /\ \A n \in Bufs : n # my.cur => job'[n] = job[n]
    BY <1>9 DEF Native
  <2>2. my.cur \in Bufs /\ my.cur = fed BY <2>1 DEF Control, At, Submitting
  <2>3. \A n \in Bufs : n > fed => n # my.cur BY <2>2 DEF Bufs
  <2>4. \A n \in Bufs : n > fed => job'[n] = "none" BY ZenonT(90), <2>1, <2>3
  <2> QED BY <2>1, <2>4
<1>10. CASE Publish
  <2>1. \A f \in Frames : fr'[f].refs = fr[f].refs
    <3>1. fr \in [Frames -> FrSet] OBVIOUS
    <3> HIDE DEF JobFrame
    <3> QED BY <1>10, <3>1 DEF Publish, FrSet
  <2> QED BY <1>10, <2>1, PublishDoes, UnusedKept
<1>11. CASE Settle
  <2>1. pc["S"] = "settle" /\ fr' = Unref({JobFrame}, 1) BY <1>11 DEF Settle
  <2>2. PICK h \in Frames : h = JobFrame BY <2>1 DEF Control, At, Submitting
  <2>3. Used(h) BY <2>1, <2>2 DEF Used
  <2>4. fr' = Unref({h}, 1) BY <2>1, <2>2
  <2>5. \A f \in Frames : fr[f].refs = 0 => fr'[f].refs = 0 BY <2>3, <2>4, NoneMadeByOne
  <2>6. UNCHANGED <<fed, job>> /\ (my' = Idle \/ (UNCHANGED my /\ pc'["S"] = "converted"))
    BY <1>11 DEF Settle, Return
  <2> QED BY <2>5, <2>6, UnusedKept DEF Idle
<1>12. CASE Blit
  <2>1. CASE my' = Idle BY <1>12, <2>1, UnusedKept DEF Blit, Return, Idle
  <2>2. CASE my' # Idle
    <3>1. UNCHANGED <<fed, fr, my.cur>> /\ pc["S"] = "blit" /\ pc'["S"] = "blitting"
          /\ \A n \in Bufs : n # my.cur => job'[n] = job[n]
      BY <1>12, <2>2 DEF Blit, Return
    <3>2. my.cur \in Bufs /\ my.cur = fed BY <3>1 DEF Control, At, Submitting
    <3>3. \A n \in Bufs : n > fed => n # my.cur BY <3>2 DEF Bufs
    <3>4. \A n \in Bufs : n > fed => job'[n] = "none" BY ZenonT(90), <3>1, <3>3
    <3> QED BY <3>1, <3>4
  <2> QED BY <2>1, <2>2
<1>13. CASE BlitReturn
  <2> QED BY SMTT(30), <1>13, UnusedKept DEF BlitReturn, Return, Idle
<1>14. CASE Converted
  <2>1. UNCHANGED <<fed, job>> /\ pc["S"] = "converted" /\ my'.cur = NoBuf BY <1>14, ConvertedDoes
                                                                              DEF Idle
  <2>2. CASE UNCHANGED fr BY <2>1, <2>2, UnusedKept
  <2>3. CASE fr' = [fr EXCEPT ![<<my.cur, "ready">>] = [Blank EXCEPT !.refs = 1, !.out = TRUE]]
    <3>1. my.cur \in Bufs /\ my.cur = fed BY <2>1 DEF Control, At, Submitting
    <3>2. \A n \in Bufs : n > fed => n # my.cur /\ <<n, "job">> \in Frames /\ <<n, "ready">> \in Frames
      BY <3>1 DEF Bufs
    <3>3. \A f \in Frames : f # <<my.cur, "ready">> => fr'[f] = fr[f] BY <2>3
    <3>4. \A n \in Bufs : n > fed => fr'[<<n, "job">>].refs = 0 /\ fr'[<<n, "ready">>].refs = 0
      BY <3>2, <3>3
    <3> QED BY <2>1, <3>4
  <2> QED BY <1>14, <2>2, <2>3, ConvertedDoes
<1>15. CASE Generate
  <2> QED BY <1>15, UnusedKept DEF Generate, Return, Idle
<1>16. CASE Drain
  <2>1. UNCHANGED <<fed, job, fr>> /\ pc["S"] = "drain" /\ (UNCHANGED my \/ my' = Idle) BY <1>16, DrainDoes
  <2> QED BY <2>1, UnusedKept DEF Idle
<1>17. CASE Take
  <2>1. UNCHANGED <<fed, job>> /\ pc["S"] = "take" /\ (UNCHANGED my.cur \/ my' = Idle) BY <1>17
                                                                                          DEF
                                                                                              Take,
                                                                                              Return
  <2>2. CASE UNCHANGED fr BY <2>1, <2>2, UnusedKept DEF Idle
  <2>3. CASE el.rdy \in Frames /\ fr' = Ref({el.rdy}, 1)
    <3>1. PICK h \in Frames : h = el.rdy BY <2>3
    <3>2. {h} \in SUBSET Frames /\ Placed(h) # 0 BY <3>1, PlacedThere
    <3>3. \A f \in Frames : fr[f].refs = 0 => fr'[f].refs = 0 BY <2>3, <3>1, <3>2, NoneMadeByOne
    <3> QED BY <2>1, <3>3, UnusedKept DEF Idle
  <2> QED BY <1>17, <2>2, <2>3 DEF Take
<1>18. CASE Wait BY <1>18 DEF Wait
<1>19. CASE Taken
  <2>1. my.f \in Frames BY <1>19 DEF Taken, Control
  <2>2. \A f \in Frames : fr'[f].refs = fr[f].refs
    <3>1. fr \in [Frames -> FrSet] OBVIOUS
    <3>2. fr' = fr \/ fr' = [fr EXCEPT ![my.f].out = FALSE] BY <1>19, <2>1, TakenDoes
    <3>3. [fr[my.f] EXCEPT !.out = FALSE].refs = fr[my.f].refs BY <2>1, <3>1 DEF FrSet
    <3>4. CASE fr' = fr BY <3>4
    <3>5. CASE fr' = [fr EXCEPT ![my.f].out = FALSE] BY <2>1, <3>1, <3>3, <3>5
    <3> QED BY <3>2, <3>4, <3>5
  <2>3. UNCHANGED <<fed, job, my.cur>> /\ pc["S"] = "taken" BY <1>19, <2>1, TakenDoes
  <2> QED BY <2>2, <2>3, UnusedKept
<1>20. CASE ReleaseFrame
  <2>1. PICK h \in Frames : h = my.f BY <1>20 DEF ReleaseFrame, Control
  <2>2. fr' = Unref({h}, 1) \/ fr' = Unref({h}, 2) BY <1>20, <2>1 DEF ReleaseFrame
  <2>3. \A f \in Frames : fr[f].refs = 0 => fr'[f].refs = 0 BY <2>1, <2>2, NoneMadeByOne
  <2>4. UNCHANGED <<fed, job, my.cur>> /\ pc["S"] = "release" BY <1>20 DEF ReleaseFrame
  <2> QED BY <2>3, <2>4, UnusedKept
<1>21. CASE Over BY <1>21 DEF Over, Return, Idle
<1>22. CASE Push
  <2>1. UNCHANGED <<fed, job, fr>> /\ pc["S"] = "push" /\ (UNCHANGED my.cur \/ my' = Idle) BY <1>22, PushDoes
  <2> QED BY <2>1, UnusedKept DEF Idle
<1>23. CASE SetAsyncDepth BY <1>23 DEF SetAsyncDepth
<1>24. CASE FlushStart BY <1>24, QuarantinedDoes DEF FlushStart
<1>25. CASE FlushStop BY <1>25, QuarantinedDoes DEF FlushStop, Reap
<1>26. CASE FlushStopped BY <1>26 DEF FlushStopped
<1>27. CASE StateDrain BY <1>27, QuarantinedDoes DEF StateDrain, Reap
<1>28. CASE StopBegin BY <1>28, QuarantinedDoes DEF StopBegin, Reap
<1>29. CASE StopEmpty BY <1>29 DEF StopEmpty, Stopped
<1>30. CASE StopAgain BY <1>30 DEF StopAgain, Reap
<1>31. CASE StopEscape BY <1>31 DEF StopEscape, Stopped
<1>32. CASE Start BY <1>32 DEF Start
<1>33. CASE Finalize BY <1>33 DEF Finalize
<1>34. CASE ReaperFrees
  <2>1. PICK h \in escaped : fr' = Unref({h}, 1) BY <1>34 DEF ReaperFrees
  <2>2. {h} \in SUBSET Frames /\ Placed(h) # 0 BY PlacedThere
  <2>3. \A f \in Frames : fr[f].refs = 0 => fr'[f].refs = 0 BY <2>1, <2>2, NoneMadeByOne
  <2> QED BY <1>34, <2>3, UnusedKept DEF ReaperFrees
<1>35. CASE JobEnds BY <1>35 DEF JobEnds
<1>36. CASE Chain
  <2>1. /\ UNCHANGED <<fr, job>> /\ fed' = fed + 1 /\ my'.cur = fed + 1
        /\ pc'["S"] = "reap"
    BY <1>36 DEF Chain, Reap, Idle
  <2>2. fed \in Nat /\ fed + 1 \in Bufs /\ (fed + 1) > fed BY <1>36, AsyncAssumption DEF Chain, Bufs
  <2>3. \A n \in Bufs : n > fed + 1 => n > fed BY <2>2 DEF Bufs
  <2> QED BY <2>1, <2>2, <2>3
<1>37. CASE SerializedEvent BY <1>37 DEF SerializedEvent, Idle, StreamLockTaken
<1> QED BY <1>1, <1>2, <1>3, <1>4, <1>5, <1>6, <1>7, <1>8, <1>9, <1>10, <1>11, <1>12, <1>13, <1>14,
           <1>15, <1>16, <1>17, <1>18, <1>19, <1>20, <1>21, <1>22, <1>23, <1>24, <1>25, <1>26,
           <1>27, <1>28, <1>29, <1>30, <1>31, <1>32, <1>33, <1>34, <1>35, <1>36, <1>37
       DEF Next, Stream, StopSteps, ReapStep, Threads

-----------------------------------------------------------------------------
(* Jobs and their frames, step by step *)

\* The steps that leave every frame in one place or in none, as it was.
Settled ==
  \/ \E t \in Threads : ReapSnapshot(t) \/ ReapEnd(t)
  \/ Submit \/ Shift \/ Prepare \/ Enter \/ Native \/ Publish \/ Settle \/ Blit \/ BlitReturn
  \/ Generate \/ Drain \/ Take \/ Wait \/ ReleaseFrame \/ Over \/ Push \/ SetAsyncDepth
  \/ FlushStart \/ FlushStop \/ FlushStopped \/ StateDrain \/ StopBegin \/ StopEmpty \/ StopAgain
  \/ StopEscape \/ Start \/ Finalize \/ JobEnds \/ Chain \/ SerializedEvent

LEMMA StillPlaced ==
  ASSUME Types, Control, Apart, RdyHeld, Settled PROVE \A f \in Frames : Placed(f)' = Placed(f)
<1> USE FrameFacts DEF Types, ElSet, MySet, rest
<1>1. CASE UNCHANGED Places BY <1>1, PlacedSame
<1>2. ASSUME NEW t \in Threads, ReapSnapshot(t) \/ ReapEnd(t) PROVE UNCHANGED Places
  BY <1>2 DEF ReapSnapshot, ReapEnd, Places
<1>3. CASE Submit \/ Prepare \/ Enter \/ Native \/ Settle \/ Blit \/ BlitReturn \/ Generate
  BY <1>1, <1>3
     DEF Submit, Prepare, Enter, Native, Settle, Blit, BlitReturn, Generate, Return, Places
<1>4. CASE Take \/ Wait \/ ReleaseFrame \/ Over \/ Push \/ SetAsyncDepth \/ FlushStopped
  BY <1>1, <1>4
     DEF Take, Wait, ReleaseFrame, Over, Push, SetAsyncDepth, FlushStopped, Return, Places
<1>5. CASE StopEmpty \/ StopAgain \/ Start \/ Finalize \/ JobEnds \/ Chain \/ SerializedEvent
  BY ZenonT(30), <1>1, <1>5
     DEF StopEmpty, StopAgain, Start, Finalize, JobEnds, Chain, SerializedEvent, Stopped, Places
<1>6. CASE FlushStart \/ FlushStop \/ StateDrain \/ StopBegin
  <2>1. el' = Quarantined \/ el' = [Quarantined EXCEPT !.flushing = TRUE, !.gen = @ + 1]
    BY <1>6 DEF FlushStart, FlushStop, StateDrain, StopBegin
  <2>2. UNCHANGED escaped BY <1>6 DEF FlushStart, FlushStop, StateDrain, StopBegin
  <2> QED BY <2>1, <2>2, QuarantinedDoes, PlacedAway
<1>7. CASE Shift
  <2>1. el.rdy = NoFrame /\ el'.rdy = el.pend /\ el'.pend = NoFrame /\ UNCHANGED <<el.quar, escaped>>
    BY <1>7 DEF Shift, RdyHeld, At, Submitting
  <2> QED BY <2>1, PlacedShifted
<1>8. CASE Drain
  <2>1. CASE el.rdy = NoFrame BY <1>8, <2>1, DrainDoes, PlacedShifted
  <2>2. CASE el.rdy # NoFrame BY <1>8, <2>2, DrainDoes, PlacedSame DEF Places
  <2> QED BY <2>1, <2>2
<1>9. CASE StopEscape
  <2>1. escaped' = escaped \cup el.quar /\ el'.quar = {} /\ UNCHANGED <<el.pend, el.rdy>>
    BY <1>9 DEF StopEscape
  <2>2. \A f \in Frames : One(f \in el'.quar) + One(f \in escaped') = One(f \in el.quar) + One(f \in escaped)
    BY <2>1, Alone DEF One
  <2> QED BY <2>1, <2>2 DEF Placed, One
<1>10. CASE Publish
  <2>1. CASE el.pend = JobFrame /\ my.res # "ok"
    <3>1. /\ el'.pend = NoFrame /\ el'.quar = el.quar \cup {JobFrame} /\ UNCHANGED <<el.rdy, escaped>>
          /\ JobFrame \in Frames
      BY <1>10, <2>1, PublishDoes DEF Control, At, Submitting, JobFrame
    <3>2. el.rdy # JobFrame /\ JobFrame \notin el.quar BY <2>1, <3>1, Alone
    <3>3. \A f \in Frames : One(el'.pend = f) + One(f \in el'.quar) = One(el.pend = f) + One(f \in el.quar)
      BY <2>1, <3>1, <3>2 DEF One
    <3> QED BY <3>1, <3>3 DEF Placed, One
  <2>2. CASE ~(el.pend = JobFrame /\ my.res # "ok") BY <1>10, <2>2, PublishDoes, PlacedSame
                                                       DEF Places
  <2> QED BY <2>1, <2>2
<1> QED BY <1>1, <1>2, <1>3, <1>4, <1>5, <1>6, <1>7, <1>8, <1>9, <1>10 DEF Settled

\* Counting a frame changes neither whether it is submitted nor its fence.
MarksKept == \A f \in Frames : fr'[f].submitted = fr[f].submitted /\ fr'[f].fence = fr[f].fence

LEMMA CountsOnly ==
  ASSUME Types, NEW fs, NEW n, UNCHANGED fr \/ fr' = Ref(fs, n) \/ fr' = Unref(fs, n)
  PROVE  MarksKept
<1>1. \A f \in Frames : fr[f] \in FrSet BY DEF Types
<1>2. \A f \in Frames : /\ [fr[f] EXCEPT !.refs = @ + n].submitted = fr[f].submitted
                        /\ [fr[f] EXCEPT !.refs = @ + n].fence = fr[f].fence
                        /\ [fr[f] EXCEPT !.refs = @ - n].submitted = fr[f].submitted
                        /\ [fr[f] EXCEPT !.refs = @ - n].fence = fr[f].fence
  BY <1>1 DEF FrSet
<1> QED BY <1>2 DEF Ref, Unref, MarksKept

\* Where the streaming thread goes says nothing new of a job.
Quietly ==
  \/ UNCHANGED <<pc["S"], my>>
  \/ pc["S"] \notin {"native", "publish", "blitting"} /\ pc'["S"] \notin {"native", "publish", "taken"}

LEMMA BusyKept ==
  ASSUME BusyInv, Types, Types', Control, UNCHANGED job, Quietly, MarksKept,
         \A f \in Frames : Placed(f)' = Placed(f)
  PROVE  BusyInv'
<1>1. Submitted'
  <2>1. CASE UNCHANGED <<pc["S"], my>>
    <3>1. JobFrame' = JobFrame BY <2>1 DEF JobFrame
    <3>2. pc["S"] \in {"native", "publish"} => JobFrame \in Frames /\ Placed(JobFrame) = 1 /\ ~fr[JobFrame].submitted
      BY FrameFacts DEF BusyInv, Submitted, Control, At, Submitting, JobFrame, Types, MySet
    <3>3. pc["S"] \in {"native", "publish"} => Placed(JobFrame)' = 1 /\ ~fr'[JobFrame].submitted
      <4> SUFFICES ASSUME pc["S"] \in {"native", "publish"} PROVE Placed(JobFrame)' = 1 /\ ~fr'[JobFrame].submitted
        OBVIOUS
      <4>1. PICK h \in Frames : h = JobFrame BY <3>2
      <4>2. Placed(h)' = 1 /\ ~fr'[h].submitted BY <3>2, <4>1 DEF MarksKept
      <4> QED BY <3>1, <4>1, <4>2 DEF Placed
    <3> QED BY <2>1, <3>1, <3>3 DEF BusyInv, Submitted, MarksKept
  <2>2. CASE pc["S"] \notin {"native", "publish", "blitting"} /\ pc'["S"] \notin {"native", "publish", "taken"}
    BY <2>2 DEF BusyInv, Submitted, MarksKept
  <2> QED BY <2>1, <2>2 DEF Quietly
<1>2. FencesTrue' BY FrameFacts DEF BusyInv, FencesTrue, MarksKept, Quietly
<1>3. StatusTrue' BY DEF BusyInv, StatusTrue, Quietly
<1>4. \A n \in Bufs : Placed(<<n, "job">>)' = Placed(<<n, "job">>) BY FrameFacts
<1>5. BusyOwned' BY <1>4 DEF BusyInv, BusyOwned, Quietly, Placed
<1> QED BY <1>1, <1>2, <1>3, <1>5 DEF BusyInv

\* What runs after a step either ran before it, in a place that is still its
\* own, or has just begun.
LEMMA OwnedKept ==
  ASSUME BusyOwned, NEW h, \A f \in Frames : f # h => Placed(f)' = Placed(f),
         \A n \in Bufs : job'[n] = "busy" =>
           \/ my'.cur = n /\ pc'["S"] = "blitting"
           \/ h = <<n, "job">> /\ Placed(h)' = 1
           \/ job[n] = "busy" /\ h # <<n, "job">> /\ ~(my.cur = n /\ pc["S"] = "blitting")
  PROVE  BusyOwned'
<1> SUFFICES ASSUME NEW n \in Bufs, job'[n] = "busy", ~(my'.cur = n /\ pc'["S"] = "blitting")
             PROVE  Placed(<<n, "job">>)' = 1
  BY DEF BusyOwned, Placed
<1>1. PICK f \in Frames : f = <<n, "job">> BY FrameFacts
<1>2. CASE h = f /\ Placed(h)' = 1 BY <1>1, <1>2 DEF Placed
<1>3. CASE job[n] = "busy" /\ h # f /\ ~(my.cur = n /\ pc["S"] = "blitting")
  <2>1. Placed(f) = 1 BY <1>1, <1>3 DEF BusyOwned
  <2> QED BY <1>1, <1>3, <2>1 DEF Placed
<1> QED BY <1>1, <1>2, <1>3

LEMMA BusyStep ==
  ASSUME Types, Types', Control, Unused, Apart, RdyHeld, PendFree, RefsCounted, BusyInv, Next
  PROVE  BusyInv'
<1> USE FrameFacts DEF Threads, Goto, rest
<1>0. /\ fr \in [Frames -> FrSet] /\ my \in MySet /\ job \in [Bufs -> {"none", "busy", "done", "error"}]
      /\ fr' \in [Frames -> FrSet]
  BY DEF Types
<1>1. ASSUME NEW t \in Threads, ReapSnapshot(t) \/ ReapEnd(t) PROVE BusyInv'
  <2>1. MarksKept
    <3>1. UNCHANGED fr \/ fr' = Ref(el.quar, 1) \/ fr' = Unref(snap[t].held, 1)
      BY <1>1 DEF ReapSnapshot, ReapEnd
    <3>2. UNCHANGED fr => MarksKept BY DEF MarksKept
    <3> QED BY <3>1, <3>2, CountsOnly
  <2>2. UNCHANGED <<job, my>> /\ Quietly
    <3>1. pc[t] \in {"reap", "poll"} /\ UNCHANGED <<job, my>> /\ \A u \in Threads : u # t => pc'[u] = pc[u]
      BY <1>1 DEF ReapSnapshot, ReapEnd, Types
    <3>2. pc'[t] \notin {"native", "publish", "taken"}
      BY <1>1 DEF ReapSnapshot, ReapEnd, Control, Types
    <3> QED BY <3>1, <3>2 DEF Quietly
  <2> QED BY <1>1, <2>1, <2>2, StillPlaced, BusyKept DEF Settled
<1>2. ASSUME Settled, UNCHANGED fr, UNCHANGED job, Quietly PROVE BusyInv'
  BY <1>2, StillPlaced, BusyKept DEF MarksKept
<1>3. CASE Submit \/ Shift \/ Prepare \/ Enter \/ Generate \/ Over \/ SerializedEvent
  BY <1>3, <1>2
     DEF Submit, Shift, Prepare, Enter, Generate, Over, SerializedEvent, Return, Settled, Quietly,
         Types
<1>4. CASE FlushStart \/ FlushStop \/ FlushStopped \/ StateDrain \/ StopBegin \/ SetAsyncDepth
  BY <1>4, <1>2
     DEF FlushStart, FlushStop, FlushStopped, StateDrain, StopBegin, SetAsyncDepth, Reap, Settled,
         Quietly, Types
<1>5. CASE StopEmpty \/ StopAgain \/ StopEscape \/ Start \/ Finalize
  BY <1>5, <1>2
     DEF StopEmpty, StopAgain, StopEscape, Start, Finalize, Stopped, Reap, Settled, Quietly, Types
<1>6. CASE Drain
  <2>1. UNCHANGED <<fr, job>> /\ pc["S"] = "drain" BY <1>6, DrainDoes
  <2>2. pc'["S"] \in {"take", "idle", "reap"} BY <1>6, DrainDoes DEF Reap, Types
  <2> QED BY <1>6, <2>1, <2>2, <1>2 DEF Settled, Quietly
<1>7. CASE Push
  <2>1. UNCHANGED <<fr, job>> /\ pc["S"] = "push" BY <1>7, PushDoes
  <2>2. pc'["S"] \in {"drain", "idle", "reap"} BY <1>7, PushDoes DEF Reap, Types
  <2> QED BY <1>7, <2>1, <2>2, <1>2 DEF Settled, Quietly
<1>8. CASE Chain BY <1>8, <1>2 DEF Chain, Reap, Settled, Quietly, Types
<1>9. CASE Take
  <2>1. UNCHANGED fr \/ fr' = Ref({el.rdy}, 1) BY <1>9 DEF Take
  <2>2. UNCHANGED fr => MarksKept BY DEF MarksKept
  <2>3. MarksKept BY <2>1, <2>2, CountsOnly
  <2>4. UNCHANGED job /\ Quietly BY <1>9 DEF Take, Return, Quietly, Types
  <2> QED BY <1>9, <2>3, <2>4, StillPlaced, BusyKept DEF Settled
<1>10. CASE ReleaseFrame
  <2>1. MarksKept BY <1>10, CountsOnly DEF ReleaseFrame
  <2>2. UNCHANGED job /\ Quietly BY <1>10 DEF ReleaseFrame, Reap, Quietly, Types
  <2> QED BY <1>10, <2>1, <2>2, StillPlaced, BusyKept DEF Settled
<1>11. CASE Settle
  <2>1. MarksKept BY <1>11, CountsOnly DEF Settle
  <2>2. UNCHANGED job /\ Quietly BY <1>11 DEF Settle, Return, Quietly, Types
  <2> QED BY <1>11, <2>1, <2>2, StillPlaced, BusyKept DEF Settled
<1>12. CASE BlitReturn
  <2>1. UNCHANGED <<fr, job>> /\ pc["S"] = "blitting" /\ job[my.cur] # "busy" /\ pc'["S"] \in {"converted", "idle"}
    BY <1>12 DEF BlitReturn, Return, Types
  <2>2. \A f \in Frames : Placed(f)' = Placed(f) BY <1>12, StillPlaced DEF Settled
  <2>3. Submitted' BY <2>1 DEF BusyInv, Submitted
  <2>4. FencesTrue' BY <2>1 DEF BusyInv, FencesTrue
  <2>5. StatusTrue' BY <2>1 DEF StatusTrue
  <2>6. BusyOwned' BY <2>1, <2>2, OwnedKept DEF BusyInv
  <2> QED BY <2>3, <2>4, <2>5, <2>6 DEF BusyInv
<1>13. CASE Blit
  <2>1. CASE UNCHANGED job
    <3>1. UNCHANGED fr /\ Quietly BY <1>13, <2>1 DEF Blit, Return, Quietly, Types
    <3> QED BY <1>13, <2>1, <3>1, <1>2 DEF Settled
  <2>2. CASE job' = [job EXCEPT ![my.cur] = "busy"] /\ pc' = [pc EXCEPT !["S"] = "blitting"] /\ UNCHANGED <<my, fr>>
    <3>1. pc["S"] = "blit" /\ pc'["S"] = "blitting" BY <1>13, <2>2 DEF Blit, Types
    <3>2. \A f \in Frames : Placed(f)' = Placed(f) BY <1>13, StillPlaced DEF Settled
    <3>3. Submitted' BY <2>2, <3>1 DEF BusyInv, Submitted
    <3>4. \A n \in Bufs : n # my.cur => job'[n] = job[n] BY <2>2, <1>0
    <3>5. FencesTrue' BY <2>2, <3>1, <3>4 DEF BusyInv, FencesTrue
    <3>6. StatusTrue' BY <3>1 DEF StatusTrue
    <3>7. BusyOwned' BY <2>2, <3>1, <3>2, <3>4, OwnedKept DEF BusyInv
    <3> QED BY <3>3, <3>5, <3>6, <3>7 DEF BusyInv
  <2> QED BY <1>13, <2>1, <2>2 DEF Blit
<1>14. CASE JobEnds
  <2>1. UNCHANGED <<fr, pc, my>> BY <1>14 DEF JobEnds
  <2>2. \A f \in Frames : Placed(f)' = Placed(f) BY <1>14, StillPlaced DEF Settled
  <2>3. \A n \in Bufs : (job'[n] = "busy" => job[n] = "busy") /\ (job[n] = "none" => job'[n] = "none")
    BY <1>14, <1>0 DEF JobEnds
  <2>4. Submitted'
    <3>1. pc["S"] = "publish" => my.cur \in Bufs BY <1>0 DEF Control, At, Submitting, MySet
    <3>2. pc["S"] \in {"native", "publish"} => Placed(JobFrame)' = 1
      <4> SUFFICES ASSUME pc["S"] \in {"native", "publish"} PROVE Placed(JobFrame)' = 1 OBVIOUS
      <4>1. PICK h \in Frames : h = JobFrame BY <1>0 DEF Control, At, Submitting, MySet, JobFrame
      <4>2. Placed(h)' = 1 BY <2>2, <4>1 DEF BusyInv, Submitted
      <4> QED BY <2>1, <4>1, <4>2 DEF Placed, JobFrame
    <3> QED BY <2>1, <2>3, <3>1, <3>2 DEF BusyInv, Submitted, JobFrame
  <2>5. FencesTrue' BY <2>1, <2>3 DEF BusyInv, FencesTrue
  <2>6. StatusTrue' BY <2>1, <2>3, <1>0 DEF BusyInv, StatusTrue, Control, MySet
  <2>7. BusyOwned' BY <2>1, <2>2, <2>3, OwnedKept DEF BusyInv
  <2> QED BY <2>4, <2>5, <2>6, <2>7 DEF BusyInv
<1>15. CASE Native
  <2>0. PICK h \in Frames : h = JobFrame
    BY <1>15, <1>0 DEF Native, Control, At, Submitting, MySet, JobFrame
  <2>1. /\ pc["S"] = "native" /\ pc'["S"] = "publish" /\ UNCHANGED <<fr, my.cur>>
        /\ \A n \in Bufs : n # my.cur => job'[n] = job[n]
        /\ my'.res = "fail" => UNCHANGED job
    BY <1>15, <1>0 DEF Native, Types, MySet
  <2>2. \A f \in Frames : Placed(f)' = Placed(f) BY <1>15, StillPlaced DEF Settled
  <2>3. JobFrame' = JobFrame /\ my.cur \in Bufs /\ job[my.cur] = "none" /\ h = <<my.cur, "job">>
    BY <2>0, <2>1, <1>0 DEF JobFrame, Unused, Control, At, Submitting, MySet
  <2>4. Placed(h)' = 1 /\ ~fr[h].submitted BY <2>0, <2>1, <2>2 DEF BusyInv, Submitted
  <2>5. Submitted' BY <2>0, <2>1, <2>3, <2>4 DEF BusyInv, Submitted, Placed
  <2>6. FencesTrue' BY <2>1, <2>3, <2>4 DEF BusyInv, FencesTrue
  <2>7. StatusTrue' BY <2>1 DEF StatusTrue
  <2>8. BusyOwned' BY <2>1, <2>2, <2>3, <2>4, OwnedKept DEF BusyInv
  <2> QED BY <2>5, <2>6, <2>7, <2>8 DEF BusyInv
<1>16. CASE Publish
  <2>0. PICK h \in Frames : h = JobFrame
    BY <1>16, <1>0 DEF Publish, Control, At, Submitting, MySet, JobFrame
  <2>1. pc["S"] = "publish" /\ pc'["S"] = "settle" /\ UNCHANGED <<job, my.cur>>
    BY <1>16, PublishDoes DEF Types
  <2>2. /\ \A f \in Frames : f # h => fr'[f] = fr[f]
        /\ fr'[h].submitted /\ fr'[h].fence = FenceOf(my.res)
    BY <1>16, <2>0, <1>0 DEF Publish, FrSet
  <2>3. \A f \in Frames : Placed(f)' = Placed(f) BY <1>16, StillPlaced DEF Settled
  <2>4. my.cur \in Bufs /\ h = <<my.cur, "job">> BY <2>0, <2>1, <1>0
                                                    DEF JobFrame, Control, At, Submitting, MySet
  <2>5. fr'[h].fence = "none" => job[my.cur] = "none"
    BY <2>1, <2>2 DEF FenceOf, BusyInv, Submitted
  <2>6. Submitted' BY <2>0, <2>1, <2>2 DEF BusyInv, Submitted
  <2>7. FencesTrue' BY ZenonT(90), <2>1, <2>2, <2>4, <2>5 DEF BusyInv, FencesTrue
  <2>8. StatusTrue' BY <2>1 DEF StatusTrue
  <2>9. BusyOwned' BY <2>1, <2>3, OwnedKept DEF BusyInv
  <2> QED BY <2>6, <2>7, <2>8, <2>9 DEF BusyInv
<1>17. CASE Record
  <2>1. CASE el.flushing
    <3>1. /\ UNCHANGED <<fr, job, escaped>> /\ pc["S"] = "record" /\ pc'["S"] = "idle"
          /\ UNCHANGED <<el.pend, el.rdy, el.quar>>
      BY <1>17, <2>1 DEF Record, Return, Types, ElSet
    <3>2. \A f \in Frames : Placed(f)' = Placed(f) BY <3>1, PlacedSame DEF Places
    <3> QED BY <3>1, <3>2, BusyKept DEF MarksKept, Quietly
  <2>2. CASE ~el.flushing
    <3>0. PICK h \in Frames : h = JobFrame
      BY <1>17, <1>0 DEF Record, Control, At, Submitting, MySet, JobFrame
    <3>1. /\ el'.pend = h /\ UNCHANGED <<el.rdy, el.quar, escaped, job, my.cur>> /\ pc["S"] = "record"
          /\ pc'["S"] = "native"
      BY <1>17, <2>2, <3>0 DEF Record, Types, ElSet, MySet
    <3>2. my.cur \in Bufs /\ h = <<my.cur, "job">> /\ el.pend = NoFrame
      BY <3>0, <3>1, <1>0 DEF JobFrame, Control, At, Submitting, MySet, PendFree
    <3>3. fr[h].refs = 0 /\ job[my.cur] = "none" BY <3>0, <3>1, <3>2 DEF Unused
    <3>4. ~fr'[h].submitted /\ \A g \in Frames : g # h => fr'[g] = fr[g]
      BY <1>17, <2>2, <3>0, <1>0 DEF Record
    <3>5. Placed(h) = 0 BY <3>3, Nowhere
    <3>6. el.rdy # h /\ h \notin el.quar /\ h \notin escaped BY <3>5 DEF Placed, One
    <3>7. Placed(h)' = 1 BY <3>1, <3>6 DEF Placed, One
    <3>8. \A g \in Frames : g # h => Placed(g)' = Placed(g) BY <3>1, <3>2 DEF Placed, One
    <3>9. JobFrame' = h BY <3>0, <3>1 DEF JobFrame
    <3>10. Submitted'
      <4>1. Placed(JobFrame)' = 1 BY <3>7, <3>9 DEF Placed
      <4> QED BY <3>1, <3>4, <3>9, <4>1 DEF BusyInv, Submitted
    <3>11. FencesTrue'
      <4>1. \A n \in Bufs : n # my.cur => fr'[<<n, "job">>] = fr[<<n, "job">>] BY <3>2, <3>4
      <4> QED BY <3>1, <3>2, <3>3, <4>1 DEF BusyInv, FencesTrue
    <3>12. StatusTrue' BY <3>1 DEF StatusTrue
    <3>13. BusyOwned'
      <4>1. \A n \in Bufs : job[n] = "busy" => <<n, "job">> # h BY <3>2, <3>3
      <4> QED BY <3>1, <3>8, <4>1, OwnedKept DEF BusyInv
    <3> QED BY <3>10, <3>11, <3>12, <3>13 DEF BusyInv
  <2> QED BY <2>1, <2>2
<1>18. CASE Converted
  <2>1. /\ UNCHANGED <<job, el.rdy, el.quar, escaped>> /\ pc["S"] = "converted" /\ pc'["S"] \in {"reap", "push"}
        /\ my.cur \in Bufs
    BY <1>18, <1>0, ConvertedDoes DEF Reap, Types, Control, At, Submitting, MySet
  <2>2. CASE UNCHANGED <<el, fr>>
    <3>1. \A f \in Frames : Placed(f)' = Placed(f) BY <2>1, <2>2, PlacedSame DEF Places
    <3> QED BY <2>1, <2>2, <3>1, BusyKept DEF MarksKept, Quietly
  <2>3. CASE /\ el.pend = NoFrame /\ el'.pend = <<my.cur, "ready">>
             /\ fr' = [fr EXCEPT ![<<my.cur, "ready">>] = [Blank EXCEPT !.refs = 1, !.out = TRUE]]
    <3>1. \A f \in Frames : f # <<my.cur, "ready">> => fr'[f] = fr[f] BY <2>3, <1>0
    <3>2. fr'[<<my.cur, "ready">>].submitted
      <4>1. [Blank EXCEPT !.refs = 1, !.out = TRUE].submitted BY DEF Blank
      <4>2. <<my.cur, "ready">> \in Frames BY <2>1
      <4> QED BY <2>3, <1>0, <4>1, <4>2
    <3>3. Submitted' BY <2>1, <3>1, <3>2 DEF BusyInv, Submitted
    <3>4. \A n \in Bufs : <<n, "job">> \in Frames /\ <<n, "job">> # <<my.cur, "ready">> OBVIOUS
    <3>5. FencesTrue' BY <2>1, <3>1, <3>4 DEF BusyInv, FencesTrue
    <3>6. StatusTrue' BY <2>1 DEF StatusTrue
    <3>7. \A n \in Bufs : Placed(<<n, "job">>)' = Placed(<<n, "job">>)
      BY <2>1, <2>3, <3>4 DEF Placed, One
    <3>8. BusyOwned' BY <2>1, <3>7 DEF BusyInv, BusyOwned, Placed
    <3> QED BY <3>3, <3>5, <3>6, <3>8 DEF BusyInv
  <2> QED BY <1>18, <2>2, <2>3, ConvertedDoes
<1>19. CASE Wait
  <2>1. /\ UNCHANGED <<fr, job, my.cur, my.f>> /\ pc["S"] = "wait" /\ pc'["S"] = "taken"
        /\ my'.status = "pending" \/ my'.status = FenceStatus(my.f)
    BY <1>19, <1>0 DEF Wait, Types, MySet, FenceStatus
  <2>2. \A f \in Frames : Placed(f)' = Placed(f) BY <1>19, StillPlaced DEF Settled
  <2>3. Submitted' BY <2>1 DEF BusyInv, Submitted
  <2>4. FencesTrue' BY <2>1 DEF BusyInv, FencesTrue
  <2>5. StatusTrue'
    <3>1. ASSUME my'.status = FenceStatus(my.f), my'.status # "pending", my.f[2] = "job" PROVE job[my.f[1]] # "busy"
      <4>1. my.f \in Frames BY <2>1, <1>0 DEF Control, MySet
      <4>2. my.f[1] \in Bufs /\ my.f = <<my.f[1], "job">> BY <3>1, <4>1
      <4>3. fr[my.f].submitted BY <2>1, <4>1 DEF BusyInv, Submitted
      <4>4. fr[my.f].fence \in {"none", "fd", "missing"} BY <4>1, <1>0 DEF FrSet
      <4> QED BY <2>1, <3>1, <4>2, <4>3, <4>4 DEF FenceStatus, BusyInv, FencesTrue
    <3> QED BY <2>1, <3>1 DEF StatusTrue
  <2>6. BusyOwned' BY <2>1, <2>2, OwnedKept DEF BusyInv
  <2> QED BY <2>3, <2>4, <2>5, <2>6 DEF BusyInv
<1>20. CASE Taken
  <2>0. PICK h \in Frames : h = my.f BY <1>20, <1>0 DEF Taken, Control, MySet
  <2>1. pc["S"] = "taken" /\ pc'["S"] = "release" /\ UNCHANGED <<job, escaped, el.pend, my.cur>>
    BY <1>20, <2>0, TakenDoes DEF Types
  <2>2. MarksKept
    <3>1. fr' = fr \/ fr' = [fr EXCEPT ![h].out = FALSE] BY <1>20, <2>0, TakenDoes
    <3>2. [fr[h] EXCEPT !.out = FALSE].submitted = fr[h].submitted /\ [fr[h] EXCEPT !.out = FALSE].fence = fr[h].fence
      BY <1>0 DEF FrSet
    <3> QED BY <3>1, <3>2, <1>0 DEF MarksKept
  <2>3. CASE \A f \in Frames : Placed(f)' = Placed(f)
    BY <2>1, <2>2, <2>3, BusyKept DEF Quietly
  <2>4. CASE el.rdy = h /\ el'.rdy = NoFrame /\ el'.quar = el.quar \cup {h}
    <3>1. h \notin el.quar BY <2>4, Alone
    <3>2. \A f \in Frames : One(el'.rdy = f) + One(f \in el'.quar) = One(el.rdy = f) + One(f \in el.quar)
      BY <2>4, <3>1 DEF One
    <3> QED BY <2>1, <2>3, <3>2 DEF Placed, One
  <2>5. CASE my.status \in {"complete", "failed"} /\ el.rdy = h /\ el'.rdy = NoFrame /\ UNCHANGED el.quar
    <3>1. h[2] = "job" => job[h[1]] # "busy" BY <2>0, <2>1, <2>5 DEF BusyInv, StatusTrue
    <3>2. \A g \in Frames : g # h => Placed(g)' = Placed(g) BY <2>1, <2>5 DEF Placed, One
    <3>3. \A n \in Bufs : job[n] = "busy" => <<n, "job">> # h BY <3>1
    <3>4. BusyOwned' BY <2>1, <3>2, <3>3, OwnedKept DEF BusyInv
    <3>5. Submitted' BY <2>1, <2>2 DEF BusyInv, Submitted, MarksKept
    <3>6. FencesTrue' BY <2>1, <2>2 DEF BusyInv, FencesTrue, MarksKept
    <3>7. StatusTrue' BY <2>1 DEF StatusTrue
    <3> QED BY <3>4, <3>5, <3>6, <3>7 DEF BusyInv
  <2>6. CASE UNCHANGED el BY <2>1, <2>3, <2>6, PlacedSame DEF Places
  <2> QED BY <1>20, <2>0, <2>4, <2>5, <2>6, TakenDoes
<1>21. ASSUME NEW h \in Frames, Terminal(h), MarksKept, UNCHANGED <<job, pc, my>>,
              \A g \in Frames : g # h => Placed(g)' = Placed(g)
       PROVE  BusyInv'
  <2>1. fr[h].submitted /\ FenceStatus(h) # "pending" BY <1>21 DEF Terminal
  <2>2. ASSUME NEW n \in Bufs, job[n] = "busy", h = <<n, "job">> PROVE my.cur = n /\ pc["S"] = "blitting"
    <3>1. fr[h].fence \in {"none", "fd", "missing"} BY <1>0 DEF FrSet
    <3> QED BY <2>1, <2>2, <3>1 DEF FenceStatus, BusyInv, FencesTrue
  <2>3. BusyOwned' BY <1>21, <2>2, OwnedKept DEF BusyInv
  <2>4. Submitted'
    <3>1. JobFrame' = JobFrame BY <1>21 DEF JobFrame
    <3>2. ASSUME pc["S"] \in {"native", "publish"} PROVE Placed(JobFrame)' = 1 /\ ~fr'[JobFrame].submitted
      <4>1. PICK g \in Frames : g = JobFrame BY <3>2, <1>0
                                                DEF Control, At, Submitting, MySet, JobFrame
      <4>2. Placed(g) = 1 /\ ~fr[g].submitted BY <3>2, <4>1 DEF BusyInv, Submitted
      <4>3. Placed(g)' = 1 /\ ~fr'[g].submitted BY <2>1, <4>2, <1>21 DEF MarksKept
      <4> QED BY <3>1, <4>1, <4>3 DEF Placed
    <3> QED BY <1>21, <3>1, <3>2 DEF BusyInv, Submitted, MarksKept
  <2>5. FencesTrue' BY <1>21 DEF BusyInv, FencesTrue, MarksKept
  <2>6. StatusTrue' BY <1>21 DEF BusyInv, StatusTrue
  <2> QED BY <2>3, <2>4, <2>5, <2>6 DEF BusyInv
<1>22. ASSUME NEW t \in Threads, ReapPoll(t) PROVE BusyInv'
  <2>1. PICK h \in snap[t].todo :
          \/ Terminal(h) /\ h \in el.quar /\ el' = [el EXCEPT !.quar = @ \ {h}] /\ fr' = Unref({h}, 1)
          \/ UNCHANGED <<el, fr>>
    BY <1>22 DEF ReapPoll
  <2>2. UNCHANGED <<job, pc, my, escaped>> BY <1>22 DEF ReapPoll
  <2>3. CASE UNCHANGED <<el, fr>>
    <3>1. \A f \in Frames : Placed(f)' = Placed(f) BY <2>2, <2>3, PlacedSame DEF Places
    <3> QED BY <2>2, <2>3, <3>1, BusyKept DEF MarksKept, Quietly
  <2>4. CASE Terminal(h) /\ h \in el.quar /\ el' = [el EXCEPT !.quar = @ \ {h}] /\ fr' = Unref({h}, 1)
    <3>1. h \in Frames /\ el'.quar = el.quar \ {h} /\ UNCHANGED <<el.pend, el.rdy>> BY <2>4
                                                                                       DEF Types,
                                                                                           ElSet
    <3>2. \A g \in Frames : g # h => Placed(g)' = Placed(g) BY <2>2, <3>1 DEF Placed, One
    <3>3. MarksKept BY <2>4, CountsOnly
    <3> QED BY <2>2, <2>4, <3>1, <3>2, <3>3, <1>21
  <2> QED BY <2>1, <2>3, <2>4
<1>23. CASE ReaperFrees
  <2>1. PICK h \in escaped : Terminal(h) /\ fr' = Unref({h}, 1) /\ escaped' = escaped \ {h}
    BY <1>23 DEF ReaperFrees
  <2>2. UNCHANGED <<job, pc, my, el>> /\ h \in Frames BY <1>23, <2>1 DEF ReaperFrees, Types
  <2>3. \A g \in Frames : g # h => Placed(g)' = Placed(g) BY <2>1, <2>2 DEF Placed, One
  <2>4. MarksKept BY <2>1, CountsOnly
  <2> QED BY <2>1, <2>2, <2>3, <2>4, <1>21
<1> QED BY <1>1, <1>3, <1>4, <1>5, <1>6, <1>7, <1>8, <1>9, <1>10, <1>11, <1>12, <1>13, <1>14, <1>15,
           <1>16, <1>17, <1>18, <1>19, <1>20, <1>22, <1>23
       DEF Next, Stream, StopSteps, ReapStep

LEMMA SynchronousStep == ASSUME Types, Types', Control, Control', Calm, RdyHeld, PendFree, Synchronous, Next PROVE Synchronous'
<1> USE FrameFacts DEF Types, ElSet, MySet, SnapSet, Threads, Goto, At, Submitting, Taking, rest, Synchronous
<1>1. ASSUME NEW t \in Threads, ReapSnapshot(t) PROVE Synchronous'
  <2>1. /\ pc[t] = "reap" /\ UNCHANGED my /\ \A u \in Threads : u # t => UNCHANGED pc[u] /\ UNCHANGED snap[u]
        /\ pc'[t] = "poll" \/ pc'[t] = snap[t].then
        /\ snap'[t].then = snap[t].then
    BY <1>1 DEF ReapSnapshot
  <2>2. UNCHANGED <<el.custom, el.depth, el.disabled, el.pend>> BY <1>1 DEF ReapSnapshot
  <2>3. snap[t].then \notin {"prepare", "enter", "record", "native", "publish", "settle", "blit", "blitting",
                             "converted", "poll", "reap"}
    BY DEF Control
  <2>4. At("S")' = At("S") BY <2>1, <2>3
  <2>5. pc["S"] = pc'["S"] \/ pc'["S"] \notin {"enter", "record", "native", "publish", "settle", "blit",
                                              "blitting", "converted"}
    BY <2>1, <2>3
  <2> QED BY <2>1, <2>2, <2>4, <2>5
<1>2. ASSUME NEW t \in Threads, ReapPoll(t) PROVE Synchronous'
  BY <1>2 DEF ReapPoll
<1>3. ASSUME NEW t \in Threads, ReapEnd(t) PROVE Synchronous'
  <2>1. /\ pc[t] = "poll" /\ UNCHANGED my /\ \A u \in Threads : u # t => UNCHANGED pc[u] /\ snap'[u].then = snap[u].then
        /\ pc'[t] = snap[t].then
        /\ snap'[t].then = snap[t].then
    BY <1>3 DEF ReapEnd
  <2>2. UNCHANGED <<el.custom, el.depth, el.disabled, el.pend>> BY <1>3 DEF ReapEnd
  <2>3. snap[t].then \notin {"prepare", "enter", "record", "native", "publish", "settle", "blit", "blitting",
                             "converted", "poll", "reap"}
    BY DEF Control
  <2>4. At("S")' = At("S") BY <2>1, <2>3
  <2>5. pc["S"] = pc'["S"] \/ pc'["S"] \notin {"enter", "record", "native", "publish", "settle", "blit",
                                              "blitting", "converted"}
    BY <2>1, <2>3
  <2> QED BY <2>1, <2>2, <2>4, <2>5
<1>4. CASE Submit BY <1>4 DEF Submit, Return, Idle
<1>5. CASE Shift BY <1>5 DEF Shift
<1>6. CASE Prepare
  <2>1. pc["S"] = "prepare" /\ my.cur # NoBuf /\ UNCHANGED <<el, snap>> BY <1>6 DEF Prepare, Control
  <2>2. ~el.custom => el.depth = 0 \/ el.disabled BY <2>1
  <2>3. CASE Return("error") BY <2>1, <2>3 DEF Return, Idle
  <2>4. CASE my' = [my EXCEPT !.depth = IF el.disabled THEN 0 ELSE el.depth] /\ Goto("S", "enter")
    <3>1. my'.depth = (IF el.disabled THEN 0 ELSE el.depth) /\ pc'["S"] = "enter" BY <2>4
    <3> QED BY <2>1, <2>2, <3>1
  <2> QED BY <1>6, <2>3, <2>4 DEF Prepare
<1>7. CASE Enter
  <2>1. CASE el.flushing BY <1>7, <2>1 DEF Enter, Return, Idle
  <2>2. CASE ~el.flushing
    <3>1. /\ pc["S"] = "enter" /\ pc'["S"] \in {"record", "blit"} /\ UNCHANGED my
          /\ pc'["S"] = "record" => my.depth > 0
          /\ UNCHANGED <<el.custom, el.depth, el.disabled, el.pend>>
      BY <1>7, <2>2 DEF Enter
    <3>2. ~el.custom => my.depth = 0 BY <3>1
    <3>3. el.pend = NoFrame BY <3>1 DEF PendFree
    <3>4. ~el.custom => pc'["S"] = "blit" BY <3>1, <3>2
    <3> QED BY <3>1, <3>3, <3>4
  <2> QED BY <2>1, <2>2
<1>8. CASE Record BY <1>8 DEF Record, Return, Idle
<1>9. CASE Native BY <1>9 DEF Native
<1>10. CASE Publish BY <1>10 DEF Publish
<1>11. CASE Settle BY <1>11 DEF Settle, Return, Idle
<1>12. CASE Blit BY <1>12 DEF Blit, Return, Idle
<1>13. CASE BlitReturn BY <1>13 DEF BlitReturn, Return, Idle
<1>14. CASE Converted BY <1>14, ConvertedDoes DEF Reap, Idle
<1>15. CASE Generate BY <1>15 DEF Generate, Return, Idle
<1>16. CASE Drain BY SMTT(30), <1>16, DrainDoes DEF Reap, Idle
<1>17. CASE Take BY <1>17 DEF Take, Return, Idle
<1>18. CASE Wait BY <1>18 DEF Wait
<1>19. CASE Taken
  <2>1. my.f \in Frames BY <1>19 DEF Taken, Control
  <2>2. /\ pc["S"] = "taken" /\ pc'["S"] = "release" /\ UNCHANGED <<snap, el.custom, el.depth, el.pend, my.cur>>
        /\ el.disabled => el'.disabled
    BY <1>19, <2>1, TakenDoes
  <2> QED BY <2>2
<1>20. CASE ReleaseFrame BY <1>20 DEF ReleaseFrame, Reap
<1>21. CASE Over BY <1>21 DEF Over, Return, Idle
<1>22. CASE Push BY <1>22, PushDoes DEF Reap, Return, Idle
<1>23. CASE SetAsyncDepth
  <2>1. /\ pc["S"] = "idle" /\ UNCHANGED <<pc, snap, my, el.custom, el.pend>>
    BY <1>23 DEF SetAsyncDepth, Quiet
  <2>2. my.cur = NoBuf BY <2>1 DEF Control, Idle
  <2> QED BY <2>1, <2>2
<1>24. CASE FlushStart BY <1>24, QuarantinedDoes DEF FlushStart
<1>25. CASE FlushStop BY <1>25, QuarantinedDoes DEF FlushStop, Reap
<1>26. CASE FlushStopped BY <1>26 DEF FlushStopped
<1>27. CASE StateDrain BY ZenonT(30), <1>27, QuarantinedDoes DEF StateDrain, Reap
<1>28. CASE StopBegin BY <1>28, QuarantinedDoes DEF StopBegin, Reap
<1>29. CASE StopEmpty BY <1>29 DEF StopEmpty, Stopped
<1>30. CASE StopAgain BY <1>30 DEF StopAgain, Reap
<1>31. CASE StopEscape BY <1>31 DEF StopEscape, Stopped
<1>32. CASE Start
  <2>1. pc["S"] = "idle" /\ UNCHANGED <<pc, snap, my, el.pend>>
    BY <1>32 DEF Start, OutOrCounted
  <2>2. my.cur = NoBuf BY <2>1 DEF Control, Idle
  <2> QED BY <2>1, <2>2
<1>33. CASE Finalize BY <1>33 DEF Finalize
<1>34. CASE ReaperFrees BY <1>34 DEF ReaperFrees
<1>35. CASE JobEnds BY <1>35 DEF JobEnds
<1>36. CASE Chain BY <1>36 DEF Chain, Reap, Idle, StreamLockTaken
<1>37. CASE SerializedEvent BY <1>37 DEF SerializedEvent, Idle, StreamLockTaken
<1> QED BY <1>1, <1>2, <1>3, <1>4, <1>5, <1>6, <1>7, <1>8, <1>9, <1>10, <1>11, <1>12, <1>13, <1>14,
           <1>15, <1>16, <1>17, <1>18, <1>19, <1>20, <1>21, <1>22, <1>23, <1>24, <1>25, <1>26,
           <1>27, <1>28, <1>29, <1>30, <1>31, <1>32, <1>33, <1>34, <1>35, <1>36, <1>37
       DEF Next, Stream, StopSteps, ReapStep, Threads

LEMMA SlotsDoneKept ==
  ASSUME Types, Control, SlotsDone, MarksKept, \A n \in Bufs : job[n] = "done" => job'[n] = "done",
         Slots' \subseteq Slots, my'.out \in {NoBuf, my.out},
         \/ /\ UNCHANGED <<pc["S"], my, el.custom>> /\ (el.flushing => el'.flushing)
            /\ UNCHANGED el.pend \/ el'.flushing
         \/ /\ pc["S"] \notin {"native", "publish"}
            /\ pc'["S"] \notin {"native", "publish", "settle", "converted", "taken"}
  PROVE  SlotsDone'
<1>0. Slots \subseteq Frames /\ \A f \in Frames : f[1] \in Bufs
  BY FrameFacts DEF Types, ElSet, Slots
<1>1. \A f \in Slots' : \/ f = JobFrame' /\ pc'["S"] \in {"native", "publish"}
                        \/ IF f[2] = "job" THEN fr'[f].fence = "fd" ELSE job'[f[1]] = "done"
  BY <1>0 DEF SlotsDone, MarksKept, JobFrame
<1>2. my'.out # NoBuf => job'[my'.out] = "done" BY DEF SlotsDone, Types, MySet
<1>3. pc'["S"] = "taken" /\ my'.status = "complete" => job'[my'.f[1]] = "done"
  <2> SUFFICES ASSUME pc'["S"] = "taken", my'.status = "complete" PROVE job'[my'.f[1]] = "done" OBVIOUS
  <2>1. UNCHANGED my /\ pc["S"] = "taken" OBVIOUS
  <2>2. job[my.f[1]] = "done" BY <2>1 DEF SlotsDone
  <2>3. my.f \in Frames BY <2>1 DEF Control, Types, MySet
  <2> QED BY <1>0, <2>1, <2>2, <2>3
<1>4. /\ pc'["S"] \in {"native", "publish"} => el'.pend = JobFrame' \/ el'.flushing
      /\ pc'["S"] = "settle" /\ my'.res = "ok" => el'.pend = JobFrame' \/ el'.flushing
  BY DEF SlotsDone, JobFrame
<1>5. pc'["S"] = "converted" => \/ job'[my'.cur] = "done"
                                \/ el'.custom /\ (el'.pend = JobFrame' \/ el'.flushing)
  BY DEF SlotsDone, JobFrame, Control, At, Submitting, Types, MySet
<1> QED BY <1>1, <1>2, <1>3, <1>4, <1>5 DEF SlotsDone

LEMMA SlotsDoneStep ==
  ASSUME Calm, Types, Types', Control, Control', Unused, RdyHeld, PendFree, FlushedEmpty, Submitted,
         Synchronous, SlotsDone, Next
  PROVE  SlotsDone'
<1> USE FrameFacts DEF Threads, Goto, rest
<1>0. /\ el \in ElSet /\ fr \in [Frames -> FrSet] /\ my \in MySet
      /\ job \in [Bufs -> {"none", "busy", "done", "error"}]
  BY DEF Types
<1>1. UNCHANGED <<el.pend, el.rdy>> => Slots' = Slots BY DEF Slots
<1>2. ASSUME UNCHANGED fr, UNCHANGED job, Slots' \subseteq Slots, my'.out \in {NoBuf, my.out},
             pc["S"] \notin {"native", "publish"},
             pc'["S"] \notin {"native", "publish", "settle", "converted", "taken"}
      PROVE  SlotsDone'
  BY <1>2, SlotsDoneKept DEF MarksKept
<1>3. ASSUME UNCHANGED fr, UNCHANGED job, Slots' \subseteq Slots, UNCHANGED <<pc["S"], my, el.custom>>,
             el.flushing => el'.flushing, UNCHANGED el.pend \/ el'.flushing
      PROVE  SlotsDone'
  BY <1>3, SlotsDoneKept DEF MarksKept
<1>4. ASSUME NEW t \in Threads, ReapSnapshot(t) \/ ReapEnd(t) PROVE SlotsDone'
  <2>1. MarksKept
    <3>1. UNCHANGED fr \/ fr' = Ref(el.quar, 1) \/ fr' = Unref(snap[t].held, 1)
      BY <1>4 DEF ReapSnapshot, ReapEnd
    <3>2. UNCHANGED fr => MarksKept BY DEF MarksKept
    <3> QED BY <3>1, <3>2, CountsOnly
  <2>2. UNCHANGED <<job, my>> /\ UNCHANGED <<el.pend, el.rdy, el.custom, el.flushing>>
    BY <1>0, <1>4 DEF ReapSnapshot, ReapEnd, ElSet
  <2>3. pc[t] \in {"reap", "poll"} /\ \A u \in Threads : u # t => pc'[u] = pc[u]
    BY <1>4 DEF ReapSnapshot, ReapEnd, Types
  <2>4. pc'[t] \notin {"native", "publish", "settle", "converted", "taken"}
    BY <1>4 DEF ReapSnapshot, ReapEnd, Control, Types
  <2> QED BY <1>1, <2>1, <2>2, <2>3, <2>4, SlotsDoneKept
<1>5. ASSUME NEW t \in Threads, ReapPoll(t) PROVE SlotsDone'
  <2>1. PICK h \in snap[t].todo :
          \/ el' = [el EXCEPT !.quar = @ \ {h}] /\ fr' = Unref({h}, 1)
          \/ UNCHANGED <<el, fr>>
    BY <1>5 DEF ReapPoll
  <2>2. MarksKept
    <3>1. UNCHANGED fr => MarksKept BY DEF MarksKept
    <3> QED BY <2>1, <3>1, CountsOnly
  <2>3. UNCHANGED <<job, my, pc>> /\ UNCHANGED <<el.pend, el.rdy, el.custom, el.flushing>>
    BY <1>0, <1>5, <2>1 DEF ReapPoll, ElSet
  <2> QED BY <1>1, <2>2, <2>3, SlotsDoneKept
<1>6. CASE Submit \/ Prepare \/ Enter
  <2>1. /\ UNCHANGED <<fr, job>> /\ UNCHANGED <<el.pend, el.rdy>> /\ my'.out \in {NoBuf, my.out}
        /\ pc["S"] \in {"submit", "prepare", "enter"}
    BY <1>0, <1>6 DEF Submit, Prepare, Enter, Return, Idle, ElSet, MySet
  <2>2. pc'["S"] \in {"idle", "drain", "shift", "enter", "record", "blit"}
    BY <1>6 DEF Submit, Prepare, Enter, Return, Types
  <2> QED BY <1>1, <1>2, <2>1, <2>2
<1>7. CASE Generate \/ Over \/ SerializedEvent
  <2>1. /\ UNCHANGED <<fr, job>> /\ UNCHANGED el /\ my'.out \in {NoBuf, my.out}
        /\ pc["S"] \in {"generate", "over", "fail", "idle"}
    BY <1>0, <1>7 DEF Generate, Over, SerializedEvent, Return, Idle, ElSet, MySet
  <2>2. pc'["S"] \in {"idle", "take", "prepare", "drain"}
    BY <1>7 DEF Generate, Over, SerializedEvent, Return, Types
  <2> QED BY <1>1, <1>2, <2>1, <2>2
<1>8. CASE Shift
  <2>1. /\ UNCHANGED <<fr, job, my>> /\ pc["S"] = "shift" /\ pc'["S"] = "prepare"
        /\ el'.rdy = el.pend /\ el'.pend = NoFrame
    BY <1>0, <1>8 DEF Shift, ElSet, Types
  <2>2. Slots' \subseteq Slots BY <2>1 DEF Slots
  <2> QED BY <1>2, <2>1, <2>2
<1>9. CASE Drain
  <2>1. UNCHANGED <<fr, job>> /\ pc["S"] = "drain" BY <1>9, DrainDoes
  <2>2. pc'["S"] \in {"take", "idle", "reap"} /\ my'.out \in {NoBuf, my.out}
    BY <1>9, DrainDoes DEF Reap, Types, Idle
  <2>3. Slots' \subseteq Slots
    <3>1. (el'.rdy = el.pend /\ el'.pend = NoFrame) \/ el' = el BY <1>9, DrainDoes
    <3> QED BY <3>1 DEF Slots
  <2> QED BY <1>2, <2>1, <2>2, <2>3
<1>10. CASE Push
  <2>1. UNCHANGED <<fr, job, el>> /\ pc["S"] = "push" BY <1>10, PushDoes
  <2>2. pc'["S"] \in {"drain", "idle", "reap"} /\ my'.out = NoBuf BY <1>10, PushDoes
                                                                     DEF Reap, Types, Idle
  <2> QED BY <1>1, <1>2, <2>1, <2>2
<1>11. CASE Chain
  <2>1. UNCHANGED <<fr, job, el>> /\ pc["S"] = "idle" /\ pc'["S"] = "reap" /\ my'.out = NoBuf
    BY <1>11 DEF Chain, Reap, Types, Idle
  <2> QED BY <1>1, <1>2, <2>1
<1>12. CASE Take
  <2>1. MarksKept
    <3>1. UNCHANGED fr \/ fr' = Ref({el.rdy}, 1) BY <1>12 DEF Take
    <3>2. UNCHANGED fr => MarksKept BY DEF MarksKept
    <3> QED BY <3>1, <3>2, CountsOnly
  <2>2. /\ UNCHANGED job /\ UNCHANGED <<el.pend, el.rdy>> /\ my'.out \in {NoBuf, my.out} /\ pc["S"] = "take"
        /\ pc'["S"] \in {"idle", "drain", "wait"}
    BY <1>0, <1>12 DEF Take, Return, Idle, ElSet, MySet, Types
  <2> QED BY <1>1, <2>1, <2>2, SlotsDoneKept
<1>13. CASE ReleaseFrame
  <2>1. MarksKept BY <1>13, CountsOnly DEF ReleaseFrame
  <2>2. /\ UNCHANGED job /\ UNCHANGED <<el.pend, el.rdy>> /\ my'.out \in {NoBuf, my.out} /\ pc["S"] = "release"
        /\ pc'["S"] = "reap"
    BY <1>0, <1>13 DEF ReleaseFrame, Reap, ElSet, MySet, Types
  <2> QED BY <1>1, <2>1, <2>2, SlotsDoneKept
<1>14. CASE FlushStart \/ FlushStop \/ StateDrain \/ StopBegin
  <2>1. /\ UNCHANGED <<fr, job, my>> /\ UNCHANGED pc["S"]
        /\ el' = Quarantined \/ el' = [Quarantined EXCEPT !.flushing = TRUE, !.gen = @ + 1]
    BY <1>14 DEF FlushStart, FlushStop, StateDrain, StopBegin, Reap, Types
  <2>2. /\ el'.pend = NoFrame /\ el'.rdy = NoFrame /\ UNCHANGED el.custom /\ el'.flushing \in {el.flushing, TRUE}
    BY <2>1, QuarantinedDoes
  <2>3. Slots' \subseteq Slots BY <2>2 DEF Slots
  <2>4. el'.flushing \/ pc["S"] = "idle"
    <3>1. CASE FlushStart \/ StopBegin
      <4>1. el' = [Quarantined EXCEPT !.flushing = TRUE, !.gen = @ + 1] BY <3>1
                                                                           DEF FlushStart,
                                                                               StopBegin
      <4>2. Quarantined \in ElSet BY QuarantinedTyped
      <4> QED BY <4>1, <4>2 DEF ElSet
    <3> QED BY <1>14, <3>1 DEF FlushStop, StateDrain, Quiet
  <2>5. CASE el'.flushing BY <1>3, <2>1, <2>2, <2>3, <2>5
  <2>6. CASE pc["S"] = "idle" BY <1>2, <2>1, <2>3, <2>6
  <2> QED BY <2>4, <2>5, <2>6
<1>15. CASE FlushStopped \/ Start
  <2>1. UNCHANGED <<fr, job, my>> /\ UNCHANGED <<pc["S"], el.pend, el.rdy>>
    <3>1. CASE FlushStopped BY <1>0, <3>1 DEF FlushStopped, ElSet, Types
    <3>2. CASE Start BY <1>0, <3>2 DEF Start, ElSet
    <3> QED BY <1>15, <3>1, <3>2
  <2>2. pc["S"] = "idle" BY <1>15 DEF FlushStopped, Start, OutOrCounted, Control, At
  <2> QED BY <1>1, <1>2, <2>1, <2>2
<1>16. CASE SetAsyncDepth \/ StopEmpty \/ StopAgain \/ StopEscape \/ Finalize
  <2>1. UNCHANGED <<fr, job, my>> /\ UNCHANGED <<pc["S"], el.pend, el.rdy, el.custom, el.flushing>>
    <3>1. CASE SetAsyncDepth BY <1>0, <3>1 DEF SetAsyncDepth, ElSet
    <3>2. CASE StopEmpty \/ StopAgain \/ Finalize BY <3>2
                                                     DEF StopEmpty, StopAgain, Finalize, Stopped,
                                                         Reap, Types
    <3>3. CASE StopEscape BY <1>0, <3>3 DEF StopEscape, Stopped, ElSet, Types
    <3> QED BY <1>16, <3>1, <3>2, <3>3
  <2> QED BY <1>1, <1>3, <2>1
<1>17. CASE ReaperFrees
  <2>1. MarksKept BY <1>17, CountsOnly DEF ReaperFrees
  <2>2. UNCHANGED <<job, my, pc, el>> BY <1>17 DEF ReaperFrees
  <2> QED BY <1>1, <2>1, <2>2, SlotsDoneKept
<1>18. CASE JobEnds
  <2>1. UNCHANGED <<fr, my, pc, el>> BY <1>18 DEF JobEnds
  <2>2. \A n \in Bufs : job[n] = "done" => job'[n] = "done" BY <1>0, <1>18 DEF JobEnds
  <2>3. MarksKept BY <2>1 DEF MarksKept
  <2> QED BY <1>1, <2>1, <2>2, <2>3, SlotsDoneKept
<1>19. CASE Settle
  <2>1. MarksKept BY <1>19, CountsOnly DEF Settle
  <2>2. UNCHANGED job /\ UNCHANGED <<el.pend, el.rdy, el.custom, el.flushing>> /\ pc["S"] = "settle"
    BY <1>0, <1>19 DEF Settle, ElSet
  <2>3. CASE my.res = "ok"
    <3>1. UNCHANGED my /\ pc'["S"] = "converted" BY <1>19, <2>3 DEF Settle, Types
    <3>2. el.custom /\ (el.pend = JobFrame \/ el.flushing) BY <2>2, <2>3 DEF Synchronous, SlotsDone
    <3>3. \A f \in Slots' : IF f[2] = "job" THEN fr'[f].fence = "fd" ELSE job'[f[1]] = "done"
      <4>1. Slots \subseteq Frames BY <1>0 DEF ElSet, Slots
      <4> QED BY <1>1, <2>1, <2>2, <4>1 DEF SlotsDone, MarksKept
    <3> QED BY <2>2, <3>1, <3>2, <3>3 DEF SlotsDone, JobFrame
  <2>4. CASE my.res # "ok"
    <3>1. my' = Idle /\ pc'["S"] = "idle" BY <1>19, <2>4 DEF Settle, Return, Types
    <3> QED BY <1>1, <2>1, <2>2, <3>1, SlotsDoneKept DEF Idle
  <2> QED BY <2>3, <2>4
<1>20. CASE Native
  <2>1. /\ pc["S"] = "native" /\ pc'["S"] = "publish" /\ UNCHANGED <<fr, el, my.cur, my.out>>
        /\ \A n \in Bufs : n # my.cur => job'[n] = job[n]
    BY <1>0, <1>20 DEF Native, Types, MySet
  <2>2. my.cur \in Bufs /\ job[my.cur] = "none" BY <2>1, <1>0
                                                   DEF Unused, Control, At, Submitting, MySet
  <2>3. \A n \in Bufs : job[n] = "done" => job'[n] = "done" BY <2>1, <2>2
  <2>4. JobFrame' = JobFrame /\ Slots' = Slots /\ Slots \subseteq Frames BY <1>0, <2>1
                                                                            DEF JobFrame, Slots,
                                                                                ElSet
  <2>5. \A f \in Slots' : \/ f = JobFrame'
                          \/ IF f[2] = "job" THEN fr'[f].fence = "fd" ELSE job'[f[1]] = "done"
    BY <2>1, <2>3, <2>4 DEF SlotsDone
  <2>6. el.pend = JobFrame \/ el.flushing BY <2>1 DEF SlotsDone
  <2>7. my.out = NoBuf BY <2>1 DEF Control, At
  <2> QED BY <2>1, <2>4, <2>5, <2>6, <2>7 DEF SlotsDone
<1>21. CASE Publish
  <2>0. PICK h \in Frames : h = JobFrame BY ZenonT(40), <1>0, <1>21
                                            DEF Publish, Control, At, Submitting, MySet, JobFrame
  <2>1. /\ pc["S"] = "publish" /\ pc'["S"] = "settle" /\ UNCHANGED <<job, my.cur, my.out, el.rdy, el.flushing>>
        /\ IF my.res # "ok" /\ el.pend = JobFrame THEN el'.pend = NoFrame ELSE UNCHANGED el.pend
        /\ my'.res = "ok" => my.res = "ok"
    BY <1>21, PublishDoes DEF Types
  <2>2. /\ \A f \in Frames : f # h => fr'[f] = fr[f]
        /\ fr'[h].submitted /\ fr'[h].fence = FenceOf(my.res)
    BY <1>21, <2>0, <1>0 DEF Publish, FrSet
  <2>3. JobFrame' = JobFrame /\ h[2] = "job" BY <2>0, <2>1 DEF JobFrame
  <2>4. el.pend = JobFrame \/ el.flushing BY <2>1 DEF SlotsDone
  <2>5. el.flushing => Slots' = {} BY <2>1 DEF FlushedEmpty, Slots
  <2>6. Slots' \subseteq Slots /\ Slots \subseteq Frames BY <1>0, <2>1 DEF Slots, ElSet
  <2>7. el.rdy # JobFrame
    <3>1. Placed(JobFrame) = 1 BY <2>1 DEF Submitted
    <3>2. CASE el.pend = JobFrame BY <2>0, <3>1, <3>2 DEF Placed, One
    <3> QED BY <2>0, <2>4, <3>2 DEF FlushedEmpty
  <2>8. ASSUME NEW f \in Slots' PROVE IF f[2] = "job" THEN fr'[f].fence = "fd" ELSE job'[f[1]] = "done"
    <3>1. CASE f # h BY <2>0, <2>1, <2>2, <2>6, <3>1 DEF SlotsDone
    <3>2. CASE f = h
      <4>1. el'.pend = h BY <2>0, <2>1, <2>7, <3>2 DEF Slots
      <4>2. my.res = "ok" BY <2>0, <2>1, <4>1
      <4> QED BY <2>2, <2>3, <3>2, <4>2, <2>0 DEF FenceOf
    <3> QED BY <3>1, <3>2
  <2>9. my'.res = "ok" => el'.pend = JobFrame' \/ el'.flushing BY <2>1, <2>3, <2>4
  <2>10. my.out = NoBuf BY <2>1 DEF Control, At
  <2> QED BY <2>1, <2>8, <2>9, <2>10 DEF SlotsDone
<1>22. CASE Record
  <2>1. CASE el.flushing
    <3>1. /\ UNCHANGED <<fr, job, el.pend, el.rdy>> /\ pc["S"] = "record" /\ pc'["S"] = "idle" /\ my'.out = NoBuf
      BY <1>0, <1>22, <2>1 DEF Record, Return, Types, ElSet, Idle
    <3> QED BY <1>1, <1>2, <3>1
  <2>2. CASE ~el.flushing
    <3>0. PICK h \in Frames : h = JobFrame BY <1>0, <1>22
                                              DEF Record, Control, At, Submitting, MySet, JobFrame
    <3>1. /\ el'.pend = h /\ UNCHANGED <<el.rdy, job, my.cur, my.out>> /\ pc["S"] = "record"
          /\ pc'["S"] = "native" /\ \A g \in Frames : g # h => fr'[g] = fr[g]
      BY <1>0, <1>22, <2>2, <3>0 DEF Record, Types, ElSet, MySet
    <3>2. JobFrame' = h /\ el.pend = NoFrame BY <3>0, <3>1 DEF JobFrame, PendFree, At
    <3>3. \A f \in Slots' : f = h \/ f \in Slots BY <3>1 DEF Slots
    <3>4. Slots \subseteq Frames BY <1>0 DEF Slots, ElSet
    <3>5. \A f \in Slots' : f # h => IF f[2] = "job" THEN fr'[f].fence = "fd" ELSE job'[f[1]] = "done"
      BY <3>0, <3>1, <3>3, <3>4 DEF SlotsDone
    <3>6. my.out = NoBuf BY <3>1 DEF Control, At
    <3> QED BY <3>1, <3>2, <3>5, <3>6 DEF SlotsDone
  <2> QED BY <2>1, <2>2
<1>23. CASE Blit
  <2>1. CASE UNCHANGED job
    <3>1. UNCHANGED <<fr, el.pend, el.rdy>> /\ pc["S"] = "blit" /\ pc'["S"] \in {"idle", "blitting"}
          /\ my'.out \in {NoBuf, my.out}
      BY <1>0, <1>23 DEF Blit, Return, Types, Idle, ElSet
    <3> QED BY <1>1, <1>2, <2>1, <3>1
  <2>2. CASE job' = [job EXCEPT ![my.cur] = "busy"] /\ pc' = [pc EXCEPT !["S"] = "blitting"] /\ UNCHANGED <<my, fr, el>>
    <3>1. pc["S"] = "blit" /\ pc'["S"] = "blitting" BY <1>23, <2>2 DEF Blit, Types
    <3>2. my.cur \in Bufs /\ job[my.cur] = "none" BY <3>1, <1>0
                                                     DEF Unused, Control, At, Submitting, MySet
    <3>3. \A n \in Bufs : job[n] = "done" => job'[n] = "done" BY <1>0, <2>2, <3>2
    <3>4. MarksKept BY <2>2 DEF MarksKept
    <3> QED BY <1>1, <2>2, <3>1, <3>3, <3>4, SlotsDoneKept
  <2> QED BY <1>23, <2>1, <2>2 DEF Blit
<1>24. CASE BlitReturn
  <2>1. UNCHANGED <<fr, job>> /\ UNCHANGED <<el.pend, el.rdy>> /\ pc["S"] = "blitting"
    BY <1>0, <1>24 DEF BlitReturn, ElSet
  <2>2. CASE job[my.cur] = "done"
    <3>1. UNCHANGED my /\ pc'["S"] = "converted" BY <1>24, <2>2 DEF BlitReturn, Types
    <3>2. my.out = NoBuf BY <2>1 DEF Control, At
    <3>3. \A f \in Slots' : IF f[2] = "job" THEN fr'[f].fence = "fd" ELSE job'[f[1]] = "done"
      BY <1>1, <2>1 DEF SlotsDone
    <3> QED BY <2>1, <2>2, <3>1, <3>2, <3>3 DEF SlotsDone
  <2>3. CASE job[my.cur] # "done"
    <3>1. my'.out = NoBuf /\ pc'["S"] = "idle" BY <1>24, <2>3 DEF BlitReturn, Return, Types, Idle
    <3> QED BY <1>1, <1>2, <2>1, <3>1
  <2> QED BY <2>2, <2>3
<1>25. CASE Converted
  <2>1. /\ UNCHANGED <<job, el.rdy>> /\ pc["S"] = "converted" /\ pc'["S"] \in {"reap", "push"} /\ my.cur \in Bufs
    BY <1>25, <1>0, ConvertedDoes DEF Reap, Types, Control, At, Submitting, MySet
  <2>2. \A f \in Slots : IF f[2] = "job" THEN fr[f].fence = "fd" ELSE job[f[1]] = "done"
    BY <2>1 DEF SlotsDone
  <2>3. CASE el.custom /\ my' = Idle /\ UNCHANGED <<el, fr>>
    BY <1>1, <1>2, <2>1, <2>3 DEF Idle
  <2>4. CASE /\ el.custom /\ my' = Idle /\ el.pend = NoFrame /\ ~el.flushing /\ el'.pend = <<my.cur, "ready">>
             /\ fr' = [fr EXCEPT ![<<my.cur, "ready">>] = [Blank EXCEPT !.refs = 1, !.out = TRUE]]
    <3>1. JobFrame # NoFrame BY <2>1 DEF JobFrame
    <3>2. job[my.cur] = "done" BY <2>1, <2>4, <3>1 DEF SlotsDone
    <3>3. \A f \in Slots' : f = <<my.cur, "ready">> \/ f \in Slots BY <2>1, <2>4 DEF Slots
    <3>4. \A f \in Frames : f # <<my.cur, "ready">> => fr'[f] = fr[f] BY <2>4, <1>0
    <3>5. Slots \subseteq Frames BY <1>0 DEF Slots, ElSet
    <3>6. \A f \in Slots' : IF f[2] = "job" THEN fr'[f].fence = "fd" ELSE job'[f[1]] = "done"
      BY <2>1, <2>2, <3>2, <3>3, <3>4, <3>5
    <3> QED BY <2>1, <2>4, <3>6 DEF SlotsDone, Idle
  <2>5. CASE ~el.custom /\ my'.out = my.cur /\ UNCHANGED <<el, fr>>
    <3>1. job[my.cur] = "done" BY <2>1, <2>5 DEF SlotsDone
    <3>2. Slots' = Slots BY <1>1, <2>5
    <3> QED BY <2>1, <2>2, <2>5, <3>1, <3>2 DEF SlotsDone
  <2> QED BY <1>25, <2>3, <2>4, <2>5, ConvertedDoes
<1>26. CASE Wait
  <2>1. /\ UNCHANGED <<fr, job, el, my.cur, my.f, my.out>> /\ pc["S"] = "wait" /\ pc'["S"] = "taken"
        /\ my'.status = "pending" \/ (my'.status = FenceStatus(my.f) /\ el.rdy = my.f)
    BY <1>0, <1>26 DEF Wait, Types, MySet, FenceStatus
  <2>2. \A f \in Slots : IF f[2] = "job" THEN fr[f].fence = "fd" ELSE job[f[1]] = "done"
    BY <2>1 DEF SlotsDone
  <2>3. my'.status = "complete" => job[my.f[1]] = "done"
    <3> SUFFICES ASSUME my'.status = "complete" PROVE job[my.f[1]] = "done" OBVIOUS
    <3>1. FenceStatus(my.f) = "complete" /\ el.rdy = my.f BY <2>1
    <3>2. my.f \in Frames BY <2>1, <1>0 DEF Control, MySet
    <3>3. my.f \in Slots BY <3>1, <3>2 DEF Slots
    <3> QED BY <2>2, <3>1, <3>3 DEF FenceStatus
  <2>4. my.out = NoBuf BY <2>1 DEF Control, At
  <2>5. Slots' = Slots BY <2>1 DEF Slots
  <2> QED BY <2>1, <2>2, <2>3, <2>4, <2>5 DEF SlotsDone
<1>27. CASE Taken
  <2>0. PICK h \in Frames : h = my.f BY <1>27, <1>0 DEF Taken, Control, MySet
  <2>1. pc["S"] = "taken" /\ pc'["S"] = "release" /\ UNCHANGED <<job, el.pend>> BY <1>27, <2>0, TakenDoes
                                                                                   DEF Types
  <2>2. MarksKept
    <3>1. fr' = fr \/ fr' = [fr EXCEPT ![h].out = FALSE] BY <1>27, <2>0, TakenDoes
    <3>2. [fr[h] EXCEPT !.out = FALSE].submitted = fr[h].submitted /\ [fr[h] EXCEPT !.out = FALSE].fence = fr[h].fence
      BY <1>0 DEF FrSet
    <3> QED BY <3>1, <3>2, <1>0 DEF MarksKept
  <2>3. Slots' \subseteq Slots /\ Slots \subseteq Frames
    <3>1. UNCHANGED el \/ el'.rdy = NoFrame BY <1>27, <2>0, TakenDoes
    <3> QED BY <1>0, <2>1, <3>1 DEF Slots, ElSet
  <2>4. \A f \in Slots' : IF f[2] = "job" THEN fr'[f].fence = "fd" ELSE job'[f[1]] = "done"
    BY <2>1, <2>2, <2>3 DEF SlotsDone, MarksKept
  <2>5. my'.out # NoBuf => job'[my'.out] = "done"
    <3>1. my'.out = my.out \/ (my.status = "complete" /\ my'.out = my.f[1]) BY <1>27, <2>0, TakenDoes
    <3> QED BY <2>1, <3>1 DEF SlotsDone
  <2> QED BY <2>1, <2>4, <2>5 DEF SlotsDone
<1> QED BY <1>4, <1>5, <1>6, <1>7, <1>8, <1>9, <1>10, <1>11, <1>12, <1>13, <1>14, <1>15, <1>16, <1>17, <1>18,
           <1>19, <1>20, <1>21, <1>22, <1>23, <1>24, <1>25, <1>26, <1>27
       DEF Next, Stream, StopSteps, ReapStep

\* Nothing enters the order, and what is ready and pending moves up or away.
LEMMA InOrderKept ==
  ASSUME Types, Types', InOrder, UNCHANGED <<shown, fed>>,
         my'.out \in {NoBuf, my.out}, my'.cur \in {NoBuf, my.cur},
         \/ UNCHANGED <<el.pend, el.rdy>>
         \/ el'.pend = NoFrame /\ el'.rdy = NoFrame
         \/ /\ el.rdy = NoFrame /\ el'.rdy = el.pend /\ el'.pend = NoFrame
            /\ pc["S"] \notin {"native", "publish", "settle", "converted"},
         \/ pc'["S"] \in {"native", "publish", "settle", "converted"}
         \/ pc["S"] \notin {"native", "publish", "settle", "converted"}
         \/ my'.cur = NoBuf \/ el'.pend = NoFrame
  PROVE  InOrder'
<1> USE FrameFacts
<1> DEFINE o == my.out
           r == el.rdy[1]
           p == el.pend[1]
           c == my.cur
<1>0. fed \in Nat /\ NoBuf = 0 /\ NoBuf <= fed BY AsyncAssumption DEF Types, NoBuf
<1>1. /\ \A i \in 1..Len(shown) : shown[i] <= fed /\ \A n \in {o, r, p, c} \ {NoBuf} : shown[i] < n
      /\ \A n \in {o, r, p, c} : n <= fed
      /\ o # NoBuf => \A n \in {r, p, c} \ {NoBuf} : o < n
      /\ r # NoBuf => \A n \in {p, c} \ {NoBuf} : r < n
      /\ p # NoBuf /\ c # NoBuf => p <= c
  BY DEF InOrder, Ordered
<1>2. el.pend # NoFrame /\ p = c => pc["S"] \in {"native", "publish", "settle", "converted"} BY

                                                                                                    DEF
                                                                                                    InOrder
<1>3. el.pend # NoFrame => p # NoBuf BY DEF Types, ElSet
<1>4. o' \in {NoBuf, o} /\ c' \in {NoBuf, c} OBVIOUS
<1>5. \/ UNCHANGED <<p, r, el.pend>>
      \/ p' = NoBuf /\ r' = NoBuf /\ el'.pend = NoFrame
      \/ /\ r = NoBuf /\ r' = p /\ p' = NoBuf /\ el'.pend = NoFrame
         /\ p # NoBuf => p # c
  BY <1>2, <1>3
<1>8. p \in Int /\ c \in Int BY DEF Types, ElSet, MySet, NoBuf, Bufs, NoFrame, Frames
<1>6. Ordered(my.out, el.rdy[1], el.pend[1], my.cur)'
  <2> SUFFICES /\ \A i \in 1..Len(shown) : shown[i] <= fed /\ \A n \in {o', r', p', c'} \ {NoBuf} : shown[i] < n
               /\ \A n \in {o', r', p', c'} : n <= fed
               /\ o' # NoBuf => \A n \in {r', p', c'} \ {NoBuf} : o' < n
               /\ r' # NoBuf => \A n \in {p', c'} \ {NoBuf} : r' < n
               /\ p' # NoBuf /\ c' # NoBuf => p' <= c'
    BY DEF Ordered
  <2> HIDE DEF o, r, p, c
  <2>1. r' \in {NoBuf, r, p} /\ p' \in {NoBuf, p} BY <1>5
  <2>2. \A n \in {o', r', p', c'} : n = NoBuf \/ n \in {o, r, p, c} BY <1>4, <2>1
  <2>3. o' # NoBuf => \A n \in {r', p', c'} \ {NoBuf} : n \in {r, p, c} BY <1>4, <2>1
  <2>4. r' # NoBuf => \A n \in {p', c'} \ {NoBuf} : r' < n
    <3>1. CASE UNCHANGED <<p, r>> BY <1>1, <1>4, <3>1
    <3>2. CASE p' = NoBuf /\ r' = NoBuf BY <3>2
    <3>3. CASE r' = p /\ p' = NoBuf /\ (p # NoBuf => p # c) BY <1>1, <1>4, <1>8, <3>3
    <3> QED BY <1>5, <3>1, <3>2, <3>3
  <2> QED BY <1>0, <1>1, <1>4, <2>1, <2>2, <2>3, <2>4
<1>7. el'.pend # NoFrame /\ el'.pend[1] = my'.cur => pc'["S"] \in {"native", "publish", "settle", "converted"}
  <2> SUFFICES ASSUME el'.pend # NoFrame, p' = c' PROVE pc'["S"] \in {"native", "publish", "settle", "converted"}
    OBVIOUS
  <2>1. el'.pend = el.pend /\ p' = p BY <1>5
  <2>2. c' = c /\ c # NoBuf BY <1>3, <1>4, <2>1
  <2> QED BY <1>2, <2>1, <2>2
<1> QED BY <1>6, <1>7 DEF InOrder

LEMMA InOrderStep ==
  ASSUME Calm, Types, Types', Control, Control', Unused, RdyHeld, PendFree, FlushedEmpty, RefsCounted,
         Synchronous, InOrder, Next
  PROVE  InOrder'
<1> USE FrameFacts DEF Threads, Goto, rest
<1> DEFINE Late == {"native", "publish", "settle", "converted"}
<1>0. /\ el \in ElSet /\ my \in MySet /\ fed \in Nat /\ my.out \in Nat /\ my.cur \in Nat
      /\ el.rdy[1] \in Nat /\ el.pend[1] \in Nat
      /\ el.rdy # NoFrame => el.rdy[1] # NoBuf
      /\ el.pend # NoFrame => el.pend[1] # NoBuf
      /\ my.cur # NoBuf => my.cur = fed
  <2>1. el \in ElSet /\ my \in MySet BY DEF Types
  <2>2. fed \in Nat BY AsyncAssumption DEF Types
  <2>3. \A n \in Bufs : n \in Nat /\ n # NoBuf BY DEF Bufs, NoBuf
  <2>4. my.out \in Nat /\ my.cur \in Nat BY <2>1, <2>3 DEF MySet, NoBuf
  <2>5. \A f \in Frames \cup {NoFrame} : f[1] \in Nat /\ (f # NoFrame => f[1] # NoBuf)
    BY <2>3 DEF NoBuf
  <2>6. el.rdy \in Frames \cup {NoFrame} /\ el.pend \in Frames \cup {NoFrame} BY <2>1 DEF ElSet
  <2> QED BY <2>1, <2>2, <2>4, <2>5, <2>6 DEF Control
<1>1. ASSUME NEW t \in Threads, ReapSnapshot(t) \/ ReapPoll(t) \/ ReapEnd(t) PROVE InOrder'
  <2>1. UNCHANGED <<my, shown, fed>> /\ UNCHANGED <<el.pend, el.rdy>>
    BY <1>0, <1>1 DEF ReapSnapshot, ReapPoll, ReapEnd, ElSet
  <2>2. UNCHANGED pc["S"] \/ pc["S"] \in {"reap", "poll"}
    BY <1>1 DEF ReapSnapshot, ReapPoll, ReapEnd, Types
  <2> QED BY <2>1, <2>2, InOrderKept
<1>2. CASE Submit \/ Prepare \/ Enter \/ Generate \/ Over \/ SerializedEvent
  <2>1. UNCHANGED <<shown, fed>> /\ UNCHANGED <<el.pend, el.rdy>>
        /\ my'.out \in {NoBuf, my.out} /\ my'.cur \in {NoBuf, my.cur}
    <3>1. CASE Submit BY <1>0, <3>1 DEF Submit, Return, Idle, ElSet, MySet
    <3>2. CASE Prepare BY <1>0, <3>2 DEF Prepare, Return, Idle, MySet
    <3>3. CASE Enter BY <1>0, <3>3 DEF Enter, Return, Idle, ElSet
    <3>4. CASE Generate BY <1>0, <3>4 DEF Generate, Return, Idle, MySet
    <3>5. CASE Over \/ SerializedEvent BY <3>5 DEF Over, SerializedEvent, Return, Idle
    <3> QED BY <1>2, <3>1, <3>2, <3>3, <3>4, <3>5
  <2>2. pc["S"] \in {"submit", "prepare", "enter", "generate", "over", "fail", "idle"}
    BY <1>2 DEF Submit, Prepare, Enter, Generate, Over, SerializedEvent
  <2> QED BY <2>1, <2>2, InOrderKept
<1>3. CASE Native \/ Settle \/ Blit \/ BlitReturn
  <2>1. UNCHANGED <<shown, fed>> /\ UNCHANGED <<el.pend, el.rdy>>
        /\ my'.out \in {NoBuf, my.out} /\ my'.cur \in {NoBuf, my.cur}
    BY <1>0, <1>3 DEF Native, Settle, Blit, BlitReturn, Return, Idle, ElSet, MySet
  <2>2. pc'["S"] \in Late \/ pc["S"] \in {"blit", "blitting"} \/ my'.cur = NoBuf
    BY <1>3 DEF Native, Settle, Blit, BlitReturn, Return, Idle, Types
  <2> QED BY <2>1, <2>2, InOrderKept
<1>4. CASE Take \/ Wait \/ ReleaseFrame
  <2>1. UNCHANGED <<shown, fed>> /\ UNCHANGED <<el.pend, el.rdy>>
        /\ my'.out \in {NoBuf, my.out} /\ my'.cur \in {NoBuf, my.cur}
    BY <1>0, <1>4 DEF Take, Wait, ReleaseFrame, Return, Idle, ElSet, MySet
  <2>2. pc["S"] \in {"take", "wait", "release"} BY <1>4 DEF Take, Wait, ReleaseFrame
  <2> QED BY <2>1, <2>2, InOrderKept
<1>5. CASE FlushStart \/ FlushStop \/ StateDrain \/ StopBegin
  <2>1. /\ UNCHANGED <<shown, fed, my>>
        /\ el' = Quarantined \/ el' = [Quarantined EXCEPT !.flushing = TRUE, !.gen = @ + 1]
    BY <1>5 DEF FlushStart, FlushStop, StateDrain, StopBegin, Reap
  <2>2. el'.pend = NoFrame /\ el'.rdy = NoFrame BY <2>1, QuarantinedDoes
  <2> QED BY <2>1, <2>2, InOrderKept
<1>6. CASE FlushStopped \/ SetAsyncDepth \/ StopEmpty \/ StopAgain \/ StopEscape \/ Start \/ Finalize
  <2>1. UNCHANGED <<shown, fed, my>> /\ UNCHANGED <<pc["S"], el.pend, el.rdy>>
    <3>1. CASE FlushStopped BY <1>0, <3>1 DEF FlushStopped, ElSet, Types
    <3>2. CASE SetAsyncDepth BY <1>0, <3>2 DEF SetAsyncDepth, ElSet
    <3>3. CASE StopEmpty \/ StopAgain \/ Finalize BY <3>3
                                                     DEF StopEmpty, StopAgain, Finalize, Stopped,
                                                         Reap, Types
    <3>4. CASE StopEscape BY <1>0, <3>4 DEF StopEscape, Stopped, ElSet, Types
    <3>5. CASE Start BY <1>0, <3>5 DEF Start, ElSet
    <3> QED BY <1>6, <3>1, <3>2, <3>3, <3>4, <3>5
  <2> QED BY <2>1, InOrderKept
<1>7. CASE ReaperFrees \/ JobEnds
  <2>1. UNCHANGED <<shown, fed, my, pc, el>> BY <1>7 DEF ReaperFrees, JobEnds
  <2> QED BY <2>1, InOrderKept
<1>8. CASE Shift
  <2>1. /\ UNCHANGED <<shown, fed, my>> /\ pc["S"] = "shift" /\ el'.rdy = el.pend /\ el'.pend = NoFrame
        /\ el.rdy = NoFrame
    BY <1>0, <1>8 DEF Shift, ElSet, RdyHeld, At, Submitting
  <2> QED BY <2>1, InOrderKept
<1>9. CASE Drain
  <2>1. UNCHANGED <<shown, fed>> /\ pc["S"] = "drain" /\ (UNCHANGED my \/ my' = Idle) BY <1>9, DrainDoes
  <2>2. UNCHANGED el \/ (el.rdy = NoFrame /\ el'.rdy = el.pend /\ el'.pend = NoFrame) BY <1>9, DrainDoes
  <2>3. my'.out \in {NoBuf, my.out} /\ my'.cur \in {NoBuf, my.cur} BY <2>1 DEF Idle
  <2> QED BY <2>1, <2>2, <2>3, InOrderKept
<1>10. CASE Publish
  <2>1. /\ UNCHANGED <<shown, fed, my.out, my.cur, el.rdy>> /\ pc'["S"] = "settle"
        /\ el'.pend = NoFrame \/ UNCHANGED el.pend
    BY <1>10, PublishDoes DEF Types
  <2>2. CASE UNCHANGED el.pend BY <2>1, <2>2, InOrderKept
  <2>3. CASE el'.pend = NoFrame
    <3>1. el'.pend[1] = NoBuf BY <2>3
    <3>2. Ordered(my.out, el.rdy[1], el.pend[1], my.cur)' BY <1>0, <2>1, <3>1
                                                             DEF InOrder, Ordered, NoBuf
    <3> QED BY <2>3, <3>2 DEF InOrder
  <2> QED BY <2>1, <2>2, <2>3
<1>11. CASE Record
  <2>1. CASE el.flushing
    <3>1. /\ UNCHANGED <<shown, fed, el.pend, el.rdy>> /\ pc["S"] = "record" /\ my'.out = NoBuf /\ my'.cur = NoBuf
      BY <1>0, <1>11, <2>1 DEF Record, Return, ElSet, Idle
    <3> QED BY <3>1, InOrderKept
  <2>2. CASE ~el.flushing
    <3>1. /\ UNCHANGED <<shown, fed, my.out, my.cur, el.rdy>> /\ el'.pend = JobFrame /\ pc["S"] = "record"
          /\ pc'["S"] = "native"
      BY <1>0, <1>11, <2>2 DEF Record, ElSet, MySet, Types
    <3>2. el'.pend[1] = my.cur BY <3>1 DEF JobFrame
    <3>3. Ordered(my.out, el.rdy[1], el.pend[1], my.cur)' BY <1>0, <3>1, <3>2
                                                             DEF InOrder, Ordered, NoBuf
    <3> QED BY <3>1, <3>3 DEF InOrder
  <2> QED BY <2>1, <2>2
<1>12. CASE Converted
  <2>1. UNCHANGED <<shown, fed, el.rdy>> /\ pc["S"] = "converted" /\ my.out = NoBuf /\ my.cur # NoBuf
    BY <1>12, ConvertedDoes DEF Control, At, Submitting
  <2>2. CASE my' = Idle /\ UNCHANGED el BY <2>1, <2>2, InOrderKept DEF Idle
  <2>3. CASE my' = Idle /\ el.pend = NoFrame /\ el'.pend = <<my.cur, "ready">>
    <3>1. my'.out = NoBuf /\ my'.cur = NoBuf /\ el'.pend[1] = my.cur BY <2>3 DEF Idle
    <3>2. Ordered(my.out, el.rdy[1], el.pend[1], my.cur)'
      BY <1>0, <2>1, <3>1 DEF InOrder, Ordered, NoBuf
    <3> QED BY <2>1, <3>1, <3>2 DEF InOrder
  <2>4. CASE ~el.custom /\ my'.out = my.cur /\ my'.cur = NoBuf /\ UNCHANGED el
    <3>1. el.pend = NoFrame BY <2>1, <2>4 DEF Synchronous
    <3>2. el.rdy = NoFrame BY <2>1, <2>4 DEF RdyHeld, At, Submitting
    <3>3. Ordered(my.out, el.rdy[1], el.pend[1], my.cur)'
      BY <1>0, <2>1, <2>4, <3>1, <3>2 DEF InOrder, Ordered, NoBuf
    <3> QED BY <2>4, <3>1, <3>3 DEF InOrder
  <2> QED BY <1>12, <2>2, <2>3, <2>4, ConvertedDoes
<1>13. CASE Taken
  <2>0. PICK h \in Frames : h = my.f BY <1>13, <1>0 DEF Taken, Control, MySet
  <2>1. UNCHANGED <<shown, fed, el.pend, my.cur>> /\ pc["S"] = "taken" /\ my.out = NoBuf
    BY <1>13, <2>0, TakenDoes DEF Control, At
  <2>2. CASE UNCHANGED <<el, my.out>> BY <2>1, <2>2, InOrderKept
  <2>3. CASE el.rdy = h /\ el'.rdy = NoFrame /\ (UNCHANGED my.out \/ my'.out = h[1])
    <3>1. el'.rdy[1] = NoBuf /\ my'.out \in {NoBuf, el.rdy[1]} BY <2>1, <2>3
    <3>2. Ordered(my.out, el.rdy[1], el.pend[1], my.cur)'
      BY <1>0, <2>1, <3>1 DEF InOrder, Ordered, NoBuf
    <3> QED BY <2>1, <3>2 DEF InOrder
  <2> QED BY <1>13, <2>0, <2>2, <2>3, TakenDoes
<1>14. CASE Push
  <2>1. UNCHANGED <<el, fed>> /\ pc["S"] = "push" /\ shown' = Append(shown, my.out) /\ my'.out = NoBuf
        /\ my'.cur \in {NoBuf, my.cur}
    BY <1>14, PushDoes DEF Idle
  <2>2. my.out # NoBuf BY <2>1 DEF Control, At
  <2>3. shown \in Seq(Bufs) /\ my.out \in Bufs BY <2>2, <1>0 DEF Types, MySet
  <2>4. /\ Len(shown') = Len(shown) + 1 /\ shown'[Len(shown) + 1] = my.out
        /\ \A i \in 1..Len(shown) : shown'[i] = shown[i]
    BY <1>0, <2>1, <2>3
  <2>5. \A i \in 1..Len(shown') : shown'[i] = my.out \/ \E j \in 1..Len(shown) : shown'[i] = shown[j]
    BY <2>3, <2>4
  <2>6. Ordered(my.out, el.rdy[1], el.pend[1], my.cur)'
    <3>1. \A n \in {el.rdy[1], el.pend[1], my'.cur} \ {NoBuf} : my.out < n
      BY <2>1, <2>2 DEF InOrder, Ordered
    <3>2. \A i \in 1..Len(shown') : /\ shown'[i] <= fed
                                    /\ \A n \in {el.rdy[1], el.pend[1], my'.cur} \ {NoBuf} : shown'[i] < n
      <4>1. my.out <= fed BY DEF InOrder, Ordered
      <4>2. \A i \in 1..Len(shown) : shown[i] <= fed /\ \A n \in {el.rdy[1], el.pend[1], my'.cur} \ {NoBuf} : shown[i] < n
        BY <2>1 DEF InOrder, Ordered
      <4> QED BY <2>5, <3>1, <4>1, <4>2
    <3> QED BY <1>0, <2>1, <3>1, <3>2 DEF InOrder, Ordered, NoBuf
  <2>7. el'.pend # NoFrame /\ el'.pend[1] = my'.cur => pc'["S"] \in Late BY <1>0, <2>1 DEF InOrder
  <2> QED BY <2>6, <2>7 DEF InOrder
<1>15. CASE Chain
  <2>1. UNCHANGED <<shown, el>> /\ fed' = fed + 1 /\ my'.cur = fed + 1 /\ my'.out = NoBuf /\ pc["S"] = "idle"
    BY <1>15 DEF Chain, Idle
  <2>2. shown \in Seq(Bufs) BY DEF Types
  <2>3. \A i \in 1..Len(shown) : shown[i] <= fed BY DEF InOrder, Ordered
  <2>4. \A i \in 1..Len(shown) : shown[i] < fed + 1 /\ shown[i] <= fed + 1
    <3>1. \A i \in 1..Len(shown) : shown[i] \in Nat
      <4>1. \A i \in 1..Len(shown) : shown[i] \in Bufs BY <2>2
      <4>2. \A n \in Bufs : n \in Nat BY DEF Bufs
      <4> QED BY <4>1, <4>2
    <3> QED BY <1>0, <2>3, <3>1
  <2>5. el.rdy[1] <= fed /\ el.pend[1] <= fed BY DEF InOrder, Ordered
  <2>6. el.rdy[1] < fed + 1 /\ el.pend[1] < fed + 1 BY <1>0, <2>5
  <2>7. Ordered(my.out, el.rdy[1], el.pend[1], my.cur)'
    BY <1>0, <2>1, <2>4, <2>6 DEF InOrder, Ordered, NoBuf
  <2> QED BY <1>0, <2>1, <2>6, <2>7 DEF InOrder
<1> QED BY <1>1, <1>2, <1>3, <1>4, <1>5, <1>6, <1>7, <1>8, <1>9, <1>10, <1>11, <1>12, <1>13, <1>14, <1>15
       DEF Next, Stream, StopSteps, ReapStep

-----------------------------------------------------------------------------
(* The invariant *)

LEMMA InvInit == Init => Inv
<1> SUFFICES ASSUME Init PROVE Inv OBVIOUS
<1>1. Types BY TypesInit
<1>2. Control BY FrameFacts DEF Init, Control, At, Idle, Threads, Submitting, Taking
<1>3. fr = [f \in Frames |-> Blank] /\ my = Idle BY DEF Init
<1>4. Unused BY <1>3, FrameFacts DEF Init, Unused, Idle, Blank
<1>5. \A f \in Frames : Placed(f) = 0 BY FrameFacts DEF Init, Placed, One
<1>6. Apart BY <1>5 DEF Apart
<1>7. RdyHeld /\ PendFree /\ FlushedEmpty BY DEF Init, RdyHeld, PendFree, FlushedEmpty, Idle
<1>8. RefsCounted
  <2> SUFFICES ASSUME NEW f \in Frames PROVE fr[f].refs = Holders(f) + Owed(f) BY
                                                                                  DEF RefsCounted,
                                                                                      Owed
  <2>1. fr[f].refs = 0 BY <1>3 DEF Blank
  <2>2. /\ my.f # f /\ ~Used(f) /\ f \notin snap["S"].held /\ f \notin snap["A"].held
    BY <1>3, FrameFacts DEF Init, Idle, Used, Threads
  <2>3. Holders(f) = 0 /\ Owed(f) = 0 BY <1>5, <2>2 DEF Holders, Owed, One
  <2> QED BY <2>1, <2>3
<1> QED BY <1>1, <1>2, <1>4, <1>6, <1>7, <1>8 DEF Inv

LEMMA InvStep == Inv /\ [Next]_vars => Inv'
<1> SUFFICES ASSUME Inv, [Next]_vars PROVE Inv' OBVIOUS
<1>1. CASE UNCHANGED vars
  <2> USE <1>1 DEF vars, Inv, At
  <2>1. Types' BY DEF Types
  <2>2. Control' BY DEF Control
  <2>3. Unused' BY DEF Unused, JobFrame
  <2>4. RdyHeld' /\ PendFree' /\ FlushedEmpty' BY DEF RdyHeld, PendFree, FlushedEmpty
  <2>5. \A f \in Frames : Placed(f)' = Placed(f) BY PlacedSame DEF Places
  <2>6. Apart' /\ RefsCounted' BY <2>5, HandsKept DEF Hands
  <2> QED BY <2>1, <2>2, <2>3, <2>4, <2>6
<1>2. CASE Next
  <2>1. Types' BY <1>2, TypesStep DEF Inv
  <2>2. Control' BY <1>2, <2>1, ControlStep DEF Inv
  <2>3. FlushedEmpty' BY <1>2, <2>1, <2>2, FlushedEmptyStep DEF Inv
  <2>4. PendFree' BY <1>2, <2>1, <2>2, PendFreeStep DEF Inv
  <2>5. RdyHeld' BY <1>2, <2>1, <2>2, RdyHeldStep DEF Inv
  <2>6. Apart' /\ RefsCounted' BY <1>2, <2>1, <2>2, RefsStep DEF Inv
  <2>7. Unused' BY <1>2, <2>1, <2>2, UnusedStep DEF Inv
  <2> QED BY <2>1, <2>2, <2>3, <2>4, <2>5, <2>6, <2>7 DEF Inv
<1> QED BY <1>1, <1>2

LEMMA Invariant == Spec => []Inv
<1> QED BY InvInit, InvStep, PTL DEF Spec

\* The count of a frame is the number of its holders, whichever thread has
\* reaped, taken, flushed or handed it to the reaper, and in whatever order
\* (gst_rga_frame_ref and unref): it is freed exactly when the last is gone.
THEOREM CountsExact == Spec => []RefsCounted
<1>1. Inv => RefsCounted BY DEF Inv
<1> QED BY <1>1, Invariant, PTL

\* Both assertions of the code hold (nothing is ready in shift, nothing pending
\* in record), and a flush leaves nothing to be shown, whenever it comes.
THEOREM AssertionsHold == Spec => []SlotsFree
<1>1. Inv => SlotsFree
  BY DEF Inv, SlotsFree, Slots, FlushedEmpty, PendFree, RdyHeld, At, Submitting
<1> QED BY <1>1, Invariant, PTL

-----------------------------------------------------------------------------
(* The lease *)

LEMMA BusyInit == Init => BusyInv
<1> SUFFICES ASSUME Init PROVE BusyInv OBVIOUS
<1>1. /\ \A f \in Frames : fr[f].submitted
      /\ \A n \in Bufs : job[n] = "none"
      /\ pc["S"] = "idle"
  BY DEF Init, Blank, Threads
<1> QED BY <1>1 DEF BusyInv, Submitted, FencesTrue, StatusTrue, BusyOwned

LEMMA BusyInvariant == Spec => []BusyInv
<1>1. Inv /\ BusyInv /\ [Next]_vars => BusyInv'
  <2> SUFFICES ASSUME Inv, BusyInv, [Next]_vars PROVE BusyInv' OBVIOUS
  <2>1. Inv' BY InvStep
  <2>2. CASE Next BY <2>1, <2>2, BusyStep DEF Inv
  <2>3. CASE UNCHANGED vars
    <3>1. \A f \in Frames : Placed(f)' = Placed(f) BY <2>3, PlacedSame DEF vars, Places
    <3> QED BY <2>1, <2>3, <3>1, BusyKept DEF Inv, vars, MarksKept, Quietly
  <2> QED BY <2>2, <2>3
<1> QED BY BusyInit, Invariant, <1>1, PTL DEF Spec

LEMMA OrderInvariant == ASSUME Calm PROVE Spec => []OrderInv
<1>1. Init => OrderInv
  <2> SUFFICES ASSUME Init PROVE OrderInv OBVIOUS
  <2>1. /\ el.pend = NoFrame /\ el.rdy = NoFrame /\ my.cur = NoBuf /\ my.out = NoBuf /\ fed = 0
        /\ shown = <<>> /\ pc["S"] = "idle"
    BY DEF Init, Idle, Threads
  <2>2. InOrder BY <2>1, FrameFacts DEF InOrder, Ordered, NoBuf
  <2>3. Synchronous BY <2>1 DEF Synchronous
  <2>4. SlotsDone BY <2>1 DEF SlotsDone, Slots
  <2> QED BY <2>2, <2>3, <2>4 DEF OrderInv
<1>2. Inv /\ BusyInv /\ OrderInv /\ [Next]_vars => OrderInv'
  <2> SUFFICES ASSUME Inv, BusyInv, OrderInv, [Next]_vars PROVE OrderInv' OBVIOUS
  <2>1. Inv' BY InvStep
  <2>2. CASE Next
    <3>1. InOrder' BY <2>1, <2>2, InOrderStep DEF Inv, OrderInv
    <3>2. Synchronous' BY <2>1, <2>2, SynchronousStep DEF Inv, OrderInv
    <3>3. SlotsDone' BY <2>1, <2>2, SlotsDoneStep DEF Inv, OrderInv, BusyInv
    <3> QED BY <3>1, <3>2, <3>3 DEF OrderInv
  <2>3. CASE UNCHANGED vars
    <3>1. InOrder' BY <2>1, <2>3, InOrderKept DEF Inv, OrderInv, vars
    <3>2. Synchronous' BY <2>3 DEF OrderInv, Synchronous, At, vars
    <3>3. SlotsDone' BY <2>3 DEF OrderInv, SlotsDone, Slots, JobFrame, vars
    <3> QED BY <3>1, <3>2, <3>3 DEF OrderInv
  <2> QED BY <2>2, <2>3
<1> QED BY <1>1, <1>2, Invariant, BusyInvariant, PTL DEF Spec

LEMMA LiveOnes == ASSUME RefsCounted PROVE \A f \in Frames : fr[f].refs \in Nat /\ (Live(f) <=> fr[f].refs # 0)
<1>1. \A f \in Frames : fr[f].refs \in Nat BY PlacedNat DEF RefsCounted, Holders, One
<1> QED BY <1>1 DEF Live

LEMMA HolderLive ==
  ASSUME Types, RefsCounted, NEW f \in Frames, Placed(f) # 0 \/ my.f = f PROVE Live(f) /\ f[1] \in Held
<1>1. Live(f) BY LiveOnes, Nowhere
<1> QED BY <1>1, FrameFacts DEF Held

JobsHeld == \A n \in Bufs : job[n] = "busy" => n \in Held

LEMMA BusyHeld == Types /\ RefsCounted /\ BusyOwned => JobsHeld
<1> SUFFICES ASSUME Types, RefsCounted, BusyOwned, NEW n \in Bufs, job[n] = "busy" PROVE n \in Held
  BY DEF JobsHeld
<1>1. CASE my.cur = n BY <1>1 DEF Held
<1>2. CASE Placed(<<n, "job">>) = 1
  <2>1. PICK f \in Frames : f = <<n, "job">> BY FrameFacts
  <2> QED BY <1>2, <2>1, HolderLive
<1> QED BY <1>1, <1>2 DEF BusyOwned

LEMMA NoneNew ==
  ASSUME Types, Control, RefsCounted, Next, ~Record, ~Converted
  PROVE  \A f \in Frames : fr[f].refs = 0 => fr'[f].refs = 0
<1> USE FrameFacts
<1>0. /\ el \in ElSet /\ fr \in [Frames -> FrSet] /\ my \in MySet /\ snap \in [Threads -> SnapSet]
      /\ escaped \subseteq Frames
  BY DEF Types
<1>1. ASSUME UNCHANGED fr PROVE \A f \in Frames : fr[f].refs = 0 => fr'[f].refs = 0 BY <1>1
<1>2. ASSUME NEW t \in Threads, ReapSnapshot(t) PROVE \A f \in Frames : fr[f].refs = 0 => fr'[f].refs = 0
  <2>1. \A f \in el.quar : Placed(f) # 0 BY <1>0, PlacedThere DEF ElSet
  <2>2. UNCHANGED fr \/ fr' = Ref(el.quar, 1) BY <1>2 DEF ReapSnapshot
  <2> QED BY <1>0, <2>1, <2>2, NoneMade DEF ElSet
<1>3. ASSUME NEW t \in Threads, ReapPoll(t) PROVE \A f \in Frames : fr[f].refs = 0 => fr'[f].refs = 0
  <2>1. PICK h \in snap[t].todo : (h \in el.quar /\ fr' = Unref({h}, 1)) \/ UNCHANGED fr BY <1>3
                                                                                            DEF
                                                                                                ReapPoll
  <2>2. h \in el.quar => h \in Frames /\ Placed(h) # 0 BY <1>0, PlacedThere DEF ElSet
  <2> QED BY <1>1, <2>1, <2>2, NoneMadeByOne
<1>4. ASSUME NEW t \in Threads, ReapEnd(t) PROVE \A f \in Frames : fr[f].refs = 0 => fr'[f].refs = 0
  <2>1. fr' = Unref(snap[t].held, 1) BY <1>4 DEF ReapEnd
  <2>2. snap[t].held \in SUBSET Frames BY <1>0 DEF SnapSet
  <2> QED BY <2>1, <2>2, NoneMade
<1>5. CASE Settle
  <2>1. pc["S"] = "settle" /\ fr' = Unref({JobFrame}, 1) BY <1>5 DEF Settle
  <2>2. PICK h \in Frames : h = JobFrame BY <1>0, <2>1 DEF Control, At, Submitting, MySet, JobFrame
  <2>3. Used(h) BY <2>1, <2>2 DEF Used
  <2> QED BY <2>1, <2>2, <2>3, NoneMadeByOne
<1>6. CASE Take
  <2>1. UNCHANGED fr \/ (el.rdy # NoFrame /\ fr' = Ref({el.rdy}, 1)) BY <1>6 DEF Take
  <2>2. CASE el.rdy # NoFrame /\ fr' = Ref({el.rdy}, 1)
    <3>1. PICK h \in Frames : h = el.rdy BY <1>0, <2>2 DEF ElSet
    <3>2. Placed(h) # 0 BY <3>1, PlacedThere
    <3> QED BY <2>2, <3>1, <3>2, NoneMadeByOne
  <2> QED BY <1>1, <2>1, <2>2
<1>7. CASE ReleaseFrame
  <2>1. PICK h \in Frames : h = my.f BY <1>0, <1>7 DEF ReleaseFrame, Control, MySet
  <2>2. fr' = Unref({h}, 1) \/ fr' = Unref({h}, 2) BY <1>7, <2>1 DEF ReleaseFrame
  <2> QED BY <2>1, <2>2, NoneMadeByOne
<1>8. CASE ReaperFrees
  <2>1. PICK h \in escaped : fr' = Unref({h}, 1) BY <1>8 DEF ReaperFrees
  <2>2. h \in Frames /\ Placed(h) # 0 BY <1>0, PlacedThere
  <2> QED BY <2>1, <2>2, NoneMadeByOne
<1>9. CASE Publish
  <2>1. PICK h \in Frames : h = JobFrame BY <1>0, <1>9
                                            DEF Publish, Control, At, Submitting, MySet, JobFrame
  <2> QED BY <1>0, <1>9, <2>1 DEF Publish, FrSet
<1>10. CASE Taken
  <2>1. PICK h \in Frames : h = my.f BY <1>0, <1>10 DEF Taken, Control, MySet
  <2>2. UNCHANGED fr \/ fr' = [fr EXCEPT ![h].out = FALSE] BY <1>10, <2>1, TakenDoes
  <2> QED BY <1>0, <2>2 DEF FrSet
<1>11. CASE Submit \/ Shift \/ Prepare \/ Enter \/ Native \/ Blit \/ BlitReturn \/ Generate \/ Drain \/ Wait
            \/ Over \/ Push
  BY <1>1, <1>11
     DEF Submit, Shift, Prepare, Enter, Native, Blit, BlitReturn, Generate, Drain, Wait, Over,
         Push
<1>12. CASE SetAsyncDepth \/ FlushStart \/ FlushStop \/ FlushStopped \/ StateDrain \/ StopBegin \/ StopEmpty
            \/ StopAgain \/ StopEscape \/ Start \/ Finalize \/ JobEnds \/ Chain \/ SerializedEvent
  BY <1>1, <1>12
     DEF SetAsyncDepth, FlushStart, FlushStop, FlushStopped, StateDrain, StopBegin, StopEmpty,
                     StopAgain, StopEscape, Start, Finalize, JobEnds, Chain, SerializedEvent
<1> QED BY <1>2, <1>3, <1>4, <1>5, <1>6, <1>7, <1>8, <1>9, <1>10, <1>11, <1>12
        DEF Next, Stream, StopSteps, ReapStep, Threads

LEMMA HeldLess ==
  ASSUME Types, RefsCounted, RefsCounted', \A f \in Frames : fr[f].refs = 0 => fr'[f].refs = 0,
         my'.cur \in Held \cup {NoBuf}, my'.out \in Held \cup {NoBuf}
  PROVE  Held' \subseteq Held
<1> SUFFICES ASSUME NEW n \in Bufs, n \in Held' PROVE n \in Held BY DEF Held
<1>1. n # NoBuf /\ <<n, "job">> \in Frames /\ <<n, "ready">> \in Frames BY FrameFacts
<1>2. CASE my'.cur = n \/ my'.out = n BY <1>1, <1>2
<1>3. CASE \E k \in {"job", "ready"} : Live(<<n, k>>)'
  <2>1. PICK k \in {"job", "ready"} : Live(<<n, k>>)' BY <1>3
  <2>2. PICK f \in Frames : f = <<n, k>> BY <1>1
  <2>3. Live(f)' BY <2>1, <2>2 DEF Live
  <2>4. fr'[f].refs # 0 BY <2>3, LiveOnes DEF Live
  <2>5. Live(f) BY <2>4, LiveOnes
  <2> QED BY <2>2, <2>5 DEF Held
<1> QED BY <1>2, <1>3 DEF Held

\* What a step gives back no job runs on.
LEMMA GivenBack ==
  ASSUME Types', RefsCounted', BusyOwned', UNCHANGED job, Held' \subseteq Held
  PROVE  Held \ Held' \in SUBSET Held /\ Lease!Released(Held \ Held')
<1>0. (Types /\ RefsCounted /\ BusyOwned => JobsHeld)' BY BusyHeld, PTL
<1>1. \A n \in Bufs : job'[n] = "busy" => n \in Held' BY <1>0 DEF JobsHeld
<1>2. \A n \in Held \ Held' : job[n] # "busy" BY <1>1 DEF Held
<1> QED BY <1>2 DEF Lease!Released

LEMMA LeaseStep ==
  ASSUME Inv, Inv', BusyInv, BusyInv', OrderInv, Next PROVE [Lease!Next]_(Lease!leaseVars)
<1> USE FrameFacts DEF Threads, Goto, rest
<1>0. /\ Types /\ Types' /\ Control /\ Control' /\ RefsCounted /\ RefsCounted' /\ BusyOwned'
      /\ el \in ElSet /\ fr \in [Frames -> FrSet] /\ my \in MySet /\ my' \in MySet
      /\ job \in [Bufs -> {"none", "busy", "done", "error"}]
  BY DEF Inv, BusyInv, Types
<1>1. my.cur \in Held \cup {NoBuf} /\ my.out \in Held \cup {NoBuf} BY <1>0 DEF MySet, Held, Live
<1>2. ASSUME UNCHANGED <<job, shown>>, Held' \subseteq Held PROVE [Lease!Next]_(Lease!leaseVars)
  <2>1. Held \ Held' \in SUBSET Held /\ Lease!Released(Held \ Held') BY <1>0, <1>2, GivenBack
  <2>2. Lease!Release(Held \ Held') BY <1>2, <2>1 DEF Lease!Release
  <2> QED BY <2>1, <2>2 DEF Lease!Next
<1>3. ASSUME UNCHANGED <<job, shown>>, my'.cur \in Held \cup {NoBuf}, my'.out \in Held \cup {NoBuf},
             ~Record, ~Converted
      PROVE  [Lease!Next]_(Lease!leaseVars)
  <2>1. \A f \in Frames : fr[f].refs = 0 => fr'[f].refs = 0 BY <1>0, <1>3, NoneNew
  <2> QED BY <1>0, <1>2, <1>3, <2>1, HeldLess
<1>4. ASSUME NEW n \in Bufs, n = my.cur, job[n] = "none", job' = [job EXCEPT ![n] = "busy"],
             UNCHANGED <<fr, shown, my.cur, my.out>>
      PROVE  Lease!Next
  <2>1. n \in Held BY <1>1, <1>4
  <2>2. Held' = Held BY <1>4 DEF Held, Live
  <2> QED BY <1>4, <2>1, <2>2 DEF Lease!Next, Lease!Begin
<1>5. CASE Record
  <2>1. CASE el.flushing
    <3>1. UNCHANGED <<job, shown, fr>> /\ my' = Idle BY <1>5, <2>1 DEF Record, Return
    <3>2. Held' \subseteq Held BY <1>0, <1>1, <3>1, HeldLess DEF Idle
    <3> QED BY <1>2, <3>1, <3>2
  <2>2. CASE ~el.flushing
    <3>1. UNCHANGED <<job, shown, my.cur, my.out>> /\ \A f \in Frames : f # JobFrame => fr'[f] = fr[f]
      BY <1>0, <1>5, <2>2 DEF Record, MySet
    <3>2. Held' \subseteq Held BY <3>1 DEF Held, Live, JobFrame
    <3> QED BY <1>2, <3>1, <3>2
  <2> QED BY <2>1, <2>2
<1>6. CASE Converted
  <2>1. UNCHANGED <<job, shown>> /\ my.cur # NoBuf
    BY <1>0, <1>6, ConvertedDoes DEF Control, At, Submitting
  <2>2. my'.cur = NoBuf /\ my'.out \in {NoBuf, my.cur} BY <1>6, <1>0, ConvertedDoes DEF Idle
  <2>3. CASE UNCHANGED fr
    <3>1. Held' \subseteq Held BY <1>0, <1>1, <2>2, <2>3, HeldLess
    <3> QED BY <1>2, <2>1, <3>1
  <2>4. CASE fr' = [fr EXCEPT ![<<my.cur, "ready">>] = [Blank EXCEPT !.refs = 1, !.out = TRUE]]
    <3>1. \A f \in Frames : f # <<my.cur, "ready">> => fr'[f] = fr[f] BY <1>0, <2>4
    <3>2. Held' \subseteq Held BY <1>1, <2>1, <2>2, <3>1 DEF Held, Live
    <3> QED BY <1>2, <2>1, <3>2
  <2> QED BY <1>0, <1>6, <2>3, <2>4, ConvertedDoes
<1>7. CASE Native
  <2>1. UNCHANGED <<fr, shown, my.cur, my.out>> /\ pc["S"] = "native"
        /\ (UNCHANGED job \/ job' = [job EXCEPT ![my.cur] = "busy"])
    BY <1>0, <1>7 DEF Native, MySet
  <2>2. my.cur \in Bufs /\ job[my.cur] = "none"
    BY <1>0, <2>1 DEF Inv, Unused, Control, At, Submitting, MySet
  <2>3. CASE UNCHANGED job
    <3>1. Held' \subseteq Held BY <2>1 DEF Held, Live
    <3> QED BY <1>2, <2>1, <2>3, <3>1
  <2> QED BY <1>4, <2>1, <2>2, <2>3
<1>8. CASE Blit
  <2>1. CASE job' = [job EXCEPT ![my.cur] = "busy"] /\ UNCHANGED <<my, fr, shown>>
    <3>1. pc["S"] = "blit" BY <1>8 DEF Blit
    <3>2. my.cur \in Bufs /\ job[my.cur] = "none"
      BY <1>0, <3>1 DEF Inv, Unused, Control, At, Submitting, MySet
    <3> QED BY <1>4, <2>1, <3>2
  <2>2. CASE UNCHANGED <<job, fr, shown>> /\ my' = Idle
    <3>1. Held' \subseteq Held BY <1>0, <2>2, HeldLess DEF Idle
    <3> QED BY <1>2, <2>2, <3>1
  <2> QED BY <1>8, <2>1, <2>2 DEF Blit, Return
<1>9. CASE JobEnds
  <2>1. PICK n \in Bufs, s \in {"done", "error"} : job[n] = "busy" /\ job' = [job EXCEPT ![n] = s]
    BY <1>9 DEF JobEnds
  <2>2. UNCHANGED shown /\ Held' = Held BY <1>9 DEF JobEnds, Held, Live
  <2> QED BY <2>1, <2>2 DEF Lease!Next, Lease!End
<1>10. CASE Push
  <2>1. UNCHANGED <<fr, job>> /\ pc["S"] = "push" /\ shown' = Append(shown, my.out) /\ my'.out = NoBuf
        /\ my'.cur \in {NoBuf, my.cur}
    BY <1>0, <1>10, PushDoes DEF Idle
  <2>2. my.out \in Bufs /\ my.out \in Held BY <1>0, <1>1, <2>1 DEF Control, At, MySet
  <2>3. Held' \subseteq Held BY <1>0, <1>1, <2>1, HeldLess
  <2>4. \E ns \in SUBSET Held : Lease!Released(ns) BY <1>0, <2>1, <2>3, GivenBack
  <2>5. job[my.out] = "done" BY <2>2 DEF OrderInv, SlotsDone
  <2>6. \A i \in 1..Len(shown) : shown[i] < my.out BY <2>2 DEF OrderInv, InOrder, Ordered
  <2> QED BY <2>1, <2>2, <2>4, <2>5, <2>6 DEF Lease!Next, Lease!Deliver
<1>11. CASE Chain
  <2>1. UNCHANGED <<fr, job, shown>> /\ my'.cur = fed + 1 /\ my'.out = NoBuf /\ pc["S"] = "idle" /\ fed < NBufs
    BY <1>11 DEF Chain, Idle
  <2>2. fed + 1 \in Bufs /\ fed + 1 > fed BY <1>0, <2>1, AsyncAssumption DEF Types, Bufs
  <2>3. my.cur = NoBuf /\ my.out = NoBuf BY <1>0, <2>1 DEF Control, At, Idle
  <2>4. job[fed + 1] = "none" /\ fr[<<fed + 1, "job">>].refs = 0 /\ fr[<<fed + 1, "ready">>].refs = 0
    BY <2>2 DEF Inv, Unused
  <2>5. ~Live(<<fed + 1, "job">>) /\ ~Live(<<fed + 1, "ready">>) BY <2>4 DEF Live
  <2>6. fed + 1 \notin Held BY <2>2, <2>3, <2>5 DEF Held, Live
  <2>7. Held' = Held \cup {fed + 1} BY <2>1, <2>2, <2>3 DEF Held, Live
  <2> QED BY <2>1, <2>2, <2>4, <2>6, <2>7 DEF Lease!Next, Lease!Lend
<1>12. CASE Taken
  <2>0. PICK h \in Frames : h = my.f BY <1>0, <1>12 DEF Taken, Control, MySet
  <2>1. UNCHANGED <<job, shown, my.cur>> /\ my'.out \in {my.out, h[1]} /\ pc["S"] = "taken"
    BY <1>0, <1>12, <2>0, TakenDoes
  <2>2. h[1] \in Held BY <1>0, <2>0, HolderLive
  <2>3. ~Record /\ ~Converted BY <2>1 DEF Record, Converted
  <2> QED BY <1>1, <1>3, <2>1, <2>2, <2>3
<1>13. ASSUME NEW t \in Threads, ReapStep(t), ~Record, ~Converted PROVE [Lease!Next]_(Lease!leaseVars)
  <2>1. UNCHANGED <<job, shown, my>> BY <1>13 DEF ReapStep, ReapSnapshot, ReapPoll, ReapEnd
  <2> QED BY <1>1, <1>3, <1>13, <2>1
<1>14. ASSUME ~Record, ~Converted, Submit \/ Shift \/ Prepare \/ Enter \/ Settle \/ BlitReturn \/ Generate
       PROVE  [Lease!Next]_(Lease!leaseVars)
  <2>1. UNCHANGED <<job, shown>> /\ (my' = Idle \/ UNCHANGED <<my.cur, my.out>>)
    BY <1>0, <1>14 DEF Submit, Shift, Prepare, Enter, Settle, BlitReturn, Generate, Return, MySet
  <2> QED BY <1>1, <1>3, <1>14, <2>1 DEF Idle
<1>15. ASSUME ~Record, ~Converted, Publish \/ Drain \/ Take \/ Wait \/ ReleaseFrame \/ Over \/ SerializedEvent
       PROVE  [Lease!Next]_(Lease!leaseVars)
  <2>1. CASE Publish BY <1>0, <1>1, <1>3, <1>15, <2>1, PublishDoes
  <2>2. CASE Drain
    <3>1. UNCHANGED <<job, shown>> /\ (UNCHANGED my \/ my' = Idle) BY <1>0, <2>2, DrainDoes
    <3> QED BY <1>1, <1>3, <1>15, <3>1 DEF Idle
  <2>3. CASE Take \/ Wait \/ ReleaseFrame \/ Over \/ SerializedEvent
    <3>1. UNCHANGED <<job, shown>>
          /\ (UNCHANGED <<my.cur, my.out>> \/ (my'.cur = NoBuf /\ my'.out = NoBuf))
      BY <1>0, <2>3 DEF Take, Wait, ReleaseFrame, Over, SerializedEvent, Return, Idle, MySet
    <3> QED BY <1>1, <1>3, <1>15, <3>1
  <2> QED BY <1>15, <2>1, <2>2, <2>3
<1>16. ASSUME ~Record, ~Converted,
              SetAsyncDepth \/ FlushStart \/ FlushStop \/ FlushStopped \/ StateDrain \/ StopBegin \/ StopEmpty
                \/ StopAgain \/ StopEscape \/ Start \/ Finalize \/ ReaperFrees
       PROVE  [Lease!Next]_(Lease!leaseVars)
  <2>1. UNCHANGED <<job, shown, my>>
    BY <1>16
       DEF SetAsyncDepth, FlushStart, FlushStop, FlushStopped, StateDrain, StopBegin, StopEmpty,
                 StopAgain, StopEscape, Start, Finalize, ReaperFrees
  <2> QED BY <1>1, <1>3, <1>16, <2>1
<1> QED BY <1>5, <1>6, <1>7, <1>8, <1>9, <1>10, <1>11, <1>12, <1>13, <1>14, <1>15, <1>16
        DEF Next, Stream, StopSteps

\* A buffer a job runs on is held, whatever the application does and whenever.
THEOREM NoJobOnFreeBuffer == Spec => []JobsHeld
<1>1. Inv /\ BusyInv => JobsHeld BY BusyHeld DEF Inv, BusyInv
<1> QED BY <1>1, Invariant, BusyInvariant, PTL

\* The converter keeps the promise of RgaDmaLease as long as the application
\* touches the element between buffers: what a job runs on stays lent until the
\* hardware's last word, and outputs come once, in order, of jobs that succeeded.
THEOREM LeaseRefined == ASSUME Calm PROVE Spec => LeaseKept
<1>1. Init => Lease!Init
  <2> SUFFICES ASSUME Init PROVE Lease!Init OBVIOUS
  <2>1. \A f \in Frames : ~Live(f) BY DEF Init, Live, Blank
  <2>2. Held = {} BY <2>1, FrameFacts DEF Held, Live, Init, Idle
  <2> QED BY <2>2 DEF Init, Lease!Init
<1>2. Inv /\ Inv' /\ BusyInv /\ BusyInv' /\ OrderInv /\ [Next]_vars => [Lease!Next]_(Lease!leaseVars)
  <2> SUFFICES ASSUME Inv, Inv', BusyInv, BusyInv', OrderInv, [Next]_vars
               PROVE  [Lease!Next]_(Lease!leaseVars)
    OBVIOUS
  <2>1. CASE Next BY <2>1, LeaseStep
  <2>2. CASE UNCHANGED vars
    <3>1. UNCHANGED <<job, shown, Held>> BY <2>2 DEF vars, Held, Live
    <3> QED BY <3>1 DEF Lease!leaseVars
  <2> QED BY <2>1, <2>2
<1> QED BY <1>1, <1>2, Invariant, BusyInvariant, OrderInvariant, PTL DEF Spec, LeaseKept, Lease!Spec
=============================================================================
