---------------------------- MODULE RgaCompositor ----------------------------
(***************************************************************************)
(* gstrgacompositor.c: one NV12 primary (pad 0) and one BGRA overlay (pad  *)
(* 1) composed into an NV12 output.  The aggregator's thread holds the     *)
(* video aggregator's lock from choosing the pads' current buffers to      *)
(* pushing; a flush of a pad takes its current buffer away without it, the *)
(* application requests and releases pads and sets the layout.             *)
(***************************************************************************)
EXTENDS Integers, FiniteSets

CONSTANTS
  Sizes,     \* output sizes <<width, height>>
  Customs,   \* rectangles the pads of a custom layout may be given
  Dynamic,   \* whether pads are released while the aggregator runs
  Flushes    \* bound: flushes of a pad

Pip == {"pip-top-right", "pip-top-left", "pip-bottom-right", "pip-bottom-left"}
Layouts == Pip \cup {"pbp-left-right", "pbp-top-bottom", "custom"}
NoRect == [x |-> 0, y |-> 0, w |-> 0, h |-> 0]

VARIABLES
  size,     \* negotiated output size
  layout,   \* self->layout
  custom,   \* the pads' geometry properties
  pads,     \* the request pads that exist
  current,  \* the pads that have a current buffer
  pc,       \* the aggregator's thread
  out,      \* its output buffer: none, from the pool, or the primary's own
  inputs,   \* what aggregate_frames has collected
  rects,    \* the rectangles it has calculated
  pool,     \* size of the overlay pool's buffers, <<0, 0>> without a pool
  drawn,    \* the passes done on the output, with the overlay's size
  locks,    \* holders of the aggregator's lock and of self->lock
  app,      \* the pad the application is releasing, -1 for none
  flushed   \* flushes so far

compVars == <<size, layout, custom, pads, current, pc, out, inputs, rects, pool, drawn,
              locks, app, flushed>>

Init ==
  /\ size \in Sizes
  /\ layout = "pip-top-right" /\ custom \in [0..1 -> Customs]
  /\ pads = {} /\ current = {} /\ pc = "idle" /\ out = "none"
  /\ inputs = {} /\ rects = [i \in 0..1 |-> NoRect] /\ pool = <<0, 0>>
  /\ drawn = [passes |-> {}, pat |-> <<0, 0>>]
  /\ locks = [agg |-> "none", self |-> "none"]
  /\ app = -1 /\ flushed = 0

frame == <<out, inputs, rects, pool, drawn>>

-----------------------------------------------------------------------------
(* Rectangles *)

EvenFloor(n) == n - (n % 2)

Valid(r, s) == /\ r.x >= 0 /\ r.y >= 0 /\ r.w > 0 /\ r.h > 0
               /\ r.x + r.w <= s[1] /\ r.y + r.h <= s[2]
               /\ \A n \in {r.x, r.y, r.w, r.h} : n % 2 = 0

\* gst_rga_compositor_calculate_rectangle; the caller refuses an invalid one.
RectOf(l, i, s, c) ==
  LET half(k) == EvenFloor(s[k] \div 2)
      margin(k) == EvenFloor(s[k] \div 20)
      right == l \in {"pip-top-right", "pip-bottom-right"}
      bottom == l \in {"pip-bottom-right", "pip-bottom-left"}
      rect(x, y, w, h) == [x |-> x, y |-> y, w |-> w, h |-> h]
  IN CASE l = "custom" -> c[i]
       [] l \in Pip /\ i = 0 -> rect(0, 0, s[1], s[2])
       [] l \in Pip /\ i = 1 ->
            rect(IF right THEN s[1] - margin(1) - half(1) ELSE margin(1),
                 IF bottom THEN s[2] - margin(2) - half(2) ELSE margin(2), half(1), half(2))
       [] l = "pbp-left-right" ->
            rect(IF i = 0 THEN 0 ELSE half(1), 0, IF i = 0 THEN half(1) ELSE s[1] - half(1), s[2])
       [] l = "pbp-top-bottom" ->
            rect(0, IF i = 0 THEN 0 ELSE half(2), s[1], IF i = 0 THEN half(2) ELSE s[2] - half(2))

-----------------------------------------------------------------------------
(* The application *)

Request(p) == /\ locks.self = "none" /\ p \in 0..1 \ pads
              /\ pads' = pads \cup {p}
              /\ UNCHANGED <<size, layout, custom, current, pc, frame, locks, app, flushed>>

SetLayout(l) == /\ locks.self = "none" /\ l # layout
                /\ layout' = l
                /\ UNCHANGED <<size, custom, pads, current, pc, frame, locks, app, flushed>>

\* gst_rga_compositor_release_pad: self->lock, then the parent's lock.
Release(p) ==
  /\ app = -1 /\ p \in pads /\ locks.self = "none"
  /\ Dynamic \/ pc = "idle"
  /\ app' = p /\ locks' = [locks EXCEPT !.self = "app"]
  /\ UNCHANGED <<size, layout, custom, pads, current, pc, frame, flushed>>

Released ==
  /\ app # -1 /\ locks.agg = "none"
  /\ pads' = pads \ {app} /\ current' = current \ {app}
  /\ app' = -1 /\ locks' = [locks EXCEPT !.self = "none"]
  /\ UNCHANGED <<size, layout, custom, pc, frame, flushed>>

\* External: a flush empties a pad; the aggregator's lock is not taken.
Flush(p) == /\ flushed < Flushes /\ p \in current
            /\ current' = current \ {p} /\ flushed' = flushed + 1
            /\ UNCHANGED <<size, layout, custom, pads, pc, frame, locks, app>>

\* gst_rga_compositor_stop and a new session.
Stop == /\ pc \in {"idle", "failed"} /\ app = -1
        /\ pc' = "idle" /\ pool' = <<0, 0>> /\ current' = {}
        /\ UNCHANGED <<size, layout, custom, pads, out, inputs, rects, drawn, locks, app, flushed>>

-----------------------------------------------------------------------------
(* One output interval *)

\* External: GstVideoAggregator locks and picks the interval's buffers.
Interval ==
  /\ pc = "idle" /\ locks.agg = "none"
  /\ Dynamic \/ app = -1
  /\ current' \in SUBSET pads
  /\ locks' = [locks EXCEPT !.agg = "src"]
  /\ pc' = "create" /\ out' = "none" /\ inputs' = {}
  /\ drawn' = [passes |-> {}, pat |-> <<0, 0>>]
  /\ UNCHANGED <<size, layout, custom, pads, rects, pool, app, flushed>>

\* Mutant of Output: a primary is passed through whatever there is to blend on it.
OutputAnyway(c, same) == IF 0 \notin c THEN "none" ELSE IF same THEN "primary" ELSE "pool"

\* Without a primary there is no output; alone and of the output's size it is
\* the output itself; else a buffer of the negotiated pool is taken.
Output(c, same) == IF 0 \notin c THEN "none"
                   ELSE IF c = {0} /\ same THEN "primary" ELSE "pool"

CreateOutput ==
  /\ pc = "create"
  /\ \E same \in BOOLEAN : out' = Output(current, same)
  /\ pc' = IF 0 \in current THEN "collect" ELSE "push"
  /\ UNCHANGED <<size, layout, custom, pads, current, inputs, rects, pool, drawn, locks, app,
                 flushed>>

\* aggregate_frames collects again, and leaves a passed primary as it is.
Collect ==
  /\ pc = "collect"
  /\ inputs' = current
  /\ pc' = CASE current = {} -> "push"
             [] current = {1} -> "failed"
             [] current = {0} /\ out = "primary" -> "push"
             [] OTHER -> "layout"
  /\ locks' = IF current = {1} THEN [locks EXCEPT !.agg = "none"] ELSE locks
  /\ UNCHANGED <<size, layout, custom, pads, current, out, rects, pool, drawn, app, flushed>>

\* The layout is read under self->lock, and the rectangles are calculated.
Whole == [x |-> 0, y |-> 0, w |-> size[1], h |-> size[2]]

Calculate ==
  /\ pc = "layout" /\ locks.self = "none"
  /\ rects' = IF inputs = {0} THEN [i \in 0..1 |-> Whole]
              ELSE [i \in 0..1 |-> RectOf(layout, i, size, custom)]
  /\ pc' = "check"
  /\ UNCHANGED <<size, layout, custom, pads, current, out, inputs, pool, drawn, locks, app,
                 flushed>>

\* A refused frame: the error ends the aggregator's thread.
Refuse ==
  /\ pc \in {"check", "copied", "scaled"}
  /\ pc' = "failed" /\ locks' = [locks EXCEPT !.agg = "none"]
  /\ UNCHANGED <<size, layout, custom, pads, current, frame, app, flushed>>

Passed(pass, pat) == drawn' = [passes |-> drawn.passes \cup {pass}, pat |-> pat]

Copy ==
  /\ pc = "check"
  /\ inputs = {0} \/ \A i \in 0..1 : Valid(rects[i], size)
  /\ Passed("copy", <<0, 0>>)
  /\ pc' = IF 1 \in inputs THEN "copied" ELSE "push"
  /\ UNCHANGED <<size, layout, custom, pads, current, out, inputs, rects, pool, locks, app,
                 flushed>>

\* The overlay pool is made anew when the rectangle's size is another.
AcquiredPool(r) == <<r.w, r.h>>

\* The overlay is of its rectangle's size, or is scaled to it; to make a pool,
\* self->lock is taken for the allocator.
Scale ==
  /\ pc = "copied"
  /\ \/ /\ drawn' = [drawn EXCEPT !.pat = <<rects[1].w, rects[1].h>>]
        /\ pool' = pool
     \/ /\ locks.self = "none" \/ pool = AcquiredPool(rects[1])
        /\ pool' = AcquiredPool(rects[1])
        /\ drawn' = [drawn EXCEPT !.pat = pool']
  /\ pc' = "scaled"
  /\ UNCHANGED <<size, layout, custom, pads, current, out, inputs, rects, locks, app, flushed>>

Blend ==
  /\ pc = "scaled"
  /\ Passed("blend", drawn.pat)
  /\ pc' = "push"
  /\ UNCHANGED <<size, layout, custom, pads, current, out, inputs, rects, pool, locks, app,
                 flushed>>

Push ==
  /\ pc = "push"
  /\ pc' = "idle" /\ locks' = [locks EXCEPT !.agg = "none"]
  /\ UNCHANGED <<size, layout, custom, pads, current, frame, app, flushed>>

Next ==
  \/ \E p \in 0..1 : Request(p) \/ Release(p) \/ Flush(p)
  \/ \E l \in Layouts : SetLayout(l)
  \/ Released \/ Stop \/ Interval \/ CreateOutput \/ Collect \/ Calculate
  \/ Refuse \/ Copy \/ Scale \/ Blend \/ Push

Spec == Init /\ [][Next]_compVars

-----------------------------------------------------------------------------
(* Properties *)

\* The presets fit every even output of four lines and columns or more, and
\* the halves of a picture-by-picture tile it.
PresetsFit ==
  size[1] >= 4 /\ size[2] >= 4 /\ size[1] % 2 = 0 /\ size[2] % 2 = 0 =>
    LET r(l, i) == RectOf(l, i, size, custom)
        area(q) == q.w * q.h
    IN \A l \in Layouts \ {"custom"} :
         /\ \A i \in 0..1 : Valid(r(l, i), size)
         /\ l \notin Pip => /\ area(r(l, 0)) + area(r(l, 1)) = size[1] * size[2]
                            /\ \/ r(l, 0).x + r(l, 0).w <= r(l, 1).x
                               \/ r(l, 0).y + r(l, 0).h <= r(l, 1).y

\* A composed output carries what was collected for it: the primary's copy,
\* then the overlay at its rectangle's size; the primary's own buffer, which
\* upstream still owns, is never drawn on.
ComposedWhole ==
  pc = "push" =>
    /\ out = "primary" => drawn.passes = {}
    /\ out = "pool" /\ 0 \in inputs =>
         /\ "copy" \in drawn.passes
         /\ 1 \in inputs => /\ "blend" \in drawn.passes
                            /\ drawn.pat = <<rects[1].w, rects[1].h>>

\* "Do not return OK with an allocated, unwritten surface either."
\* (docs/agents/frozen-contracts.md:209)
NothingUnwritten == pc = "push" /\ out = "pool" => "copy" \in drawn.passes

\* The two locks are not waited for in opposite orders.
NoStandoff == ~(pc \in {"layout", "copied"} /\ locks.self = "app" /\ app # -1)
=============================================================================
