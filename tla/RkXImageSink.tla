---------------------------- MODULE RkXImageSink ----------------------------
(***************************************************************************)
(* The X11/KMS video sink (ximagesink.c).  The streaming thread "S" shows  *)
(* pictures on a DRM plane and drains; the event thread "E" reads the X    *)
(* events of the window and repaints; the application "A" changes states   *)
(* and uses the overlay interface.  flow_lock and x_lock are modelled; a   *)
(* step is what a thread does between two points another can come between. *)
(*                                                                         *)
(* A picture is its number and where its memory is from: "kms" memory of   *)
(* the sink's allocator, an "import" of an upstream dmabuf, or a "dumb"    *)
(* copy.  A "dying" window is destroyed while xwindow still points to it.  *)
(* A use of xwindow while it is NULL ends the program: its action is not   *)
(* enabled.                                                                *)
(***************************************************************************)
EXTENDS Naturals

CONSTANTS
  MaxPics,        \* bound: pictures shown
  MaxCalls,       \* bound: overlay calls and property changes
  MaxDrains,      \* bound: queries and caps
  MaxCycles,      \* bound: times the element leaves NULL
  WindowVanishes  \* the user closes the window, or a handle of 0 comes before caps

ASSUME SinkAssumption ==
  /\ MaxPics \in Nat /\ MaxCalls \in Nat /\ MaxDrains \in Nat /\ MaxCycles \in Nat
  /\ WindowVanishes \in BOOLEAN

Threads == {"S", "E", "A"}
Kinds == {"kms", "import", "dumb"}
NoPic == [pic |-> 0, from |-> "none"]

VARIABLES
  life,    \* null, ready or paused; PLAYING is paused with el.paused FALSE
  el,      \* the element's flags
  window,  \* xwindow: none, live or dying
  lock,    \* who holds flow_lock and x_lock
  last,    \* last_buffer
  plane,   \* external: what the DRM plane scans out
  synced,  \* the vblank wait after the last SetPlane of this session succeeded
  pc, my,  \* where the threads are; their picture, result and return point
  left     \* what the bounds leave

vars == <<life, el, window, lock, last, plane, synced, pc, my, left>>

Local == [pic |-> NoPic, res |-> TRUE, copied |-> TRUE, then |-> "idle"]

Init ==
  /\ life = "null"
  /\ el = [ctx |-> FALSE, fd |-> FALSE, running |-> FALSE, thread |-> FALSE, expose |-> TRUE,
           events |-> TRUE, paused |-> FALSE, sized |-> FALSE, clip |-> FALSE]
  /\ window = "none"
  /\ lock = [flow |-> "free", x |-> "free"]
  /\ last = NoPic /\ plane = NoPic /\ synced = FALSE
  /\ pc = [t \in Threads |-> IF t = "E" THEN "none" ELSE "idle"]
  /\ my = [t \in Threads |-> Local]
  /\ left = [pics |-> MaxPics, calls |-> MaxCalls, drains |-> MaxDrains, cycles |-> MaxCycles]

Goto(t, l) == pc' = [pc EXCEPT ![t] = l]
Spend(k) == left[k] > 0 /\ left' = [left EXCEPT ![k] = @ - 1]

\* Call l, to go on at r.
Call(t, l, r) == Goto(t, l) /\ my' = [my EXCEPT ![t].then = r]

FlowFree == lock.flow = "free"
XFree == lock.x = "free"
Both(t) == [flow |-> t, x |-> t]
Neither == Both("free")

picture == <<last, plane, synced>>

-----------------------------------------------------------------------------
(* gst_x_image_sink_ximage_put: S with a picture, E and A to repaint.      *)

\* Only a drain looks at the result.
Return(t, ok) ==
  /\ Goto(t, my[t].then)
  /\ my' = [my EXCEPT ![t] = [Local EXCEPT !.res = my[t].then \in {"queried", "caps"} => ok,
                                          !.copied = my[t].copied]]

\* gst_kms_sink_get_input_buffer: KMS memory as it is, an import or a copy; or none.
InputOf(p) == IF p.from = "new" THEN [pic : {p.pic}, from : Kinds] \cup {NoPic} ELSE {p}

\* Mutant of PutBegin: flow_lock is not taken.
PutUnlocked(t) ==
  /\ pc[t] = "put"
  /\ IF window = "none" THEN Return(t, FALSE)
     ELSE \E p \in IF t = "S" THEN InputOf(my[t].pic) ELSE {last} :
            /\ my' = [my EXCEPT ![t].pic = p]
            /\ Goto(t, IF p = NoPic THEN "clear" ELSE "plane")
  /\ UNCHANGED <<life, el, window, lock, picture, left>>

PutBegin(t) ==
  /\ pc[t] = "put" /\ FlowFree
  /\ IF window = "none" THEN Return(t, FALSE) /\ UNCHANGED lock
     ELSE /\ lock' = [lock EXCEPT !.flow = t]
          /\ \E p \in IF t = "S" THEN InputOf(my[t].pic) ELSE {last} :
               /\ my' = [my EXCEPT ![t].pic = p]
               /\ Goto(t, IF p = NoPic THEN "clear" ELSE "plane")
  /\ UNCHANGED <<life, el, window, picture, left>>

\* No picture to show: the window is cleared, which counts as shown.
PutClear(t) ==
  /\ pc[t] = "clear" /\ XFree
  /\ lock' = Neither
  /\ Return(t, TRUE)
  /\ UNCHANGED <<life, el, window, picture, left>>

\* The colour key (its area forgotten on a repaint), the borders, the window's
\* position, then the plane.
PutPlane(t) ==
  /\ pc[t] = "plane" /\ XFree
  /\ el' = [el EXCEPT !.clip = (t = "S")]
  /\ \/ /\ el.fd
        /\ lock' = Both(t)
        /\ plane' = my[t].pic /\ synced' = FALSE
        /\ Goto(t, "sync") /\ UNCHANGED my
     \/ lock' = Neither /\ Return(t, FALSE) /\ UNCHANGED <<plane, synced>>
  /\ UNCHANGED <<life, window, last, left>>

\* Mutant of PutSync: last_buffer is replaced before the wait is over.
PutSyncEarly(t) ==
  /\ pc[t] = "sync"
  /\ \E ok \in BOOLEAN : /\ synced' = TRUE /\ Return(t, ok)
                         /\ last' = IF ok THEN last ELSE my[t].pic
  /\ lock' = Neither
  /\ UNCHANGED <<life, el, window, plane, left>>

\* gst_kms_sink_sync: the picture before is kept until this one is on screen.
PutSync(t) ==
  /\ pc[t] = "sync"
  /\ \/ last' = my[t].pic /\ synced' = TRUE /\ Return(t, TRUE)
     \/ Return(t, FALSE) /\ UNCHANGED <<last, synced>>
  /\ lock' = Neither
  /\ UNCHANGED <<life, el, window, plane, left>>

\* xwindow_update_geometry, the first half of expose, without flow_lock.
Geometry(t) ==
  /\ pc[t] = "geometry" /\ XFree
  /\ Goto(t, "put")
  /\ UNCHANGED <<life, el, window, lock, picture, my, left>>

PutStep(t) == PutBegin(t) \/ PutClear(t) \/ PutPlane(t) \/ PutSync(t)
Repaint(t) == Geometry(t) \/ PutStep(t)

-----------------------------------------------------------------------------
(* gst_x_image_sink_set_window_handle, by A, or by S when setcaps asks.    *)

\* A handle of 0 waits for the caps to make a window.
HandleGiven(t, next) ==
  /\ FlowFree
  /\ \/ /\ window = "live" /\ XFree
        /\ window' = "dying" /\ lock' = [lock EXCEPT !.flow = t]
        /\ Goto(t, "swap") /\ UNCHANGED el
     \/ /\ window = "none"
        /\ \E ok \in {el.ctx, TRUE} : /\ el' = [el EXCEPT !.ctx = ok]
                                      /\ window' = IF ok THEN "live" ELSE "none"
        /\ Goto(t, next) /\ UNCHANGED lock

SetHandle ==
  /\ pc["A"] = "idle" /\ life # "gone" /\ Spend("calls")
  /\ HandleGiven("A", "idle")
  /\ UNCHANGED <<life, picture, my>>

HandleSwapped(t) ==
  /\ pc[t] = "swap"
  /\ window' \in {"live"} \cup (IF WindowVanishes /\ ~el.sized THEN {"none"} ELSE {})
  /\ lock' = [lock EXCEPT !.flow = "free"]
  /\ Goto(t, IF t = "S" THEN "window" ELSE "idle")
  /\ UNCHANGED <<life, el, picture, my, left>>

-----------------------------------------------------------------------------
(* The streaming thread *)

Streaming == life = "paused" /\ pc["S"] = "idle" /\ pc["A"] # "deactivate"

ShowFrame ==
  /\ Streaming /\ el.sized /\ Spend("pics")
  /\ Goto("S", "put")
  /\ my' = [my EXCEPT !["S"].pic = [pic |-> left.pics, from |-> "new"], !["S"].then = "idle"]
  /\ UNCHANGED <<life, el, window, lock, picture>>

\* An allocation or drain query, or new caps.
DrainBegin ==
  /\ Streaming /\ Spend("drains")
  /\ \E r \in {"queried", "caps"} : Call("S", "drain", r)
  /\ UNCHANGED <<life, el, window, lock, picture>>

\* gst_kms_sink_drain: only an imported picture has a parent buffer; it is
\* shown again as a copy, or as it is if the copy fails.
Drain ==
  /\ pc["S"] = "drain"
  /\ IF last.from # "import"
     THEN Goto("S", my["S"].then) /\ UNCHANGED my
     ELSE /\ \E ok \in BOOLEAN :
               my' = [my EXCEPT !["S"].copied = ok,
                                !["S"].pic = IF ok THEN [last EXCEPT !.from = "dumb"] ELSE last]
          /\ Goto("S", "put")
  /\ UNCHANGED <<life, el, window, lock, picture, left>>

Queried ==
  /\ pc["S"] = "queried" /\ Goto("S", "idle") /\ my' = [my EXCEPT !["S"] = Local]
  /\ UNCHANGED <<life, el, window, lock, picture, left>>

\* setcaps: refused, or the size is known and the application may give a handle.
Caps ==
  /\ pc["S"] = "caps" /\ my' = [my EXCEPT !["S"] = Local]
  /\ \/ Goto("S", "idle") /\ UNCHANGED el
     \/ /\ FlowFree
        /\ Goto("S", IF window = "none" THEN "prepare" ELSE "window")
        /\ el' = [el EXCEPT !.sized = TRUE]
  /\ UNCHANGED <<life, window, lock, picture, left>>

Prepare ==
  /\ pc["S"] = "prepare"
  /\ \/ HandleGiven("S", "window")
     \/ Goto("S", "window") /\ UNCHANGED <<el, window, lock>>
  /\ UNCHANGED <<life, picture, my, left>>

\* The new pool has replaced the old; a window is made if there is none.
CapsWindow ==
  /\ pc["S"] = "window" /\ FlowFree /\ XFree
  /\ window' = IF window = "none" THEN "live" ELSE window
  /\ Goto("S", "idle")
  /\ UNCHANGED <<life, el, lock, picture, my, left>>

Stream == PutStep("S") \/ HandleSwapped("S") \/ Drain \/ Queried \/ Caps \/ Prepare \/ CapsWindow

-----------------------------------------------------------------------------
(* The event thread *)

\* It looks at xwindow without a lock.
EvCheck ==
  /\ pc["E"] = "check"
  /\ Goto("E", IF ~el.running THEN "none" ELSE IF window # "none" THEN "lock" ELSE "check")
  /\ UNCHANGED <<life, el, window, lock, picture, my, left>>

EvLock ==
  /\ pc["E"] = "lock" /\ FlowFree /\ XFree /\ window # "none"
  /\ lock' = Both("E")
  /\ Goto("E", "events")
  /\ UNCHANGED <<life, el, window, picture, my, left>>

\* A pointer, button or key event is sent upstream without the locks.
EvInput ==
  /\ pc["E"] = "events" /\ window # "none"
  /\ lock' = Neither
  /\ Goto("E", "lock")
  /\ UNCHANGED <<life, el, window, picture, my, left>>

EvExposed ==
  /\ pc["E"] = "events" /\ window # "none"
  /\ \/ el.expose /\ lock' = Neither /\ Call("E", "geometry", "relock")
     \/ Goto("E", "pending") /\ UNCHANGED <<lock, my>>
  /\ UNCHANGED <<life, el, window, picture, left>>

EvRelock ==
  /\ pc["E"] = "relock" /\ FlowFree /\ XFree
  /\ lock' = Both("E")
  /\ Goto("E", "pending")
  /\ UNCHANGED <<life, el, window, picture, my, left>>

\* WM_DELETE_WINDOW: an error is posted and the window destroyed under flow_lock.
EvClose ==
  /\ pc["E"] = "pending" /\ WindowVanishes /\ window = "live"
  /\ window' = "dying"
  /\ lock' = [lock EXCEPT !.x = "free"]
  /\ Goto("E", "closing")
  /\ UNCHANGED <<life, el, picture, my, left>>

EvClosed ==
  /\ pc["E"] = "closing" /\ XFree
  /\ window' = "none"
  /\ lock' = Both("E")
  /\ Goto("E", "pending")
  /\ UNCHANGED <<life, el, picture, my, left>>

\* In PAUSED, a window that moved is repainted.
EvMoved ==
  /\ pc["E"] = "pending" /\ (el.paused => window # "none")
  /\ lock' = Neither
  /\ \/ el.paused /\ Call("E", "geometry", "check")
     \/ Goto("E", "check") /\ UNCHANGED my
  /\ UNCHANGED <<life, el, window, picture, left>>

Events == EvCheck \/ EvLock \/ EvRelock \/ EvClosed \/ EvMoved \/ Repaint("E")

-----------------------------------------------------------------------------
(* The application *)

\* gst_x_image_sink_manage_event_thread, with the flags and context of e.
Wanted(e) == e.expose \/ e.events
Managed(e, busy) ==
  IF e.ctx /\ Wanted(e) /\ ~e.thread
  THEN /\ el' = [e EXCEPT !.running = TRUE, !.thread = TRUE]
       /\ pc' = [pc EXCEPT !["A"] = busy, !["E"] = "check"]
  ELSE IF e.ctx /\ ~Wanted(e) /\ e.thread
  THEN /\ el' = [e EXCEPT !.running = FALSE, !.thread = FALSE]
       /\ Goto("A", "join")
  ELSE el' = e /\ Goto("A", busy)

\* gst_x_image_sink_set_event_handling selects the events of the window it finds.
EventsSelected == FlowFree /\ (window # "none" => XFree)

\* The handle-expose and handle-events properties.
SetProperty ==
  /\ pc["A"] = "idle" /\ life # "gone" /\ Spend("calls")
  /\ \E k \in {"expose", "events"} : /\ k = "events" => EventsSelected
                                     /\ Managed([el EXCEPT ![k] = ~@], "idle")
  /\ UNCHANGED <<life, window, lock, picture, my>>

Joined ==
  /\ pc["A"] = "join" /\ pc["E"] = "none"
  /\ Goto("A", "idle")
  /\ UNCHANGED <<life, el, window, lock, picture, my, left>>

Expose ==
  /\ pc["A"] = "idle" /\ life # "gone" /\ Spend("calls")
  /\ Call("A", "geometry", "idle")
  /\ UNCHANGED <<life, el, window, lock, picture>>

\* NULL to READY: the display is opened and its events read before start.
ToReady ==
  /\ pc["A"] = "idle" /\ life = "null" /\ Spend("cycles")
  /\ Managed([el EXCEPT !.ctx = TRUE], "start")
  /\ UNCHANGED <<life, window, lock, picture, my>>

\* gst_x_image_sink_start: a failure leaves the display and the thread behind.
Start ==
  /\ pc["A"] = "start"
  /\ \/ el' = [el EXCEPT !.fd = TRUE] /\ life' = "ready" /\ synced' = FALSE
     \/ UNCHANGED <<el, life, synced>>
  /\ Goto("A", "idle")
  /\ UNCHANGED <<window, lock, last, plane, my, left>>

ToPaused ==
  /\ pc["A"] = "idle" /\ life = "ready"
  /\ el' = [el EXCEPT !.paused = TRUE]
  /\ Goto("A", "wclear")
  /\ UNCHANGED <<life, window, lock, picture, my, left>>

WindowCleared ==
  /\ pc["A"] = "wclear" /\ FlowFree /\ XFree
  /\ life' = "paused"
  /\ Goto("A", "idle")
  /\ UNCHANGED <<el, window, lock, picture, my, left>>

TogglePlaying ==
  /\ pc["A"] = "idle" /\ life = "paused"
  /\ el' = [el EXCEPT !.paused = ~@]
  /\ UNCHANGED <<life, window, lock, picture, pc, my, left>>

\* PAUSED to READY: the pad is deactivated, then the parent has returned.
Deactivate ==
  /\ pc["A"] = "idle" /\ life = "paused" /\ el.paused
  /\ Goto("A", "deactivate")
  /\ UNCHANGED <<life, el, window, lock, picture, my, left>>

Deactivated ==
  /\ pc["A"] = "deactivate" /\ pc["S"] = "idle"
  /\ life' = "ready"
  /\ el' = [el EXCEPT !.paused = FALSE, !.sized = FALSE]
  /\ Goto("A", "idle")
  /\ UNCHANGED <<window, lock, picture, my, left>>

\* gst_x_image_sink_stop, with neither lock: the colour key is painted over.
Stop ==
  /\ pc["A"] = "idle" /\ life = "ready" /\ (el.clip => window # "none")
  /\ last' = NoPic /\ synced' = FALSE
  /\ plane' \in {plane, NoPic}
  /\ el' = [el EXCEPT !.fd = FALSE]
  /\ life' = "null"
  /\ Goto("A", "reset")
  /\ UNCHANGED <<window, lock, my, left>>

\* The element is disposed of in NULL: finalize resets it again.
Dispose ==
  /\ pc["A"] = "idle" /\ life = "null" /\ el.ctx
  /\ life' = "gone"
  /\ Goto("A", "reset")
  /\ UNCHANGED <<el, window, lock, picture, my, left>>

\* Mutant of Reset: running is left set.
ResetRunning ==
  /\ pc["A"] = "reset"
  /\ el' = [el EXCEPT !.thread = FALSE]
  /\ Goto("A", "rejoin")
  /\ UNCHANGED <<life, window, lock, picture, my, left>>

\* gst_x_image_sink_reset joins the event thread before it frees anything.
Reset ==
  /\ pc["A"] = "reset"
  /\ el' = [el EXCEPT !.running = FALSE, !.thread = FALSE]
  /\ Goto("A", "rejoin")
  /\ UNCHANGED <<life, window, lock, picture, my, left>>

\* Mutant of ResetJoined: the event thread is not waited for.
ResetUnjoined ==
  /\ pc["A"] = "rejoin" /\ FlowFree /\ XFree
  /\ last' = NoPic /\ window' = "none"
  /\ el' = [el EXCEPT !.ctx = FALSE]
  /\ Goto("A", "idle")
  /\ UNCHANGED <<life, lock, plane, synced, my, left>>

ResetJoined ==
  /\ pc["A"] = "rejoin" /\ pc["E"] = "none" /\ FlowFree /\ XFree
  /\ last' = NoPic /\ window' = "none"
  /\ el' = [el EXCEPT !.ctx = FALSE]
  /\ Goto("A", "idle")
  /\ UNCHANGED <<life, lock, plane, synced, my, left>>

Application == \/ HandleSwapped("A") \/ Joined \/ Repaint("A") \/ Start \/ WindowCleared
               \/ Deactivated \/ Reset \/ ResetJoined

Next == \/ Stream \/ Events \/ EvInput \/ EvExposed \/ EvClose \/ Application
        \/ ShowFrame \/ DrainBegin \/ SetHandle \/ SetProperty \/ Expose \/ ToReady
        \/ ToPaused \/ TogglePlaying \/ Deactivate \/ Stop \/ Dispose

Spec == Init /\ [][Next]_vars

\* A thread that runs goes on, and the X events in the queue come to an end.
FairSpec == /\ Spec /\ WF_vars(Stream) /\ WF_vars(Application) /\ WF_vars(Events)
            /\ SF_vars(EvExposed)

-----------------------------------------------------------------------------
(* Properties *)

TypeOK ==
  /\ life \in {"null", "ready", "paused", "gone"} /\ window \in {"none", "live", "dying"}
  /\ lock \in [{"flow", "x"} -> Threads \cup {"free"}]
  /\ last.pic \in 0..MaxPics /\ plane.pic \in 0..MaxPics
  /\ last.from \in Kinds \cup {"none"} /\ plane.from \in Kinds \cup {"none"}

\* The picture on the plane is the one last_buffer holds, so that nobody
\* writes to it, unless its vblank wait failed (ximage_put, stop, drain).
PictureHeld == el.fd /\ FlowFree /\ synced => plane = last

\* A drain gives the upstream buffer back, unless the copy or showing it
\* failed (gst_kms_sink_drain against repaints of the event thread).
DrainReleases ==
  pc["S"] \in {"queried", "caps"} /\ my["S"].res /\ my["S"].copied => last.from # "import"

\* Where the event thread is about to use xwindow, and where stop would.
UsesWindow == \/ pc["E"] \in {"lock", "events"}
              \/ pc["E"] = "pending" /\ el.paused
              \/ life = "ready" /\ pc["A"] = "idle" /\ el.clip

\* No use of xwindow, of the event thread or of stop, finds NULL: closing the
\* window is handled "by posting an error on the bus".
WindowThere == UsesWindow => window # "none"

\* The event thread lives inside the display connection, and a picture is put
\* on a window nobody is taking away (set_window_handle, reset).
WindowKept ==
  /\ pc["E"] # "none" => el.ctx
  /\ \A t \in Threads : pc[t] \in {"clear", "plane", "sync"} => window = "live"

\* The joins of the event thread return (reset and manage_event_thread), unless
\* it found no window: see WindowThere.
JoinReturns == pc["A"] \in {"join", "rejoin"} ~> pc["A"] = "idle" \/ ~WindowThere
=============================================================================
