------------------------- MODULE RkXImageSink_proofs -------------------------
(***************************************************************************)
(* Proofs about the X11/KMS video sink: the picture on the plane, what a   *)
(* drain gives back and the life of the window hold whatever the bounds,   *)
(* whatever the threads' interleaving and whether or not windows vanish.   *)
(*                                                                         *)
(* The invariant has seven parts.  Typed and Placed say where each thread  *)
(* can be; Locked ties the two locks to the places of the threads; Phased  *)
(* ties the element's state to them; Windowed, Pictured and Drained are    *)
(* the strengthenings of the three properties.                             *)
(***************************************************************************)
EXTENDS RkXImageSink, TLAPS

-----------------------------------------------------------------------------
(* The invariant *)

\* Inside ximage_put, past its entry: flow_lock is held.
Showing == {"clear", "plane", "sync"}
UnderFlow == Showing \cup {"swap", "events", "pending", "closing"}
UnderX == {"sync", "events", "pending"}

\* Where each thread can be.
Places(t) ==
  Showing \cup {"put"} \cup
  CASE t = "S" -> {"idle", "drain", "queried", "caps", "prepare", "swap", "window"}
    [] t = "E" -> {"none", "check", "lock", "events", "geometry", "relock", "pending", "closing"}
    [] t = "A" -> {"idle", "geometry", "swap", "join", "start", "wclear", "deactivate",
                   "reset", "rejoin"}

Labels == UNION {Places(t) : t \in Threads}

\* Where ximage_put or a drain may return to.
Returns(t) ==
  CASE t = "S" -> {"idle", "queried", "caps"}
    [] t = "E" -> {"idle", "check", "relock"}
    [] t = "A" -> {"idle"}

Flags == {"ctx", "fd", "running", "thread", "expose", "events", "paused", "sized", "clip"}
Elements == [Flags -> BOOLEAN]

\* A picture that is nobody's input any more, and one that may still be.
Shown == [pic : 0..MaxPics, from : Kinds \cup {"none"}]
Given == [pic : 0..MaxPics, from : Kinds \cup {"none", "new"}]
Locals == [pic : Given, res : BOOLEAN, copied : BOOLEAN,
           then : {"idle", "queried", "caps", "check", "relock"}]

Typed ==
  /\ life \in {"null", "ready", "paused", "gone"} /\ window \in {"none", "live", "dying"}
  /\ lock \in [{"flow", "x"} -> Threads \cup {"free"}]
  /\ last \in Shown /\ plane \in Shown /\ synced \in BOOLEAN
  /\ el \in Elements
  /\ pc \in [Threads -> Labels] /\ my \in [Threads -> Locals]
  /\ left \in [pics : 0..MaxPics, calls : Nat, drains : Nat, cycles : Nat]

\* Each thread is at a place of its own; what is shown is not a fresh input.
Placed ==
  /\ \A t \in Threads : pc[t] \in Places(t) /\ my[t].then \in Returns(t)
  /\ pc["E"] \in Showing \cup {"geometry", "put"} => my["E"].then # "idle"
  /\ \A t \in Threads : pc[t] \in Showing => my[t].pic \in Shown

\* Who holds each lock is told by where the threads are.
Locked == \A t \in Threads : /\ lock.flow = t <=> pc[t] \in UnderFlow
                             /\ lock.x = t <=> pc[t] \in UnderX

\* The application is in gst_x_image_sink_reset.
Going == pc["A"] \in {"reset", "rejoin"}

\* The phases of the element: it streams in PAUSED, its plane is there from start
\* to stop, its event thread is known of or being joined and has a display.
Phased ==
  /\ pc["S"] # "idle" => life = "paused"
  /\ Going => life \in {"null", "gone"}
  /\ life \in {"null", "gone"} => ~el.fd
  /\ pc["A"] = "start" => life = "null"
  /\ pc["A"] = "wclear" => life = "ready"
  /\ pc["A"] = "deactivate" => life = "paused"
  /\ ~el.thread => pc["E"] = "none" \/ pc["A"] \in {"join", "rejoin"}
  /\ pc["E"] # "none" => el.ctx

\* A window that dies is in the hands of the thread that destroys it, and a
\* picture is put on a live one.
Windowed ==
  /\ window = "dying" => \E t \in Threads : pc[t] \in {"swap", "closing"}
  /\ \A t \in Threads : pc[t] \in Showing => window = "live"

\* The plane shows the picture about to be waited for, or last_buffer; who
\* repaints shows last_buffer, unless the element is being reset.
Pictured ==
  /\ synced /\ el.fd => plane = last
  /\ \A t \in Threads : pc[t] = "sync" => Going \/ (el.fd /\ plane = my[t].pic)
  /\ \A t \in {"E", "A"} : pc[t] \in Showing => my[t].pic = last \/ Going

\* A drain that made a copy shows that copy.
Drained ==
  /\ pc["S"] = "drain" => my["S"].then \in {"queried", "caps"}
  /\ (/\ pc["S"] \in Showing \cup {"put"}
      /\ my["S"].then \in {"queried", "caps"} /\ my["S"].copied) => my["S"].pic.from = "dumb"
  /\ pc["S"] = "clear" => my["S"].pic = NoPic
  /\ DrainReleases

SinkInv == Typed /\ Placed /\ Locked /\ Phased /\ Windowed /\ Pictured /\ Drained

-----------------------------------------------------------------------------
(* What the helpers return *)

LEMMA LocalTyped == Local \in Locals
PROOF BY SinkAssumption DEF Locals, Kinds, Given, Local, NoPic

LEMMA NoPicTyped == NoPic \in Shown /\ NoPic \in Given
PROOF BY SinkAssumption DEF Shown, Kinds, Given, NoPic

LEMMA ShownGiven == \A p \in Shown : p \in Given /\ [p EXCEPT !.from = "dumb"] \in Given
PROOF BY DEF Shown, Given, Kinds

LEMMA InputTyped == \A q \in Given : \A p \in InputOf(q) : p \in Shown
PROOF
  <1> SUFFICES ASSUME NEW q \in Given, NEW p \in InputOf(q) PROVE p \in Shown
    OBVIOUS
  <1>1. CASE q.from = "new"
    <2>1. p \in [pic : {q.pic}, from : Kinds] \/ p = NoPic
      BY <1>1 DEF InputOf
    <2>2. ASSUME p \in [pic : {q.pic}, from : Kinds] PROVE p \in Shown
      BY <2>2 DEF Given, Shown
    <2> QED
      BY <2>1, <2>2, NoPicTyped
  <1>2. CASE q.from # "new"
    BY <1>2 DEF InputOf, Given, Shown, Kinds
  <1> QED
    BY <1>1, <1>2

LEMMA ReturnTyped ==
  ASSUME Typed, Placed, NEW t \in Threads, NEW ok \in BOOLEAN, Return(t, ok),
         pc[t] \in Showing \cup {"put"}
  PROVE  pc' \in [Threads -> Labels] /\ my' \in [Threads -> Locals]
PROOF
  <1>1. pc' = [pc EXCEPT ![t] = my[t].then] /\ my[t].then \in Labels
    <2>1. my[t].then \in Places(t)
      BY DEF Placed, Returns, Places, Threads, Showing
    <2> QED
      BY <2>1 DEF Return, Goto, Labels
  <1>2. DEFINE new == [Local EXCEPT !.res = my[t].then \in {"queried", "caps"} => ok,
                                    !.copied = my[t].copied]
  <1>3. new \in Locals
    <2>1. my[t].copied \in BOOLEAN /\ (my[t].then \in {"queried", "caps"} => ok) \in BOOLEAN
      BY DEF Typed, Locals
    <2> QED
      BY <2>1, LocalTyped DEF Locals
  <1>4. my' = [my EXCEPT ![t] = new]
    BY DEF Return
  <1> HIDE DEF new
  <1> QED
    BY <1>1, <1>3, <1>4 DEF Typed

LEMMA GivenTyped ==
  ASSUME my \in [Threads -> Locals], NEW p \in Given, NEW t \in Threads, NEW c \in BOOLEAN,
         NEW r \in {"idle", "queried", "caps", "check", "relock"}
  PROVE  /\ [my EXCEPT ![t].pic = p] \in [Threads -> Locals]
         /\ [my EXCEPT ![t].then = r] \in [Threads -> Locals]
         /\ [my EXCEPT ![t].pic = p, ![t].copied = c] \in [Threads -> Locals]
         /\ [my EXCEPT ![t].pic = p, ![t].then = r] \in [Threads -> Locals]
         /\ [my EXCEPT ![t].copied = c, ![t].pic = p] \in [Threads -> Locals]
PROOF BY ZenonT(90) DEF Locals

LEMMA FlagSet == ASSUME el \in Elements, NEW k \in Flags, NEW e \in BOOLEAN
                 PROVE  [el EXCEPT ![k] = e] \in Elements
PROOF BY DEF Elements

LEMMA PicShown ==
  ASSUME Placed, NEW t \in Threads, pc[t] \in Showing
  PROVE  my[t].pic \in Shown
PROOF BY DEF Placed

LEMMA ManagedTyped ==
  ASSUME NEW e \in Elements, NEW b, Managed(e, b)
  PROVE  el' \in Elements
PROOF BY ZenonT(40) DEF Managed, Elements, Flags

LEMMA ReturnSteps ==
  ASSUME Typed, NEW t \in Threads, NEW ok \in BOOLEAN, Return(t, ok)
  PROVE  /\ pc' = [pc EXCEPT ![t] = my[t].then]
         /\ \A u \in Threads : u # t => my'[u] = my[u]
         /\ my'[t].pic = NoPic /\ my'[t].then = "idle" /\ my'[t].copied = my[t].copied
         /\ my[t].then \in {"queried", "caps"} => my'[t].res = ok
PROOF BY DEF Return, Goto, Local, Typed

LEMMA BeginSteps ==
  ASSUME Typed, NEW t \in Threads, PutBegin(t)
  PROVE  \/ window = "none" /\ Return(t, FALSE) /\ lock' = lock
         \/ \E p \in Shown :
              /\ window # "none"
              /\ lock' = [lock EXCEPT !.flow = t]
              /\ pc' = [pc EXCEPT ![t] = IF p = NoPic THEN "clear" ELSE "plane"]
              /\ my' = [my EXCEPT ![t].pic = p]
              /\ t # "S" => p = last
              /\ t = "S" /\ my[t].pic.from # "new" => p = my[t].pic
PROOF
  <1>1. CASE window = "none"
    BY <1>1 DEF PutBegin
  <1>2. CASE window # "none"
    <2>1. PICK p \in IF t = "S" THEN InputOf(my[t].pic) ELSE {last} :
            my' = [my EXCEPT ![t].pic = p] /\ Goto(t, IF p = NoPic THEN "clear" ELSE "plane")
      BY <1>2 DEF PutBegin
    <2>2. my[t].pic \in Given
      BY DEF Typed, Locals
    <2>3. p \in Shown
      BY <2>1, <2>2, InputTyped DEF Typed
    <2>4. t = "S" /\ my[t].pic.from # "new" => p = my[t].pic
      BY <2>1 DEF InputOf
    <2>5. lock' = [lock EXCEPT !.flow = t] /\ (t # "S" => p = last)
      BY <1>2, <2>1 DEF PutBegin
    <2> QED
      BY <1>2, <2>1, <2>3, <2>4, <2>5 DEF Goto
  <1> QED
    BY <1>1, <1>2

LEMMA ManagedCases ==
  ASSUME NEW e \in Elements, NEW b, Managed(e, b)
  PROVE  \/ /\ el' = [e EXCEPT !.running = TRUE, !.thread = TRUE]
            /\ pc' = [pc EXCEPT !["A"] = b, !["E"] = "check"]
            /\ e.ctx /\ ~e.thread
         \/ /\ el' = [e EXCEPT !.running = FALSE, !.thread = FALSE]
            /\ pc' = [pc EXCEPT !["A"] = "join"]
         \/ el' = e /\ pc' = [pc EXCEPT !["A"] = b]
PROOF BY DEF Managed, Goto

LEMMA ManageSteps ==
  ASSUME Typed, Placed, Phased, SetProperty \/ ToReady
  PROVE  /\ pc["A"] = "idle" /\ pc'["S"] = pc["S"]
         /\ pc'["A"] \in {"idle", "start", "join"}
         /\ pc'["A"] = "start" => life = "null"
         /\ pc'["E"] = pc["E"] \/ (pc["E"] = "none" /\ pc'["E"] = "check" /\ el'.ctx /\ el'.thread)
         /\ el'.fd = el.fd
         /\ el.ctx => el'.ctx
         /\ ~el'.thread => pc'["A"] = "join" \/ (~el.thread /\ pc'["E"] = pc["E"])
         /\ life' = life /\ window' = window /\ lock' = lock /\ last' = last /\ plane' = plane
         /\ synced' = synced /\ my' = my
PROOF
  <1>1. PICK e \in Elements, b \in {"idle", "start"} :
          /\ Managed(e, b) /\ e.fd = el.fd /\ e.thread = el.thread /\ (el.ctx => e.ctx)
          /\ b = "start" => life = "null"
    <2>1. CASE SetProperty
      <3>1. PICK k \in {"expose", "events"} : Managed([el EXCEPT ![k] = ~el[k]], "idle")
        BY <2>1 DEF SetProperty
      <3>2. k \in Flags /\ (~el[k]) \in BOOLEAN
        BY <3>1 DEF Flags
      <3>3. [el EXCEPT ![k] = ~el[k]] \in Elements
        BY <3>1, <3>2, FlagSet DEF Typed
      <3>4. /\ [el EXCEPT ![k] = ~el[k]].fd = el.fd /\ [el EXCEPT ![k] = ~el[k]].thread = el.thread
            /\ [el EXCEPT ![k] = ~el[k]].ctx = el.ctx
        BY <3>2 DEF Typed, Elements, Flags
      <3> QED
        BY <3>1, <3>3, <3>4
    <2>2. CASE ToReady
      <3>1. /\ [el EXCEPT !.ctx = TRUE] \in Elements /\ [el EXCEPT !.ctx = TRUE].fd = el.fd
            /\ [el EXCEPT !.ctx = TRUE].thread = el.thread /\ [el EXCEPT !.ctx = TRUE].ctx
        BY DEF Typed, Elements, Flags
      <3>2. Managed([el EXCEPT !.ctx = TRUE], "start") /\ life = "null"
        BY <2>2 DEF ToReady
      <3> QED
        BY <3>1, <3>2
    <2> QED
      BY <2>1, <2>2
  <1>2. /\ pc["A"] = "idle" /\ life' = life /\ window' = window /\ lock' = lock /\ last' = last
        /\ plane' = plane /\ synced' = synced /\ my' = my
    BY DEF SetProperty, ToReady, picture
  <1>3. ~el.thread => pc["E"] = "none"
    BY <1>2 DEF Phased
  <1>4. CASE /\ el' = [e EXCEPT !.running = TRUE, !.thread = TRUE]
             /\ pc' = [pc EXCEPT !["A"] = b, !["E"] = "check"]
             /\ e.ctx /\ ~e.thread
    <2>1. el'.fd = e.fd /\ el'.ctx = e.ctx /\ el'.thread
      BY <1>4 DEF Elements, Flags
    <2>2. pc'["A"] = b /\ pc'["E"] = "check" /\ pc'["S"] = pc["S"]
      BY <1>4 DEF Typed, Threads
    <2> QED
      BY <1>1, <1>2, <1>3, <1>4, <2>1, <2>2
  <1>5. CASE /\ el' = [e EXCEPT !.running = FALSE, !.thread = FALSE]
             /\ pc' = [pc EXCEPT !["A"] = "join"]
    <2>1. el'.fd = e.fd /\ el'.ctx = e.ctx
      BY <1>5 DEF Elements, Flags
    <2>2. pc'["A"] = "join" /\ pc'["E"] = pc["E"] /\ pc'["S"] = pc["S"]
      BY <1>5 DEF Typed, Threads
    <2> QED
      BY <1>1, <1>2, <2>1, <2>2
  <1>6. CASE el' = e /\ pc' = [pc EXCEPT !["A"] = b]
    <2>1. pc'["A"] = b /\ pc'["E"] = pc["E"] /\ pc'["S"] = pc["S"]
      BY <1>6 DEF Typed, Threads
    <2> QED
      BY <1>1, <1>2, <1>6, <2>1
  <1> QED
    BY <1>1, <1>4, <1>5, <1>6, ManagedCases

LEMMA DrainSteps ==
  ASSUME Typed, Drain
  PROVE  /\ pc["S"] = "drain"
         /\ \/ /\ last.from # "import" /\ my' = my
               /\ pc' = [pc EXCEPT !["S"] = my["S"].then]
            \/ /\ pc' = [pc EXCEPT !["S"] = "put"]
               /\ my'["S"].then = my["S"].then
               /\ my'["S"].copied => my'["S"].pic.from = "dumb"
               /\ \A u \in Threads : u # "S" => my'[u] = my[u]
         /\ life' = life /\ el' = el /\ window' = window /\ lock' = lock /\ last' = last
         /\ plane' = plane /\ synced' = synced
PROOF
  <1>1. CASE last.from # "import"
    BY <1>1 DEF Drain, Goto, picture
  <1>2. CASE last.from = "import"
    <2>1. PICK ok \in BOOLEAN :
            my' = [my EXCEPT !["S"].copied = ok,
                             !["S"].pic = IF ok THEN [last EXCEPT !.from = "dumb"] ELSE last]
      BY <1>2 DEF Drain
    <2>2. /\ my'["S"].then = my["S"].then /\ my'["S"].copied = ok
          /\ ok => my'["S"].pic = [last EXCEPT !.from = "dumb"]
          /\ \A u \in Threads : u # "S" => my'[u] = my[u]
      BY <2>1 DEF Typed, Locals, Threads
    <2>3. [last EXCEPT !.from = "dumb"].from = "dumb"
      BY DEF Typed, Shown
    <2> QED
      BY <1>2, <2>2, <2>3 DEF Drain, Goto, picture
  <1> QED
    BY <1>1, <1>2

-----------------------------------------------------------------------------
(* Each part is kept by every step *)

LEMMA TypedStep ==
  ASSUME Typed, Placed, [Next]_vars
  PROVE  Typed'
PROOF
  <1>1. ASSUME NEW t \in Threads, PutBegin(t) PROVE Typed'
    <2>1. pc' \in [Threads -> Labels] /\ my' \in [Threads -> Locals]
      <3>1. CASE Return(t, FALSE)
        BY <1>1, <3>1, ReturnTyped DEF PutBegin
      <3>2. ASSUME ~Return(t, FALSE)
            PROVE  pc' \in [Threads -> Labels] /\ my' \in [Threads -> Locals]
        <4>1. PICK p \in IF t = "S" THEN InputOf(my[t].pic) ELSE {last} :
                /\ my' = [my EXCEPT ![t].pic = p]
                /\ Goto(t, IF p = NoPic THEN "clear" ELSE "plane")
          BY <1>1, <3>2 DEF PutBegin
        <4>2. p \in Given
          <5>1. my[t].pic \in Given
            BY DEF Typed, Locals
          <5> QED
            BY <4>1, <5>1, InputTyped, ShownGiven DEF Typed
        <4>3. my' \in [Threads -> Locals]
          BY <4>1, <4>2, GivenTyped DEF Typed
        <4> QED
          BY <4>1, <4>3 DEF Goto, Labels, Threads, Places, Showing, Typed
      <3> QED
        BY <3>1, <3>2
    <2>2. /\ life' \in {"null", "ready", "paused", "gone"} /\ window' \in {"none", "live", "dying"}
          /\ lock' \in [{"flow", "x"} -> Threads \cup {"free"}]
          /\ last' \in Shown /\ plane' \in Shown /\ synced' \in BOOLEAN
          /\ el' = el /\ left' = left
      BY <1>1 DEF PutBegin, FlowFree, NoPic, picture, Typed, Threads
    <2> QED
      BY <2>1, <2>2 DEF Typed
  <1>2. ASSUME NEW t \in Threads, PutClear(t) PROVE Typed'
    <2>1. pc' \in [Threads -> Labels] /\ my' \in [Threads -> Locals]
      BY <1>2, ReturnTyped DEF PutClear, Showing, Typed
    <2>2. /\ life' \in {"null", "ready", "paused", "gone"} /\ window' \in {"none", "live", "dying"}
          /\ lock' \in [{"flow", "x"} -> Threads \cup {"free"}]
          /\ last' \in Shown /\ plane' \in Shown /\ synced' \in BOOLEAN
          /\ el' = el /\ left' = left
      BY <1>2 DEF PutClear, XFree, Neither, Both, NoPic, picture, Typed, Threads
    <2> QED
      BY <2>1, <2>2 DEF Typed
  <1>3. ASSUME NEW t \in Threads, PutPlane(t) PROVE Typed'
    <2>1. el' \in Elements
      BY <1>3 DEF PutPlane, Typed, Elements, Flags
    <2>2. pc' \in [Threads -> Labels] /\ my' \in [Threads -> Locals]
      <3>1. CASE Return(t, FALSE)
        BY <1>3, <3>1, ReturnTyped DEF PutPlane, Showing
      <3>2. CASE Goto(t, "sync") /\ UNCHANGED my
        BY <1>3, <3>2 DEF Goto, Labels, Threads, Places, Showing, Typed
      <3> QED
        BY <1>3, <3>1, <3>2 DEF PutPlane
    <2>3. plane' \in Shown
      <3>1. plane' = plane \/ plane' = my[t].pic
        BY <1>3 DEF PutPlane
      <3> QED
        BY <3>1, <1>3, PicShown DEF PutPlane, Showing, Typed
    <2>4. /\ lock' \in [{"flow", "x"} -> Threads \cup {"free"}]
      <3>1. lock' = Both(t) \/ lock' = Neither
        BY <1>3 DEF PutPlane
      <3> QED
        BY <3>1 DEF Neither, Both, Threads
    <2>5. /\ life' \in {"null", "ready", "paused", "gone"} /\ window' \in {"none", "live", "dying"}
          /\ last' \in Shown /\ synced' \in BOOLEAN
          /\ left' = left
      BY <1>3, PicShown DEF PutPlane, XFree, Neither, Both, NoPic, Typed, Threads
    <2> QED
      BY <2>1, <2>2, <2>3, <2>4, <2>5 DEF Typed
  <1>4. ASSUME NEW t \in Threads, PutSync(t) PROVE Typed'
    <2>1. pc' \in [Threads -> Labels] /\ my' \in [Threads -> Locals]
      BY <1>4, ReturnTyped DEF PutSync, Showing, Typed
    <2>2. /\ lock' \in [{"flow", "x"} -> Threads \cup {"free"}]
      <3>1. lock' = Both(t) \/ lock' = Neither
        BY <1>4 DEF PutSync
      <3> QED
        BY <3>1 DEF Neither, Both, Threads
    <2>3. /\ life' \in {"null", "ready", "paused", "gone"} /\ window' \in {"none", "live", "dying"}
          /\ last' \in Shown /\ plane' \in Shown /\ synced' \in BOOLEAN
          /\ el' = el /\ left' = left
      BY <1>4, PicShown DEF PutSync, Neither, Both, NoPic, Typed, Threads, Placed, Showing
    <2> QED
      BY <2>1, <2>2, <2>3 DEF Typed
  <1>5. ASSUME NEW t \in Threads, HandleSwapped(t) PROVE Typed'
    <2>1. pc' \in [Threads -> Labels]
      BY <1>5 DEF HandleSwapped, Goto, Labels, Threads, Places, Showing, Typed
    <2>2. /\ life' \in {"null", "ready", "paused", "gone"} /\ window' \in {"none", "live", "dying"}
          /\ lock' \in [{"flow", "x"} -> Threads \cup {"free"}]
          /\ last' \in Shown /\ plane' \in Shown /\ synced' \in BOOLEAN
          /\ el' = el /\ my' = my /\ left' = left
      BY <1>5 DEF HandleSwapped, picture, Typed, Threads
    <2> QED
      BY <2>1, <2>2 DEF Typed
  <1>6. ASSUME NEW t \in Threads, Geometry(t) PROVE Typed'
    <2>1. pc' \in [Threads -> Labels]
      BY <1>6 DEF Geometry, Goto, Labels, Threads, Places, Showing, Typed
    <2>2. /\ life' \in {"null", "ready", "paused", "gone"} /\ window' \in {"none", "live", "dying"}
          /\ lock' \in [{"flow", "x"} -> Threads \cup {"free"}]
          /\ last' \in Shown /\ plane' \in Shown /\ synced' \in BOOLEAN
          /\ el' = el /\ my' = my /\ left' = left
      BY <1>6 DEF Geometry, XFree, picture, Typed, Threads
    <2> QED
      BY <2>1, <2>2 DEF Typed
  <1>7. CASE Drain
    <2>1. pc' \in [Threads -> Labels]
      <3>1. my["S"].then \in Labels
        BY DEF Placed, Returns, Places, Threads, Labels
      <3> QED
        BY <1>7, <3>1 DEF Drain, Goto, Labels, Threads, Places, Typed
    <2>2. my' \in [Threads -> Locals]
      <3>1. CASE my' = my
        BY <3>1 DEF Typed
      <3>2. ASSUME my' # my PROVE my' \in [Threads -> Locals]
        <4>1. PICK ok \in BOOLEAN :
                my' = [my EXCEPT !["S"].copied = ok,
                                 !["S"].pic = IF ok THEN [last EXCEPT !.from = "dumb"] ELSE last]
          BY <1>7, <3>2 DEF Drain
        <4>2. (IF ok THEN [last EXCEPT !.from = "dumb"] ELSE last) \in Given
          BY ShownGiven DEF Typed
        <4> QED
          BY <4>1, <4>2, GivenTyped DEF Typed, Threads
      <3> QED
        BY <3>1, <3>2
    <2>3. /\ life' \in {"null", "ready", "paused", "gone"} /\ window' \in {"none", "live", "dying"}
          /\ lock' \in [{"flow", "x"} -> Threads \cup {"free"}]
          /\ last' \in Shown /\ plane' \in Shown /\ synced' \in BOOLEAN
          /\ el' = el /\ left' = left
      BY <1>7 DEF Drain, picture, Typed, Threads
    <2> QED
      BY <2>1, <2>2, <2>3 DEF Typed
  <1>8. CASE Queried
    <2>1. pc' \in [Threads -> Labels]
      BY <1>8 DEF Queried, Goto, Labels, Threads, Places, Showing, Typed
    <2>2. my' \in [Threads -> Locals]
      BY <1>8, LocalTyped DEF Queried, Typed, Threads
    <2>3. /\ life' \in {"null", "ready", "paused", "gone"} /\ window' \in {"none", "live", "dying"}
          /\ lock' \in [{"flow", "x"} -> Threads \cup {"free"}]
          /\ last' \in Shown /\ plane' \in Shown /\ synced' \in BOOLEAN
          /\ el' = el /\ left' = left
      BY <1>8 DEF Queried, NoPic, picture, Typed, Threads
    <2> QED
      BY <2>1, <2>2, <2>3 DEF Typed
  <1>9. CASE Caps
    <2>1. pc' \in [Threads -> Labels]
      BY <1>9 DEF Caps, Goto, Labels, Threads, Places, Showing, Typed
    <2>2. my' \in [Threads -> Locals]
      BY <1>9, LocalTyped DEF Caps, Typed, Threads
    <2>3. el' \in Elements
      BY ZenonT(30), <1>9 DEF Caps, Typed, Elements, Flags
    <2>4. /\ life' \in {"null", "ready", "paused", "gone"} /\ window' \in {"none", "live", "dying"}
          /\ lock' \in [{"flow", "x"} -> Threads \cup {"free"}]
          /\ last' \in Shown /\ plane' \in Shown /\ synced' \in BOOLEAN
          /\ left' = left
      BY <1>9 DEF Caps, NoPic, FlowFree, picture, Typed, Threads
    <2> QED
      BY <2>1, <2>2, <2>3, <2>4 DEF Typed
  <1>10. CASE Prepare
    <2>1. pc' \in [Threads -> Labels]
      BY <1>10 DEF Prepare, HandleGiven, Goto, Labels, Threads, Places, Showing, Typed
    <2>2. el' \in Elements
      BY ZenonT(30), <1>10 DEF Prepare, HandleGiven, Typed, Elements, Flags
    <2>3. /\ life' \in {"null", "ready", "paused", "gone"} /\ window' \in {"none", "live", "dying"}
          /\ lock' \in [{"flow", "x"} -> Threads \cup {"free"}]
          /\ last' \in Shown /\ plane' \in Shown /\ synced' \in BOOLEAN
          /\ my' = my /\ left' = left
      BY <1>10 DEF Prepare, HandleGiven, FlowFree, XFree, picture, Typed, Threads
    <2> QED
      BY <2>1, <2>2, <2>3 DEF Typed
  <1>11. CASE CapsWindow
    <2>1. pc' \in [Threads -> Labels]
      BY <1>11 DEF CapsWindow, Goto, Labels, Threads, Places, Showing, Typed
    <2>2. /\ life' \in {"null", "ready", "paused", "gone"} /\ window' \in {"none", "live", "dying"}
          /\ lock' \in [{"flow", "x"} -> Threads \cup {"free"}]
          /\ last' \in Shown /\ plane' \in Shown /\ synced' \in BOOLEAN
          /\ el' = el /\ my' = my /\ left' = left
      BY <1>11 DEF CapsWindow, FlowFree, XFree, picture, Typed, Threads
    <2> QED
      BY <2>1, <2>2 DEF Typed
  <1>12. CASE EvCheck
    <2>1. pc' \in [Threads -> Labels]
      BY <1>12 DEF EvCheck, Goto, Labels, Threads, Places, Showing, Typed
    <2>2. /\ life' \in {"null", "ready", "paused", "gone"} /\ window' \in {"none", "live", "dying"}
          /\ lock' \in [{"flow", "x"} -> Threads \cup {"free"}]
          /\ last' \in Shown /\ plane' \in Shown /\ synced' \in BOOLEAN
          /\ el' = el /\ my' = my /\ left' = left
      BY <1>12 DEF EvCheck, picture, Typed, Threads
    <2> QED
      BY <2>1, <2>2 DEF Typed
  <1>13. CASE EvLock
    <2>1. pc' \in [Threads -> Labels]
      BY <1>13 DEF EvLock, Goto, Labels, Threads, Places, Showing, Typed
    <2>2. /\ life' \in {"null", "ready", "paused", "gone"} /\ window' \in {"none", "live", "dying"}
          /\ lock' \in [{"flow", "x"} -> Threads \cup {"free"}]
          /\ last' \in Shown /\ plane' \in Shown /\ synced' \in BOOLEAN
          /\ el' = el /\ my' = my /\ left' = left
      BY <1>13 DEF EvLock, FlowFree, XFree, Both, picture, Typed, Threads
    <2> QED
      BY <2>1, <2>2 DEF Typed
  <1>14. CASE EvRelock
    <2>1. pc' \in [Threads -> Labels]
      BY <1>14 DEF EvRelock, Goto, Labels, Threads, Places, Showing, Typed
    <2>2. /\ life' \in {"null", "ready", "paused", "gone"} /\ window' \in {"none", "live", "dying"}
          /\ lock' \in [{"flow", "x"} -> Threads \cup {"free"}]
          /\ last' \in Shown /\ plane' \in Shown /\ synced' \in BOOLEAN
          /\ el' = el /\ my' = my /\ left' = left
      BY <1>14 DEF EvRelock, FlowFree, XFree, Both, picture, Typed, Threads
    <2> QED
      BY <2>1, <2>2 DEF Typed
  <1>15. CASE EvClosed
    <2>1. pc' \in [Threads -> Labels]
      BY <1>15 DEF EvClosed, Goto, Labels, Threads, Places, Showing, Typed
    <2>2. /\ life' \in {"null", "ready", "paused", "gone"} /\ window' \in {"none", "live", "dying"}
          /\ lock' \in [{"flow", "x"} -> Threads \cup {"free"}]
          /\ last' \in Shown /\ plane' \in Shown /\ synced' \in BOOLEAN
          /\ el' = el /\ my' = my /\ left' = left
      BY <1>15 DEF EvClosed, XFree, Both, picture, Typed, Threads
    <2> QED
      BY <2>1, <2>2 DEF Typed
  <1>16. CASE EvMoved
    <2>1. pc' \in [Threads -> Labels]
      BY <1>16 DEF EvMoved, Call, Goto, Labels, Threads, Places, Showing, Typed
    <2>2. my' \in [Threads -> Locals]
      BY ZenonT(90), <1>16, GivenTyped, NoPicTyped DEF EvMoved, Call, Threads, Typed
    <2>3. /\ life' \in {"null", "ready", "paused", "gone"} /\ window' \in {"none", "live", "dying"}
          /\ lock' \in [{"flow", "x"} -> Threads \cup {"free"}]
          /\ last' \in Shown /\ plane' \in Shown /\ synced' \in BOOLEAN
          /\ el' = el /\ left' = left
      BY <1>16 DEF EvMoved, Neither, Both, picture, Typed, Threads
    <2> QED
      BY <2>1, <2>2, <2>3 DEF Typed
  <1>17. CASE EvInput
    <2>1. pc' \in [Threads -> Labels]
      BY <1>17 DEF EvInput, Goto, Labels, Threads, Places, Showing, Typed
    <2>2. /\ life' \in {"null", "ready", "paused", "gone"} /\ window' \in {"none", "live", "dying"}
          /\ lock' \in [{"flow", "x"} -> Threads \cup {"free"}]
          /\ last' \in Shown /\ plane' \in Shown /\ synced' \in BOOLEAN
          /\ el' = el /\ my' = my /\ left' = left
      BY <1>17 DEF EvInput, Neither, Both, picture, Typed, Threads
    <2> QED
      BY <2>1, <2>2 DEF Typed
  <1>18. CASE EvExposed
    <2>1. pc' \in [Threads -> Labels]
      BY <1>18 DEF EvExposed, Call, Goto, Labels, Threads, Places, Showing, Typed
    <2>2. my' \in [Threads -> Locals]
      BY ZenonT(30), <1>18, GivenTyped, NoPicTyped DEF EvExposed, Call, Threads, Typed
    <2>3. /\ life' \in {"null", "ready", "paused", "gone"} /\ window' \in {"none", "live", "dying"}
          /\ lock' \in [{"flow", "x"} -> Threads \cup {"free"}]
          /\ last' \in Shown /\ plane' \in Shown /\ synced' \in BOOLEAN
          /\ el' = el /\ left' = left
      BY <1>18 DEF EvExposed, Neither, Both, picture, Typed, Threads
    <2> QED
      BY <2>1, <2>2, <2>3 DEF Typed
  <1>19. CASE EvClose
    <2>1. pc' \in [Threads -> Labels]
      BY <1>19 DEF EvClose, Goto, Labels, Threads, Places, Showing, Typed
    <2>2. /\ life' \in {"null", "ready", "paused", "gone"} /\ window' \in {"none", "live", "dying"}
          /\ lock' \in [{"flow", "x"} -> Threads \cup {"free"}]
          /\ last' \in Shown /\ plane' \in Shown /\ synced' \in BOOLEAN
          /\ el' = el /\ my' = my /\ left' = left
      BY <1>19 DEF EvClose, picture, Typed, Threads
    <2> QED
      BY <2>1, <2>2 DEF Typed
  <1>20. CASE Joined
    <2>1. pc' \in [Threads -> Labels]
      BY <1>20 DEF Joined, Goto, Labels, Threads, Places, Showing, Typed
    <2>2. /\ life' \in {"null", "ready", "paused", "gone"} /\ window' \in {"none", "live", "dying"}
          /\ lock' \in [{"flow", "x"} -> Threads \cup {"free"}]
          /\ last' \in Shown /\ plane' \in Shown /\ synced' \in BOOLEAN
          /\ el' = el /\ my' = my /\ left' = left
      BY <1>20 DEF Joined, picture, Typed, Threads
    <2> QED
      BY <2>1, <2>2 DEF Typed
  <1>21. CASE Start
    <2>1. pc' \in [Threads -> Labels]
      BY <1>21 DEF Start, Goto, Labels, Threads, Places, Showing, Typed
    <2>2. el' \in Elements
      BY ZenonT(30), <1>21 DEF Start, Typed, Elements, Flags
    <2>3. /\ life' \in {"null", "ready", "paused", "gone"} /\ window' \in {"none", "live", "dying"}
          /\ lock' \in [{"flow", "x"} -> Threads \cup {"free"}]
          /\ last' \in Shown /\ plane' \in Shown /\ synced' \in BOOLEAN
          /\ my' = my /\ left' = left
      BY <1>21 DEF Start, Typed, Threads
    <2> QED
      BY <2>1, <2>2, <2>3 DEF Typed
  <1>22. CASE WindowCleared
    <2>1. pc' \in [Threads -> Labels]
      BY <1>22 DEF WindowCleared, Goto, Labels, Threads, Places, Showing, Typed
    <2>2. /\ life' \in {"null", "ready", "paused", "gone"} /\ window' \in {"none", "live", "dying"}
          /\ lock' \in [{"flow", "x"} -> Threads \cup {"free"}]
          /\ last' \in Shown /\ plane' \in Shown /\ synced' \in BOOLEAN
          /\ el' = el /\ my' = my /\ left' = left
      BY <1>22 DEF WindowCleared, FlowFree, XFree, picture, Typed, Threads
    <2> QED
      BY <2>1, <2>2 DEF Typed
  <1>23. CASE Deactivated
    <2>1. pc' \in [Threads -> Labels]
      BY <1>23 DEF Deactivated, Goto, Labels, Threads, Places, Showing, Typed
    <2>2. el' \in Elements
      BY <1>23 DEF Deactivated, Typed, Elements, Flags
    <2>3. /\ life' \in {"null", "ready", "paused", "gone"} /\ window' \in {"none", "live", "dying"}
          /\ lock' \in [{"flow", "x"} -> Threads \cup {"free"}]
          /\ last' \in Shown /\ plane' \in Shown /\ synced' \in BOOLEAN
          /\ my' = my /\ left' = left
      BY <1>23 DEF Deactivated, picture, Typed, Threads
    <2> QED
      BY <2>1, <2>2, <2>3 DEF Typed
  <1>24. CASE Reset
    <2>1. pc' \in [Threads -> Labels]
      BY <1>24 DEF Reset, Goto, Labels, Threads, Places, Showing, Typed
    <2>2. el' \in Elements
      BY <1>24 DEF Reset, Typed, Elements, Flags
    <2>3. /\ life' \in {"null", "ready", "paused", "gone"} /\ window' \in {"none", "live", "dying"}
          /\ lock' \in [{"flow", "x"} -> Threads \cup {"free"}]
          /\ last' \in Shown /\ plane' \in Shown /\ synced' \in BOOLEAN
          /\ my' = my /\ left' = left
      BY <1>24 DEF Reset, picture, Typed, Threads
    <2> QED
      BY <2>1, <2>2, <2>3 DEF Typed
  <1>25. CASE ResetJoined
    <2>1. pc' \in [Threads -> Labels]
      BY <1>25 DEF ResetJoined, Goto, Labels, Threads, Places, Showing, Typed
    <2>2. el' \in Elements
      BY <1>25 DEF ResetJoined, Typed, Elements, Flags
    <2>3. /\ life' \in {"null", "ready", "paused", "gone"} /\ window' \in {"none", "live", "dying"}
          /\ lock' \in [{"flow", "x"} -> Threads \cup {"free"}]
          /\ last' \in Shown /\ plane' \in Shown /\ synced' \in BOOLEAN
          /\ my' = my /\ left' = left
      BY <1>25, NoPicTyped DEF ResetJoined, FlowFree, XFree, NoPic, Typed, Threads
    <2> QED
      BY <2>1, <2>2, <2>3 DEF Typed
  <1>26. CASE ShowFrame
    <2>1. pc' \in [Threads -> Labels]
      BY <1>26 DEF ShowFrame, Goto, Labels, Threads, Places, Showing, Typed
    <2>2. left' \in [pics : 0..MaxPics, calls : Nat, drains : Nat, cycles : Nat]
      BY <1>26, SinkAssumption DEF ShowFrame, Spend, Typed
    <2>3. my' \in [Threads -> Locals]
      <3>1. [pic |-> left.pics, from |-> "new"] \in Given
        BY DEF Given, Typed
      <3>2. my' = [my EXCEPT !["S"].pic = [pic |-> left.pics, from |-> "new"], !["S"].then = "idle"]
        BY <1>26 DEF ShowFrame
      <3> QED
        BY <3>1, <3>2, GivenTyped DEF Typed, Threads
    <2>4. /\ life' \in {"null", "ready", "paused", "gone"} /\ window' \in {"none", "live", "dying"}
          /\ lock' \in [{"flow", "x"} -> Threads \cup {"free"}]
          /\ last' \in Shown /\ plane' \in Shown /\ synced' \in BOOLEAN
          /\ el' = el
      BY <1>26 DEF ShowFrame, picture, Typed, Threads
    <2> QED
      BY <2>1, <2>2, <2>3, <2>4 DEF Typed
  <1>27. CASE DrainBegin
    <2>1. pc' \in [Threads -> Labels]
      BY <1>27 DEF DrainBegin, Call, Goto, Labels, Threads, Places, Showing, Typed
    <2>2. left' \in [pics : 0..MaxPics, calls : Nat, drains : Nat, cycles : Nat]
      BY <1>27, SinkAssumption DEF DrainBegin, Spend, Typed
    <2>3. my' \in [Threads -> Locals]
      <3>1. PICK r \in {"queried", "caps"} : my' = [my EXCEPT !["S"].then = r]
        BY <1>27 DEF DrainBegin, Call
      <3> QED
        BY <3>1, GivenTyped, NoPicTyped DEF Typed, Threads
    <2>4. /\ life' \in {"null", "ready", "paused", "gone"} /\ window' \in {"none", "live", "dying"}
          /\ lock' \in [{"flow", "x"} -> Threads \cup {"free"}]
          /\ last' \in Shown /\ plane' \in Shown /\ synced' \in BOOLEAN
          /\ el' = el
      BY <1>27 DEF DrainBegin, picture, Typed, Threads
    <2> QED
      BY <2>1, <2>2, <2>3, <2>4 DEF Typed
  <1>28. CASE SetHandle
    <2>1. pc' \in [Threads -> Labels]
      BY <1>28 DEF SetHandle, HandleGiven, Goto, Labels, Threads, Places, Showing, Typed
    <2>2. left' \in [pics : 0..MaxPics, calls : Nat, drains : Nat, cycles : Nat]
      BY <1>28, SinkAssumption DEF SetHandle, Spend, Typed
    <2>3. el' \in Elements
      BY ZenonT(30), <1>28 DEF SetHandle, HandleGiven, Typed, Elements, Flags
    <2>4. /\ life' \in {"null", "ready", "paused", "gone"} /\ window' \in {"none", "live", "dying"}
          /\ lock' \in [{"flow", "x"} -> Threads \cup {"free"}]
          /\ last' \in Shown /\ plane' \in Shown /\ synced' \in BOOLEAN
          /\ my' = my
      BY <1>28 DEF SetHandle, HandleGiven, FlowFree, XFree, picture, Typed, Threads
    <2> QED
      BY <2>1, <2>2, <2>3, <2>4 DEF Typed
  <1>29. CASE SetProperty
    <2>1. pc' \in [Threads -> Labels]
      <3>1. PICK k \in {"expose", "events"} : Managed([el EXCEPT ![k] = ~el[k]], "idle")
        BY <1>29 DEF SetProperty
      <3> QED
        <4>1. \/ pc' = [pc EXCEPT !["A"] = "idle", !["E"] = "check"]
              \/ pc' = [pc EXCEPT !["A"] = "join"]
              \/ pc' = [pc EXCEPT !["A"] = "idle"]
          BY <3>1 DEF Managed, Goto
        <4> QED
          BY <4>1 DEF Labels, Threads, Places, Showing, Typed
    <2>2. left' \in [pics : 0..MaxPics, calls : Nat, drains : Nat, cycles : Nat]
      BY <1>29, SinkAssumption DEF SetProperty, Spend, Typed
    <2>3. el' \in Elements
      <3>1. PICK k \in {"expose", "events"} : Managed([el EXCEPT ![k] = ~el[k]], "idle")
        BY <1>29 DEF SetProperty
      <3>2. k \in Flags /\ (~el[k]) \in BOOLEAN
        BY <3>1 DEF Flags
      <3>3. [el EXCEPT ![k] = ~el[k]] \in Elements
        BY <3>1, <3>2, FlagSet DEF Typed
      <3> QED
        BY <3>1, <3>3, ManagedTyped
    <2>4. /\ life' \in {"null", "ready", "paused", "gone"} /\ window' \in {"none", "live", "dying"}
          /\ lock' \in [{"flow", "x"} -> Threads \cup {"free"}]
          /\ last' \in Shown /\ plane' \in Shown /\ synced' \in BOOLEAN
          /\ my' = my
      BY <1>29 DEF SetProperty, FlowFree, XFree, picture, Typed, Threads
    <2> QED
      BY <2>1, <2>2, <2>3, <2>4 DEF Typed
  <1>30. CASE Expose
    <2>1. pc' \in [Threads -> Labels]
      BY <1>30 DEF Expose, Call, Goto, Labels, Threads, Places, Showing, Typed
    <2>2. left' \in [pics : 0..MaxPics, calls : Nat, drains : Nat, cycles : Nat]
      BY <1>30, SinkAssumption DEF Expose, Spend, Typed
    <2>3. my' \in [Threads -> Locals]
      BY <1>30, GivenTyped, NoPicTyped DEF Expose, Call, Threads, Typed
    <2>4. /\ life' \in {"null", "ready", "paused", "gone"} /\ window' \in {"none", "live", "dying"}
          /\ lock' \in [{"flow", "x"} -> Threads \cup {"free"}]
          /\ last' \in Shown /\ plane' \in Shown /\ synced' \in BOOLEAN
          /\ el' = el
      BY <1>30 DEF Expose, picture, Typed, Threads
    <2> QED
      BY <2>1, <2>2, <2>3, <2>4 DEF Typed
  <1>31. CASE ToReady
    <2>1. pc' \in [Threads -> Labels]
      BY <1>31 DEF ToReady, Managed, Goto, Labels, Threads, Places, Showing, Typed
    <2>2. left' \in [pics : 0..MaxPics, calls : Nat, drains : Nat, cycles : Nat]
      BY <1>31, SinkAssumption DEF ToReady, Spend, Typed
    <2>3. el' \in Elements
      <3>1. [el EXCEPT !.ctx = TRUE] \in Elements
        BY DEF Elements, Flags, Typed
      <3> QED
        BY <1>31, <3>1, ManagedTyped DEF ToReady
    <2>4. /\ life' \in {"null", "ready", "paused", "gone"} /\ window' \in {"none", "live", "dying"}
          /\ lock' \in [{"flow", "x"} -> Threads \cup {"free"}]
          /\ last' \in Shown /\ plane' \in Shown /\ synced' \in BOOLEAN
          /\ my' = my
      BY <1>31 DEF ToReady, picture, Typed, Threads
    <2> QED
      BY <2>1, <2>2, <2>3, <2>4 DEF Typed
  <1>32. CASE ToPaused
    <2>1. pc' \in [Threads -> Labels]
      BY <1>32 DEF ToPaused, Goto, Labels, Threads, Places, Showing, Typed
    <2>2. el' \in Elements
      BY <1>32 DEF ToPaused, Typed, Elements, Flags
    <2>3. /\ life' \in {"null", "ready", "paused", "gone"} /\ window' \in {"none", "live", "dying"}
          /\ lock' \in [{"flow", "x"} -> Threads \cup {"free"}]
          /\ last' \in Shown /\ plane' \in Shown /\ synced' \in BOOLEAN
          /\ my' = my /\ left' = left
      BY <1>32 DEF ToPaused, picture, Typed, Threads
    <2> QED
      BY <2>1, <2>2, <2>3 DEF Typed
  <1>33. CASE TogglePlaying
    <2>1. el' \in Elements
      <3>1. "paused" \in Flags /\ (~el["paused"]) \in BOOLEAN
        BY DEF Flags
      <3>2. el' = [el EXCEPT !["paused"] = ~el["paused"]]
        BY <1>33 DEF TogglePlaying
      <3> QED
        BY <3>1, <3>2, FlagSet DEF Typed
    <2>2. /\ life' \in {"null", "ready", "paused", "gone"} /\ window' \in {"none", "live", "dying"}
          /\ lock' \in [{"flow", "x"} -> Threads \cup {"free"}]
          /\ last' \in Shown /\ plane' \in Shown /\ synced' \in BOOLEAN
          /\ pc' = pc /\ my' = my /\ left' = left
      BY <1>33 DEF TogglePlaying, picture, Typed, Threads
    <2> QED
      BY <2>1, <2>2 DEF Typed
  <1>34. CASE Deactivate
    <2>1. pc' \in [Threads -> Labels]
      BY <1>34 DEF Deactivate, Goto, Labels, Threads, Places, Showing, Typed
    <2>2. /\ life' \in {"null", "ready", "paused", "gone"} /\ window' \in {"none", "live", "dying"}
          /\ lock' \in [{"flow", "x"} -> Threads \cup {"free"}]
          /\ last' \in Shown /\ plane' \in Shown /\ synced' \in BOOLEAN
          /\ el' = el /\ my' = my /\ left' = left
      BY <1>34 DEF Deactivate, picture, Typed, Threads
    <2> QED
      BY <2>1, <2>2 DEF Typed
  <1>35. CASE Stop
    <2>1. pc' \in [Threads -> Labels]
      BY <1>35 DEF Stop, Goto, Labels, Threads, Places, Showing, Typed
    <2>2. el' \in Elements
      BY <1>35 DEF Stop, Typed, Elements, Flags
    <2>3. /\ life' \in {"null", "ready", "paused", "gone"} /\ window' \in {"none", "live", "dying"}
          /\ lock' \in [{"flow", "x"} -> Threads \cup {"free"}]
          /\ last' \in Shown /\ plane' \in Shown /\ synced' \in BOOLEAN
          /\ my' = my /\ left' = left
      BY <1>35, NoPicTyped DEF Stop, NoPic, Typed, Threads
    <2> QED
      BY <2>1, <2>2, <2>3 DEF Typed
  <1>36. CASE Dispose
    <2>1. pc' \in [Threads -> Labels]
      BY <1>36 DEF Dispose, Goto, Labels, Threads, Places, Showing, Typed
    <2>2. /\ life' \in {"null", "ready", "paused", "gone"} /\ window' \in {"none", "live", "dying"}
          /\ lock' \in [{"flow", "x"} -> Threads \cup {"free"}]
          /\ last' \in Shown /\ plane' \in Shown /\ synced' \in BOOLEAN
          /\ el' = el /\ my' = my /\ left' = left
      BY <1>36 DEF Dispose, picture, Typed, Threads
    <2> QED
      BY <2>1, <2>2 DEF Typed
  <1>37. CASE UNCHANGED vars
    BY <1>37 DEF vars, Typed
  <1>q. QED
    BY <1>1, <1>2, <1>3, <1>4, <1>5, <1>6, <1>7, <1>8, <1>9, <1>10, <1>11, <1>12, <1>13, <1>14,
       <1>15, <1>16, <1>17, <1>18, <1>19, <1>20, <1>21, <1>22, <1>23, <1>24, <1>25, <1>26, <1>27,
       <1>28, <1>29, <1>30, <1>31, <1>32, <1>33, <1>34, <1>35, <1>36, <1>37 DEF Next, Stream,
       Events, Application, Repaint, PutStep, Threads

LEMMA PlacedStep ==
  ASSUME Typed, Placed, Phased, [Next]_vars
  PROVE  Placed'
PROOF
  <1>1. ASSUME NEW t \in Threads, PutBegin(t) PROVE Placed'
    <2>1. CASE Return(t, FALSE)
      <3>1. /\ pc' = [pc EXCEPT ![t] = my[t].then] /\ pc[t] = "put" /\ my'[t].then = "idle"
            /\ \A u \in Threads : u # t => my'[u] = my[u]
        BY <1>1, <2>1, ReturnSteps DEF PutBegin
      <3> QED
        BY <3>1 DEF Placed, Returns, Threads, Places, Showing, Typed
    <2>2. CASE ~Return(t, FALSE)
      <3>1. PICK p \in Shown : /\ pc' = [pc EXCEPT ![t] = IF p = NoPic THEN "clear" ELSE "plane"]
                               /\ my' = [my EXCEPT ![t].pic = p]
        BY <1>1, <2>2, BeginSteps
      <3>2. my'[t].pic = p /\ my'[t].then = my[t].then /\ \A u \in Threads : u # t => my'[u] = my[u]
        BY <3>1 DEF Typed, Locals
      <3>3. pc[t] = "put"
        BY <1>1 DEF PutBegin
      <3> QED
        BY <3>1, <3>2, <3>3 DEF Placed, Returns, Threads, Places, Showing, Typed
    <2> QED
      BY <2>1, <2>2
  <1>2. ASSUME NEW t \in Threads, PutClear(t) PROVE Placed'
    BY <1>2 DEF PutClear, Return, XFree, Neither, Both, Goto, Local, NoPic, picture, Typed,
       Placed, Returns, Elements, Flags, Locals, Given, Threads, Places, Showing
  <1>3. ASSUME NEW t \in Threads, PutPlane(t) PROVE Placed'
    <2>1. CASE Return(t, FALSE)
      <3>1. /\ pc' = [pc EXCEPT ![t] = my[t].then] /\ pc[t] = "plane" /\ my'[t].then = "idle"
            /\ \A u \in Threads : u # t => my'[u] = my[u]
        BY <1>3, <2>1, ReturnSteps DEF PutPlane
      <3> QED
        BY <3>1 DEF Placed, Returns, Threads, Places, Showing, Typed
    <2>2. CASE Goto(t, "sync") /\ UNCHANGED my
      BY <1>3, <2>2 DEF PutPlane, Goto, Placed, Returns, Threads, Places, Showing, Typed
    <2> QED
      BY <1>3, <2>1, <2>2 DEF PutPlane
  <1>4. ASSUME NEW t \in Threads, PutSync(t) PROVE Placed'
    <2>1. PICK ok \in BOOLEAN : Return(t, ok)
      BY <1>4 DEF PutSync
    <2> QED
      BY <1>4, <2>1, ReturnSteps DEF PutSync, Placed, Returns, Threads, Places, Showing, Typed
  <1>5. ASSUME NEW t \in Threads, HandleSwapped(t) PROVE Placed'
    BY <1>5 DEF HandleSwapped, Goto, picture, Typed, Placed, Returns, Elements, Flags, Locals,
       Given, Threads, Places, Showing
  <1>6. ASSUME NEW t \in Threads, Geometry(t) PROVE Placed'
    BY <1>6 DEF Geometry, XFree, Goto, picture, Typed, Placed, Returns, Elements, Flags, Locals,
       Given, Threads, Places, Showing
  <1>7. CASE Drain
    <2>1. CASE last.from # "import"
      BY <1>7, <2>1 DEF Drain, Goto, Placed, Returns, Threads, Places, Showing, Typed
    <2>2. CASE last.from = "import"
      BY <1>7, <2>2, DrainSteps DEF Placed, Returns, Threads, Places, Showing, Typed
    <2> QED
      BY <2>1, <2>2
  <1>8. CASE Queried
    BY <1>8 DEF Queried, Goto, Local, NoPic, picture, Typed, Placed, Returns, Elements, Flags,
       Locals, Given, Threads, Places, Showing
  <1>9. CASE Caps
    BY <1>9 DEF Caps, Goto, Local, NoPic, FlowFree, picture, Typed, Placed, Returns, Elements,
       Flags, Locals, Given, Threads, Places, Showing
  <1>10. CASE Prepare
    BY <1>10 DEF Prepare, HandleGiven, FlowFree, XFree, Goto, picture, Typed, Placed, Returns,
       Elements, Flags, Locals, Given, Threads, Places, Showing
  <1>11. CASE CapsWindow
    BY <1>11 DEF CapsWindow, FlowFree, XFree, Goto, picture, Typed, Placed, Returns, Elements,
       Flags, Locals, Given, Threads, Places, Showing
  <1>12. CASE EvCheck
    BY <1>12 DEF EvCheck, Goto, picture, Typed, Placed, Returns, Elements, Flags, Locals, Given,
       Threads, Places, Showing
  <1>13. CASE EvLock
    BY <1>13 DEF EvLock, FlowFree, XFree, Both, Goto, picture, Typed, Placed, Returns, Elements,
       Flags, Locals, Given, Threads, Places, Showing
  <1>14. CASE EvRelock
    BY <1>14 DEF EvRelock, FlowFree, XFree, Both, Goto, picture, Typed, Placed, Returns,
       Elements, Flags, Locals, Given, Threads, Places, Showing
  <1>15. CASE EvClosed
    BY <1>15 DEF EvClosed, XFree, Both, Goto, picture, Typed, Placed, Returns, Elements, Flags,
       Locals, Given, Threads, Places, Showing
  <1>16. CASE EvMoved
    BY <1>16 DEF EvMoved, Neither, Both, Call, Goto, picture, Typed, Placed, Returns, Elements,
       Flags, Locals, Given, Threads, Places, Showing
  <1>17. CASE EvInput
    BY <1>17 DEF EvInput, Neither, Both, Goto, picture, Typed, Placed, Returns, Elements, Flags,
       Locals, Given, Threads, Places, Showing
  <1>18. CASE EvExposed
    BY <1>18 DEF EvExposed, Neither, Both, Call, Goto, picture, Typed, Placed, Returns, Elements,
       Flags, Locals, Given, Threads, Places, Showing
  <1>19. CASE EvClose
    BY <1>19 DEF EvClose, Goto, picture, Typed, Placed, Returns, Elements, Flags, Locals, Given,
       Threads, Places, Showing
  <1>20. CASE Joined
    BY <1>20 DEF Joined, Goto, picture, Typed, Placed, Returns, Elements, Flags, Locals, Given,
       Threads, Places, Showing
  <1>21. CASE Start
    BY <1>21 DEF Start, Goto, Typed, Placed, Returns, Elements, Flags, Locals, Given, Threads,
       Places, Showing
  <1>22. CASE WindowCleared
    BY <1>22 DEF WindowCleared, FlowFree, XFree, Goto, picture, Typed, Placed, Returns, Elements,
       Flags, Locals, Given, Threads, Places, Showing
  <1>23. CASE Deactivated
    BY <1>23 DEF Deactivated, Goto, picture, Typed, Placed, Returns, Elements, Flags, Locals,
       Given, Threads, Places, Showing
  <1>24. CASE Reset
    BY <1>24 DEF Reset, Goto, picture, Typed, Placed, Returns, Elements, Flags, Locals, Given,
       Threads, Places, Showing
  <1>25. CASE ResetJoined
    BY <1>25 DEF ResetJoined, FlowFree, XFree, Goto, NoPic, Typed, Placed, Returns, Elements,
       Flags, Locals, Given, Threads, Places, Showing
  <1>26. CASE ShowFrame
    BY <1>26 DEF ShowFrame, Streaming, Spend, Goto, picture, Typed, Placed, Returns, Elements,
       Flags, Locals, Given, Threads, Places, Showing
  <1>27. CASE DrainBegin
    BY <1>27 DEF DrainBegin, Streaming, Spend, Call, Goto, picture, Typed, Placed, Returns,
       Elements, Flags, Locals, Given, Threads, Places, Showing
  <1>28. CASE SetHandle
    BY <1>28 DEF SetHandle, Spend, HandleGiven, FlowFree, XFree, Goto, picture, Typed, Placed,
       Returns, Elements, Flags, Locals, Given, Threads, Places, Showing
  <1>29. CASE SetProperty
    BY <1>29, ManageSteps DEF Placed, Returns, Threads, Places, Showing
  <1>30. CASE Expose
    BY <1>30 DEF Expose, Spend, Call, Goto, picture, Typed, Placed, Returns, Elements, Flags,
       Locals, Given, Threads, Places, Showing
  <1>31. CASE ToReady
    BY <1>31, ManageSteps DEF Placed, Returns, Threads, Places, Showing
  <1>32. CASE ToPaused
    BY <1>32 DEF ToPaused, Goto, picture, Typed, Placed, Returns, Elements, Flags, Locals, Given,
       Threads, Places, Showing
  <1>33. CASE TogglePlaying
    BY <1>33 DEF TogglePlaying, picture, Typed, Placed, Returns, Elements, Flags, Locals, Given,
       Threads, Places, Showing
  <1>34. CASE Deactivate
    BY <1>34 DEF Deactivate, Goto, picture, Typed, Placed, Returns, Elements, Flags, Locals,
       Given, Threads, Places, Showing
  <1>35. CASE Stop
    BY <1>35 DEF Stop, Goto, NoPic, Typed, Placed, Returns, Elements, Flags, Locals, Given,
       Threads, Places, Showing
  <1>36. CASE Dispose
    BY <1>36 DEF Dispose, Goto, picture, Typed, Placed, Returns, Elements, Flags, Locals, Given,
       Threads, Places, Showing
  <1>37. CASE UNCHANGED vars
    BY <1>37 DEF vars, Typed, Placed, Returns, Elements, Flags, Locals, Given, Threads, Places,
       Showing
  <1>q. QED
    BY <1>1, <1>2, <1>3, <1>4, <1>5, <1>6, <1>7, <1>8, <1>9, <1>10, <1>11, <1>12, <1>13, <1>14,
       <1>15, <1>16, <1>17, <1>18, <1>19, <1>20, <1>21, <1>22, <1>23, <1>24, <1>25, <1>26, <1>27,
       <1>28, <1>29, <1>30, <1>31, <1>32, <1>33, <1>34, <1>35, <1>36, <1>37 DEF Next, Stream,
       Events, Application, Repaint, PutStep, Threads

LEMMA LockedStep ==
  ASSUME Typed, Placed, Phased, Locked, [Next]_vars
  PROVE  Locked'
PROOF
  <1>1. ASSUME NEW t \in Threads, PutBegin(t) PROVE Locked'
    BY <1>1 DEF PutBegin, Return, InputOf, FlowFree, Goto, Local, NoPic, picture, Typed, Placed,
       Locked, Returns, Threads, Places, Showing, UnderFlow, UnderX
  <1>2. ASSUME NEW t \in Threads, PutClear(t) PROVE Locked'
    BY <1>2 DEF PutClear, Return, XFree, Neither, Both, Goto, Local, NoPic, picture, Typed,
       Placed, Locked, Returns, Threads, Places, Showing, UnderFlow, UnderX
  <1>3. ASSUME NEW t \in Threads, PutPlane(t) PROVE Locked'
    BY <1>3 DEF PutPlane, Return, XFree, Neither, Both, Goto, Local, NoPic, Typed, Placed,
       Locked, Returns, Threads, Places, Showing, UnderFlow, UnderX
  <1>4. ASSUME NEW t \in Threads, PutSync(t) PROVE Locked'
    BY <1>4 DEF PutSync, Return, Neither, Both, Goto, Local, NoPic, Typed, Placed, Locked,
       Returns, Threads, Places, Showing, UnderFlow, UnderX
  <1>5. ASSUME NEW t \in Threads, HandleSwapped(t) PROVE Locked'
    BY <1>5 DEF HandleSwapped, Goto, picture, Typed, Placed, Locked, Returns, Threads, Places,
       Showing, UnderFlow, UnderX
  <1>6. ASSUME NEW t \in Threads, Geometry(t) PROVE Locked'
    BY <1>6 DEF Geometry, XFree, Goto, picture, Typed, Placed, Locked, Returns, Threads, Places,
       Showing, UnderFlow, UnderX
  <1>7. CASE Drain
    BY <1>7 DEF Drain, Goto, picture, Typed, Placed, Locked, Returns, Threads, Places, Showing,
       UnderFlow, UnderX
  <1>8. CASE Queried
    BY <1>8 DEF Queried, Goto, Local, NoPic, picture, Typed, Placed, Locked, Returns, Threads,
       Places, Showing, UnderFlow, UnderX
  <1>9. CASE Caps
    BY <1>9 DEF Caps, Goto, Local, NoPic, FlowFree, picture, Typed, Placed, Locked, Returns,
       Threads, Places, Showing, UnderFlow, UnderX
  <1>10. CASE Prepare
    BY <1>10 DEF Prepare, HandleGiven, FlowFree, XFree, Goto, picture, Typed, Placed, Locked,
       Returns, Threads, Places, Showing, UnderFlow, UnderX
  <1>11. CASE CapsWindow
    BY <1>11 DEF CapsWindow, FlowFree, XFree, Goto, picture, Typed, Placed, Locked, Returns,
       Threads, Places, Showing, UnderFlow, UnderX
  <1>12. CASE EvCheck
    BY <1>12 DEF EvCheck, Goto, picture, Typed, Placed, Locked, Returns, Threads, Places,
       Showing, UnderFlow, UnderX
  <1>13. CASE EvLock
    BY <1>13 DEF EvLock, FlowFree, XFree, Both, Goto, picture, Typed, Placed, Locked, Returns,
       Threads, Places, Showing, UnderFlow, UnderX
  <1>14. CASE EvRelock
    BY <1>14 DEF EvRelock, FlowFree, XFree, Both, Goto, picture, Typed, Placed, Locked, Returns,
       Threads, Places, Showing, UnderFlow, UnderX
  <1>15. CASE EvClosed
    BY <1>15 DEF EvClosed, XFree, Both, Goto, picture, Typed, Placed, Locked, Returns, Threads,
       Places, Showing, UnderFlow, UnderX
  <1>16. CASE EvMoved
    BY <1>16 DEF EvMoved, Neither, Both, Call, Goto, picture, Typed, Placed, Locked, Returns,
       Threads, Places, Showing, UnderFlow, UnderX
  <1>17. CASE EvInput
    BY <1>17 DEF EvInput, Neither, Both, Goto, picture, Typed, Placed, Locked, Returns, Threads,
       Places, Showing, UnderFlow, UnderX
  <1>18. CASE EvExposed
    BY <1>18 DEF EvExposed, Neither, Both, Call, Goto, picture, Typed, Placed, Locked, Returns,
       Threads, Places, Showing, UnderFlow, UnderX
  <1>19. CASE EvClose
    BY <1>19 DEF EvClose, Goto, picture, Typed, Placed, Locked, Returns, Threads, Places,
       Showing, UnderFlow, UnderX
  <1>20. CASE Joined
    BY <1>20 DEF Joined, Goto, picture, Typed, Placed, Locked, Returns, Threads, Places, Showing,
       UnderFlow, UnderX
  <1>21. CASE Start
    BY <1>21 DEF Start, Goto, Typed, Placed, Locked, Returns, Threads, Places, Showing,
       UnderFlow, UnderX
  <1>22. CASE WindowCleared
    BY <1>22 DEF WindowCleared, FlowFree, XFree, Goto, picture, Typed, Placed, Locked, Returns,
       Threads, Places, Showing, UnderFlow, UnderX
  <1>23. CASE Deactivated
    BY <1>23 DEF Deactivated, Goto, picture, Typed, Placed, Locked, Returns, Threads, Places,
       Showing, UnderFlow, UnderX
  <1>24. CASE Reset
    BY <1>24 DEF Reset, Goto, picture, Typed, Placed, Locked, Returns, Threads, Places, Showing,
       UnderFlow, UnderX
  <1>25. CASE ResetJoined
    BY <1>25 DEF ResetJoined, FlowFree, XFree, Goto, NoPic, Typed, Placed, Locked, Returns,
       Threads, Places, Showing, UnderFlow, UnderX
  <1>26. CASE ShowFrame
    BY <1>26 DEF ShowFrame, Streaming, Spend, Goto, picture, Typed, Placed, Locked, Returns,
       Threads, Places, Showing, UnderFlow, UnderX
  <1>27. CASE DrainBegin
    BY <1>27 DEF DrainBegin, Streaming, Spend, Call, Goto, picture, Typed, Placed, Locked,
       Returns, Threads, Places, Showing, UnderFlow, UnderX
  <1>28. CASE SetHandle
    BY <1>28 DEF SetHandle, Spend, HandleGiven, FlowFree, XFree, Goto, picture, Typed, Placed,
       Locked, Returns, Threads, Places, Showing, UnderFlow, UnderX
  <1>29. CASE SetProperty
    BY <1>29, ManageSteps DEF Locked, Returns, Threads, Places, Showing, UnderFlow, UnderX
  <1>30. CASE Expose
    BY <1>30 DEF Expose, Spend, Call, Goto, picture, Typed, Placed, Locked, Returns, Threads,
       Places, Showing, UnderFlow, UnderX
  <1>31. CASE ToReady
    BY <1>31, ManageSteps DEF Locked, Returns, Threads, Places, Showing, UnderFlow, UnderX
  <1>32. CASE ToPaused
    BY <1>32 DEF ToPaused, Goto, picture, Typed, Placed, Locked, Returns, Threads, Places,
       Showing, UnderFlow, UnderX
  <1>33. CASE TogglePlaying
    BY <1>33 DEF TogglePlaying, picture, Typed, Placed, Locked, Returns, Threads, Places,
       Showing, UnderFlow, UnderX
  <1>34. CASE Deactivate
    BY <1>34 DEF Deactivate, Goto, picture, Typed, Placed, Locked, Returns, Threads, Places,
       Showing, UnderFlow, UnderX
  <1>35. CASE Stop
    BY <1>35 DEF Stop, Goto, NoPic, Typed, Placed, Locked, Returns, Threads, Places, Showing,
       UnderFlow, UnderX
  <1>36. CASE Dispose
    BY <1>36 DEF Dispose, Goto, picture, Typed, Placed, Locked, Returns, Threads, Places,
       Showing, UnderFlow, UnderX
  <1>37. CASE UNCHANGED vars
    BY <1>37 DEF vars, Typed, Placed, Locked, Returns, Threads, Places, Showing, UnderFlow,
       UnderX
  <1>q. QED
    BY <1>1, <1>2, <1>3, <1>4, <1>5, <1>6, <1>7, <1>8, <1>9, <1>10, <1>11, <1>12, <1>13, <1>14,
       <1>15, <1>16, <1>17, <1>18, <1>19, <1>20, <1>21, <1>22, <1>23, <1>24, <1>25, <1>26, <1>27,
       <1>28, <1>29, <1>30, <1>31, <1>32, <1>33, <1>34, <1>35, <1>36, <1>37 DEF Next, Stream,
       Events, Application, Repaint, PutStep, Threads

LEMMA PhasedStep ==
  ASSUME Typed, Placed, Phased, [Next]_vars
  PROVE  Phased'
PROOF
  <1>1. ASSUME NEW t \in Threads, PutBegin(t) PROVE Phased'
    BY <1>1 DEF PutBegin, Return, InputOf, FlowFree, Goto, Local, NoPic, picture, Typed, Placed,
       Phased, Going, Returns, Elements, Flags, Threads, Places, Showing
  <1>2. ASSUME NEW t \in Threads, PutClear(t) PROVE Phased'
    BY <1>2 DEF PutClear, Return, XFree, Neither, Both, Goto, Local, NoPic, picture, Typed,
       Placed, Phased, Going, Returns, Elements, Flags, Threads, Places, Showing
  <1>3. ASSUME NEW t \in Threads, PutPlane(t) PROVE Phased'
    BY <1>3 DEF PutPlane, Return, XFree, Neither, Both, Goto, Local, NoPic, Typed, Placed,
       Phased, Going, Returns, Elements, Flags, Threads, Places, Showing
  <1>4. ASSUME NEW t \in Threads, PutSync(t) PROVE Phased'
    BY <1>4 DEF PutSync, Return, Neither, Both, Goto, Local, NoPic, Typed, Placed, Phased, Going,
       Returns, Elements, Flags, Threads, Places, Showing
  <1>5. ASSUME NEW t \in Threads, HandleSwapped(t) PROVE Phased'
    BY <1>5 DEF HandleSwapped, Goto, picture, Typed, Placed, Phased, Going, Returns, Elements,
       Flags, Threads, Places, Showing
  <1>6. ASSUME NEW t \in Threads, Geometry(t) PROVE Phased'
    BY <1>6 DEF Geometry, XFree, Goto, picture, Typed, Placed, Phased, Going, Returns, Elements,
       Flags, Threads, Places, Showing
  <1>7. CASE Drain
    BY <1>7 DEF Drain, Goto, picture, Typed, Placed, Phased, Going, Returns, Elements, Flags,
       Threads, Places, Showing
  <1>8. CASE Queried
    BY <1>8 DEF Queried, Goto, Local, NoPic, picture, Typed, Placed, Phased, Going, Returns,
       Elements, Flags, Threads, Places, Showing
  <1>9. CASE Caps
    BY <1>9 DEF Caps, Goto, Local, NoPic, FlowFree, picture, Typed, Placed, Phased, Going,
       Returns, Elements, Flags, Threads, Places, Showing
  <1>10. CASE Prepare
    BY <1>10 DEF Prepare, HandleGiven, FlowFree, XFree, Goto, picture, Typed, Placed, Phased,
       Going, Returns, Elements, Flags, Threads, Places, Showing
  <1>11. CASE CapsWindow
    BY <1>11 DEF CapsWindow, FlowFree, XFree, Goto, picture, Typed, Placed, Phased, Going,
       Returns, Elements, Flags, Threads, Places, Showing
  <1>12. CASE EvCheck
    BY <1>12 DEF EvCheck, Goto, picture, Typed, Placed, Phased, Going, Returns, Elements, Flags,
       Threads, Places, Showing
  <1>13. CASE EvLock
    BY <1>13 DEF EvLock, FlowFree, XFree, Both, Goto, picture, Typed, Placed, Phased, Going,
       Returns, Elements, Flags, Threads, Places, Showing
  <1>14. CASE EvRelock
    BY <1>14 DEF EvRelock, FlowFree, XFree, Both, Goto, picture, Typed, Placed, Phased, Going,
       Returns, Elements, Flags, Threads, Places, Showing
  <1>15. CASE EvClosed
    BY <1>15 DEF EvClosed, XFree, Both, Goto, picture, Typed, Placed, Phased, Going, Returns,
       Elements, Flags, Threads, Places, Showing
  <1>16. CASE EvMoved
    BY <1>16 DEF EvMoved, Neither, Both, Call, Goto, picture, Typed, Placed, Phased, Going,
       Returns, Elements, Flags, Threads, Places, Showing
  <1>17. CASE EvInput
    BY <1>17 DEF EvInput, Neither, Both, Goto, picture, Typed, Placed, Phased, Going, Returns,
       Elements, Flags, Threads, Places, Showing
  <1>18. CASE EvExposed
    BY <1>18 DEF EvExposed, Neither, Both, Call, Goto, picture, Typed, Placed, Phased, Going,
       Returns, Elements, Flags, Threads, Places, Showing
  <1>19. CASE EvClose
    BY <1>19 DEF EvClose, Goto, picture, Typed, Placed, Phased, Going, Returns, Elements, Flags,
       Threads, Places, Showing
  <1>20. CASE Joined
    BY <1>20 DEF Joined, Goto, picture, Typed, Placed, Phased, Going, Returns, Elements, Flags,
       Threads, Places, Showing
  <1>21. CASE Start
    BY <1>21 DEF Start, Goto, Typed, Placed, Phased, Going, Returns, Elements, Flags, Threads,
       Places, Showing
  <1>22. CASE WindowCleared
    BY <1>22 DEF WindowCleared, FlowFree, XFree, Goto, picture, Typed, Placed, Phased, Going,
       Returns, Elements, Flags, Threads, Places, Showing
  <1>23. CASE Deactivated
    BY <1>23 DEF Deactivated, Goto, picture, Typed, Placed, Phased, Going, Returns, Elements,
       Flags, Threads, Places, Showing
  <1>24. CASE Reset
    BY <1>24 DEF Reset, Goto, picture, Typed, Placed, Phased, Going, Returns, Elements, Flags,
       Threads, Places, Showing
  <1>25. CASE ResetJoined
    BY <1>25 DEF ResetJoined, FlowFree, XFree, Goto, NoPic, Typed, Placed, Phased, Going,
       Returns, Elements, Flags, Threads, Places, Showing
  <1>26. CASE ShowFrame
    BY <1>26 DEF ShowFrame, Streaming, Spend, Goto, picture, Typed, Placed, Phased, Going,
       Returns, Elements, Flags, Threads, Places, Showing
  <1>27. CASE DrainBegin
    BY <1>27 DEF DrainBegin, Streaming, Spend, Call, Goto, picture, Typed, Placed, Phased, Going,
       Returns, Elements, Flags, Threads, Places, Showing
  <1>28. CASE SetHandle
    BY <1>28 DEF SetHandle, Spend, HandleGiven, FlowFree, XFree, Goto, picture, Typed, Placed,
       Phased, Going, Returns, Elements, Flags, Threads, Places, Showing
  <1>29. CASE SetProperty
    BY <1>29, ManageSteps DEF Phased, Going
  <1>30. CASE Expose
    BY <1>30 DEF Expose, Spend, Call, Goto, picture, Typed, Placed, Phased, Going, Returns,
       Elements, Flags, Threads, Places, Showing
  <1>31. CASE ToReady
    BY <1>31, ManageSteps DEF Phased, Going
  <1>32. CASE ToPaused
    BY <1>32 DEF ToPaused, Goto, picture, Typed, Placed, Phased, Going, Returns, Elements, Flags,
       Threads, Places, Showing
  <1>33. CASE TogglePlaying
    BY <1>33 DEF TogglePlaying, picture, Typed, Placed, Phased, Going, Returns, Elements, Flags,
       Threads, Places, Showing
  <1>34. CASE Deactivate
    BY <1>34 DEF Deactivate, Goto, picture, Typed, Placed, Phased, Going, Returns, Elements,
       Flags, Threads, Places, Showing
  <1>35. CASE Stop
    BY <1>35 DEF Stop, Goto, NoPic, Typed, Placed, Phased, Going, Returns, Elements, Flags,
       Threads, Places, Showing
  <1>36. CASE Dispose
    BY <1>36 DEF Dispose, Goto, picture, Typed, Placed, Phased, Going, Returns, Elements, Flags,
       Threads, Places, Showing
  <1>37. CASE UNCHANGED vars
    BY <1>37 DEF vars, Typed, Placed, Phased, Going, Returns, Elements, Flags, Threads, Places,
       Showing
  <1>q. QED
    BY <1>1, <1>2, <1>3, <1>4, <1>5, <1>6, <1>7, <1>8, <1>9, <1>10, <1>11, <1>12, <1>13, <1>14,
       <1>15, <1>16, <1>17, <1>18, <1>19, <1>20, <1>21, <1>22, <1>23, <1>24, <1>25, <1>26, <1>27,
       <1>28, <1>29, <1>30, <1>31, <1>32, <1>33, <1>34, <1>35, <1>36, <1>37 DEF Next, Stream,
       Events, Application, Repaint, PutStep, Threads

LEMMA WindowedStep ==
  ASSUME Typed, Placed, Locked, Phased, Windowed, [Next]_vars
  PROVE  Windowed'
PROOF
  <1>1. ASSUME NEW t \in Threads, PutBegin(t) PROVE Windowed'
    BY <1>1 DEF PutBegin, Return, InputOf, FlowFree, Goto, Local, NoPic, picture, Typed, Placed,
       Locked, Phased, Going, Windowed, Returns, Elements, Flags, Threads, Places, Showing,
       UnderFlow, UnderX
  <1>2. ASSUME NEW t \in Threads, PutClear(t) PROVE Windowed'
    BY <1>2 DEF PutClear, Return, XFree, Neither, Both, Goto, Local, NoPic, picture, Typed,
       Placed, Locked, Phased, Going, Windowed, Returns, Elements, Flags, Threads, Places, Showing,
       UnderFlow, UnderX
  <1>3. ASSUME NEW t \in Threads, PutPlane(t) PROVE Windowed'
    BY <1>3 DEF PutPlane, Return, XFree, Neither, Both, Goto, Local, NoPic, Typed, Placed,
       Locked, Phased, Going, Windowed, Returns, Elements, Flags, Threads, Places, Showing,
       UnderFlow, UnderX
  <1>4. ASSUME NEW t \in Threads, PutSync(t) PROVE Windowed'
    BY <1>4 DEF PutSync, Return, Neither, Both, Goto, Local, NoPic, Typed, Placed, Locked,
       Phased, Going, Windowed, Returns, Elements, Flags, Threads, Places, Showing, UnderFlow,
       UnderX
  <1>5. ASSUME NEW t \in Threads, HandleSwapped(t) PROVE Windowed'
    BY <1>5 DEF HandleSwapped, Goto, picture, Typed, Placed, Locked, Phased, Going, Windowed,
       Returns, Elements, Flags, Threads, Places, Showing, UnderFlow, UnderX
  <1>6. ASSUME NEW t \in Threads, Geometry(t) PROVE Windowed'
    BY <1>6 DEF Geometry, XFree, Goto, picture, Typed, Placed, Locked, Phased, Going, Windowed,
       Returns, Elements, Flags, Threads, Places, Showing, UnderFlow, UnderX
  <1>7. CASE Drain
    BY <1>7 DEF Drain, Goto, picture, Typed, Placed, Locked, Phased, Going, Windowed, Returns,
       Elements, Flags, Threads, Places, Showing, UnderFlow, UnderX
  <1>8. CASE Queried
    BY <1>8 DEF Queried, Goto, Local, NoPic, picture, Typed, Placed, Locked, Phased, Going,
       Windowed, Returns, Elements, Flags, Threads, Places, Showing, UnderFlow, UnderX
  <1>9. CASE Caps
    BY <1>9 DEF Caps, Goto, Local, NoPic, FlowFree, picture, Typed, Placed, Locked, Phased,
       Going, Windowed, Returns, Elements, Flags, Threads, Places, Showing, UnderFlow, UnderX
  <1>10. CASE Prepare
    BY <1>10 DEF Prepare, HandleGiven, FlowFree, XFree, Goto, picture, Typed, Placed, Locked,
       Phased, Going, Windowed, Returns, Elements, Flags, Threads, Places, Showing, UnderFlow,
       UnderX
  <1>11. CASE CapsWindow
    BY <1>11 DEF CapsWindow, FlowFree, XFree, Goto, picture, Typed, Placed, Locked, Phased,
       Going, Windowed, Returns, Elements, Flags, Threads, Places, Showing, UnderFlow, UnderX
  <1>12. CASE EvCheck
    BY <1>12 DEF EvCheck, Goto, picture, Typed, Placed, Locked, Phased, Going, Windowed, Returns,
       Elements, Flags, Threads, Places, Showing, UnderFlow, UnderX
  <1>13. CASE EvLock
    BY <1>13 DEF EvLock, FlowFree, XFree, Both, Goto, picture, Typed, Placed, Locked, Phased,
       Going, Windowed, Returns, Elements, Flags, Threads, Places, Showing, UnderFlow, UnderX
  <1>14. CASE EvRelock
    BY <1>14 DEF EvRelock, FlowFree, XFree, Both, Goto, picture, Typed, Placed, Locked, Phased,
       Going, Windowed, Returns, Elements, Flags, Threads, Places, Showing, UnderFlow, UnderX
  <1>15. CASE EvClosed
    BY <1>15 DEF EvClosed, XFree, Both, Goto, picture, Typed, Placed, Locked, Phased, Going,
       Windowed, Returns, Elements, Flags, Threads, Places, Showing, UnderFlow, UnderX
  <1>16. CASE EvMoved
    BY <1>16 DEF EvMoved, Neither, Both, Call, Goto, picture, Typed, Placed, Locked, Phased,
       Going, Windowed, Returns, Elements, Flags, Threads, Places, Showing, UnderFlow, UnderX
  <1>17. CASE EvInput
    BY <1>17 DEF EvInput, Neither, Both, Goto, picture, Typed, Placed, Locked, Phased, Going,
       Windowed, Returns, Elements, Flags, Threads, Places, Showing, UnderFlow, UnderX
  <1>18. CASE EvExposed
    BY <1>18 DEF EvExposed, Neither, Both, Call, Goto, picture, Typed, Placed, Locked, Phased,
       Going, Windowed, Returns, Elements, Flags, Threads, Places, Showing, UnderFlow, UnderX
  <1>19. CASE EvClose
    BY <1>19 DEF EvClose, Goto, picture, Typed, Placed, Locked, Phased, Going, Windowed, Returns,
       Elements, Flags, Threads, Places, Showing, UnderFlow, UnderX
  <1>20. CASE Joined
    BY <1>20 DEF Joined, Goto, picture, Typed, Placed, Locked, Phased, Going, Windowed, Returns,
       Elements, Flags, Threads, Places, Showing, UnderFlow, UnderX
  <1>21. CASE Start
    BY <1>21 DEF Start, Goto, Typed, Placed, Locked, Phased, Going, Windowed, Returns, Elements,
       Flags, Threads, Places, Showing, UnderFlow, UnderX
  <1>22. CASE WindowCleared
    BY <1>22 DEF WindowCleared, FlowFree, XFree, Goto, picture, Typed, Placed, Locked, Phased,
       Going, Windowed, Returns, Elements, Flags, Threads, Places, Showing, UnderFlow, UnderX
  <1>23. CASE Deactivated
    BY <1>23 DEF Deactivated, Goto, picture, Typed, Placed, Locked, Phased, Going, Windowed,
       Returns, Elements, Flags, Threads, Places, Showing, UnderFlow, UnderX
  <1>24. CASE Reset
    BY <1>24 DEF Reset, Goto, picture, Typed, Placed, Locked, Phased, Going, Windowed, Returns,
       Elements, Flags, Threads, Places, Showing, UnderFlow, UnderX
  <1>25. CASE ResetJoined
    BY <1>25 DEF ResetJoined, FlowFree, XFree, Goto, NoPic, Typed, Placed, Locked, Phased, Going,
       Windowed, Returns, Elements, Flags, Threads, Places, Showing, UnderFlow, UnderX
  <1>26. CASE ShowFrame
    BY <1>26 DEF ShowFrame, Streaming, Spend, Goto, picture, Typed, Placed, Locked, Phased,
       Going, Windowed, Returns, Elements, Flags, Threads, Places, Showing, UnderFlow, UnderX
  <1>27. CASE DrainBegin
    BY <1>27 DEF DrainBegin, Streaming, Spend, Call, Goto, picture, Typed, Placed, Locked,
       Phased, Going, Windowed, Returns, Elements, Flags, Threads, Places, Showing, UnderFlow,
       UnderX
  <1>28. CASE SetHandle
    BY <1>28 DEF SetHandle, Spend, HandleGiven, FlowFree, XFree, Goto, picture, Typed, Placed,
       Locked, Phased, Going, Windowed, Returns, Elements, Flags, Threads, Places, Showing,
       UnderFlow, UnderX
  <1>29. CASE SetProperty
    BY <1>29, ManageSteps DEF Windowed, Returns, Threads, Places, Showing
  <1>30. CASE Expose
    BY <1>30 DEF Expose, Spend, Call, Goto, picture, Typed, Placed, Locked, Phased, Going,
       Windowed, Returns, Elements, Flags, Threads, Places, Showing, UnderFlow, UnderX
  <1>31. CASE ToReady
    BY <1>31, ManageSteps DEF Windowed, Returns, Threads, Places, Showing
  <1>32. CASE ToPaused
    BY <1>32 DEF ToPaused, Goto, picture, Typed, Placed, Locked, Phased, Going, Windowed,
       Returns, Elements, Flags, Threads, Places, Showing, UnderFlow, UnderX
  <1>33. CASE TogglePlaying
    BY <1>33 DEF TogglePlaying, picture, Typed, Placed, Locked, Phased, Going, Windowed, Returns,
       Elements, Flags, Threads, Places, Showing, UnderFlow, UnderX
  <1>34. CASE Deactivate
    BY <1>34 DEF Deactivate, Goto, picture, Typed, Placed, Locked, Phased, Going, Windowed,
       Returns, Elements, Flags, Threads, Places, Showing, UnderFlow, UnderX
  <1>35. CASE Stop
    BY <1>35 DEF Stop, Goto, NoPic, Typed, Placed, Locked, Phased, Going, Windowed, Returns,
       Elements, Flags, Threads, Places, Showing, UnderFlow, UnderX
  <1>36. CASE Dispose
    BY <1>36 DEF Dispose, Goto, picture, Typed, Placed, Locked, Phased, Going, Windowed, Returns,
       Elements, Flags, Threads, Places, Showing, UnderFlow, UnderX
  <1>37. CASE UNCHANGED vars
    BY <1>37 DEF vars, Typed, Placed, Locked, Phased, Going, Windowed, Returns, Elements, Flags,
       Threads, Places, Showing, UnderFlow, UnderX
  <1>q. QED
    BY <1>1, <1>2, <1>3, <1>4, <1>5, <1>6, <1>7, <1>8, <1>9, <1>10, <1>11, <1>12, <1>13, <1>14,
       <1>15, <1>16, <1>17, <1>18, <1>19, <1>20, <1>21, <1>22, <1>23, <1>24, <1>25, <1>26, <1>27,
       <1>28, <1>29, <1>30, <1>31, <1>32, <1>33, <1>34, <1>35, <1>36, <1>37 DEF Next, Stream,
       Events, Application, Repaint, PutStep, Threads

LEMMA PicturedStep ==
  ASSUME Typed, Placed, Locked, Phased, Pictured, [Next]_vars
  PROVE  Pictured'
PROOF
  <1>1. ASSUME NEW t \in Threads, PutBegin(t) PROVE Pictured'
    BY <1>1 DEF PutBegin, Return, InputOf, FlowFree, Goto, Local, NoPic, picture, Typed, Placed,
       Locked, Phased, Going, Pictured, Returns, Elements, Flags, Locals, Given, Threads, Places,
       Showing, UnderFlow, UnderX
  <1>2. ASSUME NEW t \in Threads, PutClear(t) PROVE Pictured'
    BY <1>2 DEF PutClear, Return, XFree, Neither, Both, Goto, Local, NoPic, picture, Typed,
       Placed, Locked, Phased, Going, Pictured, Returns, Elements, Flags, Locals, Given, Threads,
       Places, Showing, UnderFlow, UnderX
  <1>3. ASSUME NEW t \in Threads, PutPlane(t) PROVE Pictured'
    BY <1>3 DEF PutPlane, Return, XFree, Neither, Both, Goto, Local, NoPic, Typed, Placed,
       Locked, Phased, Going, Pictured, Returns, Elements, Flags, Locals, Given, Threads, Places,
       Showing, UnderFlow, UnderX
  <1>4. ASSUME NEW t \in Threads, PutSync(t) PROVE Pictured'
    BY <1>4 DEF PutSync, Return, Neither, Both, Goto, Local, NoPic, Typed, Placed, Locked,
       Phased, Going, Pictured, Returns, Elements, Flags, Locals, Given, Threads, Places, Showing,
       UnderFlow, UnderX
  <1>5. ASSUME NEW t \in Threads, HandleSwapped(t) PROVE Pictured'
    BY <1>5 DEF HandleSwapped, Goto, picture, Typed, Placed, Locked, Phased, Going, Pictured,
       Returns, Elements, Flags, Locals, Given, Threads, Places, Showing, UnderFlow, UnderX
  <1>6. ASSUME NEW t \in Threads, Geometry(t) PROVE Pictured'
    BY <1>6 DEF Geometry, XFree, Goto, picture, Typed, Placed, Locked, Phased, Going, Pictured,
       Returns, Elements, Flags, Locals, Given, Threads, Places, Showing, UnderFlow, UnderX
  <1>7. CASE Drain
    BY <1>7, DrainSteps DEF Pictured, Going, Typed, Threads, Placed, Places, Returns, Showing
  <1>8. CASE Queried
    BY <1>8 DEF Queried, Goto, Local, NoPic, picture, Typed, Placed, Locked, Phased, Going,
       Pictured, Returns, Elements, Flags, Locals, Given, Threads, Places, Showing, UnderFlow,
       UnderX
  <1>9. CASE Caps
    BY <1>9 DEF Caps, Goto, Local, NoPic, FlowFree, picture, Typed, Placed, Locked, Phased,
       Going, Pictured, Returns, Elements, Flags, Locals, Given, Threads, Places, Showing,
       UnderFlow, UnderX
  <1>10. CASE Prepare
    BY <1>10 DEF Prepare, HandleGiven, FlowFree, XFree, Goto, picture, Typed, Placed, Locked,
       Phased, Going, Pictured, Returns, Elements, Flags, Locals, Given, Threads, Places, Showing,
       UnderFlow, UnderX
  <1>11. CASE CapsWindow
    BY <1>11 DEF CapsWindow, FlowFree, XFree, Goto, picture, Typed, Placed, Locked, Phased,
       Going, Pictured, Returns, Elements, Flags, Locals, Given, Threads, Places, Showing,
       UnderFlow, UnderX
  <1>12. CASE EvCheck
    BY <1>12 DEF EvCheck, Goto, picture, Typed, Placed, Locked, Phased, Going, Pictured, Returns,
       Elements, Flags, Locals, Given, Threads, Places, Showing, UnderFlow, UnderX
  <1>13. CASE EvLock
    BY <1>13 DEF EvLock, FlowFree, XFree, Both, Goto, picture, Typed, Placed, Locked, Phased,
       Going, Pictured, Returns, Elements, Flags, Locals, Given, Threads, Places, Showing,
       UnderFlow, UnderX
  <1>14. CASE EvRelock
    BY <1>14 DEF EvRelock, FlowFree, XFree, Both, Goto, picture, Typed, Placed, Locked, Phased,
       Going, Pictured, Returns, Elements, Flags, Locals, Given, Threads, Places, Showing,
       UnderFlow, UnderX
  <1>15. CASE EvClosed
    BY <1>15 DEF EvClosed, XFree, Both, Goto, picture, Typed, Placed, Locked, Phased, Going,
       Pictured, Returns, Elements, Flags, Locals, Given, Threads, Places, Showing, UnderFlow,
       UnderX
  <1>16. CASE EvMoved
    BY <1>16 DEF EvMoved, Neither, Both, Call, Goto, picture, Typed, Placed, Locked, Phased,
       Going, Pictured, Returns, Elements, Flags, Locals, Given, Threads, Places, Showing,
       UnderFlow, UnderX
  <1>17. CASE EvInput
    BY <1>17 DEF EvInput, Neither, Both, Goto, picture, Typed, Placed, Locked, Phased, Going,
       Pictured, Returns, Elements, Flags, Locals, Given, Threads, Places, Showing, UnderFlow,
       UnderX
  <1>18. CASE EvExposed
    BY <1>18 DEF EvExposed, Neither, Both, Call, Goto, picture, Typed, Placed, Locked, Phased,
       Going, Pictured, Returns, Elements, Flags, Locals, Given, Threads, Places, Showing,
       UnderFlow, UnderX
  <1>19. CASE EvClose
    BY <1>19 DEF EvClose, Goto, picture, Typed, Placed, Locked, Phased, Going, Pictured, Returns,
       Elements, Flags, Locals, Given, Threads, Places, Showing, UnderFlow, UnderX
  <1>20. CASE Joined
    BY <1>20 DEF Joined, Goto, picture, Typed, Placed, Locked, Phased, Going, Pictured, Returns,
       Elements, Flags, Locals, Given, Threads, Places, Showing, UnderFlow, UnderX
  <1>21. CASE Start
    BY <1>21 DEF Start, Goto, Typed, Placed, Locked, Phased, Going, Pictured, Returns, Elements,
       Flags, Locals, Given, Threads, Places, Showing, UnderFlow, UnderX
  <1>22. CASE WindowCleared
    BY <1>22 DEF WindowCleared, FlowFree, XFree, Goto, picture, Typed, Placed, Locked, Phased,
       Going, Pictured, Returns, Elements, Flags, Locals, Given, Threads, Places, Showing,
       UnderFlow, UnderX
  <1>23. CASE Deactivated
    BY <1>23 DEF Deactivated, Goto, picture, Typed, Placed, Locked, Phased, Going, Pictured,
       Returns, Elements, Flags, Locals, Given, Threads, Places, Showing, UnderFlow, UnderX
  <1>24. CASE Reset
    BY <1>24 DEF Reset, Goto, picture, Typed, Placed, Locked, Phased, Going, Pictured, Returns,
       Elements, Flags, Locals, Given, Threads, Places, Showing, UnderFlow, UnderX
  <1>25. CASE ResetJoined
    BY <1>25 DEF ResetJoined, FlowFree, XFree, Goto, NoPic, Typed, Placed, Locked, Phased, Going,
       Pictured, Returns, Elements, Flags, Locals, Given, Threads, Places, Showing, UnderFlow,
       UnderX
  <1>26. CASE ShowFrame
    BY <1>26 DEF ShowFrame, Streaming, Spend, Goto, picture, Typed, Placed, Locked, Phased,
       Going, Pictured, Returns, Elements, Flags, Locals, Given, Threads, Places, Showing,
       UnderFlow, UnderX
  <1>27. CASE DrainBegin
    BY <1>27 DEF DrainBegin, Streaming, Spend, Call, Goto, picture, Typed, Placed, Locked,
       Phased, Going, Pictured, Returns, Elements, Flags, Locals, Given, Threads, Places, Showing,
       UnderFlow, UnderX
  <1>28. CASE SetHandle
    BY <1>28 DEF SetHandle, Spend, HandleGiven, FlowFree, XFree, Goto, picture, Typed, Placed,
       Locked, Phased, Going, Pictured, Returns, Elements, Flags, Locals, Given, Threads, Places,
       Showing, UnderFlow, UnderX
  <1>29. CASE SetProperty
    BY <1>29, ManageSteps DEF Pictured, Returns, Threads, Places, Showing, Going
  <1>30. CASE Expose
    BY <1>30 DEF Expose, Spend, Call, Goto, picture, Typed, Placed, Locked, Phased, Going,
       Pictured, Returns, Elements, Flags, Locals, Given, Threads, Places, Showing, UnderFlow,
       UnderX
  <1>31. CASE ToReady
    BY <1>31, ManageSteps DEF Pictured, Returns, Threads, Places, Showing, Going
  <1>32. CASE ToPaused
    BY <1>32 DEF ToPaused, Goto, picture, Typed, Placed, Locked, Phased, Going, Pictured,
       Returns, Elements, Flags, Locals, Given, Threads, Places, Showing, UnderFlow, UnderX
  <1>33. CASE TogglePlaying
    BY <1>33 DEF TogglePlaying, picture, Typed, Placed, Locked, Phased, Going, Pictured, Returns,
       Elements, Flags, Locals, Given, Threads, Places, Showing, UnderFlow, UnderX
  <1>34. CASE Deactivate
    BY <1>34 DEF Deactivate, Goto, picture, Typed, Placed, Locked, Phased, Going, Pictured,
       Returns, Elements, Flags, Locals, Given, Threads, Places, Showing, UnderFlow, UnderX
  <1>35. CASE Stop
    BY <1>35 DEF Stop, Goto, NoPic, Typed, Placed, Locked, Phased, Going, Pictured, Returns,
       Elements, Flags, Locals, Given, Threads, Places, Showing, UnderFlow, UnderX
  <1>36. CASE Dispose
    BY <1>36 DEF Dispose, Goto, picture, Typed, Placed, Locked, Phased, Going, Pictured, Returns,
       Elements, Flags, Locals, Given, Threads, Places, Showing, UnderFlow, UnderX
  <1>37. CASE UNCHANGED vars
    BY <1>37 DEF vars, Typed, Placed, Locked, Phased, Going, Pictured, Returns, Elements, Flags,
       Locals, Given, Threads, Places, Showing, UnderFlow, UnderX
  <1>q. QED
    BY <1>1, <1>2, <1>3, <1>4, <1>5, <1>6, <1>7, <1>8, <1>9, <1>10, <1>11, <1>12, <1>13, <1>14,
       <1>15, <1>16, <1>17, <1>18, <1>19, <1>20, <1>21, <1>22, <1>23, <1>24, <1>25, <1>26, <1>27,
       <1>28, <1>29, <1>30, <1>31, <1>32, <1>33, <1>34, <1>35, <1>36, <1>37 DEF Next, Stream,
       Events, Application, Repaint, PutStep, Threads

LEMMA DrainedStep ==
  ASSUME Typed, Placed, Locked, Phased, Pictured, Drained, [Next]_vars
  PROVE  Drained'
PROOF
  <1>1. ASSUME NEW t \in Threads, PutBegin(t) PROVE Drained'
    <2>1. CASE Return(t, FALSE)
      <3>1. /\ pc' = [pc EXCEPT ![t] = my[t].then] /\ pc[t] = "put"
            /\ my'[t].copied = my[t].copied
            /\ my[t].then \in {"queried", "caps"} => my'[t].res = FALSE
            /\ \A u \in Threads : u # t => my'[u] = my[u]
        BY <1>1, <2>1, ReturnSteps DEF PutBegin
      <3>2. last' = last
        BY <1>1 DEF PutBegin, picture
      <3> QED
        BY <3>1, <3>2 DEF Drained, DrainReleases, Placed, Returns, Threads, Places,
           Showing, Typed
    <2>2. CASE ~Return(t, FALSE)
      <3>1. PICK p \in Shown : /\ pc' = [pc EXCEPT ![t] = IF p = NoPic THEN "clear" ELSE "plane"]
                               /\ my' = [my EXCEPT ![t].pic = p]
                               /\ t = "S" /\ my[t].pic.from # "new" => p = my[t].pic
        BY <1>1, <2>2, BeginSteps
      <3>2. /\ my'[t].pic = p /\ my'[t].then = my[t].then /\ my'[t].copied = my[t].copied
            /\ \A u \in Threads : u # t => my'[u] = my[u]
        BY <3>1 DEF Typed, Locals
      <3>3. pc[t] = "put" /\ last' = last
        BY <1>1 DEF PutBegin, picture
      <3> QED
        BY <3>1, <3>2, <3>3 DEF Drained, DrainReleases, Placed, Returns, Threads, Places,
           Showing, Typed
    <2> QED
      BY <2>1, <2>2
  <1>2. ASSUME NEW t \in Threads, PutClear(t) PROVE Drained'
    <2>1. /\ pc' = [pc EXCEPT ![t] = my[t].then] /\ pc[t] = "clear"
          /\ my'[t].copied = my[t].copied
          /\ my[t].then \in {"queried", "caps"} => my'[t].res = TRUE
          /\ \A u \in Threads : u # t => my'[u] = my[u]
      BY <1>2, ReturnSteps DEF PutClear
    <2>2. last' = last
      BY <1>2 DEF PutClear, picture
    <2> QED
      BY <2>1, <2>2 DEF Drained, DrainReleases, Placed, Returns, Threads, Places, Showing,
         Typed, NoPic
  <1>3. ASSUME NEW t \in Threads, PutPlane(t) PROVE Drained'
    <2>1. CASE Return(t, FALSE)
      <3>1. /\ pc' = [pc EXCEPT ![t] = my[t].then] /\ pc[t] = "plane"
            /\ my'[t].copied = my[t].copied
            /\ my[t].then \in {"queried", "caps"} => my'[t].res = FALSE
            /\ \A u \in Threads : u # t => my'[u] = my[u]
        BY <1>3, <2>1, ReturnSteps DEF PutPlane
      <3>2. last' = last
        BY <1>3 DEF PutPlane
      <3> QED
        BY <3>1, <3>2 DEF Drained, DrainReleases, Placed, Returns, Threads, Places,
           Showing, Typed
    <2>2. CASE Goto(t, "sync") /\ UNCHANGED my
      <3>1. last' = last /\ pc[t] = "plane" /\ pc' = [pc EXCEPT ![t] = "sync"] /\ my' = my
        BY <1>3, <2>2 DEF PutPlane, Goto
      <3> QED
        BY <3>1 DEF Drained, DrainReleases, Placed, Returns, Threads, Places, Showing, Typed
    <2> QED
      BY <1>3, <2>1, <2>2 DEF PutPlane
  <1>4. ASSUME NEW t \in Threads, PutSync(t) PROVE Drained'
    <2>1. PICK ok \in BOOLEAN : Return(t, ok) /\ last' = IF ok THEN my[t].pic ELSE last
      BY <1>4 DEF PutSync
    <2>2. /\ pc' = [pc EXCEPT ![t] = my[t].then] /\ pc[t] = "sync"
          /\ my'[t].copied = my[t].copied
          /\ my[t].then \in {"queried", "caps"} => my'[t].res = ok
          /\ \A u \in Threads : u # t => my'[u] = my[u]
      BY <1>4, <2>1, ReturnSteps DEF PutSync
    <2>3. CASE t = "S"
      <3>1. my["S"].then \in {"idle", "queried", "caps"}
        BY DEF Placed, Returns, Threads
      <3> QED
        BY <2>1, <2>2, <2>3, <3>1 DEF Drained, DrainReleases, Placed, Returns, Threads,
           Places, Showing, Typed
    <2>4. CASE t # "S"
      <3>1. my[t].pic = last \/ pc["S"] = "idle"
        BY <2>2, <2>4 DEF Pictured, Phased, Showing, Threads, Going
      <3> QED
        BY <2>1, <2>2, <2>4, <3>1 DEF Drained, DrainReleases, Placed, Returns, Threads,
           Places, Showing, Typed
    <2> QED
      BY <2>3, <2>4
  <1>5. ASSUME NEW t \in Threads, HandleSwapped(t) PROVE Drained'
    BY <1>5 DEF HandleSwapped, Goto, picture, Typed, Placed, Locked, Pictured, Phased, Going,
       Drained, DrainReleases, Returns, Locals, Given, Threads, Places, Showing, UnderFlow, UnderX
  <1>6. ASSUME NEW t \in Threads, Geometry(t) PROVE Drained'
    BY <1>6 DEF Geometry, XFree, Goto, picture, Typed, Placed, Locked, Pictured, Phased, Going,
       Drained, DrainReleases, Returns, Locals, Given, Threads, Places, Showing, UnderFlow, UnderX
  <1>7. CASE Drain
    BY <1>7, DrainSteps DEF Drained, DrainReleases, Typed, Threads, Placed, Places, Returns,
       Showing
  <1>8. CASE Queried
    BY <1>8 DEF Queried, Goto, Local, NoPic, picture, Typed, Placed, Locked, Pictured, Phased,
       Going, Drained, DrainReleases, Returns, Locals, Given, Threads, Places, Showing, UnderFlow,
       UnderX
  <1>9. CASE Caps
    BY <1>9 DEF Caps, Goto, Local, NoPic, FlowFree, picture, Typed, Placed, Locked, Pictured,
       Phased, Going, Drained, DrainReleases, Returns, Locals, Given, Threads, Places, Showing,
       UnderFlow, UnderX
  <1>10. CASE Prepare
    BY <1>10 DEF Prepare, HandleGiven, FlowFree, XFree, Goto, picture, Typed, Placed, Locked,
       Pictured, Phased, Going, Drained, DrainReleases, Returns, Locals, Given, Threads, Places,
       Showing, UnderFlow, UnderX
  <1>11. CASE CapsWindow
    BY <1>11 DEF CapsWindow, FlowFree, XFree, Goto, picture, Typed, Placed, Locked, Pictured,
       Phased, Going, Drained, DrainReleases, Returns, Locals, Given, Threads, Places, Showing,
       UnderFlow, UnderX
  <1>12. CASE EvCheck
    BY <1>12 DEF EvCheck, Goto, picture, Typed, Placed, Locked, Pictured, Phased, Going, Drained,
       DrainReleases, Returns, Locals, Given, Threads, Places, Showing, UnderFlow, UnderX
  <1>13. CASE EvLock
    BY <1>13 DEF EvLock, FlowFree, XFree, Both, Goto, picture, Typed, Placed, Locked, Pictured,
       Phased, Going, Drained, DrainReleases, Returns, Locals, Given, Threads, Places, Showing,
       UnderFlow, UnderX
  <1>14. CASE EvRelock
    BY <1>14 DEF EvRelock, FlowFree, XFree, Both, Goto, picture, Typed, Placed, Locked, Pictured,
       Phased, Going, Drained, DrainReleases, Returns, Locals, Given, Threads, Places, Showing,
       UnderFlow, UnderX
  <1>15. CASE EvClosed
    BY <1>15 DEF EvClosed, XFree, Both, Goto, picture, Typed, Placed, Locked, Pictured, Phased,
       Going, Drained, DrainReleases, Returns, Locals, Given, Threads, Places, Showing, UnderFlow,
       UnderX
  <1>16. CASE EvMoved
    BY <1>16 DEF EvMoved, Neither, Both, Call, Goto, picture, Typed, Placed, Locked, Pictured,
       Phased, Going, Drained, DrainReleases, Returns, Locals, Given, Threads, Places, Showing,
       UnderFlow, UnderX
  <1>17. CASE EvInput
    BY <1>17 DEF EvInput, Neither, Both, Goto, picture, Typed, Placed, Locked, Pictured, Phased,
       Going, Drained, DrainReleases, Returns, Locals, Given, Threads, Places, Showing, UnderFlow,
       UnderX
  <1>18. CASE EvExposed
    BY <1>18 DEF EvExposed, Neither, Both, Call, Goto, picture, Typed, Placed, Locked, Pictured,
       Phased, Going, Drained, DrainReleases, Returns, Locals, Given, Threads, Places, Showing,
       UnderFlow, UnderX
  <1>19. CASE EvClose
    BY <1>19 DEF EvClose, Goto, picture, Typed, Placed, Locked, Pictured, Phased, Going, Drained,
       DrainReleases, Returns, Locals, Given, Threads, Places, Showing, UnderFlow, UnderX
  <1>20. CASE Joined
    BY <1>20 DEF Joined, Goto, picture, Typed, Placed, Locked, Pictured, Phased, Going, Drained,
       DrainReleases, Returns, Locals, Given, Threads, Places, Showing, UnderFlow, UnderX
  <1>21. CASE Start
    BY <1>21 DEF Start, Goto, Typed, Placed, Locked, Pictured, Phased, Going, Drained,
       DrainReleases, Returns, Locals, Given, Threads, Places, Showing, UnderFlow, UnderX
  <1>22. CASE WindowCleared
    BY <1>22 DEF WindowCleared, FlowFree, XFree, Goto, picture, Typed, Placed, Locked, Pictured,
       Phased, Going, Drained, DrainReleases, Returns, Locals, Given, Threads, Places, Showing,
       UnderFlow, UnderX
  <1>23. CASE Deactivated
    BY <1>23 DEF Deactivated, Goto, picture, Typed, Placed, Locked, Pictured, Phased, Going,
       Drained, DrainReleases, Returns, Locals, Given, Threads, Places, Showing, UnderFlow, UnderX
  <1>24. CASE Reset
    BY <1>24 DEF Reset, Goto, picture, Typed, Placed, Locked, Pictured, Phased, Going, Drained,
       DrainReleases, Returns, Locals, Given, Threads, Places, Showing, UnderFlow, UnderX
  <1>25. CASE ResetJoined
    BY <1>25 DEF ResetJoined, FlowFree, XFree, Goto, NoPic, Typed, Placed, Locked, Pictured,
       Phased, Going, Drained, DrainReleases, Returns, Locals, Given, Threads, Places, Showing,
       UnderFlow, UnderX
  <1>26. CASE ShowFrame
    BY <1>26 DEF ShowFrame, Streaming, Spend, Goto, picture, Typed, Placed, Locked, Pictured,
       Phased, Going, Drained, DrainReleases, Returns, Locals, Given, Threads, Places, Showing,
       UnderFlow, UnderX
  <1>27. CASE DrainBegin
    BY <1>27 DEF DrainBegin, Streaming, Spend, Call, Goto, picture, Typed, Placed, Locked,
       Pictured, Phased, Going, Drained, DrainReleases, Returns, Locals, Given, Threads, Places,
       Showing, UnderFlow, UnderX
  <1>28. CASE SetHandle
    BY <1>28 DEF SetHandle, Spend, HandleGiven, FlowFree, XFree, Goto, picture, Typed, Placed,
       Locked, Pictured, Phased, Going, Drained, DrainReleases, Returns, Locals, Given, Threads,
       Places, Showing, UnderFlow, UnderX
  <1>29. CASE SetProperty
    BY <1>29, ManageSteps DEF Drained, Returns, Threads, Places, Showing, DrainReleases
  <1>30. CASE Expose
    BY <1>30 DEF Expose, Spend, Call, Goto, picture, Typed, Placed, Locked, Pictured, Phased,
       Going, Drained, DrainReleases, Returns, Locals, Given, Threads, Places, Showing, UnderFlow,
       UnderX
  <1>31. CASE ToReady
    BY <1>31, ManageSteps DEF Drained, Returns, Threads, Places, Showing, DrainReleases
  <1>32. CASE ToPaused
    BY <1>32 DEF ToPaused, Goto, picture, Typed, Placed, Locked, Pictured, Phased, Going,
       Drained, DrainReleases, Returns, Locals, Given, Threads, Places, Showing, UnderFlow, UnderX
  <1>33. CASE TogglePlaying
    BY <1>33 DEF TogglePlaying, picture, Typed, Placed, Locked, Pictured, Phased, Going, Drained,
       DrainReleases, Returns, Locals, Given, Threads, Places, Showing, UnderFlow, UnderX
  <1>34. CASE Deactivate
    BY <1>34 DEF Deactivate, Goto, picture, Typed, Placed, Locked, Pictured, Phased, Going,
       Drained, DrainReleases, Returns, Locals, Given, Threads, Places, Showing, UnderFlow, UnderX
  <1>35. CASE Stop
    BY <1>35 DEF Stop, Goto, NoPic, Typed, Placed, Locked, Pictured, Phased, Going, Drained,
       DrainReleases, Returns, Locals, Given, Threads, Places, Showing, UnderFlow, UnderX
  <1>36. CASE Dispose
    BY <1>36 DEF Dispose, Goto, picture, Typed, Placed, Locked, Pictured, Phased, Going, Drained,
       DrainReleases, Returns, Locals, Given, Threads, Places, Showing, UnderFlow, UnderX
  <1>37. CASE UNCHANGED vars
    BY <1>37 DEF vars, Typed, Placed, Locked, Pictured, Phased, Going, Drained, DrainReleases,
       Returns, Locals, Given, Threads, Places, Showing, UnderFlow, UnderX
  <1>q. QED
    BY <1>1, <1>2, <1>3, <1>4, <1>5, <1>6, <1>7, <1>8, <1>9, <1>10, <1>11, <1>12, <1>13, <1>14,
       <1>15, <1>16, <1>17, <1>18, <1>19, <1>20, <1>21, <1>22, <1>23, <1>24, <1>25, <1>26, <1>27,
       <1>28, <1>29, <1>30, <1>31, <1>32, <1>33, <1>34, <1>35, <1>36, <1>37 DEF Next, Stream,
       Events, Application, Repaint, PutStep, Threads

LEMMA InitHolds ==
  ASSUME Init
  PROVE  SinkInv
PROOF
  <1>1. Typed
    <2>1. my \in [Threads -> Locals] /\ last \in Shown /\ plane \in Shown
      BY LocalTyped, NoPicTyped DEF Init
    <2>2. pc \in [Threads -> Labels]
      BY DEF Init, Threads, Labels, Places
    <2>3. el \in Elements
      <3>1. el = [ctx |-> FALSE, fd |-> FALSE, running |-> FALSE, thread |-> FALSE, expose |-> TRUE,
               events |-> TRUE, paused |-> FALSE, sized |-> FALSE, clip |-> FALSE]
        BY DEF Init
      <3>2. DOMAIN el = Flags 
        BY <3>1 DEF Flags
      <3>3. \A f \in Flags : el[f] \in BOOLEAN
        <4>1. /\ el["ctx"] = FALSE /\ el["fd"] = FALSE /\ el["running"] = FALSE
              /\ el["thread"] = FALSE /\ el["expose"] = TRUE /\ el["events"] = TRUE
              /\ el["paused"] = FALSE
              /\ el["sized"] = FALSE /\ el["clip"] = FALSE
          BY ONLY <3>1
        <4> QED
          BY <4>1, Zenon DEF Flags
      <3>4. el = [i \in DOMAIN el |-> el[i]]
        BY <3>1
      <3> QED
      BY <3>2, <3>3, <3>4 DEF Elements
    <2>4. left \in [pics : 0..MaxPics, calls : Nat, drains : Nat, cycles : Nat]
      BY SinkAssumption DEF Init
    <2>5. lock \in [{"flow", "x"} -> Threads \cup {"free"}]
      <3>1. lock = [flow |-> "free", x |-> "free"]
        BY DEF Init
      <3>2. DOMAIN lock = {"flow", "x"}
        BY <3>1
      <3>3. lock["flow"] = "free" /\ lock["x"] = "free"
        BY <3>1
      <3>4. lock = [i \in DOMAIN lock |-> lock[i]]
        BY <3>1
      <3> QED
      BY <3>2, <3>3, <3>4
    <2>6. /\ synced \in BOOLEAN
          /\ life \in {"null", "ready", "paused", "gone"} /\ window \in {"none", "live", "dying"}
      BY DEF Init, Threads
    <2> QED
      BY <2>1, <2>2, <2>3, <2>4, <2>5, <2>6 DEF Typed
  <1>2. Placed
    BY DEF Init, Placed, Threads, Places, Returns, Local, Showing
  <1>3. Locked /\ Windowed
    BY DEF Init, Locked, Windowed, Threads, UnderFlow, UnderX, Showing
  <1>4. Phased /\ Pictured
    BY DEF Init, Phased, Pictured, Threads, Going, Showing
  <1>5. Drained
    BY DEF Init, Drained, DrainReleases, Showing, Threads
  <1> QED
    BY <1>1, <1>2, <1>3, <1>4, <1>5 DEF SinkInv

LEMMA InvStep == SinkInv /\ [Next]_vars => SinkInv'
PROOF
  <1> SUFFICES ASSUME SinkInv, [Next]_vars PROVE SinkInv'
    OBVIOUS
  <1>1. Typed /\ Placed /\ Locked /\ Phased /\ Windowed /\ Pictured /\ Drained
    BY DEF SinkInv
  <1>2. Typed' /\ Placed' /\ Locked' /\ Phased'
    BY <1>1, TypedStep, PlacedStep, LockedStep, PhasedStep
  <1>3. Windowed' /\ Pictured' /\ Drained'
    BY <1>1, WindowedStep, PicturedStep, DrainedStep
  <1> QED
    BY <1>2, <1>3 DEF SinkInv

LEMMA InvHolds == Spec => []SinkInv
PROOF
  <1>1. Init => SinkInv
    BY InitHolds
  <1> QED
    BY <1>1, InvStep, PTL DEF Spec

-----------------------------------------------------------------------------
(* The theorems *)

\* The picture on the plane is the one last_buffer holds whenever flow_lock is
\* free and the last vblank wait succeeded, so that upstream is not given a
\* buffer the display still scans out (ximage_put, expose, stop, drain).
THEOREM PicturesHeld == Spec => []PictureHeld
PROOF
  <1>1. SinkInv => PictureHeld
    BY DEF SinkInv, Pictured, PictureHeld
  <1> QED
    BY <1>1, InvHolds, PTL

\* A drain that could copy the picture and show the copy leaves last_buffer with
\* no imported buffer, although the event thread or the application may repaint
\* between the two (gst_kms_sink_drain, gst_x_image_sink_expose).
THEOREM DrainsRelease == Spec => []DrainReleases
PROOF
  <1>1. SinkInv => DrainReleases
    BY DEF SinkInv, Drained
  <1> QED
    BY <1>1, InvHolds, PTL

\* The event thread runs only while the display connection is there, and a
\* picture is put on a window that no set_window_handle, close or reset is
\* taking away.
THEOREM WindowsKept == Spec => []WindowKept
PROOF
  <1>1. SinkInv => WindowKept
    BY DEF SinkInv, Windowed, Phased, WindowKept, Showing
  <1> QED
    BY <1>1, InvHolds, PTL
=============================================================================
