------------------------------- MODULE KmsSrc -------------------------------
(***************************************************************************)
(* gstkmssrc.c: the source that grabs what a CRTC shows.  The streaming    *)
(* thread waits for another framebuffer, asks the kernel for handles to    *)
(* its planes, exports them as dmabufs and wraps those in memories; caps   *)
(* queries of other threads ask for handles too.  GEM handles belong to    *)
(* the DRM file, descriptors to the process, memories to downstream.       *)
(***************************************************************************)
EXTENDS Naturals, Sequences, SequencesExt, FiniteSets, FiniteSetsExt

CONSTANTS
  Fbs,        \* framebuffers the CRTC may show
  PlanesOf,   \* external: the buffer object of each plane of a framebuffer
  Gaps,       \* whether planes of one object may lie apart in it
  SyncFb,     \* the sync-fb property; none of the id properties is fb-id
  MaxOut,     \* bound: buffers downstream holds at once
  MaxFiles    \* bound: times the device is opened

Off == "off"
Handles == 1..8
Fds == 1..8

VARIABLES
  shown,    \* external: the framebuffer of the CRTC, or Off
  turned,   \* whether the CRTC changed since a frame was last taken from it
  files,    \* external: the DRM files this process has open
  opened,   \* how many it has opened
  fd,       \* self->fd, 0 for -1
  running,  \* between a start and a stop
  table,    \* external: the handles of the DRM file
  fds,      \* external: the dmabuf descriptors open
  last,     \* last_fb_id, Off for 0
  pc,       \* the streaming thread
  sync,     \* get_next_fb_id's sync_fb
  fb,       \* struct kmssrc_fb: the framebuffer asked for, and its handles,
  hs,       \*   one for each plane, those free_fb has closed being gone
  plane,    \* the plane the import has reached
  mems,     \* the memories of the buffer being built: their descriptors
  asked,    \* what is left of the handles of a caps query
  out       \* the buffers downstream has

srcVars == <<shown, turned, files, opened, fd, running, table, fds, last, pc, sync,
             fb, hs, plane, mems, asked, out>>

Init ==
  /\ shown \in Fbs /\ turned = TRUE
  /\ files = {} /\ opened = 0 /\ fd = 0 /\ running = FALSE
  /\ table = {} /\ fds = {}
  /\ last = Off /\ pc = "idle" /\ sync = FALSE
  /\ fb = Off /\ hs = <<>> /\ plane = 1 /\ mems = <<>> /\ asked = <<>> /\ out = {}

device == <<files, opened, fd, running>>
stream == <<last, pc, sync, fb, hs, plane, mems>>

\* The CRTC flips to another framebuffer, or is switched off.
Flip(f) == /\ shown' = f /\ f # shown /\ turned' = TRUE
           /\ UNCHANGED <<device, stream, table, fds, asked, out>>

-----------------------------------------------------------------------------
(* Start and stop *)

\* Mutant of Open: a descriptor of an earlier session is taken for an open one.
OpenOnce(o) == IF fd > 0 THEN UNCHANGED <<files, opened, fd>>
               ELSE fd' = o /\ files' = files \cup {o} /\ opened' = o

\* drmOpen by driver name, or the first card if that fails: a new file.
Open(o) == fd' = o /\ files' = files \cup {o} /\ opened' = o

Start ==
  /\ ~running /\ opened < MaxFiles
  /\ Open(opened + 1)
  /\ running' = TRUE /\ last' = Off
  /\ UNCHANGED <<shown, turned, table, fds, pc, sync, fb, hs, plane, mems, asked, out>>

\* Without a CRTC to choose, start stops again; the base class does not.
StartFails ==
  /\ ~running /\ opened < MaxFiles
  /\ \/ opened' = opened + 1 /\ fd' = opened + 1
     \/ opened' = opened /\ fd' = 0
  /\ UNCHANGED <<shown, turned, files, running, table, fds, stream, asked, out>>

\* The base class stops with the streaming thread paused, whatever its queries.
Stop ==
  /\ running /\ pc \in {"idle", "ended"}
  /\ running' = FALSE /\ pc' = "idle"
  /\ files' = files \ {fd} /\ table' = {}
  /\ UNCHANGED <<shown, turned, opened, fd, fds, last, sync, fb, hs, plane, mems, asked, out>>

-----------------------------------------------------------------------------
(* Framebuffers *)

Rank(S, x) == Cardinality({y \in S : y < x})

\* drmModeGetFB2: a new handle for each object, shared by its planes.
NewHandles(f) ==
  LET free == Handles \ {e.handle : e \in table}
  IN [i \in 1..Len(PlanesOf[f]) |->
        CHOOSE h \in free : Rank(free, h) = Rank(ToSet(PlanesOf[f]), PlanesOf[f][i])]

Opens(f) == table \cup {[handle |-> NewHandles(f)[i], obj |-> PlanesOf[f][i]] :
                          i \in 1..Len(PlanesOf[f])}

Closed(h) == {e \in table : e.handle # h}

-----------------------------------------------------------------------------
(* The streaming thread *)

\* gst_kms_src_create; the vblank wait ahead changes nothing and may fail.
Create == /\ running /\ pc = "idle" /\ Cardinality(out) < MaxOut
          /\ pc' = "look" /\ sync' = SyncFb
          /\ UNCHANGED <<shown, turned, device, table, fds, last, fb, hs, plane, mems, asked, out>>

\* Mutant of Fresh: it is enough that the time has come.
ChangedOrDue == TRUE

\* One look at the CRTC: the frame must be another, if frames are to be, and
\* its time must have come; the first look that finds another is enough.
Fresh == ~sync \/ shown # last

Look ==
  /\ pc = "look" /\ shown # Off /\ Fresh
  /\ \E due \in BOOLEAN :
       /\ pc' = IF due THEN "get" ELSE "look"
       /\ fb' = IF due THEN shown ELSE fb
       /\ turned' = (turned /\ ~due)
  /\ sync' = FALSE
  /\ UNCHANGED <<shown, device, table, fds, last, hs, plane, mems, asked, out>>

\* Nothing is shown: an error, or the end of the stream after a first frame.
LookFails == /\ pc = "look" /\ shown = Off
             /\ pc' = "ended"
             /\ UNCHANGED <<shown, turned, device, table, fds, last, sync, fb, hs, plane,
                            mems, asked, out>>

\* gst_kms_src_get_fb: the framebuffer may be gone by now.
GetFb ==
  /\ pc = "get"
  /\ \/ /\ hs' = NewHandles(fb) /\ table' = Opens(fb)
        /\ pc' = "import"
     \/ pc' = "ended" /\ UNCHANGED <<hs, table>>
  /\ UNCHANGED <<shown, turned, device, fds, last, sync, fb, plane, mems,
                 asked, out>>

\* Close what the memories of an unfinished buffer own.
Dropped == fds \ ToSet(mems)

FirstFd == CHOOSE d \in Fds \ fds : \A e \in Fds \ fds : d <= e

\* One plane is exported; one of the last plane's object extends its memory if
\* it follows it, and else gets a memory of its own over the same descriptor.
ImportPlane ==
  /\ pc = "import" /\ plane <= Len(hs)
  /\ \E e \in table : e.handle = hs[plane]
  /\ LET same == plane > 1 /\ \E e, g \in table :
                   e.handle = hs[plane] /\ g.handle = hs[plane - 1] /\ e.obj = g.obj
     IN \/ same /\ UNCHANGED <<fds, mems>>
        \/ same /\ Gaps /\ fds' = fds /\ mems' = Append(mems, mems[Len(mems)])
        \/ ~same /\ fds # Fds /\ fds' = fds \cup {FirstFd} /\ mems' = Append(mems, FirstFd)
  /\ plane' = plane + 1
  /\ UNCHANGED <<shown, turned, device, table, last, pc, sync, fb, hs, asked, out>>

\* An unknown format, a handle that is not open, or no descriptor or memory left.
ImportFails ==
  /\ pc = "import" /\ plane <= Len(hs)
  /\ fds' = Dropped /\ mems' = <<>> /\ plane' = 1 /\ pc' = "failed"
  /\ UNCHANGED <<shown, turned, device, table, last, sync, fb, hs, asked, out>>

Imported == /\ pc = "import" /\ plane > Len(hs)
            /\ pc' = "made" /\ plane' = 1
            /\ UNCHANGED <<shown, turned, device, table, fds, last, sync, fb, hs, mems,
                           asked, out>>

\* gst_kms_src_free_fb, plane by plane: what planes share is closed twice.
FreeHandle == /\ pc \in {"made", "failed"} /\ hs # <<>>
              /\ table' = Closed(Head(hs)) /\ hs' = Tail(hs)
              /\ UNCHANGED <<shown, turned, device, fds, last, pc, sync, fb, plane, mems,
                             asked, out>>

Deliver == /\ pc = "made" /\ hs = <<>>
           /\ out' = out \cup {mems} /\ mems' = <<>>
           /\ last' = fb /\ pc' = "idle"
           /\ UNCHANGED <<shown, turned, device, table, fds, sync, fb, hs, plane, asked>>

Fail == /\ pc = "failed" /\ hs = <<>>
        /\ pc' = "ended"
        /\ UNCHANGED <<shown, turned, device, table, fds, last, sync, fb, hs, plane, mems,
                       asked, out>>

-----------------------------------------------------------------------------
(* Caps queries, and downstream *)

GetCaps == /\ running /\ asked = <<>> /\ shown # Off
           /\ asked' = NewHandles(shown) /\ table' = Opens(shown)
           /\ UNCHANGED <<shown, turned, device, fds, stream, out>>

FreeAsked == /\ asked # <<>>
             /\ asked' = Tail(asked) /\ table' = Closed(Head(asked))
             /\ UNCHANGED <<shown, turned, device, fds, stream, out>>

Consume(b) == /\ b \in out
              /\ out' = out \ {b} /\ fds' = fds \ ToSet(b)
              /\ UNCHANGED <<shown, turned, device, stream, table, asked>>

Next ==
  \/ \E f \in Fbs \cup {Off} : Flip(f)
  \/ Start \/ StartFails \/ Stop
  \/ Create \/ Look \/ LookFails \/ GetFb
  \/ ImportPlane \/ ImportFails \/ Imported \/ FreeHandle \/ Deliver \/ Fail
  \/ GetCaps \/ FreeAsked
  \/ \E b \in out : Consume(b)

Spec == Init /\ [][Next]_srcVars

-----------------------------------------------------------------------------
(* Properties *)

\* One file is open while the source runs, the one it uses; every handle open
\* in it will be closed; every descriptor belongs to exactly one memory.
ResourcesOwned ==
  LET bufs == out \cup {mems}
  IN /\ files = IF running THEN {fd} ELSE {}
     /\ {e.handle : e \in table} \subseteq ToSet(hs) \cup ToSet(asked)
     /\ fds = UNION {ToSet(b) : b \in bufs}
     /\ \A b, c \in bufs : \A i \in DOMAIN b, j \in DOMAIN c :
          b[i] = c[j] => b = c /\ i = j

\* With sync-fb, the CRTC has changed between two frames taken from it, however
\* the wait for another framebuffer, the pacing and flips back and forth fall.
FramesFresh == [][(SyncFb /\ pc = "look" /\ pc' = "get" /\ last # Off) => turned]_srcVars
=============================================================================
