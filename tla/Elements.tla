------------------------------ MODULE Elements ------------------------------
(***************************************************************************)
(* The elements beside the codecs, each a module of its own: the           *)
(* compositor (RgaCompositor), the sink's memories (KmsMemory) and the     *)
(* framebuffer source (KmsSrc), for any values of their constants.  They   *)
(* share no state: each keeps its variables, under names of its own here.  *)
(***************************************************************************)
EXTENDS Naturals, Sequences

CONSTANTS
  OutputSizes, Customs, Dynamic, Flushes,                 \* of the compositor
  Foreign, ObjectsOf, MaxDumbs, Refuses,                  \* of the sink's memories
  Fbs, PlanesOf, Gaps, SyncFb, MaxOut, MaxFiles           \* of the source

VARIABLES
  size, layout, custom, pads, current, comp, dest, inputs, rects, pool, drawn, locks,
  releasing, flushed,
  table, handle, live, fbs, cached, list, up, last,
  shown, turned, files, opened, fd, running, names, fds, seen, pc, sync, fb, hs, plane,
  mems, asked, out

Comp == INSTANCE RgaCompositor WITH
          Sizes <- OutputSizes, pc <- comp, out <- dest, app <- releasing
Mem == INSTANCE KmsMemory
Src == INSTANCE KmsSrc WITH table <- names, last <- seen

-----------------------------------------------------------------------------
(* The properties of the instances, under their own names *)

\* RgaCompositor: a composed output carries what was collected for it.
ComposedWhole == Comp!ComposedWhole

\* KmsMemory: an import closes what it opened and nothing else.
HandlesExact == Mem!HandlesExact

\* KmsMemory: the sink's cache and the framebuffers agree.
CacheExact == Mem!CacheExact

\* KmsSrc: no file, handle or descriptor is lost or owned twice.
ResourcesOwned == Src!ResourcesOwned

\* KmsSrc: with sync-fb, every frame is of another framebuffer.
FramesFresh == Src!FramesFresh
=============================================================================
