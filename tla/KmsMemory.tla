------------------------------ MODULE KmsMemory ------------------------------
(***************************************************************************)
(* The memory of the KMS sink: gstkmsallocator.c, gstkmsbufferpool.c and   *)
(* what ximagesink.c keeps of it.  A GEM handle names a buffer object in   *)
(* the DRM file of the allocator: the kernel gives the same handle to      *)
(* every import of an object that has one, and a closed number again to    *)
(* the next object.  A dumb memory owns its handle; an import closes its   *)
(* own once it has a framebuffer.  Upstream frees its memories at will.    *)
(***************************************************************************)
EXTENDS Naturals, Sequences, SequencesExt

CONSTANTS
  Foreign,     \* dmabuf memories of upstream allocators
  ObjectsOf,   \* external: the buffer object of each plane of a foreign memory
  MaxDumbs,    \* bound: dumb buffers allocated
  Refuses      \* whether the plane may refuse what an import made for it

Dumbs == 1..MaxDumbs
Exported == {<<"dmabuf", d>> : d \in Dumbs}
Mems == Foreign \cup Exported
Kms == {<<"dumb", d>> : d \in Dumbs} \cup {<<"import", m>> : m \in Mems}
None == <<"none">>
Handles == 1..(MaxDumbs + 4)

VARIABLES
  table,    \* external: the DRM file's handles
  handle,   \* bo->handle of the dumb memories
  live,     \* the KMS memories that exist, and those with a framebuffer
  fbs,
  cached,   \* the qdata of each upstream memory
  list,     \* mem_cache
  up,       \* what upstream holds: dmabuf memories, or dumb ones not exported
  last      \* last_buffer: its KMS memory and the upstream memory it depends on

kmsVars == <<table, handle, live, fbs, cached, list, up, last>>

NoLast == [kms |-> None, parent |-> None]

Init ==
  /\ table = [h \in Handles |-> None]
  /\ handle = [d \in Dumbs |-> 0]
  /\ live = {} /\ fbs = {} /\ list = {}
  /\ cached = [m \in Mems |-> None]
  /\ up = Foreign
  /\ last = NoLast

-----------------------------------------------------------------------------
(* Handles *)

\* The object of a dumb memory is named as the memory is.
ObjectsIn(m) == IF m \in Exported THEN <<<<"dumb", m[2]>>, <<"dumb", m[2]>>>> ELSE ObjectsOf[m]

HandleOf(t, o) == CHOOSE h \in Handles : t[h] = o
FirstFree(t) == CHOOSE h \in Handles : t[h] = None /\ \A g \in 1..(h - 1) : t[g] # None

\* drmPrimeFDToHandle and DRM_IOCTL_MODE_CREATE_DUMB.
Opened(t, o) == IF \E h \in Handles : t[h] = o THEN t ELSE [t EXCEPT ![FirstFree(t)] = o]

\* One plane after the other; a frame has four at most (GST_VIDEO_MAX_PLANES).
OpenedAll(t, objs) ==
  LET plane(i, s) == IF i \in DOMAIN objs THEN Opened(s, objs[i]) ELSE s
  IN plane(4, plane(3, plane(2, plane(1, t))))

\* Mutant of ClosedAll: the handles of an import stay open.
ClosedNone(t, objs) == t

\* DRM_IOCTL_GEM_CLOSE of the planes' handles, up to one that repeats the last.
ClosedAll(t, objs) ==
  LET n == CHOOSE k \in 1..Len(objs) : /\ \A i \in 2..k : objs[i] # objs[i - 1]
                                       /\ k = Len(objs) \/ objs[k + 1] = objs[k]
  IN [h \in Handles |-> IF \E i \in 1..n : t[h] = objs[i] THEN None ELSE t[h]]

\* Upstream's memories are none of the sink's, and its objects none of the dumb
\* buffers'.  Once a plane is of the object of the one before, no plane after it
\* is of an object of its own: ClosedAll stops there.
ObjectsAssumption ==
  /\ MaxDumbs \in Nat /\ Refuses \in BOOLEAN
  /\ Foreign \cap (Exported \cup Kms \cup {None}) = {}
  /\ \A m \in Foreign :
       LET objs == ObjectsOf[m]
       IN /\ objs \in Seq(ToSet(objs)) /\ Len(objs) \in 1..4
          /\ ToSet(objs) \cap ({<<"dumb", d>> : d \in Dumbs} \cup {None}) = {}
          /\ \A i \in 2..Len(objs) : objs[i] = objs[i - 1] =>
               \A j \in i..Len(objs) : \E k \in 1..(i - 1) : objs[j] = objs[k]

-----------------------------------------------------------------------------
(* References: from a memory's qdata, from last_buffer, from upstream.     *)

Held(c, l, u) == {k \in Kms : \/ \E m \in Mems : c[m] = k
                              \/ l.kms = k
                              \/ k \in u}

\* gst_kms_allocator_memory_reset of what loses its last reference.
Settle(t, lv, f, c, l, u) ==
  LET dead == lv \ Held(c, l, u)
      gone == {handle[k[2]] : k \in {x \in dead : x[1] = "dumb"}}
  IN /\ live' = lv \ dead
     /\ fbs' = f \ dead
     /\ table' = [h \in Handles |-> IF h \in gone THEN None ELSE t[h]]
     /\ cached' = c /\ last' = l /\ up' = u

-----------------------------------------------------------------------------
(* Operations *)

\* gst_kms_allocator_memory_create: a dumb buffer has a handle of its own.
Create(d) ==
  /\ handle[d] = 0
  /\ handle' = [handle EXCEPT ![d] = HandleOf(Opened(table, <<"dumb", d>>), <<"dumb", d>>)]

\* gst_kms_allocator_add_fb
AddFb(k) == fbs \cup {k}

\* gst_kms_allocator_cache: the qdata takes the reference.
Cache(m, k) == [cached EXCEPT ![m] = k]

\* gst_kms_allocator_dmabuf_export: upstream gets a dmabuf, cached from the start.
Export(d) ==
  /\ cached' = Cache(<<"dmabuf", d>>, <<"dumb", d>>)
  /\ list' = list \cup {<<"dmabuf", d>>}
  /\ up' = up \cup {<<"dmabuf", d>>}

\* gst_kms_buffer_pool_alloc_buffer: a dumb buffer, exported if the pool's
\* configuration asks for it and it can be.
Alloc(d) ==
  /\ Create(d)
  /\ table' = Opened(table, <<"dumb", d>>)
  /\ live' = live \cup {<<"dumb", d>>} /\ fbs' = AddFb(<<"dumb", d>>)
  /\ \/ Export(d)
     \/ up' = up \cup {<<"dumb", d>>} /\ UNCHANGED <<cached, list>>
  /\ UNCHANGED last

\* No framebuffer can be added: the buffer object is destroyed again.
AllocFails(d) ==
  /\ Create(d)
  /\ UNCHANGED <<table, live, fbs, cached, list, up, last>>

\* A frame of KMS memory is shown as it is.
ShowKms(k) ==
  /\ k \in up \cap Kms
  /\ Settle(table, live, fbs, cached, [kms |-> k, parent |-> None], up)
  /\ UNCHANGED <<handle, list>>

\* gst_kms_sink_import_dmabuf: the cached memory, or a new import.
ShowCached(m) ==
  /\ m \in up \cap Mems /\ cached[m] # None
  /\ Settle(table, live, fbs, cached, [kms |-> cached[m], parent |-> m], up)
  /\ UNCHANGED <<handle, list>>

ShowImported(m) ==
  /\ m \in up \cap Mems /\ cached[m] = None
  /\ LET k == <<"import", m>>
         t == OpenedAll(table, ObjectsIn(m))
     IN \E shown \in {TRUE, ~Refuses} :
          Settle(ClosedAll(t, ObjectsIn(m)), live \cup {k}, AddFb(k), Cache(m, k),
                 IF shown THEN [kms |-> k, parent |-> m] ELSE last, up)
  /\ list' = list \cup {m}
  /\ UNCHANGED handle

\* gst_kms_sink_drain: the cache is cleared, then a copy takes last_buffer's
\* place; if there is no copy or it cannot be shown, last_buffer stays.
Drain ==
  /\ last.parent # None
  /\ \E ok \in BOOLEAN :
       Settle(table, live, fbs,
              [m \in Mems |-> IF m \in list THEN None ELSE cached[m]],
              IF ok THEN NoLast ELSE last, up)
  /\ list' = {}
  /\ UNCHANGED handle

\* Mutant of Disposed: the cache does not watch its memories.
DisposedUnseen(m) ==
  /\ m \in up /\ last.parent # m
  /\ Settle(table, live, fbs, IF m \in Mems THEN [cached EXCEPT ![m] = None] ELSE cached,
            last, up \ {m})
  /\ UNCHANGED <<handle, list>>

\* Upstream frees a memory: cached_kmsmem_disposed_cb, and its qdata goes.
Disposed(m) ==
  /\ m \in up /\ last.parent # m
  /\ list' = list \ {m}
  /\ Settle(table, live, fbs, IF m \in Mems THEN [cached EXCEPT ![m] = None] ELSE cached,
            last, up \ {m})
  /\ UNCHANGED handle

\* gst_x_image_sink_stop drops last_buffer; the cache outlives it.
Stop ==
  /\ last # NoLast
  /\ Settle(table, live, fbs, cached, NoLast, up)
  /\ UNCHANGED <<handle, list>>

Next == \/ \E d \in Dumbs : Alloc(d) \/ AllocFails(d)
        \/ \E k \in Kms : ShowKms(k)
        \/ \E m \in Mems : ShowCached(m) \/ ShowImported(m)
        \/ \E m \in Mems \cup Kms : Disposed(m)
        \/ Drain \/ Stop

Spec == Init /\ [][Next]_kmsVars

-----------------------------------------------------------------------------
(* Properties *)

\* The open handles are those of the dumb buffers that live, each still naming
\* its own object: an import closes what it opened and nothing else.
HandlesExact ==
  \A h \in Handles :
    LET owners == {<<"dumb", d>> : d \in {x \in Dumbs : <<"dumb", x>> \in live /\ handle[x] = h}}
    IN IF table[h] = None THEN owners = {} ELSE owners = {table[h]}

\* The cache lists the memories that have a framebuffer of the sink, every
\* framebuffer in use exists, and what upstream freed is forgotten.
CacheExact ==
  /\ list = {m \in Mems : cached[m] # None} /\ list \subseteq up
  /\ Held(cached, last, up) = live /\ fbs = live
=============================================================================
