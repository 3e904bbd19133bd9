------------------------------ MODULE EncConfig ------------------------------
(* How an encoder's configuration reaches MPP (gstmppenc.c and the codec    *)
(* subclasses).  The application writes properties under the property lock  *)
(* and raises prop_dirty, ref_dirty or res_dirty; the streaming thread      *)
(* takes a snapshot before a frame, writes it into its MppEncCfg and hands  *)
(* the whole struct over with MPP_ENC_SET_CFG; the output task sends queued *)
(* frames with the dimensions of one shared mpp_frame, and rebuilds the     *)
(* context from the struct after an MPP error.                              *)
(*                                                                          *)
(* A picture's geometry is a size and a row stride; the properties are a    *)
(* bit rate, a temporal layer count and an output size (0: the input's).    *)
(* Each handler runs under the stream lock and is one step; the property    *)
(* lock makes a write by the application land before or after its snapshot. *)
EXTENDS Naturals, Sequences

CONSTANTS
  Sizes,      \* picture sizes, numbers so that a level can bound them
  Outputs,    \* values of the width and height properties; 0: the input's size
  Strides,    \* row strides an input buffer may have; Aligned is the plugin's
  Aligned,    \* own choice of stride
  Rates,      \* values of the rate properties
  Layers,     \* values of num-temporal-layers; below 2 means flat references
  Limits,     \* the levels of the codec, each named by the load it admits
  MaxQueue,   \* bound: frames converted and not yet sent
  MaxStarts   \* bound: sessions of the element

VARIABLES
  app,        \* what the application set: rate, layers, size
  enc,        \* the element: flags, geometry, MppEncCfg, published caps
  mpp,        \* what MPP holds: its cfg and its reference structure
  queue,      \* self->frames: the geometry each frame was converted to
  starts      \* sessions started

vars == <<app, enc, mpp, queue, starts>>

None == [size |-> 0, stride |-> 0]
NoCfg == [prep |-> None, rate |-> 0, level |-> 0]
Flat(n) == IF n < 2 THEN 0 ELSE n

-----------------------------------------------------------------------------
(* Levels: the declared level, the lowest, is raised to the lowest that can *)
(* carry the stream; 0 means that none does.                                *)
Carrying(size, rate) == {l \in Limits : size * rate <= l}

EffectiveLevel(size, rate) ==
  IF Carrying(size, rate) = {} THEN 0
  ELSE CHOOSE l \in Carrying(size, rate) :
         \A m \in Carrying(size, rate) : l <= m

(* gst_mpp_enc_apply_strides: the shared frame and the struct take them,    *)
(* and a change makes the next apply run.                                   *)
Strided(e, geom) ==
  [e EXCEPT !.frame = geom, !.cfg.prep = geom, !.info = geom,
            !.prop = @ \/ geom.stride # e.info.stride]

(* MPP_ENC_SET_REF_CFG for the requested layers; the struct of the element  *)
(* is rebuilt even when MPP then refuses it.                                *)
RefCfg(e, n) == IF n < 2 THEN e.refcfg ELSE n

(* gst_mpp_enc_apply_properties_full on the pair of element and MPP, which  *)
(* may refuse the references, a key or the whole struct.  A refused struct, *)
(* and a level that nothing carries, are forgotten by the code, which has   *)
(* cleared prop_dirty; the model remembers them in lost.                    *)
Answers(e) == {"accepts"} \cup (IF e.prop THEN {"key", "struct"} ELSE {})
                         \cup (IF e.ref THEN {"references"} ELSE {})

Refused(p) == [p EXCEPT !.ok = FALSE]

Levelled(e, level) == [e EXCEPT !.cfg.level = IF level = 0 THEN @ ELSE level,
                                !.refcfg = IF e.ref THEN RefCfg(e, app.layers) ELSE @]

\* Mutant of RefsRefused: the retry is dropped.
RefsForgotten(p, level) ==
  [p EXCEPT !.ok = FALSE, !.e = [Levelled(p.e, level) EXCEPT !.ref = FALSE, !.prop = FALSE]]

RefsRefused(p, level) ==
  [p EXCEPT !.ok = FALSE, !.e = [Levelled(p.e, level) EXCEPT !.ref = TRUE, !.prop = TRUE]]

Written(e, level) ==
  [Levelled(e, level) EXCEPT !.prop = FALSE, !.ref = FALSE, !.cfg.rate = app.rate]

Applied(p, answer) ==
  LET level == EffectiveLevel(p.e.info.size, app.rate)
      e == Written(p.e, level)
      refs == IF p.e.ref THEN Flat(app.layers) ELSE p.m.refs
  IN IF p.e.err THEN Refused(p)
     ELSE IF ~p.e.prop THEN p
     ELSE IF p.e.ref /\ answer = "references" THEN RefsRefused(p, level)
     ELSE IF answer = "key" THEN [p EXCEPT !.ok = FALSE, !.e = [e EXCEPT !.err = TRUE],
                                   !.m.refs = refs]
     ELSE IF level = 0 \/ answer = "struct"
       THEN [p EXCEPT !.ok = FALSE, !.e = [e EXCEPT !.lost = TRUE], !.m.refs = refs]
     ELSE [p EXCEPT !.e = [e EXCEPT !.lost = FALSE,
                                    !.caps = [size |-> e.info.size,
                                              level |-> level]],
                    !.m = [cfg |-> e.cfg, refs |-> refs]]

(* The geometry frames are encoded at: the application's size if it set     *)
(* one, else the input's, with the plugin's own stride until a frame says   *)
(* otherwise.                                                               *)
Target(input) == [size |-> IF app.size = 0 THEN input ELSE app.size,
                  stride |-> Aligned]

(* gst_mpp_enc_apply_pending_resolution: everything queued is encoded       *)
(* first, then the struct goes to MPP and the caps follow.                  *)
Drained(p) == [p EXCEPT !.q = <<>>]

Rescaled(p, reject) ==
  LET d == Drained(p)
      e == Strided([d.e EXCEPT !.res = FALSE, !.prop = TRUE],
                   Target(p.e.input))
  IN IF ~p.ok \/ ~p.e.res THEN p
     ELSE IF reject \/ e.err
       THEN [d EXCEPT !.ok = FALSE, !.e = [e EXCEPT !.err = TRUE]]
     ELSE [d EXCEPT !.e = [e EXCEPT !.caps.size = e.info.size],
                    !.m.cfg = e.cfg]

(* gst_mpp_enc_convert and the queueing of the frame: a buffer whose size   *)
(* is the encoder's may be used as it is.  It then imposes its stride, and  *)
(* when that is another one (own # 0) the struct goes to MPP again; should  *)
(* MPP refuse it the frame is lost.  Any other buffer is converted.         *)
Queued(p, own, refused) ==
  LET geom == [p.e.info EXCEPT !.stride = own]
      e == Strided(p.e, geom)
  IN IF ~p.ok THEN p
     ELSE IF own = 0 THEN [p EXCEPT !.q = Append(@, p.e.info)]
     ELSE IF refused THEN [p EXCEPT !.ok = FALSE, !.e = e]
     ELSE [p EXCEPT !.e = e, !.q = Append(@, geom), !.m.cfg = e.cfg]

Now == [ok |-> TRUE, e |-> enc, m |-> mpp, q |-> queue]

Take(p) == /\ enc' = p.e
           /\ mpp' = p.m
           /\ queue' = p.q

-----------------------------------------------------------------------------
Fresh == [prop |-> TRUE, ref |-> FALSE, res |-> FALSE, err |-> FALSE, lost |-> FALSE,
          input |-> 0, info |-> None, frame |-> None, cfg |-> NoCfg,
          refcfg |-> 0, caps |-> [size |-> 0, level |-> 0]]

Init ==
  /\ app = [rate |-> CHOOSE r \in Rates : TRUE, layers |-> 0, size |-> 0]
  /\ enc = Fresh
  /\ mpp = [cfg |-> NoCfg, refs |-> 0]
  /\ queue = <<>>
  /\ starts = 1

(* gst_mpp_enc_set_property                                                 *)
SetRate(r) ==
  /\ r # app.rate
  /\ app' = [app EXCEPT !.rate = r]
  /\ enc' = [enc EXCEPT !.prop = TRUE]
  /\ UNCHANGED <<mpp, queue, starts>>

SetLayers(n) ==
  /\ n # app.layers
  /\ app' = [app EXCEPT !.layers = n]
  /\ enc' = [enc EXCEPT !.prop = TRUE, !.ref = TRUE]
  /\ UNCHANGED <<mpp, queue, starts>>

SetSize(s) ==
  /\ s # app.size
  /\ app' = [app EXCEPT !.size = s]
  /\ enc' = [enc EXCEPT !.res = @ \/ enc.input # 0]
  /\ UNCHANGED <<mpp, queue, starts>>

(* The subclass's set_format.  The base's drains and resets for new caps,   *)
(* takes the geometry and, when caps without a colorimetry replace others,  *)
(* a fresh struct from MPP, which clears cfg_error; the properties are      *)
(* applied in any case.                                                     *)
FormatTaken(p, s, coloured) ==
  LET d == Drained(p)
      kept == coloured \/ p.e.input = 0
      e == [d.e EXCEPT !.input = s, !.prop = TRUE,
                       !.err = @ /\ kept,
                       !.cfg = IF kept THEN @ ELSE p.m.cfg]
  IN IF s = p.e.input THEN p ELSE [d EXCEPT !.e = Strided(e, Target(s))]

SetFormat(s) ==
  \E coloured \in BOOLEAN :
    LET p == FormatTaken(Now, s, coloured)
    IN /\ \E answer \in Answers(p.e) : Take(Applied(p, answer))
       /\ UNCHANGED <<app, starts>>

(* The subclass's handle_frame: apply, then the base's pending resolution,  *)
(* conversion and queue.  A frame that fails any of them is dropped; MPP    *)
(* can refuse only what it is given.                                        *)
HandleFrame ==
  /\ enc.input # 0 /\ Len(queue) < MaxQueue
  /\ \E answer \in Answers(enc), late \in {FALSE, enc.res} :
       LET p == Rescaled(Applied(Now, answer), late)
           others == IF p.e.input = p.e.info.size THEN Strides \ {p.e.info.stride} ELSE {}
       IN \E own \in {0} \cup others :
            \E refused \in {FALSE, own # 0} : Take(Queued(p, own, refused))
  /\ UNCHANGED <<app, starts>>

(* The output task: gst_mpp_enc_send_frame_locked, which sends the oldest   *)
(* frame with the shared frame's dimensions, and restart_context, which     *)
(* gives a new context the struct and the references of the element.        *)
SendFrame ==
  /\ queue # <<>>
  /\ queue' = Tail(queue)
  /\ UNCHANGED <<app, enc, mpp, starts>>

RestartContext ==
  /\ enc.input # 0
  /\ mpp' = [cfg |-> enc.cfg,
             refs |-> IF app.layers < 2 THEN 0 ELSE enc.refcfg]
  /\ UNCHANGED <<app, enc, queue, starts>>

(* A flush's reset, and a stop followed by a start: MPP and the struct are  *)
(* new, the flags of the properties are the old ones.                       *)
Flush ==
  /\ enc.input # 0
  /\ queue' = <<>>
  /\ enc' = [enc EXCEPT !.prop = TRUE]
  /\ UNCHANGED <<app, mpp, starts>>

StopStart ==
  /\ starts < MaxStarts
  /\ starts' = starts + 1
  /\ enc' = [Fresh EXCEPT !.ref = enc.ref, !.res = enc.res]
  /\ mpp' = [cfg |-> NoCfg, refs |-> 0]
  /\ queue' = <<>>
  /\ UNCHANGED app

Next ==
  \/ \E r \in Rates : SetRate(r)
  \/ \E n \in Layers : SetLayers(n)
  \/ \E s \in Outputs : SetSize(s)
  \/ \E s \in Sizes : SetFormat(s)
  \/ HandleFrame
  \/ SendFrame
  \/ RestartContext
  \/ Flush
  \/ StopStart

Spec == Init /\ [][Next]_vars

-----------------------------------------------------------------------------
Geometries == [size : Sizes \cup Outputs \cup {0}, stride : Strides \cup {0, Aligned}]
Cfgs == [prep : Geometries, rate : Rates \cup {0}, level : Limits \cup {0}]

TypeOK ==
  /\ app \in [rate : Rates, layers : Layers \cup {0}, size : Outputs]
  /\ enc \in [prop : BOOLEAN, ref : BOOLEAN, res : BOOLEAN, err : BOOLEAN, lost : BOOLEAN,
              input : Sizes \cup {0}, info : Geometries, frame : Geometries,
              cfg : Cfgs, refcfg : Layers \cup {0},
              caps : [size : Sizes \cup Outputs \cup {0}, level : Limits \cup {0}]]
  /\ mpp \in [cfg : Cfgs, refs : Layers \cup {0}]
  /\ queue \in Seq(Geometries) /\ Len(queue) <= MaxQueue
  /\ starts \in 1 .. MaxStarts

(* Clean flags tell the truth: with nothing marked dirty, no rejected key   *)
(* and nothing forgotten after a refusal, MPP holds the rate, the           *)
(* references and the geometry the element reports, and the published caps  *)
(* name that size and MPP's level.  A refused reference structure, a flush, *)
(* a restarted context or a resize that lost one of the flags on its way    *)
(* would leave MPP encoding with the old configuration and nobody left to   *)
(* notice.  The references are compared in the first session: start() does  *)
(* not mark them dirty, so that a later one encodes flat until the          *)
(* application changes the layers.                                          *)
CleanMeansHeld ==
  (enc.input # 0 /\ ~enc.prop /\ ~enc.err /\ ~enc.lost) =>
     /\ mpp.cfg.rate = app.rate
     /\ starts = 1 => mpp.refs = Flat(app.layers)
     /\ mpp.cfg.prep = enc.frame
     /\ enc.caps = [size |-> enc.frame.size, level |-> mpp.cfg.level]

(* Every queued frame will be sent with the geometry it was converted to,   *)
(* as the comment at gstmppenc.c:1866 asks: "Every queued frame was         *)
(* converted against the current geometry, but the send path copies         *)
(* dimensions from the shared mpp_frame template."  With two Strides and a  *)
(* MaxQueue of 2 it does not hold: a buffer that brings another stride      *)
(* changes the template in gst_mpp_enc_convert with frames still queued.    *)
(* No run checks it; that sizes do not change is MppEncoder's               *)
(* DrainedBeforeReconfigure.                                                *)
QueuedAsConverted == \A i \in DOMAIN queue : queue[i] = enc.frame
=============================================================================
