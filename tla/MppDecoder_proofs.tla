-------------------------- MODULE MppDecoder_proofs --------------------------
(***************************************************************************)
(* Proofs about the decoder base: that a reset never clears under a turn   *)
(* of the output task, that nothing sent before a flush is shown after it  *)
(* and that a drain which reports OK left nothing behind, for any number   *)
(* of frames, times, drains, flushes and teardowns, and any sizes of the   *)
(* MPP's queue and of the list.                                            *)
(*                                                                         *)
(* Control ties the mutex to the places of the threads, Tasked the task to *)
(* them.  FreshOnly says of each place a picture can be in (the MPP, the   *)
(* turn, the frame kept back) that it holds the current epoch's only; the  *)
(* MPP may keep older ones while the element is Closed, on its way down.   *)
(* DrainInv follows the end of stream from the queue to the task and back  *)
(* to the thread that waits for it.                                        *)
(***************************************************************************)
EXTENDS MppDecoder, SequenceLemmas

-----------------------------------------------------------------------------
(* The invariant *)

TimeRange == 0..NoPts
Pictures == Frames \cup {NoPic}
FrameRec == [pts : TimeRange, buf : Pictures]
FrTyped == fr \in [Frames -> FrameRec]

Decs == [flushing : BOOLEAN, draining : BOOLEAN, gen : Nat, ret : {"ok", "error", "eos"},
         decoded : BOOLEAN, seen : BOOLEAN, useMpp : BOOLEAN, mixed : BOOLEAN,
         convert : BOOLEAN, jpeg : BOOLEAN, alloc : BOOLEAN]
OpKinds == {"none", "frame", "drain", "finish", "caps", "flush", "ready", "stop"}
Ops == [kind : OpKinds, drain : BOOLEAN, final : BOOLEAN, gen : Nat, result : {"ok", "error"},
        overtaken : BOOLEAN]
Items == [what : {"pic", "info", "eos"}, pic : Pictures]
Gots == [what : {"none", "pic", "info", "eos"}, pic : Pictures, pts : TimeRange, sel : Pictures]

\* The threads that take self->mutex, where each thread can be, and where it holds it.
Callers == {"S", "A"}
Places ==
  [S |-> {"idle", "lock", "packet", "send", "sent", "dropped", "shutdown", "wait", "join"},
   A |-> {"idle", "lock", "shutdown", "wait", "join", "deactivating", "deactivated", "stopped"},
   T |-> {"idle", "got", "buffer"}]
Sending == {"packet", "send", "sent", "dropped"}
Resetting == {"shutdown", "wait", "join"}
Locking == {"packet", "send", "sent", "dropped", "shutdown", "wait", "join"}
Drains == {"drain", "finish", "caps"}

\* At most one frame is kept back.
FramesTyped == /\ FrTyped /\ list \in Seq(Frames)
               /\ ready \in Seq(Frames) /\ Len(ready) <= 1
               /\ shown \in Seq(Frames) /\ fed \in 0..NFrames

Typed ==
  /\ dec \in Decs /\ op \in [Callers -> Ops]
  /\ mpp \in Seq(Items) /\ got \in Gots
  /\ epoch \in [now : Nat, of : [Frames -> Nat]]
  /\ task \in {"stopped", "started", "paused"}
  /\ mutex \in {Nobody, "S", "A"} /\ life \in {"up", "down"}
  /\ DOMAIN pc = {"S", "A", "T"}

\* Who is where, doing what, with the mutex or without.
Control ==
  /\ \A t \in {"S", "A", "T"} : pc[t] \in Places[t]
  /\ \A t \in Callers : mutex = t <=> pc[t] \in Locking
  /\ pc["S"] = "idle" => op["S"].kind = "none"
  /\ pc["S"] = "lock" => op["S"].kind \in {"frame", "flush"} \cup Drains
  /\ pc["S"] \in Sending => op["S"].kind = "frame"
  /\ pc["S"] \in Resetting => op["S"].kind \in {"flush"} \cup Drains
  /\ op["S"].drain <=> op["S"].kind \in Drains
  /\ ~op["S"].final
  /\ \A t \in Callers : pc[t] \in {"shutdown", "wait"} => op[t].drain
  /\ op["S"].kind = "frame" => fed \in Frames
  /\ pc["A"] \in {"idle", "deactivating", "deactivated", "stopped"} => op["A"].kind = "none"
  /\ pc["A"] \in {"lock", "shutdown", "wait", "join"} => op["A"].kind \in {"ready", "stop"}
  /\ pc["A"] \in {"lock", "shutdown", "wait", "join"} => op["A"].final
  /\ ~op["A"].drain

\* A turn that outlives its task has a reset waiting for it; the pads of an element on its
\* way down are deactivated before stop.
Tasked ==
  /\ task = "stopped" /\ pc["T"] # "idle" => \E t \in Callers : pc[t] = "join"
  /\ task = "paused" => pc["T"] = "idle"
  /\ (pc["A"] \in {"deactivated", "stopped"} \/ op["A"].kind = "stop" \/ life = "down")
       => task = "stopped" /\ pc["T"] = "idle" /\ pc["S"] = "idle"
  /\ life = "down" => pc["A"] = "idle"
  /\ pc["T"] = "buffer" => dec.alloc /\ got.what = "pic" /\ got.sel # 0

\* A picture the MPP holds, or the task, is the picture of a frame.
Held ==
  /\ \A i \in DOMAIN mpp : mpp[i].what = "pic" => mpp[i].pic \in Frames
  /\ pc["T"] # "idle" /\ got.what = "pic" => got.pic \in Frames

\* Sent since the last flush or restart that returned.
Current(p) == epoch.of[p] = epoch.now

\* Nothing gets past an element on its way down.
Closed == dec.flushing /\ task # "started" /\ pc["T"] = "idle" /\ pc["S"] \in {"idle", "lock"}

\* What can still be shown is current.
FreshOnly ==
  /\ \A n \in Frames : fr[n].buf # NoPic => ready = <<n>> /\ Current(fr[n].buf)
  /\ pc["T"] # "idle" /\ got.what = "pic" => Current(got.pic)
  /\ Closed \/ \A i \in DOMAIN mpp : mpp[i].what = "pic" => Current(mpp[i].pic)
  /\ op["S"].kind = "flush" => mpp = <<>>
  /\ (op["A"].kind = "stop" \/ pc["A"] = "stopped" \/ life = "down") => mpp = <<>>

\* The task is at rest; it rests for good after an error.
AtRest == task # "started" /\ pc["T"] = "idle"
Failed == dec.ret = "error" /\ AtRest

\* A drain that waits: the end of stream is last in the MPP, or the task has it, or is done.
EosAhead == \/ task = "started" /\ mpp # <<>> /\ mpp[Len(mpp)].what = "eos"
            \/ mpp = <<>> /\ pc["T"] = "got" /\ got.what = "eos"
            \/ mpp = <<>> /\ AtRest
            \/ Failed

\* There is one end of stream at a time, and a drain waiting for it.
EosSeen ==
  /\ (\E i \in DOMAIN mpp : mpp[i].what = "eos") => pc["S"] \in {"wait", "join"}
  /\ \A i \in DOMAIN mpp : mpp[i].what = "eos" => i = Len(mpp)
  /\ pc["T"] = "got" /\ got.what = "eos" => mpp = <<>> /\ pc["S"] \in {"wait", "join"}
  /\ dec.ret = "eos" => AtRest /\ pc["S"] \in {"wait", "join"}

\* What is sent is decoded, unless an error has paused the task.
Works == task = "started" \/ (task = "paused" /\ dec.ret = "error")
Sends == pc["S"] \in Sending \cup {"shutdown"} => Works
Rests == pc["S"] \in {"idle", "lock"} /\ pc["A"] = "idle" /\ task # "started"
           => mpp = <<>> \/ (task = "paused" /\ dec.ret = "error")
SameGen == pc["S"] = "shutdown" /\ ~op["S"].overtaken => op["S"].gen = dec.gen
Awaits == pc["S"] = "wait" /\ ~op["S"].overtaken => EosAhead
Joins == pc["S"] = "join" /\ ~op["S"].overtaken /\ op["S"].drain
           => mpp = <<>> \/ op["S"].result = "error" \/ Failed

\* The whole of what a drain relies on.
DrainInv == EosSeen /\ Sends /\ Rests /\ SameGen /\ Awaits /\ Joins

-----------------------------------------------------------------------------
(* The operators of the model *)

\* The k-th of a set of positions is one of them.
LEMMA NthIn ==
  ASSUME NEW I \in SUBSET Nat, IsFiniteSet(I), NEW k \in 1..Cardinality(I)
  PROVE  Nth(I, k) \in I
<1>1. \E i \in I : Rank(I, i) = k - 1
  BY RankOnto
<1> QED
  BY <1>1 DEF Nth, Rank

\* Some elements of a sequence, in their order, are a sequence of the same kind.
LEMMA PickedType ==
  ASSUME NEW S, NEW s \in Seq(S), NEW I \in SUBSET (DOMAIN s)
  PROVE  /\ Picked(s, I) \in Seq(S)
         /\ Len(Picked(s, I)) = Cardinality(I)
         /\ Cardinality(I) \in Nat
         /\ \A k \in 1..Cardinality(I) : \E i \in I : Picked(s, I)[k] = s[i]
<1> DEFINE m == Cardinality(I)
<1>1. DOMAIN s = 1..Len(s) /\ Len(s) \in Nat
  OBVIOUS
<1>2. IsFiniteSet(I) /\ m \in Nat
  <2>1. IsFiniteSet(1..Len(s))
    BY <1>1, FS_Interval
  <2>2. IsFiniteSet(I)
    BY <1>1, <2>1, FS_Subset
  <2> QED
    BY <2>2, FS_CardinalityType
<1>3. I \in SUBSET Nat
  BY <1>1
<1>4. \A k \in 1..m : Nth(I, k) \in I
  BY <1>2, <1>3, NthIn
<1>5. Picked(s, I) = [k \in 1..m |-> s[Nth(I, k)]]
  BY DEF Picked
<1> HIDE DEF m
<1>6. \A k \in 1..m : Picked(s, I)[k] = s[Nth(I, k)] /\ s[Nth(I, k)] \in S
  BY <1>1, <1>4, <1>5
<1>7. Picked(s, I) \in Seq(S) /\ Len(Picked(s, I)) = m
  BY <1>2, <1>5, <1>6
<1> QED
  BY <1>2, <1>4, <1>6, <1>7 DEF m

\* So is a list without some frames.
LEMMA WithoutType ==
  ASSUME NEW S, NEW s \in Seq(S), NEW F
  PROVE  Without(s, F) \in Seq(S)
BY PickedType DEF Without

\* The earliest of some frames is one of them.
LEMMA EarliestIn ==
  ASSUME FrTyped, NEW F \in SUBSET Frames, F # {}
  PROVE  Earliest(F) \in F
<1>1. NFrames \in Nat /\ Frames = 1..NFrames /\ Frames \in SUBSET Nat
  BY DecoderAssumption DEF Frames
<1>2. IsFiniteSet(F) /\ F \in SUBSET Nat
  <2>1. IsFiniteSet(1..NFrames)
    BY <1>1, FS_Interval
  <2> QED
    BY <1>1, <2>1, FS_Subset
<1>3. \A n \in F : Time(n) \in Nat
  BY DEF FrTyped, FrameRec, TimeRange, Time, NoPts
<1> DEFINE T == {Time(n) : n \in F}
<1>4. T \in SUBSET Nat /\ T # {}
  BY <1>3
<1>5. IsFiniteSet(T)
  <2>1. T \in SUBSET (0..NoPts) /\ NoPts \in Nat
    BY DEF FrTyped, FrameRec, TimeRange, Time, NoPts
  <2>2. IsFiniteSet(0..NoPts)
    BY <2>1, FS_Interval
  <2> QED
    BY <2>1, <2>2, FS_Subset
<1>6. PICK t \in T : \A u \in T : t <= u
  BY <1>4, <1>5, LeastAndLast
<1> DEFINE G == {n \in F : Time(n) = t}
<1>7. G \in SUBSET Nat /\ G # {} /\ IsFiniteSet(G)
  <2>1. G \in SUBSET F
    OBVIOUS
  <2>2. IsFiniteSet(G)
    BY <1>2, <2>1, FS_Subset
  <2> QED
    BY <1>2, <1>6, <2>2
<1>8. PICK n \in G : \A m \in G : n <= m
  BY <1>7, LeastAndLast
<1>9. \A m \in F : Time(n) < Time(m) \/ (Time(n) = Time(m) /\ n <= m)
  <2> SUFFICES ASSUME NEW m \in F PROVE Time(n) < Time(m) \/ (Time(n) = Time(m) /\ n <= m)
    OBVIOUS
  <2>1. Time(n) = t /\ t <= Time(m) /\ t \in Nat /\ Time(m) \in Nat
    BY <1>3, <1>4, <1>6, <1>8
  <2>2. CASE Time(m) = t
    BY <1>8, <2>1, <2>2
  <2>3. CASE Time(m) # t
    BY <2>1, <2>3
  <2> QED
    BY <2>2, <2>3
<1> QED
  BY <1>8, <1>9 DEF Earliest

\* What is left of a list that is not empty is not empty.
LEMMA TrimmedType ==
  ASSUME list \in Seq(Frames), list # <<>>
  PROVE  Trimmed \in Seq(Frames) /\ Trimmed # <<>>
<1>1. Len(list) \in Nat \ {0} /\ MaxPending \in Nat \ {0}
  BY DecoderAssumption
<1> DEFINE k == IF Len(list) > MaxPending THEN MaxPending ELSE Len(list)
           n == Len(list) - k
<1>2. k \in 1..Len(list) /\ n \in 0..Len(list) /\ Len(list) - n = k
  BY <1>1
<1>3. Trimmed = SubSeq(list, n + 1, Len(list))
  BY DEF Trimmed
<1> HIDE DEF k, n
<1>4. Trimmed \in Seq(Frames) /\ Len(Trimmed) = Len(list) - n
  BY <1>2, <1>3, SuffixType
<1> QED
  BY <1>2, <1>4

\* The frames of a list.
LEMMA Entries ==
  ASSUME NEW L \in Seq(Frames)
  PROVE  ToSet(L) \in SUBSET Frames /\ (L # <<>> => ToSet(L) # {} /\ L[1] \in Frames)
BY DEF ToSet

\* The first picture takes a frame of the list.
LEMMA FirstFrameIn ==
  ASSUME FrTyped, NEW L \in Seq(Frames), L # <<>>
  PROVE  FirstFrame(L) \in Frames
<1> DEFINE untimed == {i \in DOMAIN L : ~Valid(L[i])}
<1>1. CASE untimed # {}
  <2>1. untimed \in SUBSET Nat /\ IsFiniteSet(untimed)
    <3>1. DOMAIN L = 1..Len(L) /\ Len(L) \in Nat /\ untimed \in SUBSET (1..Len(L))
      OBVIOUS
    <3>2. IsFiniteSet(1..Len(L))
      BY <3>1, FS_Interval
    <3>3. IsFiniteSet(untimed)
      BY <3>1, <3>2, FS_Subset
    <3> QED
      BY <3>1, <3>3
  <2>2. 1 \in 1..Cardinality(untimed)
    BY SMTT(30), <1>1, <2>1, FS_CardinalityType, FS_EmptySet
  <2>3. Nth(untimed, 1) \in untimed
    BY <2>1, <2>2, NthIn
  <2>4. FirstFrame(L) = L[Nth(untimed, 1)]
    BY <1>1 DEF FirstFrame
  <2> HIDE DEF untimed
  <2>5. Nth(untimed, 1) \in DOMAIN L
    BY <2>3 DEF untimed
  <2> QED
    BY <2>4, <2>5
<1>2. CASE untimed = {}
  <2>1. FirstFrame(L) = Earliest(ToSet(L))
    BY <1>2 DEF FirstFrame
  <2>2. ToSet(L) \in SUBSET Frames /\ ToSet(L) # {}
    BY Entries
  <2> QED
    BY <2>1, <2>2, EarliestIn
<1> QED
  BY <1>1, <1>2

\* The first of some positions is one of them.
LEMMA FirstOf ==
  ASSUME NEW n \in Nat, NEW I \in SUBSET (1..n), I # {}
  PROVE  Nth(I, 1) \in I
<1>1. I \in SUBSET Nat /\ IsFiniteSet(I)
  <2>1. IsFiniteSet(1..n)
    BY FS_Interval
  <2>2. IsFiniteSet(I)
    BY <2>1, FS_Subset
  <2> QED
    BY <2>2
<1>2. 1 \in 1..Cardinality(I)
  BY <1>1, FS_CardinalityType, FS_EmptySet
<1> QED
  BY <1>1, <1>2, NthIn

\* A later picture takes a frame, or none.
LEMMA MatchIn ==
  ASSUME FrTyped, NEW L \in Seq(Frames), NEW pts \in TimeRange
  PROVE  Match(L, pts).sel \in Frames \cup {0}
<1> DEFINE first(I) == IF I = {} THEN Len(L) + 1 ELSE Nth(I, 1)
           C == {i \in DOMAIN L : Close(L[i], pts)}
           B == {i \in DOMAIN L : ~Valid(L[i]) /\ pts = NoPts}
           close == first(C)
           blank == first(B)
           stop == IF close < blank THEN close ELSE blank
           late == {i \in 1..(stop - 1) : ~Valid(L[i]) /\ dec.mixed /\ i > DecodeOnly}
           guess == {L[i] : i \in {j \in 1..(stop - 1) \ late :
                                ~(pts # NoPts /\ Valid(L[j]) /\ Time(L[j]) > pts)}}
<1>1. Len(L) \in Nat /\ DOMAIN L = 1..Len(L)
  OBVIOUS
<1>2. close \in 1..(Len(L) + 1) /\ blank \in 1..(Len(L) + 1)
  <2>1. C # {} => Nth(C, 1) \in C
    BY <1>1, FirstOf
  <2>2. B # {} => Nth(B, 1) \in B
    BY <1>1, FirstOf
  <2>3. C \in SUBSET (1..Len(L)) /\ B \in SUBSET (1..Len(L))
    BY <1>1
  <2> QED
    BY <1>1, <2>1, <2>2, <2>3
<1>3. Match(L, pts).sel = IF close < blank THEN L[close] ELSE IF blank < close THEN L[blank]
                          ELSE IF guess = {} THEN 0 ELSE Earliest(guess)
  <2> DEFINE outdated(n) == {m \in ToSet(L) : Valid(m) /\ Time(m) < Time(n)}
             dropped == {L[i] : i \in late}
             found == [sel |-> L[close], gone |-> dropped \cup outdated(L[close])]
             plain == [sel |-> L[blank], gone |-> dropped]
             taken == [sel |-> IF guess = {} THEN 0 ELSE Earliest(guess), gone |-> dropped]
  <2>1. Match(L, pts) = CASE close < blank -> found [] blank < close -> plain [] OTHER -> taken
    BY DEF Match
  <2>2. /\ found.sel = L[close] /\ plain.sel = L[blank]
        /\ taken.sel = IF guess = {} THEN 0 ELSE Earliest(guess)
    OBVIOUS
  <2> HIDE DEF found, plain, taken, guess
  <2>3. ~(close < blank /\ blank < close)
    BY <1>2
  <2> HIDE DEF close, blank
  <2> QED
    BY <2>1, <2>2, <2>3
<1> HIDE DEF close, blank
<1>4. CASE close < blank
  <2>1. close \in DOMAIN L
    BY <1>1, <1>2, <1>4
  <2> QED
    BY <1>3, <1>4, <2>1
<1>5. CASE blank < close
  <2>1. blank \in DOMAIN L /\ ~(close < blank)
    BY <1>1, <1>2, <1>5
  <2> QED
    BY <1>3, <1>5, <2>1
<1>6. CASE ~(close < blank) /\ ~(blank < close)
  <2>1. stop - 1 \in 0..Len(L)
    BY <1>1, <1>2
  <2>2. guess \in SUBSET Frames
    <3>1. \A j \in 1..(stop - 1) : L[j] \in Frames
      BY <1>1, <2>1
    <3> HIDE DEF stop, late
    <3> QED
      BY <3>1
  <2> HIDE DEF guess
  <2> QED
    BY <1>3, <1>6, <2>2, EarliestIn
<1> QED
  BY <1>4, <1>5, <1>6

\* gst_mpp_dec_get_frame finds a frame of the element, or none, and a time.
LEMMA GetFrameIn ==
  ASSUME FrTyped, list \in Seq(Frames), NEW pts \in TimeRange
  PROVE  /\ GetFrame(pts).sel \in Frames \cup {0}
         /\ GetFrame(pts).pts \in TimeRange
<1>1. CASE list = <<>>
  BY <1>1 DEF GetFrame, TimeRange, NoPts
<1>2. CASE list # <<>>
  <2> DEFINE L == Trimmed
             time == IF pts = 0 THEN NoPts ELSE pts
             first == ~dec.decoded
             m == CASE first -> [sel |-> FirstFrame(L), gone |-> {}]
                    [] ~first /\ ~dec.seen -> [sel |-> L[1], gone |-> {}]
                    [] OTHER -> Match(L, time)
  <2>1. L \in Seq(Frames) /\ L # <<>> /\ L[1] \in Frames
    BY <1>2, TrimmedType
  <2>2. time \in TimeRange /\ NoPts \in TimeRange
    BY DEF TimeRange, NoPts
  <2>3. /\ GetFrame(pts).sel = IF m.sel = 0 THEN L[1] ELSE m.sel
        /\ GetFrame(pts).pts = IF first THEN NoPts ELSE time
    BY <1>2 DEF GetFrame
  <2>4. FirstFrame(L) \in Frames /\ Match(L, time).sel \in Frames \cup {0}
    BY <2>1, <2>2, FirstFrameIn, MatchIn
  <2>5. m.sel \in Frames \cup {0}
    <3> HIDE DEF L, time
    <3>1. CASE first
      BY <3>1, <2>4
    <3>2. CASE ~first /\ ~dec.seen
      BY <3>2, <2>1
    <3>3. CASE ~first /\ dec.seen
      BY <3>3, <2>4
    <3> QED
      BY <3>1, <3>2, <3>3
  <2> HIDE DEF m, L, time
  <2> QED
    BY <2>1, <2>2, <2>3, <2>5
<1> QED
  BY <1>1, <1>2

-----------------------------------------------------------------------------
(* What the steps leave behind *)

\* The values the state starts from and returns to.
LEMMA Constants ==
  /\ NoPts \in TimeRange /\ NoPic \in Pictures /\ 0 \in TimeRange
  /\ NoOp \in Ops /\ NoItem \in Gots /\ Frames \in SUBSET Pictures
  /\ \A n \in Frames : n # NoPic
BY DecoderAssumption DEF NoPts, NoPic, TimeRange, Pictures, NoOp, Ops, OpKinds, NoItem, Gots, Frames

\* What the start of a reset leaves behind.
Begun(t, kind, drain, final) ==
  /\ op' \in [Callers -> Ops] /\ dec' \in Decs /\ mpp' \in Seq(Items)
  /\ pc' = [pc EXCEPT ![t] = "lock"]
  /\ op'[t].kind = kind /\ op'[t].drain = drain /\ op'[t].final = final
  /\ \A u \in Callers : u # t =>
       /\ op'[u].kind = op[u].kind /\ op'[u].drain = op[u].drain
       /\ op'[u].final = op[u].final /\ op'[u].gen = op[u].gen
       /\ op'[u].result = op[u].result
       /\ op'[u].overtaken = (op[u].overtaken \/ ~drain)
  /\ drain => dec' = dec /\ mpp' = mpp
  /\ ~drain => mpp' = <<>>
  /\ dec'.flushing = dec.flushing /\ dec'.ret = dec.ret /\ dec'.alloc = dec.alloc

\* Whoever begins a reset overtakes the other, unless it only drains.
LEMMA BeginsEffect ==
  ASSUME Typed, NEW t \in Callers, NEW kind \in OpKinds, NEW drain \in BOOLEAN,
         NEW final \in BOOLEAN, ResetBegins(t, kind, drain, final)
  PROVE  Begun(t, kind, drain, final)
<1>1. PICK o \in [Callers -> Ops] : o = op
  BY DEF Typed
<1>2. [NoOp EXCEPT !.kind = kind, !.drain = drain, !.final = final] \in Ops
  BY Constants DEF Ops
<1> DEFINE mine == [NoOp EXCEPT !.kind = kind, !.drain = drain, !.final = final]
           other(u) == [op[u] EXCEPT !.overtaken = op[u].overtaken \/ ~drain]
<1>3. mine \in Ops /\ mine.kind = kind /\ mine.drain = drain /\ mine.final = final
  BY <1>2, Constants DEF Ops, NoOp
<1>4. ASSUME NEW u \in Callers
      PROVE  /\ other(u) \in Ops
             /\ other(u).kind = op[u].kind /\ other(u).drain = op[u].drain
             /\ other(u).final = op[u].final /\ other(u).gen = op[u].gen
             /\ other(u).result = op[u].result
             /\ other(u).overtaken = (op[u].overtaken \/ ~drain)
  <2>1. op[u] \in Ops /\ (op[u].overtaken \/ ~drain) \in BOOLEAN
    BY DEF Typed
  <2> QED
    BY <2>1 DEF Ops
<1>5. op' = [u \in Callers |-> IF u = t THEN mine ELSE other(u)]
  BY DEF ResetBegins, Callers
<1> HIDE DEF mine, other
<1>6. op' \in [Callers -> Ops]
  BY <1>3, <1>4, <1>5
<1>7. op'[t].kind = kind /\ op'[t].drain = drain /\ op'[t].final = final
  BY <1>3, <1>5
<1>8. \A u \in Callers : u # t => op'[u] = other(u)
  BY <1>5
<1>9. pc' = [pc EXCEPT ![t] = "lock"]
  BY DEF ResetBegins, Goto
<1>10. dec' \in Decs /\ dec'.flushing = dec.flushing /\ dec'.ret = dec.ret /\ dec'.alloc = dec.alloc
       /\ (drain => dec' = dec)
  <2>1. dec \in Decs /\ dec.gen + 1 \in Nat
    BY DEF Typed, Decs
  <2>2. CASE drain
    BY <2>1, <2>2 DEF ResetBegins
  <2>3. CASE ~drain
    <3>1. dec' = [dec EXCEPT !.gen = dec.gen + 1]
      BY <2>3 DEF ResetBegins
    <3> QED
      BY <2>1, <2>3, <3>1 DEF Decs
  <2> QED
    BY <2>2, <2>3
<1>11. mpp' \in Seq(Items) /\ (drain => mpp' = mpp) /\ (~drain => mpp' = <<>>)
  <2>1. mpp \in Seq(Items) /\ <<>> \in Seq(Items)
    BY DEF Typed
  <2>2. (drain => mpp' = mpp) /\ (~drain => mpp' = <<>>)
    BY DEF ResetBegins
  <2> QED
    BY <2>1, <2>2
<1> QED
  BY <1>4, <1>6, <1>7, <1>8, <1>9, <1>10, <1>11 DEF Begun

\* The five callers of gst_mpp_dec_reset.
LEMMA Beginnings ==
  ASSUME Typed
  PROVE  /\ Drain => \E kind \in {"drain", "finish"} : Begun("S", kind, TRUE, FALSE)
         /\ SetFormat => Begun("S", "caps", TRUE, FALSE)
         /\ Flush => Begun("S", "flush", FALSE, FALSE)
         /\ ChangeState => Begun("A", "ready", FALSE, TRUE)
         /\ Stop => Begun("A", "stop", FALSE, TRUE)
<1>1. /\ "S" \in Callers /\ "A" \in Callers
      /\ {"drain", "finish", "caps", "flush", "ready", "stop"} \in SUBSET OpKinds
  BY DEF Callers, OpKinds
<1>2. Drain => \E kind \in {"drain", "finish"} : Begun("S", kind, TRUE, FALSE)
  BY <1>1, BeginsEffect DEF Drain
<1>3. SetFormat => Begun("S", "caps", TRUE, FALSE)
  BY <1>1, BeginsEffect DEF SetFormat
<1>4. Flush => Begun("S", "flush", FALSE, FALSE)
  BY <1>1, BeginsEffect DEF Flush
<1>5. ChangeState => Begun("A", "ready", FALSE, TRUE)
  BY <1>1, BeginsEffect DEF ChangeState
<1>6. Stop => Begun("A", "stop", FALSE, TRUE)
  BY <1>1, BeginsEffect DEF Stop
<1> QED
  BY <1>2, <1>3, <1>4, <1>5, <1>6

\* S goes back to upstream: the mutex is free.
LEMMA HandledEffect ==
  ASSUME Typed, NEW r, NEW drop, Handled(r, drop)
  PROVE  /\ op' \in [Callers -> Ops] /\ op'["S"] = NoOp /\ op'["A"] = op["A"]
         /\ pc' = [pc EXCEPT !["S"] = "idle"]
         /\ mutex' = Nobody
         /\ list' = list \/ list' = Without(list, {fed})
BY Constants DEF Handled, Goto, Typed, Callers, Cur

\* A frame kept back is shown when it has a picture.
LEMMA PushedOne ==
  ASSUME FramesTyped, NEW r \in Frames, ready = <<r>>
  PROVE  Pushed(ready) = IF fr[r].buf = NoPic THEN shown ELSE Append(shown, fr[r].buf)
<1> DEFINE pics == [i \in DOMAIN ready |-> fr[ready[i]].buf]
           I == {i \in DOMAIN pics : pics[i] # NoPic}
<1>1. DOMAIN ready = {1} /\ ready[1] = r
  OBVIOUS
<1>2. pics = [i \in {1} |-> fr[r].buf]
  BY <1>1
<1>3. Pushed(ready) = shown \o Picked(pics, I)
  BY DEF Pushed
<1>4. shown \in Seq(Frames) /\ fr[r] \in FrameRec /\ fr[r].buf \in Pictures
  BY DEF FramesTyped, FrTyped, FrameRec
<1> HIDE DEF pics
<1>5. CASE fr[r].buf = NoPic
  <2>1. I = {}
    BY <1>2, <1>5
  <2>2. Cardinality(I) = 0
    BY <2>1, FS_EmptySet
  <2> HIDE DEF I
  <2>3. Picked(pics, I) = <<>>
    BY <2>2 DEF Picked
  <2> QED
    BY <1>3, <1>4, <1>5, <2>3
<1>6. CASE fr[r].buf # NoPic
  <2>1. I = {1}
    BY <1>2, <1>6
  <2>2. Cardinality(I) = 1 /\ IsFiniteSet(I)
    BY <2>1, FS_Singleton
  <2>3. Nth(I, 1) = 1
    <3>1. I \in SUBSET Nat /\ 1 \in 1..Cardinality(I)
      BY <2>1, <2>2
    <3>2. Nth(I, 1) \in I
      BY <2>2, <3>1, NthIn
    <3> QED
      BY <2>1, <3>2
  <2> HIDE DEF I
  <2>4. Picked(pics, I) = <<fr[r].buf>>
    BY <1>2, <2>2, <2>3 DEF Picked
  <2>5. fr[r].buf \in Frames
    BY <1>4, <1>6 DEF Pictures
  <2>6. shown \o <<fr[r].buf>> = Append(shown, fr[r].buf)
    BY <1>4, <2>5, AppendIsConcat
  <2> QED
    BY <1>3, <1>6, <2>4, <2>6
<1> QED
  BY <1>5, <1>6

\* Nothing kept back, nothing shown.
LEMMA PushedNone ==
  ASSUME FramesTyped, ready = <<>>
  PROVE  Pushed(ready) = shown
<1> DEFINE pics == [i \in DOMAIN ready |-> fr[ready[i]].buf]
           I == {i \in DOMAIN pics : pics[i] # NoPic}
<1>1. I = {}
  OBVIOUS
<1>2. Cardinality(I) = 0
  BY <1>1, FS_EmptySet
<1>3. Pushed(ready) = shown \o Picked(pics, I)
  BY DEF Pushed
<1> HIDE DEF I, pics
<1>4. Picked(pics, I) = <<>>
  BY <1>2 DEF Picked
<1> QED
  BY <1>3, <1>4 DEF FramesTyped

\* At most one frame is kept back.
LEMMA ReadyOne ==
  ASSUME FramesTyped
  PROVE  ready = <<>> \/ \E r \in Frames : ready = <<r>>
<1>1. ready \in Seq(Frames) /\ Len(ready) \in Nat /\ Len(ready) <= 1
  BY DEF FramesTyped
<1>2. ASSUME Len(ready) = 0 PROVE ready = <<>>
  BY <1>1, <1>2, EmptySeq
<1>3. ASSUME Len(ready) = 1 PROVE \E r \in Frames : ready = <<r>>
  <2>1. ready[1] \in Frames /\ ready = <<ready[1]>>
    BY <1>1, <1>3
  <2> QED
    BY <2>1
<1>4. Len(ready) = 0 \/ Len(ready) = 1
  <2>1. \A n \in Nat : n <= 1 => n = 0 \/ n = 1
    OBVIOUS
  <2> QED
    BY <1>1, <2>1
<1> QED
  BY <1>2, <1>3, <1>4

\* The frames in F have no picture any more, the others what they had.
LEMMA EmptiedEffect ==
  ASSUME FramesTyped, NEW F
  PROVE  /\ Emptied(F) \in [Frames -> FrameRec]
         /\ \A n \in Frames : Emptied(F)[n].buf = IF n \in F THEN NoPic ELSE fr[n].buf
<1>1. \A n \in Frames : fr[n] \in FrameRec
  BY DEF FramesTyped, FrTyped
<1>2. \A n \in Frames : [fr[n] EXCEPT !.buf = NoPic] \in FrameRec
                        /\ [fr[n] EXCEPT !.buf = NoPic].buf = NoPic
  BY <1>1, Constants DEF FrameRec
<1> QED
  BY <1>1, <1>2 DEF Emptied

\* What flush_ready_frames shows is the picture it had kept back.
LEMMA FlushEffect ==
  ASSUME FramesTyped, NEW finish \in BOOLEAN, FlushReady(finish)
  PROVE  /\ ready' = <<>> /\ shown' \in Seq(Frames)
         /\ fr' \in [Frames -> FrameRec]
         /\ \A n \in Frames : fr'[n].buf = IF ready = <<n>> THEN NoPic ELSE fr[n].buf
         /\ shown' = shown \/ \E n \in Frames : /\ finish /\ ready = <<n>> /\ fr[n].buf # NoPic
                                                /\ fr[n].buf \in Frames
                                                /\ shown' = Append(shown, fr[n].buf)
<1>1. ready' = <<>> /\ fr' = Emptied(ToSet(ready))
      /\ shown' = IF finish THEN Pushed(ready) ELSE shown
  BY DEF FlushReady
<1>2. shown \in Seq(Frames)
  BY DEF FramesTyped
<1>3. CASE ready = <<>>
  <2>1. shown' = shown
    BY <1>1, <1>3, PushedNone
  <2>2. ToSet(ready) = {}
    BY <1>3 DEF ToSet
  <2> QED
    BY <1>1, <1>2, <1>3, <2>1, <2>2, EmptiedEffect
<1>4. ASSUME NEW r \in Frames, ready = <<r>>
      PROVE  /\ shown' \in Seq(Frames)
             /\ shown' = shown \/ (/\ finish /\ fr[r].buf # NoPic /\ fr[r].buf \in Frames
                                   /\ shown' = Append(shown, fr[r].buf))
             /\ \A n \in Frames : fr'[n].buf = IF ready = <<n>> THEN NoPic ELSE fr[n].buf
  <2>1. ToSet(ready) = {r}
    BY <1>4 DEF ToSet
  <2>2. Pushed(ready) = IF fr[r].buf = NoPic THEN shown ELSE Append(shown, fr[r].buf)
    BY <1>4, PushedOne
  <2>3. fr[r].buf # NoPic => fr[r].buf \in Frames
    BY DEF FramesTyped, FrTyped, FrameRec, Pictures
  <2>4. \A n \in Frames : ready = <<n>> <=> n \in {r}
    BY <1>4
  <2> QED
    BY <1>1, <1>2, <2>1, <2>2, <2>3, <2>4, EmptiedEffect
<1> QED
  BY <1>1, <1>3, <1>4, ReadyOne, EmptiedEffect

\* What a reset does once the task has ended, and what it leaves alone.
Cleared(t) ==
  /\ dec' \in Decs /\ op' \in [Callers -> Ops] /\ mpp' \in Seq(Items)
  /\ epoch' \in [now : Nat, of : [Frames -> Nat]]
  /\ dec'.flushing = op[t].final /\ dec'.ret = "ok"
  /\ op[t].drain \in BOOLEAN /\ mpp' = IF op[t].drain THEN <<>> ELSE mpp
  /\ list' = <<>> /\ mutex' = Nobody /\ FlushReady(op[t].drain)
  /\ op[t].drain => epoch' = epoch
  /\ op'[t] = NoOp /\ \A u \in Callers : u # t => op'[u] = op[u]
  /\ NoOp.kind = "none" /\ ~NoOp.drain /\ ~NoOp.final /\ ~NoOp.overtaken
  /\ t = "S" => pc' = [pc EXCEPT !["S"] = "idle"]
  /\ t = "A" => pc' = [pc EXCEPT !["A"] = IF op[t].kind = "ready" THEN "deactivating"
                                          ELSE "stopped"]

\* A drain that comes back with OK saw no error.
LEMMA ClearEffect ==
  ASSUME Typed, FramesTyped, NEW t \in Callers, NEW failed \in BOOLEAN, NEW may \in BOOLEAN,
         Clear(t, failed, may)
  PROVE  /\ Cleared(t)
         /\ (op[t].kind \in {"drain", "finish"} /\ flow' = "ok") => ~failed /\ dec.ret # "error"
<1>1. op[t] \in Ops /\ dec \in Decs /\ op[t].drain \in BOOLEAN /\ op[t].final \in BOOLEAN
      /\ epoch \in [now : Nat, of : [Frames -> Nat]]
  BY DEF Typed, Ops
<1>2. PICK c \in BOOLEAN, a \in BOOLEAN :
        dec' = [dec EXCEPT !.flushing = op[t].final, !.draining = FALSE, !.ret = "ok",
                           !.decoded = FALSE, !.convert = c, !.alloc = a]
  <2>1. (dec.alloc /\ ~ClearsAllocator(op[t].kind)) \in BOOLEAN
    BY <1>1 DEF Decs
  <2> QED
    BY <2>1 DEF Clear
<1>3. dec' \in Decs /\ dec'.flushing = op[t].final /\ dec'.ret = "ok"
  BY ZenonT(90), <1>1, <1>2 DEF Decs
<1>4. epoch' \in [now : Nat, of : [Frames -> Nat]] /\ (op[t].drain => epoch' = epoch)
  <2>1. epoch' = IF op[t].drain THEN epoch ELSE [epoch EXCEPT !.now = epoch.now + 1]
    BY DEF Clear
  <2> QED
    BY <1>1, <2>1
<1>5. op' = [op EXCEPT ![t] = NoOp]
  BY DEF Clear
<1>6. op' \in [Callers -> Ops] /\ op'[t] = NoOp /\ \A u \in Callers : u # t => op'[u] = op[u]
  BY <1>5, Constants DEF Typed
<1>7. /\ mpp' = IF op[t].drain THEN <<>> ELSE mpp
      /\ list' = <<>> /\ mutex' = Nobody /\ FlushReady(op[t].drain)
  BY DEF Clear
<1>8. mpp' \in Seq(Items)
  <2>1. mpp \in Seq(Items) /\ <<>> \in Seq(Items)
    BY DEF Typed
  <2> QED
    BY <1>7, <2>1
<1>9. /\ t = "S" => pc' = [pc EXCEPT !["S"] = "idle"]
      /\ t = "A" => pc' = [pc EXCEPT !["A"] = IF op[t].kind = "ready" THEN "deactivating"
                                              ELSE "stopped"]
  BY DEF Clear, Goto
<1>10. ASSUME op[t].kind \in {"drain", "finish"}, flow' = "ok" PROVE ~failed /\ dec.ret # "error"
  <2> DEFINE before == IF dec.ret = "eos" THEN "ok" ELSE dec.ret
             result == IF failed THEN "error" ELSE before
  <2>1. flow' = IF result = "ok" /\ may THEN "error" ELSE result
    BY <1>10 DEF Clear
  <2>2. result = "ok"
    BY <1>10, <2>1
  <2> QED
    BY <2>2
<1>11. NoOp.kind = "none" /\ ~NoOp.drain /\ ~NoOp.final /\ ~NoOp.overtaken
  BY DEF NoOp
<1> QED
  BY <1>1, <1>3, <1>4, <1>6, <1>7, <1>8, <1>9, <1>10, <1>11 DEF Cleared

\* The two ways a reset comes to clear.
LEMMA Clearing ==
  ASSUME NEW t \in Callers, ResetUntasked(t) \/ ResetEnds(t)
  PROVE  \E failed \in BOOLEAN, fails \in BOOLEAN : Clear(t, failed, fails)
<1>1. FALSE \in BOOLEAN /\ (op[t].result = "error") \in BOOLEAN
  OBVIOUS
<1>2. CASE ResetUntasked(t)
  BY <1>1, <1>2 DEF ResetUntasked
<1>3. CASE ResetEnds(t)
  BY <1>1, <1>3 DEF ResetEnds
<1> QED
  BY <1>2, <1>3

\* Either way it leaves the same behind.
LEMMA Endings ==
  ASSUME Typed, FramesTyped, NEW t \in Callers, ResetUntasked(t) \/ ResetEnds(t)
  PROVE  Cleared(t)
BY Clearing, ClearEffect

\* The end of a turn.
LEMMA EndsEffect ==
  ASSUME Typed, NEW d, TurnEnds(d)
  PROVE  /\ dec' = d /\ got' = NoItem
         /\ pc' = [pc EXCEPT !["T"] = "idle"]
         /\ task' = IF d.ret # "ok" /\ task = "started" THEN "paused" ELSE task
BY DEF TurnEnds, Goto

\* What RemoveAt leaves of a sequence.
LEMMA Removed ==
  ASSUME NEW S, NEW s \in Seq(S), NEW i \in DOMAIN s
  PROVE  /\ RemoveAt(s, i) \in Seq(S) /\ Len(RemoveAt(s, i)) = Len(s) - 1
         /\ \A k \in 1..(Len(s) - 1) : RemoveAt(s, i)[k] = IF k < i THEN s[k] ELSE s[k + 1]
<1> DEFINE n == Len(s)
           a == SubSeq(s, 1, i - 1)
           b == SubSeq(s, i + 1, Len(s))
<1>1. n \in Nat /\ i \in 1..n /\ n >= 1
  OBVIOUS
<1>2. b \in Seq(S) /\ Len(b) = n - i /\ \A k \in 1..(n - i) : b[k] = s[i + k]
  BY <1>1, SuffixType
<1>3. a \in Seq(S) /\ Len(a) = i - 1 /\ \A k \in 1..(i - 1) : a[k] = s[k]
  <2>1. 1..(i - 1) \in SUBSET (1..n) /\ \A k \in 1..(i - 1) : s[k] \in S
    BY <1>1
  <2>2. Len(a) = i - 1 /\ \A k \in 1..(i - 1) : a[k] = s[k]
    BY <1>1
  <2> QED
    BY <1>1, <2>1, <2>2
<1> HIDE DEF n, a, b
<1>4. RemoveAt(s, i) = a \o b
  BY DEF RemoveAt, a, b, n
<1>5. a \o b \in Seq(S) /\ Len(a \o b) = n - 1
      /\ \A k \in 1..(n - 1) : (a \o b)[k] = IF k <= i - 1 THEN a[k] ELSE b[k - (i - 1)]
  <2>1. /\ a \o b \in Seq(S) /\ Len(a \o b) = Len(a) + Len(b)
        /\ \A k \in 1..(Len(a) + Len(b)) :
             (a \o b)[k] = IF k <= Len(a) THEN a[k] ELSE b[k - Len(a)]
    BY <1>2, <1>3, ConcatProperties
  <2>2. Len(a) + Len(b) = n - 1
    BY <1>1, <1>2, <1>3
  <2> QED
    BY <1>3, <2>1, <2>2
<1>6. ASSUME NEW k \in 1..(n - 1)
      PROVE  (a \o b)[k] = IF k < i THEN s[k] ELSE s[k + 1]
  <2>1. CASE k < i
    BY <1>1, <1>3, <1>5, <2>1
  <2>2. CASE ~(k < i)
    <3>1. k - (i - 1) \in 1..(n - i) /\ i + (k - (i - 1)) = k + 1 /\ ~(k <= i - 1)
      BY <1>1, <2>2
    <3> QED
      BY <1>2, <1>5, <2>2, <3>1
  <2> QED
    BY <2>1, <2>2
<1> QED
  BY <1>1, <1>4, <1>5, <1>6 DEF n

\* A picture, an information or the end of the stream leaves the MPP: anything
\* but a picture, and anything behind it, only in the first place.
LEMMA PollEffect ==
  ASSUME Typed, Poll, Held
  PROVE  /\ got' \in Gots /\ mpp' \in Seq(Items)
         /\ \E i \in DOMAIN mpp :
              /\ i > 1 => \A j \in 1..i : mpp[j].what = "pic"
              /\ got'.what = mpp[i].what /\ got'.pic = mpp[i].pic
              /\ Len(mpp') = Len(mpp) - 1
              /\ \A k \in DOMAIN mpp' : mpp'[k] = IF k < i THEN mpp[k] ELSE mpp[k + 1]
<1>1. PICK i \in DOMAIN mpp :
        /\ i > 1 => \A j \in 1..i : mpp[j].what = "pic"
        /\ \E pts \in {NoPts} \cup {FramePts[n] : n \in {mpp[i].pic} \ {NoPic}} :
             got' = [NoItem EXCEPT !.what = mpp[i].what, !.pic = mpp[i].pic, !.pts = pts]
        /\ mpp' = RemoveAt(mpp, i)
  BY DEF Poll
<1>2. PICK pts \in {NoPts} \cup {FramePts[n] : n \in {mpp[i].pic} \ {NoPic}} :
        got' = [NoItem EXCEPT !.what = mpp[i].what, !.pic = mpp[i].pic, !.pts = pts]
  BY <1>1
<1>3. mpp \in Seq(Items) /\ mpp[i] \in Items
  BY DEF Typed
<1>4. pts \in TimeRange
  <2>1. mpp[i].pic \in Frames \/ mpp[i].pic = NoPic
    BY <1>3 DEF Items, Pictures
  <2>2. \A n \in Frames : FramePts[n] \in TimeRange
    BY DecoderAssumption DEF TimeRange, NoPts
  <2>3. NoPts \in TimeRange
    BY Constants
  <2> QED
    BY <2>1, <2>2, <2>3
<1>5. got' \in Gots /\ got'.what = mpp[i].what /\ got'.pic = mpp[i].pic
  BY <1>2, <1>3, <1>4, Constants DEF Items, Gots, NoItem
<1>6. /\ mpp' \in Seq(Items) /\ Len(mpp') = Len(mpp) - 1
      /\ \A k \in 1..(Len(mpp) - 1) : mpp'[k] = IF k < i THEN mpp[k] ELSE mpp[k + 1]
  BY <1>1, <1>3, Removed
<1>7. DOMAIN mpp' = 1..(Len(mpp) - 1)
  BY <1>6
<1> QED
  BY <1>1, <1>5, <1>6, <1>7

\* The MPP takes a packet: what it will make of it comes behind what it holds.
LEMMA SendEffect ==
  ASSUME Typed, HandleSend, fed \in Frames, mpp' # mpp
  PROVE  /\ mpp' \in Seq(Items) /\ dec.ret = "ok" /\ pc' = [pc EXCEPT !["S"] = "sent"] /\ op' = op
         /\ epoch' = [epoch EXCEPT !.of[fed] = epoch.now]
         /\ \A i \in DOMAIN mpp' : \/ i \in DOMAIN mpp /\ mpp'[i] = mpp[i]
                                   \/ mpp'[i].what # "eos" /\ mpp'[i].pic = fed
<1> DEFINE info == IF Cur \in InfoAt THEN <<[what |-> "info", pic |-> Cur]>> ELSE <<>>
           pict == IF Cur \in ParamSets THEN <<>> ELSE <<[what |-> "pic", pic |-> Cur]>>
<1>1. /\ mpp' = mpp \o info \o pict /\ dec.ret = "ok"
      /\ pc' = [pc EXCEPT !["S"] = "sent"] /\ op' = op
      /\ epoch' = [epoch EXCEPT !.of[fed] = epoch.now]
  BY DEF HandleSend, Goto, Cur
<1>2. /\ info \in Seq(Items) /\ pict \in Seq(Items)
      /\ \A i \in DOMAIN info : info[i].what # "eos" /\ info[i].pic = fed
      /\ \A i \in DOMAIN pict : pict[i].what # "eos" /\ pict[i].pic = fed
  <2> DEFINE i1 == [what |-> "info", pic |-> Cur]
             p1 == [what |-> "pic", pic |-> Cur]
  <2>1. /\ i1 \in Items /\ i1.what # "eos" /\ i1.pic = fed
        /\ p1 \in Items /\ p1.what # "eos" /\ p1.pic = fed
    BY DEF Items, Pictures, Cur
  <2>2. info = <<i1>> \/ info = <<>>
    OBVIOUS
  <2>3. pict = <<p1>> \/ pict = <<>>
    OBVIOUS
  <2> HIDE DEF i1, p1, info, pict
  <2>4. \A x \in Items : /\ <<x>> \in Seq(Items) /\ DOMAIN <<x>> = {1} /\ <<x>>[1] = x
    OBVIOUS
  <2>5. <<>> \in Seq(Items) /\ DOMAIN <<>> = {}
    OBVIOUS
  <2>6. /\ info \in Seq(Items)
        /\ \A i \in DOMAIN info : info[i].what # "eos" /\ info[i].pic = fed
    <3>1. CASE info = <<>>
      BY <2>5, <3>1
    <3>2. CASE info = <<i1>>
      BY <2>1, <2>4, <3>2
    <3> QED
      BY <2>2, <3>1, <3>2
  <2>7. /\ pict \in Seq(Items)
        /\ \A i \in DOMAIN pict : pict[i].what # "eos" /\ pict[i].pic = fed
    <3>1. CASE pict = <<>>
      BY <2>5, <3>1
    <3>2. CASE pict = <<p1>>
      BY <2>1, <2>4, <3>2
    <3> QED
      BY <2>3, <3>1, <3>2
  <2> QED
    BY <2>6, <2>7
<1> HIDE DEF info, pict
<1>3. mpp \in Seq(Items)
  BY DEF Typed
<1>4. /\ mpp \o info \in Seq(Items)
      /\ \A i \in DOMAIN (mpp \o info) :
           \/ i \in DOMAIN mpp /\ (mpp \o info)[i] = mpp[i]
           \/ \E k \in DOMAIN info : (mpp \o info)[i] = info[k]
  <2>1. /\ mpp \o info \in Seq(Items) /\ Len(mpp \o info) = Len(mpp) + Len(info)
        /\ \A i \in 1..(Len(mpp) + Len(info)) :
             (mpp \o info)[i] = IF i <= Len(mpp) THEN mpp[i] ELSE info[i - Len(mpp)]
    BY <1>2, <1>3, ConcatProperties
  <2>2. \A i \in 1..(Len(mpp) + Len(info)) : i <= Len(mpp) \/ i - Len(mpp) \in 1..Len(info)
    BY <1>2, <1>3
  <2> QED
    BY <1>2, <1>3, <2>1, <2>2
<1>5. /\ (mpp \o info) \o pict \in Seq(Items)
      /\ \A i \in DOMAIN ((mpp \o info) \o pict) :
           \/ i \in DOMAIN (mpp \o info) /\ ((mpp \o info) \o pict)[i] = (mpp \o info)[i]
           \/ \E k \in DOMAIN pict : ((mpp \o info) \o pict)[i] = pict[k]
  <2> DEFINE a == mpp \o info
  <2>1. a \in Seq(Items)
    BY <1>4
  <2> HIDE DEF a
  <2>2. /\ a \o pict \in Seq(Items) /\ Len(a \o pict) = Len(a) + Len(pict)
        /\ \A i \in 1..(Len(a) + Len(pict)) :
             (a \o pict)[i] = IF i <= Len(a) THEN a[i] ELSE pict[i - Len(a)]
    BY <1>2, <2>1, ConcatProperties
  <2>3. \A i \in 1..(Len(a) + Len(pict)) : i <= Len(a) \/ i - Len(a) \in 1..Len(pict)
    BY <1>2, <2>1
  <2>4. /\ a \o pict \in Seq(Items)
        /\ \A i \in DOMAIN (a \o pict) :
           \/ i \in DOMAIN a /\ (a \o pict)[i] = a[i]
           \/ \E k \in DOMAIN pict : (a \o pict)[i] = pict[k]
    BY <1>2, <2>1, <2>2, <2>3
  <2> QED
    BY <2>4 DEF a
<1> HIDE DEF info, pict
<1>6. mpp' = (mpp \o info) \o pict
  BY <1>1
<1>7. ASSUME NEW i \in DOMAIN mpp'
      PROVE  \/ i \in DOMAIN mpp /\ mpp'[i] = mpp[i]
             \/ mpp'[i].what # "eos" /\ mpp'[i].pic = fed
  <2>1. \/ i \in DOMAIN (mpp \o info) /\ mpp'[i] = (mpp \o info)[i]
        \/ \E k \in DOMAIN pict : mpp'[i] = pict[k]
    BY <1>5, <1>6, <1>7
  <2>2. CASE i \in DOMAIN (mpp \o info) /\ mpp'[i] = (mpp \o info)[i]
    <3>1. \/ i \in DOMAIN mpp /\ mpp'[i] = mpp[i]
          \/ \E k \in DOMAIN info : mpp'[i] = info[k]
      BY <1>4, <2>2
    <3> QED
      BY <1>2, <3>1
  <2>3. CASE \E k \in DOMAIN pict : mpp'[i] = pict[k]
    BY <1>2, <2>3
  <2> QED
    BY <2>1, <2>2, <2>3
<1> QED
  BY <1>1, <1>5, <1>6, <1>7

\* The end of stream is behind all the MPP holds.
LEMMA EosEffect ==
  ASSUME Typed, NEW t \in Callers, EosSent(t)
  PROVE  /\ mpp' \in Seq(Items) /\ Len(mpp') = Len(mpp) + 1
         /\ mpp'[Len(mpp')].what = "eos"
         /\ \A i \in DOMAIN mpp' : \/ i \in DOMAIN mpp /\ mpp'[i] = mpp[i]
                                   \/ mpp'[i].what = "eos"
         /\ pc' = [pc EXCEPT ![t] = "wait"] /\ op' = op
<1> DEFINE eos == [what |-> "eos", pic |-> NoPic]
<1>1. eos \in Items /\ eos.what = "eos"
  BY Constants DEF Items
<1>2. mpp \in Seq(Items) /\ mpp' = Append(mpp, eos) /\ pc' = [pc EXCEPT ![t] = "wait"] /\ op' = op
  BY DEF Typed, EosSent, Goto
<1> HIDE DEF eos
<1>3. /\ mpp' \in Seq(Items) /\ Len(mpp') = Len(mpp) + 1 /\ mpp'[Len(mpp) + 1] = eos
      /\ \A i \in 1..Len(mpp) : mpp'[i] = mpp[i]
  BY <1>1, <1>2, AppendProperties
<1>4. \A i \in DOMAIN mpp' : i \in 1..Len(mpp) \/ i = Len(mpp) + 1
  BY <1>2, <1>3
<1> QED
  BY <1>1, <1>2, <1>3, <1>4

\* A result noted in what a caller is doing changes nothing else of it.
LEMMA NotedEffect ==
  ASSUME Typed, NEW t \in Callers, op' = [op EXCEPT ![t].result = "error"]
  PROVE  /\ op' \in [Callers -> Ops]
         /\ \A u \in Callers : /\ op'[u].kind = op[u].kind /\ op'[u].drain = op[u].drain
                               /\ op'[u].final = op[u].final /\ op'[u].gen = op[u].gen
                               /\ op'[u].overtaken = op[u].overtaken
                               /\ u # t => op'[u].result = op[u].result
         /\ op'[t].result = "error"
<1>1. op \in [Callers -> Ops] /\ op[t] \in Ops
  BY DEF Typed
<1> DEFINE noted == [op[t] EXCEPT !.result = "error"]
<1>2. op' = [op EXCEPT ![t] = noted]
  OBVIOUS
<1>3. /\ noted \in Ops /\ noted.result = "error"
      /\ noted.kind = op[t].kind /\ noted.drain = op[t].drain /\ noted.final = op[t].final
      /\ noted.gen = op[t].gen /\ noted.overtaken = op[t].overtaken
  BY <1>1 DEF Ops
<1> HIDE DEF noted
<1> QED
  BY <1>1, <1>2, <1>3

\* A shutdown that fails is only noted.
LEMMA FailedEffect ==
  ASSUME Typed, NEW t \in Callers, ShutdownFailed(t)
  PROVE  /\ pc' = [pc EXCEPT ![t] = "join"]
         /\ op' \in [Callers -> Ops]
         /\ \A u \in Callers : /\ op'[u].kind = op[u].kind /\ op'[u].drain = op[u].drain
                               /\ op'[u].final = op[u].final /\ op'[u].gen = op[u].gen
                               /\ op'[u].overtaken = op[u].overtaken
                               /\ u # t => op'[u].result = op[u].result
         /\ op'[t].result = "error"
<1>1. op' = [op EXCEPT ![t].result = "error"] /\ pc' = [pc EXCEPT ![t] = "join"]
  BY DEF ShutdownFailed, Goto
<1> QED
  BY <1>1, NotedEffect

\* A frame sent, or given up on.
LEMMA SentEffect ==
  ASSUME Typed, HandleSend
  PROVE  /\ op' \in [Callers -> Ops]
         /\ \A u \in Callers : /\ op'[u].kind = op[u].kind /\ op'[u].drain = op[u].drain
                               /\ op'[u].final = op[u].final /\ op'[u].gen = op[u].gen
                               /\ op'[u].overtaken = op[u].overtaken
                               /\ u # "S" => op'[u].result = op[u].result
         /\ \/ pc' = [pc EXCEPT !["S"] = "dropped"] /\ mpp' = mpp /\ epoch' = epoch
            \/ pc' = [pc EXCEPT !["S"] = "sent"] /\ op' = op
<1>1. "S" \in Callers /\ op \in [Callers -> Ops]
  BY DEF Callers, Typed
<1>2. op' = op \/ op' = [op EXCEPT !["S"].result = "error"]
  BY DEF HandleSend
<1>3. /\ op' \in [Callers -> Ops]
      /\ \A u \in Callers : /\ op'[u].kind = op[u].kind /\ op'[u].drain = op[u].drain
                            /\ op'[u].final = op[u].final /\ op'[u].gen = op[u].gen
                            /\ op'[u].overtaken = op[u].overtaken
                            /\ u # "S" => op'[u].result = op[u].result
  <2>1. CASE op' = op
    BY <1>1, <2>1
  <2>2. CASE op' = [op EXCEPT !["S"].result = "error"]
    BY <1>1, <2>2, NotedEffect
  <2> QED
    BY <1>2, <2>1, <2>2
<1>4. \/ pc' = [pc EXCEPT !["S"] = "dropped"] /\ mpp' = mpp /\ epoch' = epoch
      \/ pc' = [pc EXCEPT !["S"] = "sent"] /\ op' = op
  BY DEF HandleSend, Goto
<1> QED
  BY <1>3, <1>4

\* A picture is given its frame; the frame goes on to a buffer, or the turn ends.
LEMMA PictureEffect ==
  ASSUME Typed, FramesTyped, TurnPicture
  PROVE  /\ dec' \in Decs /\ dec'.flushing = dec.flushing /\ dec'.alloc = dec.alloc
         /\ dec'.gen = dec.gen /\ dec'.ret \in {dec.ret, "error"}
         /\ fr' \in [Frames -> FrameRec] /\ \A n \in Frames : fr'[n].buf = fr[n].buf
         /\ list' \in Seq(Frames) /\ got' \in Gots
         /\ \/ /\ got' = NoItem /\ pc' = [pc EXCEPT !["T"] = "idle"]
               /\ task' = IF dec'.ret # "ok" /\ task = "started" THEN "paused" ELSE task
            \/ /\ pc' = [pc EXCEPT !["T"] = "buffer"] /\ task' = task /\ dec'.ret = dec.ret
               /\ dec.alloc /\ got'.what = "pic" /\ got'.sel # 0 /\ got'.pic = got.pic
<1> DEFINE g == GetFrame(got.pts)
           d == [dec EXCEPT !.decoded = TRUE, !.useMpp = g.uses]
           timed == IF g.uses /\ g.sel # 0 THEN [fr EXCEPT ![g.sel].pts = g.pts] ELSE fr
           dropping == dec.flushing /\ ~dec.draining
<1>1. /\ got \in Gots /\ got.pts \in TimeRange /\ dec \in Decs
      /\ fr \in [Frames -> FrameRec] /\ list \in Seq(Frames)
  BY DEF Typed, FramesTyped, FrTyped, Gots
<1>2. g.sel \in Frames \cup {0} /\ g.pts \in TimeRange /\ g.uses \in BOOLEAN
  <2>1. GetFrame(got.pts).uses \in BOOLEAN
    BY <1>1 DEF GetFrame, Decs
  <2> QED
    BY <1>1, <2>1, GetFrameIn DEF FramesTyped
<1>3. \/ /\ g.sel = 0
         /\ TurnEnds(d) /\ UNCHANGED <<list, fr>>
      \/ /\ g.sel # 0
         /\ fr' = timed
         /\ \E c \in BOOLEAN :
              \/ /\ list' = Without(list, g.gone \cup {g.sel})
                 /\ TurnEnds([d EXCEPT !.convert = c])
              \/ /\ list' = Without(list, g.gone)
                 /\ TurnEnds([d EXCEPT !.ret = "error", !.convert = c])
              \/ /\ dec.alloc /\ list' = Without(list, g.gone)
                 /\ dec' = [d EXCEPT !.convert = c]
                 /\ got' = [got EXCEPT !.sel = g.sel]
                 /\ Goto("T", "buffer") /\ UNCHANGED task
  BY DEF TurnPicture
<1>4. got.what = "pic"
  BY DEF TurnPicture
<1> HIDE DEF g
<1>5. d \in Decs /\ d.flushing = dec.flushing /\ d.alloc = dec.alloc /\ d.gen = dec.gen
      /\ d.ret = dec.ret
  BY <1>1, <1>2 DEF Decs
<1> HIDE DEF d
<1>6. ASSUME NEW c \in BOOLEAN
      PROVE  /\ [d EXCEPT !.convert = c] \in Decs
             /\ [d EXCEPT !.ret = "error", !.convert = c] \in Decs
             /\ [d EXCEPT !.convert = c].flushing = dec.flushing
             /\ [d EXCEPT !.convert = c].alloc = dec.alloc
             /\ [d EXCEPT !.convert = c].gen = dec.gen
             /\ [d EXCEPT !.convert = c].ret = dec.ret
             /\ [d EXCEPT !.ret = "error", !.convert = c].flushing = dec.flushing
             /\ [d EXCEPT !.ret = "error", !.convert = c].alloc = dec.alloc
             /\ [d EXCEPT !.ret = "error", !.convert = c].gen = dec.gen
             /\ [d EXCEPT !.ret = "error", !.convert = c].ret = "error"
  BY <1>5, <1>6 DEF Decs
<1>7. /\ fr' = fr \/ (g.sel \in Frames /\ fr' = [fr EXCEPT ![g.sel].pts = g.pts])
      /\ fr' \in [Frames -> FrameRec] /\ \A n \in Frames : fr'[n].buf = fr[n].buf
  <2>1. fr' = fr \/ (g.sel \in Frames /\ fr' = [fr EXCEPT ![g.sel].pts = g.pts])
    BY <1>2, <1>3
  <2>2. CASE fr' = fr
    BY <1>1, <2>2
  <2>3. ASSUME g.sel \in Frames, fr' = [fr EXCEPT ![g.sel].pts = g.pts]
        PROVE  fr' \in [Frames -> FrameRec] /\ \A n \in Frames : fr'[n].buf = fr[n].buf
    <3> DEFINE r == [fr[g.sel] EXCEPT !.pts = g.pts]
    <3>1. fr' = [fr EXCEPT ![g.sel] = r]
      BY <2>3
    <3>2. r \in FrameRec /\ r.buf = fr[g.sel].buf
      BY <1>1, <1>2, <2>3 DEF FrameRec
    <3> HIDE DEF r
    <3> QED
      BY <1>1, <2>3, <3>1, <3>2
  <2> QED
    BY <2>1, <2>2, <2>3
<1>8. list' \in Seq(Frames)
  <2>1. list' = list \/ \E F : list' = Without(list, F)
    BY <1>3
  <2> QED
    BY <1>1, <2>1, WithoutType
<1>9. ASSUME NEW e, TurnEnds(e)
      PROVE  /\ dec' = e /\ got' = NoItem /\ pc' = [pc EXCEPT !["T"] = "idle"]
             /\ task' = IF dec'.ret # "ok" /\ task = "started" THEN "paused" ELSE task
  BY <1>9, EndsEffect
<1>10. CASE TurnEnds(d)
  BY <1>5, <1>7, <1>8, <1>9, <1>10, Constants
<1>11. ASSUME NEW c \in BOOLEAN, TurnEnds([d EXCEPT !.convert = c]) \/
                                 TurnEnds([d EXCEPT !.ret = "error", !.convert = c])
       PROVE  /\ dec' \in Decs /\ dec'.flushing = dec.flushing /\ dec'.alloc = dec.alloc
              /\ dec'.gen = dec.gen /\ dec'.ret \in {dec.ret, "error"}
              /\ got' = NoItem /\ pc' = [pc EXCEPT !["T"] = "idle"]
              /\ task' = IF dec'.ret # "ok" /\ task = "started" THEN "paused" ELSE task
  BY <1>6, <1>9, <1>11
<1>12. ASSUME NEW c \in BOOLEAN, g.sel # 0, dec.alloc, dec' = [d EXCEPT !.convert = c],
              got' = [got EXCEPT !.sel = g.sel], Goto("T", "buffer"), UNCHANGED task
       PROVE  /\ dec' \in Decs /\ dec'.flushing = dec.flushing /\ dec'.alloc = dec.alloc
              /\ dec'.gen = dec.gen /\ got' \in Gots
              /\ pc' = [pc EXCEPT !["T"] = "buffer"] /\ task' = task /\ dec'.ret = dec.ret
              /\ dec.alloc /\ got'.what = "pic" /\ got'.sel # 0 /\ got'.pic = got.pic
  <2>1. g.sel \in Pictures
    BY <1>2, <1>12, Constants
  <2>2. got' \in Gots /\ got'.what = "pic" /\ got'.sel # 0 /\ got'.pic = got.pic
    BY <1>1, <1>4, <1>12, <2>1 DEF Gots
  <2> QED
    BY <1>6, <1>12, <2>2 DEF Goto
<1>13. NoItem \in Gots
  BY Constants
<1> HIDE DEF timed, dropping
<1> QED
  BY <1>3, <1>7, <1>8, <1>10, <1>11, <1>12, <1>13

-----------------------------------------------------------------------------
(* Each part of the invariant is kept by every step *)

\* The threads keep to their places, and the mutex to its holder.
LEMMA ControlStep ==
  ASSUME Typed, FramesTyped, Control, Tasked, [Next]_vars
  PROVE  Control'
<1>1. ASSUME HandleFrame PROVE Control'
  <2>1. /\ op' = [op EXCEPT !["S"] = [NoOp EXCEPT !.kind = "frame"]]
        /\ pc["S"] = "idle" /\ pc' = [pc EXCEPT !["S"] = "lock"] /\ mutex' = mutex
        /\ fed' = fed + 1 /\ fed < NFrames
    BY <1>1 DEF HandleFrame, Goto, Streaming
  <2>2. fed + 1 \in Frames
    BY <2>1, DecoderAssumption DEF FramesTyped, Frames
  <2>3. /\ op'["S"].kind = "frame" /\ ~op'["S"].drain /\ ~op'["S"].final
        /\ op'["A"] = op["A"]
    BY <2>1 DEF Typed, NoOp, Callers
  <2> QED
    BY <2>1, <2>2, <2>3 DEF Control, Typed, Places, Locking, Resetting, Drains
<1>2. ASSUME HandleLocked PROVE Control'
  BY <1>2
     DEF HandleLocked, Handled, Goto, NoOp, Control, Typed, Callers, Places, Locking, Sending,
         Resetting, Drains, Nobody
<1>3. ASSUME HandlePacket PROVE Control'
  BY <1>3
     DEF HandlePacket, NoPacket, Handled, Goto, NoOp, Control, Typed, Callers, Places, Locking,
         Sending, Resetting, Drains, Nobody
<1>4. ASSUME HandleSend PROVE Control'
  <2>1. /\ \A u \in Callers : /\ op'[u].kind = op[u].kind /\ op'[u].drain = op[u].drain
                              /\ op'[u].final = op[u].final
        /\ pc' = [pc EXCEPT !["S"] = "dropped"] \/ pc' = [pc EXCEPT !["S"] = "sent"]
    BY <1>4, SentEffect
  <2>2. pc["S"] = "send" /\ mutex' = mutex /\ fed' = fed
    BY <1>4 DEF HandleSend
  <2> QED
    BY <2>1, <2>2 DEF Control, Typed, Callers, Places, Locking, Sending, Resetting
<1>5. ASSUME HandleSent PROVE Control'
  BY <1>5
     DEF HandleSent, Handled, Goto, NoOp, Control, Typed, Callers, Places, Locking, Sending,
         Resetting, Drains, Nobody
<1>6. ASSUME Drain PROVE Control'
  <2>1. PICK kind \in {"drain", "finish"} : Begun("S", kind, TRUE, FALSE)
    BY <1>6, Beginnings
  <2> QED
    BY <1>6, <2>1
       DEF Begun, Drain, Streaming, Control, Typed, Callers, Places, Locking, Sending, Drains
<1>7. ASSUME SetFormat PROVE Control'
  <2>1. Begun("S", "caps", TRUE, FALSE)
    BY <1>7, Beginnings
  <2> QED
    BY <1>7, <2>1
       DEF Begun, SetFormat, Streaming, Control, Typed, Callers, Places, Locking, Sending, Drains
<1>8. ASSUME Flush PROVE Control'
  <2>1. Begun("S", "flush", FALSE, FALSE)
    BY <1>8, Beginnings
  <2> QED
    BY <1>8, <2>1
       DEF Begun, Flush, Streaming, Control, Typed, Callers, Places, Locking, Sending, Drains
<1>9. ASSUME Poll PROVE Control'
  BY <1>9 DEF Poll, Goto, Control, Callers, Places
<1>10. ASSUME TurnInfo PROVE Control'
  BY <1>10 DEF TurnInfo, TurnEnds, Goto, Control, Callers, Places
<1>11. ASSUME TurnEos PROVE Control'
  BY <1>11 DEF TurnEos, TurnEnds, Goto, Control, Callers, Places
<1>12. ASSUME TurnPicture PROVE Control'
  <2>1. pc' = [pc EXCEPT !["T"] = "idle"] \/ pc' = [pc EXCEPT !["T"] = "buffer"]
    BY <1>12, PictureEffect
  <2>2. op' = op /\ mutex' = mutex /\ fed' = fed
    BY <1>12 DEF TurnPicture
  <2> QED
    BY <2>1, <2>2 DEF Control, Typed, Callers, Places
<1>13. ASSUME TurnConverted PROVE Control'
  BY <1>13 DEF TurnConverted, TurnEnds, Goto, Control, Typed, Callers, Places
<1>14. ASSUME TurnKept PROVE Control'
  BY <1>14 DEF TurnKept, TurnEnds, Goto, Control, Callers, Places
<1>15. ASSUME ChangeState PROVE Control'
  <2>1. Begun("A", "ready", FALSE, TRUE)
    BY <1>15, Beginnings
  <2> QED
    BY <1>15, <2>1 DEF Begun, ChangeState, Control, Typed, Callers, Places, Locking
<1>16. ASSUME Deactivate PROVE Control'
  BY <1>16 DEF Deactivate, Goto, Control, Places, Locking
<1>17. ASSUME Stop PROVE Control'
  <2>1. Begun("A", "stop", FALSE, TRUE)
    BY <1>17, Beginnings
  <2> QED
    BY <1>17, <2>1 DEF Begun, Stop, Control, Typed, Callers, Places, Locking
<1>18. ASSUME Stopped PROVE Control'
  BY <1>18 DEF Stopped, Goto, Control, Places, Locking
<1>19. ASSUME Start PROVE Control'
  BY <1>19 DEF Start, Control
<1>20. ASSUME NEW t \in Callers, ResetUntasked(t) PROVE Control'
  <2>1. Cleared(t)
    BY <1>20, Endings
  <2>2. CASE t = "S"
    BY <1>20, <2>1, <2>2
       DEF Cleared, ResetUntasked, Control, Typed, Callers, Places, Locking, Sending, Resetting,
           Drains
  <2>3. CASE t = "A"
    BY <1>20, <2>1, <2>3 DEF Cleared, ResetUntasked, Control, Typed, Callers, Places, Locking
  <2> QED
    BY <1>20, <2>2, <2>3 DEF Callers
<1>21. ASSUME NEW t \in Callers, ResetLocked(t) PROVE Control'
  <2>1. CASE t = "S"
    BY <1>21, <2>1 DEF ResetLocked, Goto, Control, Typed, Callers, Places, Locking, Sending, Nobody
  <2>2. CASE t = "A"
    BY <1>21, <2>2 DEF ResetLocked, Goto, Control, Typed, Callers, Places, Locking, Nobody
  <2> QED
    BY <1>21, <2>1, <2>2 DEF Callers
<1>22. ASSUME NEW t \in Callers, VideoShutdown(t) PROVE Control'
  <2>1. EosSent(t) \/ ShutdownFailed(t) \/ (Goto(t, "join") /\ UNCHANGED op)
    BY <1>22 DEF VideoShutdown
  <2>2. /\ pc' = [pc EXCEPT ![t] = "wait"] \/ pc' = [pc EXCEPT ![t] = "join"]
        /\ op' \in [Callers -> Ops]
        /\ \A u \in Callers : /\ op'[u].kind = op[u].kind /\ op'[u].drain = op[u].drain
                              /\ op'[u].final = op[u].final
    BY <2>1, EosEffect, FailedEffect DEF Goto, Typed
  <2>3. pc[t] = "shutdown" /\ mutex' = mutex /\ fed' = fed
    BY <1>22 DEF VideoShutdown
  <2>4. CASE t = "S"
    BY <2>2, <2>3, <2>4 DEF Control, Typed, Callers, Places, Locking, Sending
  <2>5. CASE t = "A"
    BY <2>2, <2>3, <2>5 DEF Control
  <2> QED
    BY <2>4, <2>5 DEF Callers
<1>23. ASSUME NEW t \in Callers, JpegShutdown(t) PROVE Control'
  <2>1. EosSent(t) \/ ShutdownFailed(t) \/ (Goto(t, "join") /\ UNCHANGED op)
    BY <1>23 DEF JpegShutdown
  <2>2. /\ pc' = [pc EXCEPT ![t] = "wait"] \/ pc' = [pc EXCEPT ![t] = "join"]
        /\ op' \in [Callers -> Ops]
        /\ \A u \in Callers : /\ op'[u].kind = op[u].kind /\ op'[u].drain = op[u].drain
                              /\ op'[u].final = op[u].final
    BY <2>1, EosEffect, FailedEffect DEF Goto, Typed
  <2>3. pc[t] = "shutdown" /\ mutex' = mutex /\ fed' = fed
    BY <1>23 DEF JpegShutdown
  <2>4. CASE t = "S"
    BY <2>2, <2>3, <2>4 DEF Control, Typed, Callers, Places, Locking, Sending
  <2>5. CASE t = "A"
    BY <2>2, <2>3, <2>5 DEF Control
  <2> QED
    BY <2>4, <2>5 DEF Callers
<1>24. ASSUME NEW t \in Callers, WaitPaused(t) PROVE Control'
  <2>1. CASE t = "S"
    BY <1>24, <2>1 DEF WaitPaused, Goto, Control, Places, Locking, Sending
  <2>2. CASE t = "A"
    BY <1>24, <2>2 DEF WaitPaused, Control
  <2> QED
    BY <1>24, <2>1, <2>2 DEF Callers
<1>25. ASSUME NEW t \in Callers, StopTask(t) PROVE Control'
  <2>1. CASE t = "S"
    BY <1>25, <2>1 DEF StopTask, Control
  <2>2. CASE t = "A"
    BY <1>25, <2>2 DEF StopTask, Control
  <2> QED
    BY <1>25, <2>1, <2>2 DEF Callers
<1>26. ASSUME NEW t \in Callers, ResetEnds(t) PROVE Control'
  <2>1. Cleared(t)
    BY <1>26, Endings
  <2>2. CASE t = "S"
    BY <1>26, <2>1, <2>2
       DEF Cleared, ResetEnds, Control, Typed, Callers, Places, Locking, Sending, Resetting,
           Drains, Nobody
  <2>3. CASE t = "A"
    BY <1>26, <2>1, <2>3
       DEF Cleared, ResetEnds, Control, Typed, Callers, Places, Locking, Sending, Nobody
  <2> QED
    BY <1>26, <2>2, <2>3 DEF Callers
<1>27. ASSUME UNCHANGED vars PROVE Control'
  BY <1>27 DEF vars, Control
<1> QED
  BY <1>1, <1>2, <1>3, <1>4, <1>5, <1>6, <1>7, <1>8, <1>9, <1>10, <1>11, <1>12, <1>13, <1>14,
     <1>15, <1>16, <1>17, <1>18, <1>19, <1>20, <1>21, <1>22, <1>23, <1>24, <1>25, <1>26, <1>27
     DEF Next, StreamStep, TaskStep, AppStep, ResetStep, Callers

\* No turn outlives the task but while a reset waits for it.
LEMMA TaskedStep ==
  ASSUME Typed, FramesTyped, Control, Tasked, [Next]_vars
  PROVE  Tasked'
<1>1. ASSUME HandleFrame PROVE Tasked'
  BY <1>1 DEF HandleFrame, Streaming, Goto, Tasked
<1>2. ASSUME HandleLocked PROVE Tasked'
  <2>1. /\ pc["S"] = "lock" /\ mutex = Nobody /\ got' = got /\ life' = life
        /\ pc' = [pc EXCEPT !["S"] = "packet"] \/ pc' = [pc EXCEPT !["S"] = "idle"]
    BY <1>2 DEF HandleLocked, Handled, Goto
  <2>2. op'["A"] = op["A"]
    BY <1>2 DEF HandleLocked, Handled, Typed, Callers
  <2>3. dec'.alloc = TRUE \/ dec' = dec
    BY <1>2 DEF HandleLocked, Typed, Decs
  <2>4. task' = "started" \/ task' = task
    BY <1>2 DEF HandleLocked
  <2>5. pc["A"] \notin Locking
    BY <2>1 DEF Control, Callers, Nobody
  <2> QED
    BY <2>1, <2>2, <2>3, <2>4, <2>5 DEF Tasked, Typed, Callers
<1>3. ASSUME HandlePacket PROVE Tasked'
  <2>1. /\ pc["S"] = "packet" /\ got' = got /\ life' = life /\ task' = task
        /\ pc' = [pc EXCEPT !["S"] = "send"] \/ pc' = [pc EXCEPT !["S"] = "idle"]
    BY <1>3 DEF HandlePacket, NoPacket, Handled, Goto
  <2>2. op'["A"] = op["A"]
    BY <1>3 DEF HandlePacket, NoPacket, Handled, Typed, Callers
  <2>3. dec'.alloc = dec.alloc
    BY <1>3 DEF HandlePacket, Typed, Decs
  <2> QED
    BY <2>1, <2>2, <2>3 DEF Tasked, Typed, Callers
<1>4. ASSUME HandleSend PROVE Tasked'
  <2>1. /\ \A u \in Callers : /\ op'[u].kind = op[u].kind /\ op'[u].drain = op[u].drain
                              /\ op'[u].final = op[u].final
        /\ pc' = [pc EXCEPT !["S"] = "dropped"] \/ pc' = [pc EXCEPT !["S"] = "sent"]
    BY <1>4, SentEffect
  <2>2. pc["S"] = "send" /\ UNCHANGED <<mutex, task, life, got, dec>>
    BY <1>4 DEF HandleSend
  <2> QED
    BY <2>1, <2>2 DEF Tasked, Typed, Callers
<1>5. ASSUME HandleSent PROVE Tasked'
  BY <1>5 DEF HandleSent, Handled, Goto, Tasked, Typed, Callers, Places
<1>6. ASSUME Drain PROVE Tasked'
  <2>1. PICK kind \in {"drain", "finish"} : Begun("S", kind, TRUE, FALSE)
    BY <1>6, Beginnings
  <2> QED
    BY <1>6, <2>1 DEF Begun, Drain, Streaming, Tasked, Callers
<1>7. ASSUME SetFormat PROVE Tasked'
  <2>1. Begun("S", "caps", TRUE, FALSE)
    BY <1>7, Beginnings
  <2> QED
    BY <1>7, <2>1 DEF Begun, SetFormat, Streaming, Tasked, Callers
<1>8. ASSUME Flush PROVE Tasked'
  <2>1. Begun("S", "flush", FALSE, FALSE)
    BY <1>8, Beginnings
  <2> QED
    BY <1>8, <2>1 DEF Begun, Flush, Streaming, Tasked, Callers
<1>9. ASSUME Poll PROVE Tasked'
  BY <1>9 DEF Poll, Goto, Tasked
<1>10. ASSUME TurnInfo PROVE Tasked'
  BY <1>10 DEF TurnInfo, TurnEnds, Goto, Tasked, Typed
<1>11. ASSUME TurnEos PROVE Tasked'
  BY <1>11 DEF TurnEos, TurnEnds, Goto, Tasked, Typed
<1>12. ASSUME TurnPicture PROVE Tasked'
  <2>1. /\ dec'.alloc = dec.alloc
        /\ \/ /\ got' = NoItem /\ pc' = [pc EXCEPT !["T"] = "idle"]
              /\ task' = IF dec'.ret # "ok" /\ task = "started" THEN "paused" ELSE task
           \/ /\ pc' = [pc EXCEPT !["T"] = "buffer"] /\ task' = task
              /\ dec.alloc /\ got'.what = "pic" /\ got'.sel # 0
    BY <1>12, PictureEffect
  <2>2. op' = op /\ mutex' = mutex /\ life' = life /\ pc["T"] = "got"
    BY <1>12 DEF TurnPicture
  <2> QED
    BY <2>1, <2>2 DEF Tasked, Typed, Callers
<1>13. ASSUME TurnConverted PROVE Tasked'
  BY <1>13 DEF TurnConverted, TurnEnds, Goto, Tasked, Typed
<1>14. ASSUME TurnKept PROVE Tasked'
  BY <1>14 DEF TurnKept, TurnEnds, Goto, Tasked, Typed
<1>15. ASSUME ChangeState PROVE Tasked'
  <2>1. Begun("A", "ready", FALSE, TRUE)
    BY <1>15, Beginnings
  <2> QED
    BY <1>15, <2>1 DEF Begun, ChangeState, Tasked
<1>16. ASSUME Deactivate PROVE Tasked'
  BY <1>16 DEF Deactivate, Goto, Tasked
<1>17. ASSUME Stop PROVE Tasked'
  <2>1. Begun("A", "stop", FALSE, TRUE)
    BY <1>17, Beginnings
  <2> QED
    BY <1>17, <2>1 DEF Begun, Stop, Tasked
<1>18. ASSUME Stopped PROVE Tasked'
  BY <1>18 DEF Stopped, Goto, Tasked, Typed
<1>19. ASSUME Start PROVE Tasked'
  BY <1>19 DEF Start, Tasked
<1>20. ASSUME NEW t \in Callers, ResetUntasked(t) PROVE Tasked'
  <2>1. Cleared(t)
    BY <1>20, Endings
  <2>2. CASE t = "S"
    BY <1>20, <2>1, <2>2
       DEF Cleared, ResetUntasked, Tasked, Control, Typed, Callers, Locking, Nobody
  <2>3. CASE t = "A"
    BY <1>20, <2>1, <2>3
       DEF Cleared, ResetUntasked, Tasked, Control, Typed, Callers, Locking, Nobody
  <2> QED
    BY <1>20, <2>2, <2>3 DEF Callers
<1>21. ASSUME NEW t \in Callers, ResetLocked(t) PROVE Tasked'
  <2>1. CASE t = "S"
    BY <1>21, <2>1 DEF ResetLocked, Goto, Tasked
  <2>2. CASE t = "A"
    BY <1>21, <2>2 DEF ResetLocked, Goto, Tasked
  <2> QED
    BY <1>21, <2>1, <2>2 DEF Callers
<1>22. ASSUME NEW t \in Callers, VideoShutdown(t) PROVE Tasked'
  <2>1. EosSent(t) \/ ShutdownFailed(t) \/ (Goto(t, "join") /\ UNCHANGED op)
    BY <1>22 DEF VideoShutdown
  <2>2. /\ pc' = [pc EXCEPT ![t] = "wait"] \/ pc' = [pc EXCEPT ![t] = "join"]
        /\ op' \in [Callers -> Ops]
        /\ \A u \in Callers : /\ op'[u].kind = op[u].kind /\ op'[u].drain = op[u].drain
                              /\ op'[u].final = op[u].final
    BY <2>1, EosEffect, FailedEffect DEF Goto, Typed
  <2>3. pc[t] = "shutdown" /\ UNCHANGED <<mutex, task, life, got, dec>>
    BY <1>22 DEF VideoShutdown
  <2>4. CASE t = "S"
    BY <2>2, <2>3, <2>4 DEF Tasked, Typed, Callers
  <2>5. CASE t = "A"
    BY <2>2, <2>3, <2>5 DEF Control
  <2> QED
    BY <2>4, <2>5 DEF Callers
<1>23. ASSUME NEW t \in Callers, JpegShutdown(t) PROVE Tasked'
  <2>1. EosSent(t) \/ ShutdownFailed(t) \/ (Goto(t, "join") /\ UNCHANGED op)
    BY <1>23 DEF JpegShutdown
  <2>2. /\ pc' = [pc EXCEPT ![t] = "wait"] \/ pc' = [pc EXCEPT ![t] = "join"]
        /\ op' \in [Callers -> Ops]
        /\ \A u \in Callers : /\ op'[u].kind = op[u].kind /\ op'[u].drain = op[u].drain
                              /\ op'[u].final = op[u].final
    BY <2>1, EosEffect, FailedEffect DEF Goto, Typed
  <2>3. pc[t] = "shutdown" /\ UNCHANGED <<mutex, task, life, got, dec>>
    BY <1>23 DEF JpegShutdown
  <2>4. CASE t = "S"
    BY <2>2, <2>3, <2>4 DEF Tasked, Typed, Callers
  <2>5. CASE t = "A"
    BY <2>2, <2>3, <2>5 DEF Control
  <2> QED
    BY <2>4, <2>5 DEF Callers
<1>24. ASSUME NEW t \in Callers, WaitPaused(t) PROVE Tasked'
  <2>1. CASE t = "S"
    BY <1>24, <2>1 DEF WaitPaused, Goto, Tasked
  <2>2. CASE t = "A"
    BY <1>24, <2>2 DEF WaitPaused, Goto, Tasked
  <2> QED
    BY <1>24, <2>1, <2>2 DEF Callers
<1>25. ASSUME NEW t \in Callers, StopTask(t) PROVE Tasked'
  <2>1. CASE t = "S"
    BY <1>25, <2>1 DEF StopTask, Tasked
  <2>2. CASE t = "A"
    BY <1>25, <2>2 DEF StopTask, Tasked
  <2> QED
    BY <1>25, <2>1, <2>2 DEF Callers
<1>26. ASSUME NEW t \in Callers, ResetEnds(t) PROVE Tasked'
  <2>1. Cleared(t)
    BY <1>26, Endings
  <2>2. CASE t = "S"
    BY <1>26, <2>1, <2>2 DEF Cleared, ResetEnds, Tasked, Typed
  <2>3. CASE t = "A"
    BY ZenonT(30), <1>26, <2>1, <2>3 DEF Cleared, ResetEnds, Tasked, Control, Typed
  <2> QED
    BY <1>26, <2>2, <2>3 DEF Callers
<1>27. ASSUME UNCHANGED vars PROVE Tasked'
  BY <1>27 DEF vars, Tasked
<1> QED
  BY <1>1, <1>2, <1>3, <1>4, <1>5, <1>6, <1>7, <1>8, <1>9, <1>10, <1>11, <1>12, <1>13, <1>14,
     <1>15, <1>16, <1>17, <1>18, <1>19, <1>20, <1>21, <1>22, <1>23, <1>24, <1>25, <1>26, <1>27
     DEF Next, StreamStep, TaskStep, AppStep, ResetStep, Callers

\* What the task has in hand when it has a buffer to fill.
LEMMA InHand ==
  ASSUME Typed, Tasked, Held, pc["T"] = "buffer"
  PROVE  got.pic \in Frames /\ got.sel \in Frames /\ got.what = "pic"
<1>1. got.what = "pic" /\ got.sel # 0
  BY DEF Tasked
<1>2. got.sel \in Pictures /\ got.pic \in Frames
  BY <1>1 DEF Held, Typed, Gots
<1> QED
  BY <1>1, <1>2 DEF Pictures, NoPic

\* The picture in hand is kept back, and the one before it shown.
LEMMA KeptEffect ==
  ASSUME Typed, FramesTyped, Tasked, Held, TurnKept
  PROVE  /\ dec' \in Decs /\ dec'.flushing = dec.flushing /\ dec'.alloc = dec.alloc
         /\ dec'.gen = dec.gen /\ dec'.ret \in FlowResults
         /\ got' = NoItem /\ pc' = [pc EXCEPT !["T"] = "idle"]
         /\ task' = IF dec'.ret # "ok" /\ task = "started" THEN "paused" ELSE task
         /\ fr' \in [Frames -> FrameRec] /\ list' \in Seq(Frames) /\ shown' \in Seq(Frames)
         /\ ready' = <<got.sel>> /\ got.sel \in Frames /\ got.pic \in Frames
         /\ \A n \in Frames : fr'[n].buf = IF ready = <<n>> THEN NoPic
                                           ELSE IF n = got.sel THEN got.pic ELSE fr[n].buf
         /\ \/ shown' = shown
            \/ \E n \in Frames : /\ ready = <<n>>
                                 /\ \/ shown' = Append(shown, got.pic)
                                    \/ fr[n].buf \in Frames /\ shown' = Append(shown, fr[n].buf)
<1> DEFINE buffered == [fr EXCEPT ![got.sel].buf = got.pic]
<1>1. /\ pc["T"] = "buffer" /\ ready' = <<got.sel>>
      /\ \E ret \in FlowResults, mixed \in BOOLEAN :
           TurnEnds([dec EXCEPT !.ret = ret, !.mixed = mixed])
      /\ IF ready = <<>>
         THEN fr' = buffered /\ UNCHANGED <<list, shown>>
         ELSE /\ shown' = IF buffered[ready[1]].buf = NoPic THEN shown
                          ELSE Append(shown, buffered[ready[1]].buf)
              /\ fr' = [buffered EXCEPT ![ready[1]].buf = NoPic]
              /\ list' = Without(list, {ready[1]})
  BY DEF TurnKept
<1>2. /\ got.sel \in Frames /\ got.pic \in Frames /\ dec \in Decs
      /\ fr \in [Frames -> FrameRec] /\ list \in Seq(Frames) /\ shown \in Seq(Frames)
  BY <1>1, InHand DEF Typed, FramesTyped, FrTyped
<1>3. PICK ret \in FlowResults, mixed \in BOOLEAN :
        TurnEnds([dec EXCEPT !.ret = ret, !.mixed = mixed])
  BY <1>1
<1>4. /\ dec' = [dec EXCEPT !.ret = ret, !.mixed = mixed]
      /\ got' = NoItem /\ pc' = [pc EXCEPT !["T"] = "idle"]
      /\ task' = IF dec'.ret # "ok" /\ task = "started" THEN "paused" ELSE task
  BY <1>3, EndsEffect
<1>5. /\ dec' \in Decs /\ dec'.flushing = dec.flushing /\ dec'.alloc = dec.alloc
      /\ dec'.gen = dec.gen /\ dec'.ret \in FlowResults
  BY <1>2, <1>4 DEF Decs, FlowResults
<1>6. /\ buffered \in [Frames -> FrameRec]
      /\ \A n \in Frames : buffered[n].buf = IF n = got.sel THEN got.pic ELSE fr[n].buf
  <2> DEFINE r == [fr[got.sel] EXCEPT !.buf = got.pic]
  <2>1. buffered = [fr EXCEPT ![got.sel] = r]
    OBVIOUS
  <2>2. r \in FrameRec /\ r.buf = got.pic
    BY <1>2, Constants DEF FrameRec
  <2> HIDE DEF r
  <2> QED
    BY <1>2, <2>1, <2>2
<1> HIDE DEF buffered
<1>7. ASSUME ready = <<>>
      PROVE  /\ fr' \in [Frames -> FrameRec] /\ list' \in Seq(Frames) /\ shown' \in Seq(Frames)
             /\ \A n \in Frames : fr'[n].buf = IF ready = <<n>> THEN NoPic
                                               ELSE IF n = got.sel THEN got.pic ELSE fr[n].buf
             /\ shown' = shown
  BY <1>1, <1>2, <1>6, <1>7
<1>8. ASSUME NEW r \in Frames, ready = <<r>>
      PROVE  /\ fr' \in [Frames -> FrameRec] /\ list' \in Seq(Frames) /\ shown' \in Seq(Frames)
             /\ \A n \in Frames : fr'[n].buf = IF ready = <<n>> THEN NoPic
                                               ELSE IF n = got.sel THEN got.pic ELSE fr[n].buf
             /\ \/ shown' = shown
                \/ shown' = Append(shown, got.pic)
                \/ fr[r].buf \in Frames /\ shown' = Append(shown, fr[r].buf)
  <2>1. ready # <<>> /\ ready[1] = r
    BY <1>8
  <2>2. /\ shown' = IF buffered[r].buf = NoPic THEN shown ELSE Append(shown, buffered[r].buf)
        /\ fr' = [buffered EXCEPT ![r].buf = NoPic]
        /\ list' = Without(list, {r})
    BY <1>1, <2>1
  <2>3. list' \in Seq(Frames)
    BY <1>2, <2>2, WithoutType
  <2>4. /\ fr' \in [Frames -> FrameRec]
        /\ \A n \in Frames : fr'[n].buf = IF n = r THEN NoPic ELSE buffered[n].buf
    <3> DEFINE e == [buffered[r] EXCEPT !.buf = NoPic]
    <3>1. fr' = [buffered EXCEPT ![r] = e]
      BY <2>2
    <3>2. e \in FrameRec /\ e.buf = NoPic
      BY <1>6, Constants DEF FrameRec
    <3> HIDE DEF e
    <3> QED
      BY <1>6, <3>1, <3>2
  <2>5. buffered[r].buf \in Pictures /\ fr[r].buf \in Pictures
    BY <1>2, <1>6 DEF FrameRec
  <2>6. /\ \/ shown' = shown
           \/ shown' = Append(shown, got.pic)
           \/ fr[r].buf \in Frames /\ shown' = Append(shown, fr[r].buf)
        /\ shown' \in Seq(Frames)
    <3>1. CASE buffered[r].buf = NoPic
      BY <1>2, <2>2, <3>1
    <3>2. CASE buffered[r].buf # NoPic
      <4>1. buffered[r].buf \in Frames /\ shown' = Append(shown, buffered[r].buf)
        BY <2>2, <2>5, <3>2 DEF Pictures
      <4> QED
        BY <1>2, <1>6, <4>1, AppendProperties
    <3> QED
      BY <3>1, <3>2
  <2>7. \A n \in Frames : ready = <<n>> <=> n = r
    BY <1>8
  <2> QED
    BY <1>6, <2>3, <2>4, <2>6, <2>7
<1> QED
  BY <1>1, <1>2, <1>4, <1>5, <1>7, <1>8, ReadyOne

\* The picture in hand is converted and shown, or lost.
LEMMA ConvertedEffect ==
  ASSUME Typed, FramesTyped, Tasked, Held, TurnConverted
  PROVE  /\ dec' \in Decs /\ dec'.flushing = dec.flushing /\ dec'.alloc = dec.alloc
         /\ dec'.gen = dec.gen /\ dec'.ret \in FlowResults
         /\ got' = NoItem /\ pc' = [pc EXCEPT !["T"] = "idle"]
         /\ task' = IF dec'.ret # "ok" /\ task = "started" THEN "paused" ELSE task
         /\ fr' \in [Frames -> FrameRec] /\ list' \in Seq(Frames) /\ shown' \in Seq(Frames)
         /\ \A n \in Frames : fr'[n].buf \in {NoPic, fr[n].buf}
         /\ shown' = shown \/ shown' = Append(shown, got.pic)
<1>1. pc["T"] = "buffer"
  BY DEF TurnConverted
<1>2. /\ got.sel \in Frames /\ got.pic \in Frames /\ dec \in Decs
      /\ fr \in [Frames -> FrameRec] /\ list \in Seq(Frames) /\ shown \in Seq(Frames)
  BY <1>1, InHand DEF Typed, FramesTyped, FrTyped
<1>3. PICK ret \in FlowResults : TurnEnds([dec EXCEPT !.ret = ret])
  BY DEF TurnConverted, FlowResults
<1>4. /\ dec' = [dec EXCEPT !.ret = ret]
      /\ got' = NoItem /\ pc' = [pc EXCEPT !["T"] = "idle"]
      /\ task' = IF dec'.ret # "ok" /\ task = "started" THEN "paused" ELSE task
  BY <1>3, EndsEffect
<1>5. /\ dec' \in Decs /\ dec'.flushing = dec.flushing /\ dec'.alloc = dec.alloc
      /\ dec'.gen = dec.gen /\ dec'.ret \in FlowResults
  BY <1>2, <1>4 DEF Decs, FlowResults
<1>6. /\ \/ fr' = fr /\ shown' = shown
         \/ fr' = Emptied({got.sel}) /\ shown' = Append(shown, got.pic)
      /\ list' = Without(list, {got.sel})
  BY DEF TurnConverted
<1>7. list' \in Seq(Frames)
  BY <1>2, <1>6, WithoutType
<1>8. shown' \in Seq(Frames) /\ (shown' = shown \/ shown' = Append(shown, got.pic))
  <2>1. shown' = shown \/ shown' = Append(shown, got.pic)
    BY <1>6
  <2>2. Append(shown, got.pic) \in Seq(Frames)
    BY <1>2, AppendProperties
  <2> QED
    BY <1>2, <2>1, <2>2
<1>9. fr' \in [Frames -> FrameRec] /\ \A n \in Frames : fr'[n].buf \in {NoPic, fr[n].buf}
  BY <1>2, <1>6, EmptiedEffect
<1> QED
  BY <1>4, <1>5, <1>7, <1>8, <1>9

\* Types.
LEMMA TypedStep ==
  ASSUME Typed, FramesTyped, Control, Tasked, Held, [Next]_vars
  PROVE  Typed'
<1>1. ASSUME HandleFrame PROVE Typed'
  <2>1. op' = [op EXCEPT !["S"] = [NoOp EXCEPT !.kind = "frame"]]
    BY <1>1 DEF HandleFrame
  <2>2. [NoOp EXCEPT !.kind = "frame"] \in Ops
    BY DEF NoOp, Ops, OpKinds
  <2>3. op' \in [Callers -> Ops]
    BY <2>1, <2>2 DEF Typed
  <2>4. UNCHANGED <<dec, task, mpp, mutex, got, life, epoch>> /\ pc' = [pc EXCEPT !["S"] = "lock"]
    BY <1>1 DEF HandleFrame, Goto
  <2> QED
    BY <2>3, <2>4 DEF Typed
<1>2. ASSUME HandleLocked PROVE Typed'
  <2>1. op' \in [Callers -> Ops]
    BY <1>2, HandledEffect DEF HandleLocked, Typed
  <2>2. dec' \in Decs
    BY ZenonT(30), <1>2 DEF HandleLocked, Typed, Decs
  <2>3. /\ UNCHANGED <<mpp, got, life, epoch>> /\ mutex' \in {Nobody, "S"}
        /\ task' \in {"started", task}
        /\ pc' = [pc EXCEPT !["S"] = "packet"] \/ pc' = [pc EXCEPT !["S"] = "idle"]
    BY <1>2 DEF HandleLocked, Handled, Goto
  <2> QED
    BY <2>1, <2>2, <2>3 DEF Typed
<1>3. ASSUME HandlePacket PROVE Typed'
  <2>1. op' \in [Callers -> Ops]
    BY <1>3, HandledEffect DEF HandlePacket, NoPacket, Typed
  <2>2. dec' \in Decs
    <3>1. (dec.seen \/ FramePts[Cur] # NoPts) \in BOOLEAN
      BY DEF Typed, Decs
    <3>2. dec' = dec \/ dec' = [dec EXCEPT !.seen = dec.seen \/ FramePts[Cur] # NoPts]
      BY <1>3 DEF HandlePacket
    <3> QED
      BY ZenonT(30), <3>1, <3>2 DEF Typed, Decs
  <2>3. /\ UNCHANGED <<task, mpp, got, life, epoch>> /\ mutex' \in {Nobody, mutex}
        /\ pc' = [pc EXCEPT !["S"] = "send"] \/ pc' = [pc EXCEPT !["S"] = "idle"]
    BY <1>3 DEF HandlePacket, NoPacket, Handled, Goto
  <2> QED
    BY <2>1, <2>2, <2>3 DEF Typed
<1>4. ASSUME HandleSend PROVE Typed'
  <2>1. /\ op' \in [Callers -> Ops]
        /\ pc' = [pc EXCEPT !["S"] = "dropped"] \/ pc' = [pc EXCEPT !["S"] = "sent"]
    BY <1>4, SentEffect
  <2>2. UNCHANGED <<dec, got, task, mutex, life>> /\ pc["S"] = "send"
    BY <1>4 DEF HandleSend
  <2>3. fed \in Frames
    BY <2>2 DEF Control, Sending
  <2>4. mpp' \in Seq(Items) /\ epoch' \in [now : Nat, of : [Frames -> Nat]]
    <3>1. CASE mpp' # mpp
      <4>1. mpp' \in Seq(Items) /\ epoch' = [epoch EXCEPT !.of[fed] = epoch.now]
        BY <1>4, <2>3, <3>1, SendEffect
      <4> QED
        BY <2>3, <4>1 DEF Typed
    <3>2. CASE mpp' = mpp
      <4>1. epoch' = epoch \/ epoch' = [epoch EXCEPT !.of[fed] = epoch.now]
        BY <1>4 DEF HandleSend, Cur
      <4> QED
        BY <2>3, <3>2, <4>1 DEF Typed
    <3> QED
      BY <3>1, <3>2
  <2> QED
    BY <2>1, <2>2, <2>4 DEF Typed
<1>5. ASSUME HandleSent PROVE Typed'
  <2>1. \E r, drop : Handled(r, drop)
    BY <1>5 DEF HandleSent
  <2>2. op' \in [Callers -> Ops] /\ pc' = [pc EXCEPT !["S"] = "idle"] /\ mutex' = Nobody
    BY <2>1, HandledEffect
  <2>3. UNCHANGED <<dec, task, mpp, got, life, epoch>>
    BY <1>5 DEF HandleSent
  <2> QED
    BY <2>2, <2>3 DEF Typed
<1>6. ASSUME Drain PROVE Typed'
  <2>1. PICK kind \in {"drain", "finish"} : Begun("S", kind, TRUE, FALSE)
    BY <1>6, Beginnings
  <2> QED
    BY <1>6, <2>1 DEF Begun, Drain, Typed
<1>7. ASSUME SetFormat PROVE Typed'
  <2>1. Begun("S", "caps", TRUE, FALSE)
    BY <1>7, Beginnings
  <2> QED
    BY <1>7, <2>1 DEF Begun, SetFormat, Typed
<1>8. ASSUME Flush PROVE Typed'
  <2>1. Begun("S", "flush", FALSE, FALSE)
    BY <1>8, Beginnings
  <2> QED
    BY <1>8, <2>1 DEF Begun, Flush, Typed
<1>9. ASSUME Poll PROVE Typed'
  <2>1. got' \in Gots /\ mpp' \in Seq(Items)
    BY <1>9, PollEffect
  <2>2. UNCHANGED <<dec, op, epoch, task, mutex, life>> /\ pc' = [pc EXCEPT !["T"] = "got"]
    BY <1>9 DEF Poll, Goto
  <2> QED
    BY <2>1, <2>2 DEF Typed
<1>10. ASSUME TurnInfo PROVE Typed'
  <2>1. PICK ret \in FlowResults, c \in BOOLEAN :
          TurnEnds([dec EXCEPT !.ret = ret, !.convert = c])
    BY <1>10 DEF TurnInfo
  <2>2. [dec EXCEPT !.ret = ret, !.convert = c] \in Decs
    BY DEF Typed, Decs, FlowResults
  <2>3. /\ dec' \in Decs /\ got' = NoItem /\ pc' = [pc EXCEPT !["T"] = "idle"]
        /\ task' \in {"paused", task}
    BY <2>1, <2>2, EndsEffect
  <2>4. UNCHANGED <<mpp, op, life, mutex, epoch>>
    BY <1>10 DEF TurnInfo
  <2> QED
    BY <2>3, <2>4, Constants DEF Typed
<1>11. ASSUME TurnEos PROVE Typed'
  <2>1. PICK ret \in FlowResults : TurnEnds([dec EXCEPT !.ret = IF ret = "ok" THEN "eos" ELSE ret])
    BY <1>11 DEF TurnEos, FlowResults
  <2>2. [dec EXCEPT !.ret = IF ret = "ok" THEN "eos" ELSE ret] \in Decs
    BY DEF Typed, Decs, FlowResults
  <2>3. /\ dec' \in Decs /\ got' = NoItem /\ pc' = [pc EXCEPT !["T"] = "idle"]
        /\ task' \in {"paused", task}
    BY <2>1, <2>2, EndsEffect
  <2>4. UNCHANGED <<mpp, op, life, mutex, epoch>>
    BY <1>11 DEF TurnEos
  <2> QED
    BY <2>3, <2>4, Constants DEF Typed
<1>12. ASSUME TurnPicture PROVE Typed'
  <2>1. /\ dec' \in Decs /\ got' \in Gots
        /\ pc' = [pc EXCEPT !["T"] = "idle"] \/ pc' = [pc EXCEPT !["T"] = "buffer"]
        /\ task' = "paused" \/ task' = task
    BY <1>12, PictureEffect, Constants
  <2>2. UNCHANGED <<op, mpp, epoch, mutex, life>>
    BY <1>12 DEF TurnPicture
  <2> QED
    BY <2>1, <2>2 DEF Typed
<1>13. ASSUME TurnConverted PROVE Typed'
  <2>1. /\ dec' \in Decs /\ got' \in Gots
        /\ pc' = [pc EXCEPT !["T"] = "idle"] \/ pc' = [pc EXCEPT !["T"] = "buffer"]
        /\ task' = "paused" \/ task' = task
    BY <1>13, ConvertedEffect, Constants
  <2>2. UNCHANGED <<op, mpp, epoch, mutex, life>>
    BY <1>13 DEF TurnConverted
  <2> QED
    BY <2>1, <2>2 DEF Typed
<1>14. ASSUME TurnKept PROVE Typed'
  <2>1. /\ dec' \in Decs /\ got' \in Gots
        /\ pc' = [pc EXCEPT !["T"] = "idle"] \/ pc' = [pc EXCEPT !["T"] = "buffer"]
        /\ task' = "paused" \/ task' = task
    BY <1>14, KeptEffect, Constants
  <2>2. UNCHANGED <<op, mpp, epoch, mutex, life>>
    BY <1>14 DEF TurnKept
  <2> QED
    BY <2>1, <2>2 DEF Typed
<1>15. ASSUME ChangeState PROVE Typed'
  <2>1. Begun("A", "ready", FALSE, TRUE)
    BY <1>15, Beginnings
  <2> QED
    BY <1>15, <2>1 DEF Begun, ChangeState, Typed
<1>16. ASSUME Deactivate PROVE Typed'
  BY <1>16 DEF Deactivate, Goto, Typed
<1>17. ASSUME Stop PROVE Typed'
  <2>1. Begun("A", "stop", FALSE, TRUE)
    BY <1>17, Beginnings
  <2> QED
    BY <1>17, <2>1 DEF Begun, Stop, Typed
<1>18. ASSUME Stopped PROVE Typed'
  BY <1>18 DEF Stopped, Goto, Typed
<1>19. ASSUME Start PROVE Typed'
  <2>1. PICK c \in BOOLEAN : dec' = [Fresh EXCEPT !.convert = c, !.jpeg = dec.jpeg]
    BY <1>19 DEF Start
  <2>2. dec.jpeg \in BOOLEAN
    BY DEF Typed, Decs
  <2>3. dec' \in Decs
    BY <2>1, <2>2 DEF Fresh, Decs
  <2>4. life' = "up" /\ UNCHANGED <<task, mpp, mutex, pc, op, got, epoch>>
    BY <1>19 DEF Start
  <2> QED
    BY <2>3, <2>4 DEF Typed
<1>20. ASSUME NEW t \in Callers, ResetUntasked(t) PROVE Typed'
  <2>1. Cleared(t)
    BY <1>20, Endings
  <2>2. CASE t = "S"
    BY <1>20, <2>1, <2>2 DEF Cleared, ResetUntasked, Typed
  <2>3. CASE t = "A"
    BY <1>20, <2>1, <2>3 DEF Cleared, ResetUntasked, Typed
  <2> QED
    BY <1>20, <2>2, <2>3 DEF Callers
<1>21. ASSUME NEW t \in Callers, ResetLocked(t) PROVE Typed'
  <2>1. dec' = [dec EXCEPT !.flushing = TRUE, !.draining = op[t].drain] /\ op[t].drain \in BOOLEAN
    BY <1>21 DEF ResetLocked, Typed, Ops
  <2>2. dec' \in Decs
    BY <2>1 DEF Typed, Decs
  <2>3. op' = [op EXCEPT ![t] = [op[t] EXCEPT !.gen = dec.gen]]
    BY <1>21 DEF ResetLocked
  <2>4. op[t] \in Ops /\ [op[t] EXCEPT !.gen = dec.gen] \in Ops
    <3>1. op[t] \in Ops
      BY DEF Typed
    <3>2. dec.gen \in Nat
      BY DEF Typed, Decs
    <3> QED
      BY <3>1, <3>2 DEF Ops
  <2>5. op' \in [Callers -> Ops]
    BY <2>3, <2>4 DEF Typed
  <2>6. /\ mutex' = t /\ UNCHANGED <<task, mpp, got, life, epoch>>
        /\ pc' = [pc EXCEPT ![t] = "shutdown"] \/ pc' = [pc EXCEPT ![t] = "join"]
    BY <1>21 DEF ResetLocked, Goto
  <2> QED
    BY <2>2, <2>5, <2>6 DEF Typed, Callers
<1>22. ASSUME NEW t \in Callers, VideoShutdown(t) PROVE Typed'
  <2>1. EosSent(t) \/ (ShutdownFailed(t) /\ (mpp' = <<>> \/ mpp' = mpp))
        \/ (Goto(t, "join") /\ mpp' = mpp /\ op' = op)
    BY <1>22 DEF VideoShutdown
  <2>2. ASSUME EosSent(t)
        PROVE  mpp' \in Seq(Items) /\ op' \in [Callers -> Ops] /\ DOMAIN pc' = {"S", "A", "T"}
    BY <2>2, EosEffect DEF Typed
  <2>3. ASSUME ShutdownFailed(t), mpp' = <<>> \/ mpp' = mpp
        PROVE  mpp' \in Seq(Items) /\ op' \in [Callers -> Ops] /\ DOMAIN pc' = {"S", "A", "T"}
    <3>1. <<>> \in Seq(Items) /\ mpp \in Seq(Items) /\ DOMAIN pc = {"S", "A", "T"}
      BY DEF Typed
    <3>2. op' \in [Callers -> Ops] /\ pc' = [pc EXCEPT ![t] = "join"]
      BY <2>3, FailedEffect
    <3> QED
      BY <2>3, <3>1, <3>2
  <2>4. ASSUME Goto(t, "join"), mpp' = mpp, op' = op
        PROVE  mpp' \in Seq(Items) /\ op' \in [Callers -> Ops] /\ DOMAIN pc' = {"S", "A", "T"}
    BY <2>4 DEF Goto, Typed
  <2>5. mpp' \in Seq(Items) /\ op' \in [Callers -> Ops] /\ DOMAIN pc' = {"S", "A", "T"}
    BY <2>1, <2>2, <2>3, <2>4
  <2>6. UNCHANGED <<dec, got, epoch, task, mutex, life>>
    BY <1>22 DEF VideoShutdown
  <2> QED
    BY <2>5, <2>6 DEF Typed
<1>23. ASSUME NEW t \in Callers, JpegShutdown(t) PROVE Typed'
  <2>1. EosSent(t) \/ (ShutdownFailed(t) /\ (mpp' = <<>> \/ mpp' = mpp))
        \/ (Goto(t, "join") /\ mpp' = mpp /\ op' = op)
    BY <1>23 DEF JpegShutdown
  <2>2. ASSUME EosSent(t)
        PROVE  mpp' \in Seq(Items) /\ op' \in [Callers -> Ops] /\ DOMAIN pc' = {"S", "A", "T"}
    BY <2>2, EosEffect DEF Typed
  <2>3. ASSUME ShutdownFailed(t), mpp' = <<>> \/ mpp' = mpp
        PROVE  mpp' \in Seq(Items) /\ op' \in [Callers -> Ops] /\ DOMAIN pc' = {"S", "A", "T"}
    <3>1. <<>> \in Seq(Items) /\ mpp \in Seq(Items) /\ DOMAIN pc = {"S", "A", "T"}
      BY DEF Typed
    <3>2. op' \in [Callers -> Ops] /\ pc' = [pc EXCEPT ![t] = "join"]
      BY <2>3, FailedEffect
    <3> QED
      BY <2>3, <3>1, <3>2
  <2>4. ASSUME Goto(t, "join"), mpp' = mpp, op' = op
        PROVE  mpp' \in Seq(Items) /\ op' \in [Callers -> Ops] /\ DOMAIN pc' = {"S", "A", "T"}
    BY <2>4 DEF Goto, Typed
  <2>5. mpp' \in Seq(Items) /\ op' \in [Callers -> Ops] /\ DOMAIN pc' = {"S", "A", "T"}
    BY <2>1, <2>2, <2>3, <2>4
  <2>6. UNCHANGED <<dec, got, epoch, task, mutex, life>>
    BY <1>23 DEF JpegShutdown
  <2> QED
    BY <2>5, <2>6 DEF Typed
<1>24. ASSUME NEW t \in Callers, WaitPaused(t) PROVE Typed'
  <2>1. CASE t = "S"
    BY <1>24, <2>1 DEF WaitPaused, Goto, Typed
  <2>2. CASE t = "A"
    BY <1>24, <2>2 DEF WaitPaused, Goto, Typed
  <2> QED
    BY <1>24, <2>1, <2>2 DEF Callers
<1>25. ASSUME NEW t \in Callers, StopTask(t) PROVE Typed'
  <2>1. CASE t = "S"
    BY <1>25, <2>1 DEF StopTask, Typed
  <2>2. CASE t = "A"
    BY <1>25, <2>2 DEF StopTask, Typed
  <2> QED
    BY <1>25, <2>1, <2>2 DEF Callers
<1>26. ASSUME NEW t \in Callers, ResetEnds(t) PROVE Typed'
  <2>1. Cleared(t)
    BY <1>26, Endings
  <2>2. CASE t = "S"
    BY <1>26, <2>1, <2>2 DEF Cleared, ResetEnds, Typed
  <2>3. CASE t = "A"
    BY <1>26, <2>1, <2>3 DEF Cleared, ResetEnds, Typed
  <2> QED
    BY <1>26, <2>2, <2>3 DEF Callers
<1>27. ASSUME UNCHANGED vars PROVE Typed'
  BY <1>27 DEF vars, Typed
<1> QED
  BY <1>1, <1>2, <1>3, <1>4, <1>5, <1>6, <1>7, <1>8, <1>9, <1>10, <1>11, <1>12, <1>13, <1>14,
     <1>15, <1>16, <1>17, <1>18, <1>19, <1>20, <1>21, <1>22, <1>23, <1>24, <1>25, <1>26, <1>27
     DEF Next, StreamStep, TaskStep, AppStep, ResetStep, Callers

\* Types of the frames, and at most one kept back.
LEMMA FramesTypedStep ==
  ASSUME Typed, FramesTyped, Control, Tasked, Held, [Next]_vars
  PROVE  FramesTyped'
<1>1. ASSUME HandleSend \/ Drain \/ SetFormat \/ Flush \/ Poll \/ TurnInfo \/ ChangeState
            \/ Deactivate \/ Stop \/ Stopped \/ Start
      PROVE  FramesTyped'
  BY <1>1
     DEF HandleSend, Drain, SetFormat, Flush, Poll, TurnInfo, ChangeState, Deactivate, Stop,
         Stopped, Start, FramesTyped, FrTyped
<1>2. ASSUME NEW t \in Callers, ResetLocked(t) \/ VideoShutdown(t) \/ JpegShutdown(t)
                               \/ WaitPaused(t) \/ StopTask(t)
      PROVE  FramesTyped'
  BY <1>2 DEF ResetLocked, VideoShutdown, JpegShutdown, WaitPaused, StopTask, FramesTyped, FrTyped
<1>3. ASSUME HandleFrame PROVE FramesTyped'
  <2>1. /\ fed' = fed + 1 /\ fed < NFrames /\ list' = Append(list, fed + 1)
        /\ UNCHANGED <<ready, fr, shown>>
    BY <1>3 DEF HandleFrame
  <2>2. fed + 1 \in Frames /\ fed + 1 \in 0..NFrames
    BY <2>1, DecoderAssumption DEF FramesTyped, Frames
  <2>3. list' \in Seq(Frames)
    BY <2>1, <2>2, AppendProperties DEF FramesTyped
  <2> QED
    BY <2>1, <2>2, <2>3 DEF FramesTyped, FrTyped
<1>4. ASSUME HandleLocked PROVE FramesTyped'
  <2>1. list' = list \/ list' = Without(list, {fed})
    BY <1>4 DEF HandleLocked, Handled, Cur
  <2>2. list' \in Seq(Frames)
    BY <2>1, WithoutType DEF FramesTyped
  <2>3. UNCHANGED <<ready, fr, shown, fed>>
    BY <1>4 DEF HandleLocked
  <2> QED
    BY <2>2, <2>3 DEF FramesTyped, FrTyped
<1>5. ASSUME HandlePacket PROVE FramesTyped'
  <2>1. list' = list \/ list' = Without(list, {fed})
    BY <1>5 DEF HandlePacket, NoPacket, Handled, Cur
  <2>2. list' \in Seq(Frames)
    BY <2>1, WithoutType DEF FramesTyped
  <2>3. UNCHANGED <<ready, fr, shown, fed>>
    BY <1>5 DEF HandlePacket
  <2> QED
    BY <2>2, <2>3 DEF FramesTyped, FrTyped
<1>6. ASSUME HandleSent PROVE FramesTyped'
  <2>1. list' = list \/ list' = Without(list, {fed})
    BY <1>6 DEF HandleSent, Handled, Cur
  <2>2. list' \in Seq(Frames)
    BY <2>1, WithoutType DEF FramesTyped
  <2>3. UNCHANGED <<ready, fr, shown, fed>>
    BY <1>6 DEF HandleSent
  <2> QED
    BY <2>2, <2>3 DEF FramesTyped, FrTyped
<1>7. ASSUME TurnEos PROVE FramesTyped'
  <2>1. FlushReady(TRUE) /\ list' = Without(list, ToSet(ready)) /\ fed' = fed
    BY <1>7 DEF TurnEos
  <2>2. ready' = <<>> /\ shown' \in Seq(Frames) /\ fr' \in [Frames -> FrameRec]
    BY <2>1, FlushEffect
  <2>3. list' \in Seq(Frames)
    BY <2>1, WithoutType DEF FramesTyped
  <2> QED
    BY <2>1, <2>2, <2>3 DEF FramesTyped, FrTyped
<1>8. ASSUME TurnPicture PROVE FramesTyped'
  <2>1. fr' \in [Frames -> FrameRec] /\ list' \in Seq(Frames)
    BY <1>8, PictureEffect
  <2>2. UNCHANGED <<ready, shown, fed>>
    BY <1>8 DEF TurnPicture
  <2> QED
    BY <2>1, <2>2 DEF FramesTyped, FrTyped
<1>9. ASSUME TurnConverted PROVE FramesTyped'
  <2>1. fr' \in [Frames -> FrameRec] /\ list' \in Seq(Frames) /\ shown' \in Seq(Frames)
    BY <1>9, ConvertedEffect
  <2>2. UNCHANGED <<ready, fed>>
    BY <1>9 DEF TurnConverted
  <2> QED
    BY <2>1, <2>2 DEF FramesTyped, FrTyped
<1>10. ASSUME TurnKept PROVE FramesTyped'
  <2>1. /\ fr' \in [Frames -> FrameRec] /\ list' \in Seq(Frames) /\ shown' \in Seq(Frames)
        /\ ready' = <<got.sel>> /\ got.sel \in Frames
    BY <1>10, KeptEffect
  <2>2. fed' = fed
    BY <1>10 DEF TurnKept
  <2> QED
    BY <2>1, <2>2 DEF FramesTyped, FrTyped
<1>11. ASSUME NEW t \in Callers, ResetUntasked(t) PROVE FramesTyped'
  <2>1. list' = <<>> /\ FlushReady(op[t].drain) /\ op[t].drain \in BOOLEAN
    BY <1>11, Endings DEF Cleared
  <2>2. ready' = <<>> /\ shown' \in Seq(Frames) /\ fr' \in [Frames -> FrameRec]
    BY <2>1, FlushEffect
  <2>3. fed' = fed
    BY <1>11 DEF ResetUntasked
  <2> QED
    BY <2>1, <2>2, <2>3 DEF FramesTyped, FrTyped
<1>12. ASSUME NEW t \in Callers, ResetEnds(t) PROVE FramesTyped'
  <2>1. list' = <<>> /\ FlushReady(op[t].drain) /\ op[t].drain \in BOOLEAN
    BY <1>12, Endings DEF Cleared
  <2>2. ready' = <<>> /\ shown' \in Seq(Frames) /\ fr' \in [Frames -> FrameRec]
    BY <2>1, FlushEffect
  <2>3. fed' = fed
    BY <1>12 DEF ResetEnds
  <2> QED
    BY <2>1, <2>2, <2>3 DEF FramesTyped, FrTyped
<1>13. ASSUME UNCHANGED vars PROVE FramesTyped'
  BY <1>13 DEF vars, FramesTyped, FrTyped
<1> QED
  BY <1>1, <1>2, <1>3, <1>4, <1>5, <1>6, <1>7, <1>8, <1>9, <1>10, <1>11, <1>12, <1>13
     DEF Next, StreamStep, TaskStep, AppStep, ResetStep, Callers

\* A picture is the picture of a frame.
LEMMA HeldStep ==
  ASSUME Typed, FramesTyped, Control, Tasked, Held, [Next]_vars
  PROVE  Held'
<1>1. ASSUME HandleFrame \/ HandleLocked \/ HandlePacket \/ HandleSent \/ Deactivate \/ Start
      PROVE  Held'
  BY <1>1
     DEF HandleFrame, HandleLocked, HandlePacket, HandleSent, Deactivate, Start, Handled,
         NoPacket, Goto, Held, Typed
<1>2. ASSUME NEW t \in Callers, ResetLocked(t) \/ WaitPaused(t) \/ StopTask(t)
      PROVE  Held'
  BY <1>2 DEF ResetLocked, WaitPaused, StopTask, Goto, Held, Typed
<1>3. ASSUME HandleSend PROVE Held'
  <2>1. pc'["T"] = pc["T"] /\ got' = got /\ fed \in Frames
    <3>1. pc' = [pc EXCEPT !["S"] = "dropped"] \/ pc' = [pc EXCEPT !["S"] = "sent"]
      BY <1>3, SentEffect
    <3> QED
      BY <1>3, <3>1 DEF HandleSend, Typed, Control, Sending
  <2>2. CASE mpp' = mpp
    BY <2>1, <2>2 DEF Held
  <2>3. CASE mpp' # mpp
    <3>1. \A i \in DOMAIN mpp' : \/ i \in DOMAIN mpp /\ mpp'[i] = mpp[i]
                                 \/ mpp'[i].what # "eos" /\ mpp'[i].pic = fed
      BY <1>3, <2>1, <2>3, SendEffect
    <3> QED
      BY <2>1, <3>1 DEF Held
  <2> QED
    BY <2>2, <2>3
<1>4. ASSUME Drain PROVE Held'
  <2>1. PICK kind \in {"drain", "finish"} : Begun("S", kind, TRUE, FALSE)
    BY <1>4, Beginnings
  <2> QED
    BY <1>4, <2>1 DEF Begun, Drain, Held
<1>5. ASSUME SetFormat PROVE Held'
  <2>1. Begun("S", "caps", TRUE, FALSE)
    BY <1>5, Beginnings
  <2> QED
    BY <1>5, <2>1 DEF Begun, SetFormat, Held
<1>6. ASSUME Flush PROVE Held'
  <2>1. Begun("S", "flush", FALSE, FALSE)
    BY <1>6, Beginnings
  <2> QED
    BY <1>6, <2>1 DEF Begun, Flush, Held
<1>7. ASSUME Poll PROVE Held'
  <2>1. PICK i \in DOMAIN mpp :
              /\ got'.what = mpp[i].what /\ got'.pic = mpp[i].pic
              /\ Len(mpp') = Len(mpp) - 1
              /\ \A k \in DOMAIN mpp' : mpp'[k] = IF k < i THEN mpp[k] ELSE mpp[k + 1]
    BY <1>7, PollEffect
  <2>2. mpp' \in Seq(Items) /\ mpp \in Seq(Items)
    BY <1>7, PollEffect DEF Typed
  <2>3. \A k \in DOMAIN mpp' : k \in DOMAIN mpp /\ k + 1 \in DOMAIN mpp
    BY <2>1, <2>2
  <2> QED
    BY <2>1, <2>3 DEF Held
<1>8. ASSUME TurnInfo PROVE Held'
  BY <1>8 DEF TurnInfo, TurnEnds, NoItem, Held
<1>9. ASSUME TurnEos PROVE Held'
  BY <1>9 DEF TurnEos, TurnEnds, NoItem, Held
<1>10. ASSUME TurnPicture PROVE Held'
  <2>1. /\ pc' = [pc EXCEPT !["T"] = "idle"] \/ got'.pic = got.pic
        /\ mpp' = mpp
    BY <1>10, PictureEffect DEF TurnPicture
  <2>2. pc["T"] = "got" /\ got.what = "pic"
    BY <1>10 DEF TurnPicture
  <2> QED
    BY <2>1, <2>2 DEF Held, Typed
<1>11. ASSUME TurnConverted PROVE Held'
  <2>1. pc' = [pc EXCEPT !["T"] = "idle"] /\ mpp' = mpp
    BY <1>11, ConvertedEffect DEF TurnConverted
  <2> QED
    BY <2>1 DEF Held, Typed
<1>12. ASSUME TurnKept PROVE Held'
  <2>1. pc' = [pc EXCEPT !["T"] = "idle"] /\ mpp' = mpp
    BY <1>12, KeptEffect DEF TurnKept
  <2> QED
    BY <2>1 DEF Held, Typed
<1>13. ASSUME ChangeState PROVE Held'
  <2>1. Begun("A", "ready", FALSE, TRUE)
    BY <1>13, Beginnings
  <2> QED
    BY <1>13, <2>1 DEF Begun, ChangeState, Held
<1>14. ASSUME Stop PROVE Held'
  <2>1. Begun("A", "stop", FALSE, TRUE)
    BY <1>14, Beginnings
  <2> QED
    BY <1>14, <2>1 DEF Begun, Stop, Held
<1>15. ASSUME Stopped PROVE Held'
  BY <1>15 DEF Stopped, Goto, Held
<1>16. ASSUME NEW t \in Callers, ResetUntasked(t) PROVE Held'
  <2>1. Cleared(t)
    BY <1>16, Endings
  <2>2. CASE t = "S"
    BY <1>16, <2>1, <2>2 DEF Cleared, ResetUntasked, Held, Typed
  <2>3. CASE t = "A"
    BY <1>16, <2>1, <2>3 DEF Cleared, ResetUntasked, Held, Typed
  <2> QED
    BY <1>16, <2>2, <2>3 DEF Callers
<1>17. ASSUME NEW t \in Callers, VideoShutdown(t) PROVE Held'
  <2>1. EosSent(t) \/ (ShutdownFailed(t) /\ (mpp' = <<>> \/ mpp' = mpp))
        \/ (Goto(t, "join") /\ UNCHANGED <<mpp, op>>)
    BY <1>17 DEF VideoShutdown
  <2>2. /\ pc'["T"] = pc["T"] /\ got' = got
        /\ \A i \in DOMAIN mpp' : (i \in DOMAIN mpp /\ mpp'[i] = mpp[i]) \/ mpp'[i].what = "eos"
    <3>1. pc'["T"] = pc["T"]
      BY <2>1, EosEffect, FailedEffect DEF Goto, Typed, Callers
    <3>2. ASSUME EosSent(t)
          PROVE  \A i \in DOMAIN mpp' : \/ i \in DOMAIN mpp /\ mpp'[i] = mpp[i]
                                       \/ mpp'[i].what = "eos"
      BY <3>2, EosEffect
    <3>3. got' = got
      BY <1>17 DEF VideoShutdown
    <3> QED
      BY <2>1, <3>1, <3>2, <3>3
  <2> QED
    BY <2>2 DEF Held
<1>18. ASSUME NEW t \in Callers, JpegShutdown(t) PROVE Held'
  <2>1. EosSent(t) \/ (ShutdownFailed(t) /\ (mpp' = <<>> \/ mpp' = mpp))
        \/ (Goto(t, "join") /\ UNCHANGED <<mpp, op>>)
    BY <1>18 DEF JpegShutdown
  <2>2. /\ pc'["T"] = pc["T"] /\ got' = got
        /\ \A i \in DOMAIN mpp' : (i \in DOMAIN mpp /\ mpp'[i] = mpp[i]) \/ mpp'[i].what = "eos"
    <3>1. pc'["T"] = pc["T"]
      BY <2>1, EosEffect, FailedEffect DEF Goto, Typed, Callers
    <3>2. ASSUME EosSent(t)
          PROVE  \A i \in DOMAIN mpp' : \/ i \in DOMAIN mpp /\ mpp'[i] = mpp[i]
                                       \/ mpp'[i].what = "eos"
      BY <3>2, EosEffect
    <3>3. got' = got
      BY <1>18 DEF JpegShutdown
    <3> QED
      BY <2>1, <3>1, <3>2, <3>3
  <2> QED
    BY <2>2 DEF Held
<1>19. ASSUME NEW t \in Callers, ResetEnds(t) PROVE Held'
  <2>1. Cleared(t)
    BY <1>19, Endings
  <2>2. CASE t = "S"
    BY <1>19, <2>1, <2>2 DEF Cleared, ResetEnds, Held, Typed
  <2>3. CASE t = "A"
    BY <1>19, <2>1, <2>3 DEF Cleared, ResetEnds, Held, Typed
  <2> QED
    BY <1>19, <2>2, <2>3 DEF Callers
<1>20. ASSUME UNCHANGED vars PROVE Held'
  BY <1>20 DEF vars, Held
<1> QED
  BY <1>1, <1>2, <1>3, <1>4, <1>5, <1>6, <1>7, <1>8, <1>9, <1>10, <1>11, <1>12, <1>13, <1>14,
     <1>15, <1>16, <1>17, <1>18, <1>19, <1>20
     DEF Next, StreamStep, TaskStep, AppStep, ResetStep, Callers

\* A reset clears with the task at rest, and no one else inside.
LEMMA ClearsAlone ==
  ASSUME Typed, Control, Tasked, NEW t \in Callers, ResetUntasked(t) \/ ResetEnds(t)
  PROVE  /\ pc["T"] = "idle" /\ task # "started" /\ UNCHANGED <<task, got, life>>
         /\ \A u \in Callers : u # t => pc[u] \notin Locking
         /\ t = "S" => op["S"].kind \in {"flush"} \cup Drains
         /\ t = "A" => op["A"].kind \in {"ready", "stop"} /\ op["A"].final
<1>1. UNCHANGED <<task, got, life>> /\ ((pc[t] = "lock" /\ op[t].kind # "frame") \/ pc[t] = "join")
  BY DEF ResetUntasked, ResetEnds
<1>2. CASE ResetUntasked(t)
  <2>1. mutex = Nobody /\ task # "started"
    BY <1>2 DEF ResetUntasked
  <2>2. \A u \in Callers : pc[u] \notin Locking
    BY <2>1 DEF Control, Callers, Nobody
  <2>3. pc["T"] = "idle"
    <3>1. task = "paused" \/ task = "stopped"
      BY <2>1 DEF Typed
    <3> QED
      BY <2>2, <3>1 DEF Tasked, Locking
  <2> QED
    BY <1>1, <2>1, <2>2, <2>3 DEF Control, Locking
<1>3. CASE ResetEnds(t)
  <2>1. pc[t] = "join" /\ task = "stopped" /\ pc["T"] = "idle"
    BY <1>3 DEF ResetEnds
  <2>2. mutex = t
    BY <2>1 DEF Control, Locking
  <2> QED
    BY <1>1, <2>1, <2>2 DEF Control, Resetting
<1> QED
  BY <1>2, <1>3

\* After a flush or a restart nothing sent before it is left anywhere.
LEMMA ClearsFresh ==
  ASSUME Typed, FramesTyped, Control, Tasked, FreshOnly,
         NEW t \in Callers, ResetUntasked(t) \/ ResetEnds(t)
  PROVE  FreshOnly'
<1>1. Cleared(t)
  BY Endings
<1>3. \A n \in Frames : fr'[n].buf = NoPic
  <2>1. \A n \in Frames : fr'[n].buf = IF ready = <<n>> THEN NoPic ELSE fr[n].buf
    BY <1>1, FlushEffect DEF Cleared
  <2> QED
    BY <2>1 DEF FreshOnly
<1>4. /\ pc["T"] = "idle" /\ task # "started" /\ task' = task /\ life' = life
      /\ \A u \in Callers : u # t => pc[u] \notin Locking
      /\ t = "S" => op["S"].kind \in {"flush"} \cup Drains
      /\ t = "A" => op["A"].kind \in {"ready", "stop"} /\ op["A"].final
  BY ClearsAlone
<1>5. pc'["T"] = "idle" /\ NoOp.kind = "none"
  BY <1>1, <1>4 DEF Callers, Typed, Cleared
<1>6. mpp' = <<>> \/ (t = "A" /\ op["A"].kind = "ready")
  BY <1>1, <1>4 DEF FreshOnly, Control, Callers, Cleared
<1>7. t = "A" /\ op["A"].kind = "ready" => Closed'
  <2>1. pc["S"] \in {"idle", "lock"} \/ t # "A"
    BY <1>4 DEF Control, Places, Callers, Locking
  <2> QED
    BY <1>1, <1>4, <1>5, <2>1 DEF Closed, Typed, Cleared
<1>8. Closed' \/ \A i \in DOMAIN mpp' : mpp'[i].what = "pic" => epoch'.of[mpp'[i].pic] = epoch'.now
  BY <1>6, <1>7
<1>9. op'["S"].kind = "flush" => mpp' = <<>>
  <2>1. mpp = <<>> => mpp' = <<>>
    BY <1>1 DEF Cleared
  <2>2. t = "S" => op'["S"].kind = "none"
    BY <1>1, <1>5 DEF Cleared
  <2>3. t = "A" => op'["S"] = op["S"]
    BY <1>1 DEF Callers, Cleared
  <2> QED
    BY <2>1, <2>2, <2>3 DEF FreshOnly, Callers
<1>10. (op'["A"].kind = "stop" \/ pc'["A"] = "stopped" \/ life' = "down") => mpp' = <<>>
  <2>1. mpp = <<>> => mpp' = <<>>
    BY <1>1 DEF Cleared
  <2>2. t = "S" => op'["A"] = op["A"] /\ pc'["A"] = pc["A"]
    BY <1>1 DEF Callers, Typed, Cleared
  <2>3. t = "A" => op'["A"].kind = "none" /\ (op["A"].kind = "ready" => pc'["A"] = "deactivating")
    BY <1>1, <1>5 DEF Typed, Cleared
  <2> QED
    BY <1>4, <1>6, <2>1, <2>2, <2>3 DEF FreshOnly, Callers
<1> QED
  BY <1>3, <1>5, <1>8, <1>9, <1>10 DEF FreshOnly, Current

\* What can still be shown was sent since the last flush or restart.
LEMMA FreshOnlyStep ==
  ASSUME Typed, FramesTyped, Control, Tasked, Held, FreshOnly, [Next]_vars
  PROVE  FreshOnly'
<1>1. ASSUME HandleFrame PROVE FreshOnly'
  BY <1>1 DEF HandleFrame, Goto, FreshOnly, Current, Closed
<1>2. ASSUME HandleLocked PROVE FreshOnly'
  BY <1>2 DEF HandleLocked, Handled, Goto, NoOp, FreshOnly, Current, Closed, Typed, Callers
<1>3. ASSUME HandlePacket PROVE FreshOnly'
  BY <1>3
     DEF HandlePacket, NoPacket, Handled, Goto, NoOp, FreshOnly, Current, Closed, Typed, Callers
<1>4. ASSUME HandleSend PROVE FreshOnly'
  <2>1. /\ \A u \in Callers : op'[u].kind = op[u].kind
        /\ pc' = [pc EXCEPT !["S"] = "dropped"] \/ pc' = [pc EXCEPT !["S"] = "sent"]
    BY <1>4, SentEffect
  <2>2. pc["S"] = "send" /\ UNCHANGED <<fr, ready, got, dec, task, life>>
    BY <1>4 DEF HandleSend
  <2>3. op["S"].kind = "frame" /\ fed \in Frames
    BY <2>2 DEF Control, Sending
  <2>4. ~Closed /\ life # "down" /\ op["A"].kind # "stop" /\ pc["A"] # "stopped"
    BY <2>2 DEF Closed, Tasked
  <2>5. epoch' = epoch \/ epoch' = [epoch EXCEPT !.of[fed] = epoch.now]
    BY <1>4 DEF HandleSend, Cur
  <2>6. \A p \in Frames : Current(p) => epoch'.of[p] = epoch'.now
    BY <2>3, <2>5 DEF Typed, Current
  <2>7. \A i \in DOMAIN mpp' : mpp'[i].what = "pic" => epoch'.of[mpp'[i].pic] = epoch'.now
    <3>1. CASE mpp' = mpp
      BY <2>4, <2>6, <3>1 DEF FreshOnly, Held, Current
    <3>2. CASE mpp' # mpp
      <4>1. /\ \A i \in DOMAIN mpp' : \/ i \in DOMAIN mpp /\ mpp'[i] = mpp[i]
                                      \/ mpp'[i].what # "eos" /\ mpp'[i].pic = fed
            /\ epoch' = [epoch EXCEPT !.of[fed] = epoch.now]
        BY <1>4, <2>3, <3>2, SendEffect
      <4>2. epoch'.of[fed] = epoch'.now
        BY <2>2, <2>3, <4>1 DEF Typed, Current
      <4> QED
        BY <2>3, <2>4, <2>6, <4>1, <4>2 DEF FreshOnly, Held, Current
    <3> QED
      BY <3>1, <3>2
  <2>8. \A n \in Frames : fr[n].buf # NoPic => fr[n].buf \in Frames
    BY DEF FramesTyped, FrTyped, FrameRec, Pictures
  <2>9. /\ \A n \in Frames : fr'[n].buf # NoPic =>
               ready' = <<n>> /\ epoch'.of[fr'[n].buf] = epoch'.now
        /\ pc'["T"] # "idle" /\ got'.what = "pic" => epoch'.of[got'.pic] = epoch'.now
    BY <2>1, <2>2, <2>6, <2>8 DEF FreshOnly, Held, Typed
  <2>10. op'["S"].kind # "flush" /\ op'["A"].kind # "stop" /\ pc'["A"] # "stopped" /\ life' # "down"
    BY <2>1, <2>2, <2>3, <2>4 DEF Callers, Typed
  <2> QED
    BY <2>7, <2>9, <2>10 DEF FreshOnly, Current
<1>5. ASSUME HandleSent PROVE FreshOnly'
  BY <1>5 DEF HandleSent, Handled, Goto, NoOp, FreshOnly, Current, Closed, Typed, Callers
<1>6. ASSUME Drain PROVE FreshOnly'
  <2>1. PICK kind \in {"drain", "finish"} : Begun("S", kind, TRUE, FALSE)
    BY <1>6, Beginnings
  <2> QED
    BY <1>6, <2>1 DEF Begun, Drain, FreshOnly, Current, Closed, Callers
<1>7. ASSUME SetFormat PROVE FreshOnly'
  <2>1. Begun("S", "caps", TRUE, FALSE)
    BY <1>7, Beginnings
  <2> QED
    BY <1>7, <2>1 DEF Begun, SetFormat, FreshOnly, Current, Closed, Callers
<1>8. ASSUME Flush PROVE FreshOnly'
  <2>1. Begun("S", "flush", FALSE, FALSE)
    BY <1>8, Beginnings
  <2> QED
    BY <1>8, <2>1 DEF Begun, Flush, FreshOnly, Current
<1>9. ASSUME Poll PROVE FreshOnly'
  <2>1. PICK i \in DOMAIN mpp :
              /\ got'.what = mpp[i].what /\ got'.pic = mpp[i].pic
              /\ Len(mpp') = Len(mpp) - 1
              /\ \A k \in DOMAIN mpp' : mpp'[k] = IF k < i THEN mpp[k] ELSE mpp[k + 1]
    BY <1>9, PollEffect
  <2>2. mpp' \in Seq(Items) /\ mpp \in Seq(Items)
    BY <1>9, PollEffect DEF Typed
  <2>3. \A k \in DOMAIN mpp' : k \in DOMAIN mpp /\ k + 1 \in DOMAIN mpp
    BY <2>1, <2>2
  <2>4. /\ UNCHANGED <<fr, ready, op, dec, task, life, epoch>> /\ task = "started"
        /\ pc' = [pc EXCEPT !["T"] = "got"]
    BY <1>9 DEF Poll, Goto
  <2>5. mpp # <<>>
    BY <2>1
  <2>6. \A k \in DOMAIN mpp : mpp[k].what = "pic" => Current(mpp[k].pic)
    BY <2>4 DEF FreshOnly, Closed
  <2>7. /\ \A k \in DOMAIN mpp' : mpp'[k].what = "pic" => Current(mpp'[k].pic)
        /\ got'.what = "pic" => Current(got'.pic)
    BY <2>1, <2>3, <2>6
  <2>8. op["S"].kind # "flush" /\ op["A"].kind # "stop" /\ pc["A"] # "stopped" /\ life # "down"
    BY <2>5 DEF FreshOnly
  <2> QED
    BY <2>4, <2>7, <2>8 DEF FreshOnly, Current, Typed
<1>10. ASSUME TurnInfo PROVE FreshOnly'
  BY <1>10 DEF TurnInfo, TurnEnds, Goto, NoItem, FreshOnly, Current, Closed
<1>11. ASSUME TurnEos PROVE FreshOnly'
  <2>1. /\ FlushReady(TRUE) /\ UNCHANGED <<mpp, op, life, epoch>> /\ pc["T"] = "got"
        /\ \E d : TurnEnds(d)
    BY <1>11 DEF TurnEos
  <2>2. pc' = [pc EXCEPT !["T"] = "idle"]
    BY <2>1, EndsEffect
  <2>3. \A n \in Frames : fr'[n].buf = NoPic
    <3>1. \A n \in Frames : fr'[n].buf = IF ready = <<n>> THEN NoPic ELSE fr[n].buf
      BY <2>1, FlushEffect
    <3> QED
      BY <3>1 DEF FreshOnly
  <2>4. ~Closed
    BY <2>1 DEF Closed
  <2> QED
    BY <2>1, <2>2, <2>3, <2>4 DEF FreshOnly, Current, Typed
<1>12. ASSUME TurnPicture PROVE FreshOnly'
  <2>1. /\ \A n \in Frames : fr'[n].buf = fr[n].buf
        /\ \/ pc' = [pc EXCEPT !["T"] = "idle"]
           \/ pc' = [pc EXCEPT !["T"] = "buffer"] /\ got'.pic = got.pic
    BY <1>12, PictureEffect
  <2>2. UNCHANGED <<ready, mpp, op, life, epoch>> /\ pc["T"] = "got" /\ got.what = "pic"
    BY <1>12 DEF TurnPicture
  <2>3. ~Closed
    BY <2>2 DEF Closed
  <2> QED
    BY <2>1, <2>2, <2>3 DEF FreshOnly, Current, Typed
<1>13. ASSUME TurnConverted PROVE FreshOnly'
  <2>1. /\ \A n \in Frames : fr'[n].buf \in {NoPic, fr[n].buf}
        /\ pc' = [pc EXCEPT !["T"] = "idle"]
    BY <1>13, ConvertedEffect
  <2>2. UNCHANGED <<ready, mpp, op, life, epoch>> /\ pc["T"] = "buffer"
    BY <1>13 DEF TurnConverted
  <2>3. ~Closed
    BY <2>2 DEF Closed
  <2> QED
    BY <2>1, <2>2, <2>3 DEF FreshOnly, Current, Typed
<1>14. ASSUME TurnKept PROVE FreshOnly'
  <2>1. /\ pc' = [pc EXCEPT !["T"] = "idle"]
        /\ ready' = <<got.sel>> /\ got.sel \in Frames
        /\ \A n \in Frames : fr'[n].buf = IF ready = <<n>> THEN NoPic
                                          ELSE IF n = got.sel THEN got.pic ELSE fr[n].buf
    BY <1>14, KeptEffect
  <2>2. UNCHANGED <<mpp, op, life, epoch>> /\ pc["T"] = "buffer"
    BY <1>14 DEF TurnKept
  <2>3. ~Closed
    BY <2>2 DEF Closed
  <2>4. Current(got.pic)
    BY <2>2, InHand DEF FreshOnly
  <2>5. \A n \in Frames : fr'[n].buf # NoPic => n = got.sel /\ fr'[n].buf = got.pic
    BY <2>1 DEF FreshOnly
  <2> QED
    BY <2>1, <2>2, <2>3, <2>4, <2>5 DEF FreshOnly, Current, Typed
<1>15. ASSUME ChangeState PROVE FreshOnly'
  <2>1. Begun("A", "ready", FALSE, TRUE)
    BY <1>15, Beginnings
  <2> QED
    BY <1>15, <2>1 DEF Begun, ChangeState, FreshOnly, Current
<1>16. ASSUME Deactivate PROVE FreshOnly'
  BY <1>16 DEF Deactivate, Goto, FreshOnly, Current, Closed
<1>17. ASSUME Stop PROVE FreshOnly'
  <2>1. Begun("A", "stop", FALSE, TRUE)
    BY <1>17, Beginnings
  <2> QED
    BY <1>17, <2>1 DEF Begun, Stop, FreshOnly, Current
<1>18. ASSUME Stopped PROVE FreshOnly'
  BY <1>18 DEF Stopped, Goto, FreshOnly, Current
<1>19. ASSUME Start PROVE FreshOnly'
  BY <1>19 DEF Start, FreshOnly, Current
<1>20. ASSUME NEW t \in Callers, ResetUntasked(t) PROVE FreshOnly'
  BY <1>20, ClearsFresh
<1>21. ASSUME NEW t \in Callers, ResetLocked(t) PROVE FreshOnly'
  <2>1. CASE t = "S"
    BY <1>21, <2>1 DEF ResetLocked, Goto, FreshOnly, Current, Closed
  <2>2. CASE t = "A"
    BY <1>21, <2>2 DEF ResetLocked, Goto, FreshOnly, Current, Closed
  <2> QED
    BY <1>21, <2>1, <2>2 DEF Callers
<1>22. ASSUME NEW t \in Callers, VideoShutdown(t) PROVE FreshOnly'
  <2>1. EosSent(t) \/ (ShutdownFailed(t) /\ (mpp' = <<>> \/ mpp' = mpp))
        \/ (Goto(t, "join") /\ mpp' = mpp /\ op' = op)
    BY <1>22 DEF VideoShutdown
  <2>2. /\ pc[t] = "shutdown" /\ t = "S" /\ op["S"].kind \in Drains
        /\ UNCHANGED <<fr, ready, got, dec, task, epoch, life>>
    BY <1>22 DEF VideoShutdown, Control, Callers
  <2>3. /\ pc' = [pc EXCEPT !["S"] = "wait"] \/ pc' = [pc EXCEPT !["S"] = "join"]
        /\ \A u \in Callers : op'[u].kind = op[u].kind
    BY <2>1, <2>2, EosEffect, FailedEffect DEF Goto, Typed
  <2>4. \A i \in DOMAIN mpp' : (i \in DOMAIN mpp /\ mpp'[i] = mpp[i]) \/ mpp'[i].what = "eos"
    <3>1. ASSUME EosSent(t)
          PROVE  \A i \in DOMAIN mpp' : \/ i \in DOMAIN mpp /\ mpp'[i] = mpp[i]
                                       \/ mpp'[i].what = "eos"
      BY <3>1, EosEffect
    <3> QED
      BY <2>1, <3>1
  <2>5. ~Closed /\ life # "down" /\ op["A"].kind # "stop" /\ pc["A"] # "stopped"
    BY <2>2 DEF Closed, Tasked
  <2> QED
    BY <2>2, <2>3, <2>4, <2>5 DEF FreshOnly, Current, Callers, Typed, Drains
<1>23. ASSUME NEW t \in Callers, JpegShutdown(t) PROVE FreshOnly'
  <2>1. EosSent(t) \/ (ShutdownFailed(t) /\ (mpp' = <<>> \/ mpp' = mpp))
        \/ (Goto(t, "join") /\ mpp' = mpp /\ op' = op)
    BY <1>23 DEF JpegShutdown
  <2>2. /\ pc[t] = "shutdown" /\ t = "S" /\ op["S"].kind \in Drains
        /\ UNCHANGED <<fr, ready, got, dec, task, epoch, life>>
    BY <1>23 DEF JpegShutdown, Control, Callers
  <2>3. /\ pc' = [pc EXCEPT !["S"] = "wait"] \/ pc' = [pc EXCEPT !["S"] = "join"]
        /\ \A u \in Callers : op'[u].kind = op[u].kind
    BY <2>1, <2>2, EosEffect, FailedEffect DEF Goto, Typed
  <2>4. \A i \in DOMAIN mpp' : (i \in DOMAIN mpp /\ mpp'[i] = mpp[i]) \/ mpp'[i].what = "eos"
    <3>1. ASSUME EosSent(t)
          PROVE  \A i \in DOMAIN mpp' : \/ i \in DOMAIN mpp /\ mpp'[i] = mpp[i]
                                       \/ mpp'[i].what = "eos"
      BY <3>1, EosEffect
    <3> QED
      BY <2>1, <3>1
  <2>5. ~Closed /\ life # "down" /\ op["A"].kind # "stop" /\ pc["A"] # "stopped"
    BY <2>2 DEF Closed, Tasked
  <2> QED
    BY <2>2, <2>3, <2>4, <2>5 DEF FreshOnly, Current, Callers, Typed, Drains
<1>24. ASSUME NEW t \in Callers, WaitPaused(t) PROVE FreshOnly'
  <2>1. CASE t = "S"
    BY <1>24, <2>1 DEF WaitPaused, Goto, FreshOnly, Current, Closed
  <2>2. CASE t = "A"
    BY <1>24, <2>2 DEF WaitPaused, Goto, FreshOnly, Current, Closed
  <2> QED
    BY <1>24, <2>1, <2>2 DEF Callers
<1>25. ASSUME NEW t \in Callers, StopTask(t) PROVE FreshOnly'
  <2>1. CASE t = "S"
    BY <1>25, <2>1 DEF StopTask, FreshOnly, Current, Closed
  <2>2. CASE t = "A"
    BY <1>25, <2>2 DEF StopTask, FreshOnly, Current, Closed
  <2> QED
    BY <1>25, <2>1, <2>2 DEF Callers
<1>26. ASSUME NEW t \in Callers, ResetEnds(t) PROVE FreshOnly'
  BY <1>26, ClearsFresh
<1>27. ASSUME UNCHANGED vars PROVE FreshOnly'
  BY <1>27 DEF vars, FreshOnly, Current, Closed
<1> QED
  BY <1>1, <1>2, <1>3, <1>4, <1>5, <1>6, <1>7, <1>8, <1>9, <1>10, <1>11, <1>12, <1>13, <1>14,
     <1>15, <1>16, <1>17, <1>18, <1>19, <1>20, <1>21, <1>22, <1>23, <1>24, <1>25, <1>26, <1>27
     DEF Next, StreamStep, TaskStep, AppStep, ResetStep, Callers

\* A turn with anything but the end of the stream.
LEMMA TurnDrains ==
  ASSUME Typed, Tasked, DrainInv, pc["T"] # "idle", pc["T"] = "got" => got.what # "eos",
         UNCHANGED <<mpp, op>>, dec' \in Decs, dec'.gen = dec.gen,
         \/ /\ pc' = [pc EXCEPT !["T"] = "idle"] /\ dec'.ret \in {dec.ret, "ok", "error"}
            /\ task' = IF dec'.ret # "ok" /\ task = "started" THEN "paused" ELSE task
         \/ pc' = [pc EXCEPT !["T"] = "buffer"] /\ task' = task /\ dec'.ret = dec.ret
  PROVE  DrainInv'
<1>1. task \in {"started", "stopped"} /\ dec.ret # "eos" /\ dec'.ret # "eos"
  BY DEF Tasked, Typed, DrainInv, EosSeen, AtRest
<1>2. /\ pc'["S"] = pc["S"] /\ pc'["A"] = pc["A"] /\ pc'["T"] \in {"idle", "buffer"}
  BY DEF Typed
<1>3. \/ task' = task
      \/ (task = "started" /\ task' = "paused" /\ dec'.ret = "error" /\ pc'["T"] = "idle")
  <2>1. dec'.ret \in {"ok", "error"}
    BY <1>1 DEF Decs
  <2> QED
    BY <2>1 DEF Typed
<1>4. EosSeen'
  BY <1>1, <1>2 DEF DrainInv, EosSeen
<1>5. Sends' /\ Rests' /\ SameGen'
  BY <1>1, <1>2, <1>3 DEF DrainInv, Sends, Works, Rests, SameGen
<1>6. Awaits'
  BY <1>1, <1>2, <1>3 DEF DrainInv, Awaits, EosAhead, Failed, AtRest
<1>7. Joins'
  BY <1>1, <1>2, <1>3 DEF DrainInv, Joins, Failed, AtRest
<1> QED
  BY <1>4, <1>5, <1>6, <1>7 DEF DrainInv

\* A drain that is not overtaken has the end of stream ahead of it, or saw an error.
LEMMA DrainInvStep ==
  ASSUME Typed, FramesTyped, Control, Tasked, Held, FreshOnly, DrainInv, [Next]_vars
  PROVE  DrainInv'
<1>1. ASSUME HandleFrame PROVE DrainInv'
  BY <1>1
     DEF HandleFrame, Streaming, Goto, DrainInv, EosSeen, Sends, Rests, SameGen, Awaits, Joins,
         Sending
<1>2. ASSUME HandleLocked PROVE DrainInv'
  BY <1>2
     DEF HandleLocked, Handled, Goto, DrainInv, EosSeen, Works, Sends, Rests, SameGen, Awaits,
         Joins, Typed, Decs, Sending
<1>3. ASSUME HandlePacket PROVE DrainInv'
  BY <1>3
     DEF HandlePacket, NoPacket, Handled, Goto, DrainInv, EosSeen, Works, Sends, Rests, SameGen,
         Awaits, Joins, Typed, Decs, Sending
<1>4. ASSUME HandleSend PROVE DrainInv'
  <2>1. /\ op'["S"].overtaken = op["S"].overtaken
        /\ pc' = [pc EXCEPT !["S"] = "dropped"] \/ pc' = [pc EXCEPT !["S"] = "sent"]
    BY <1>4, SentEffect DEF Callers
  <2>2. pc["S"] = "send" /\ UNCHANGED <<got, dec, task>>
    BY <1>4 DEF HandleSend
  <2>3. /\ \A i \in DOMAIN mpp : mpp[i].what # "eos"
        /\ ~(pc["T"] = "got" /\ got.what = "eos") /\ dec.ret # "eos" /\ Works
    BY <2>2 DEF DrainInv, EosSeen, Sends, Sending
  <2>4. \A i \in DOMAIN mpp' : mpp'[i].what # "eos"
    <3>1. CASE mpp' = mpp
      BY <2>3, <3>1
    <3>2. CASE mpp' # mpp
      <4>1. fed \in Frames
        BY <2>2 DEF Control, Sending
      <4>2. \A i \in DOMAIN mpp' : \/ i \in DOMAIN mpp /\ mpp'[i] = mpp[i]
                                   \/ mpp'[i].what # "eos" /\ mpp'[i].pic = fed
        BY <1>4, <3>2, <4>1, SendEffect
      <4> QED
        BY <2>3, <4>2
    <3> QED
      BY <3>1, <3>2
  <2>5. pc'["S"] \in {"sent", "dropped"} /\ pc'["T"] = pc["T"]
    BY <2>1 DEF Typed
  <2> QED
    BY <2>2, <2>3, <2>4, <2>5
       DEF DrainInv, EosSeen, Sends, Works, Rests, SameGen, Awaits, Joins
<1>5. ASSUME HandleSent PROVE DrainInv'
  BY <1>5
     DEF HandleSent, Handled, Goto, DrainInv, EosSeen, Works, Sends, Rests, SameGen, Awaits,
         Joins, Typed, Sending
<1>6. ASSUME Drain PROVE DrainInv'
  <2>1. PICK kind \in {"drain", "finish"} : Begun("S", kind, TRUE, FALSE)
    BY <1>6, Beginnings
  <2> QED
    BY <1>6, <2>1
       DEF Begun, Drain, Streaming, DrainInv, EosSeen, Sends, Rests, SameGen, Awaits, Joins,
           Sending
<1>7. ASSUME SetFormat PROVE DrainInv'
  <2>1. Begun("S", "caps", TRUE, FALSE)
    BY <1>7, Beginnings
  <2> QED
    BY <1>7, <2>1
       DEF Begun, SetFormat, Streaming, DrainInv, EosSeen, Sends, Rests, SameGen, Awaits, Joins,
           Sending
<1>8. ASSUME Flush PROVE DrainInv'
  <2>1. Begun("S", "flush", FALSE, FALSE)
    BY <1>8, Beginnings
  <2> QED
    BY <1>8, <2>1
       DEF Begun, Flush, Streaming, DrainInv, EosSeen, Sends, Rests, SameGen, Awaits, Joins,
           Sending
<1>9. ASSUME Poll PROVE DrainInv'
  <2>1. PICK i \in DOMAIN mpp :
              /\ i > 1 => \A j \in 1..i : mpp[j].what = "pic"
              /\ got'.what = mpp[i].what /\ got'.pic = mpp[i].pic
              /\ Len(mpp') = Len(mpp) - 1
              /\ \A k \in DOMAIN mpp' : mpp'[k] = IF k < i THEN mpp[k] ELSE mpp[k + 1]
    BY <1>9, PollEffect
  <2>2. mpp' \in Seq(Items) /\ mpp \in Seq(Items)
    BY <1>9, PollEffect DEF Typed
  <2>3. /\ UNCHANGED <<dec, task, op>> /\ task = "started" /\ pc["T"] = "idle"
        /\ pc' = [pc EXCEPT !["T"] = "got"]
    BY <1>9 DEF Poll, Goto
  <2>4. /\ pc'["T"] = "got" /\ pc'["S"] = pc["S"] /\ pc'["A"] = pc["A"] /\ mpp # <<>>
    BY <2>1, <2>3 DEF Typed
  <2>5. mpp[i].what = "eos" => mpp' = <<>>
    <3>1. ASSUME mpp[i].what = "eos" PROVE mpp' = <<>>
      <4>1. i = Len(mpp)
        BY <3>1 DEF DrainInv, EosSeen
      <4>2. ~(i > 1)
        BY <2>1, <2>2, <3>1
      <4>3. Len(mpp') = 0
        BY <2>1, <2>2, <4>1, <4>2
      <4> QED
        BY <2>2, <4>3, EmptySeq
    <3> QED
      BY <3>1
  <2>6. \A k \in DOMAIN mpp' : mpp'[k].what = "eos" =>
          k = Len(mpp') /\ \E j \in DOMAIN mpp : mpp[j].what = "eos"
    <3>1. ASSUME NEW k \in DOMAIN mpp', mpp'[k].what = "eos"
          PROVE  k = Len(mpp') /\ \E j \in DOMAIN mpp : mpp[j].what = "eos"
      <4>1. k \in DOMAIN mpp /\ k + 1 \in DOMAIN mpp
        BY <2>1, <2>2
      <4>2. CASE k < i
        <5>1. mpp[k].what = "eos" /\ k = Len(mpp)
          BY <2>1, <3>1, <4>1, <4>2 DEF DrainInv, EosSeen
        <5> QED
          BY <2>1, <2>2, <4>2, <5>1
      <4>3. CASE ~(k < i)
        <5>1. mpp[k + 1].what = "eos" /\ k + 1 = Len(mpp)
          BY <2>1, <3>1, <4>1, <4>3 DEF DrainInv, EosSeen
        <5> QED
          BY <2>1, <2>2, <4>1, <5>1
      <4> QED
        BY <4>2, <4>3
    <3> QED
      BY <3>1
  <2>7. EosSeen'
    BY <2>1, <2>3, <2>4, <2>5, <2>6 DEF DrainInv, EosSeen, AtRest
  <2>8. Sends' /\ Rests' /\ SameGen'
    BY <2>3, <2>4 DEF DrainInv, Sends, Works, Rests, SameGen
  <2>9. Awaits'
    <3>1. SUFFICES ASSUME pc["S"] = "wait", ~op["S"].overtaken PROVE EosAhead'
      BY <2>3, <2>4 DEF Awaits
    <3>2. mpp[Len(mpp)].what = "eos"
      BY <2>3, <2>4, <3>1 DEF DrainInv, Awaits, EosAhead, AtRest, Failed
    <3>3. CASE i = Len(mpp)
      BY <2>1, <2>4, <2>5, <3>2, <3>3 DEF EosAhead
    <3>4. CASE i # Len(mpp)
      <4>1. Len(mpp) - 1 \in DOMAIN mpp' /\ ~(Len(mpp) - 1 < i) /\ Len(mpp) - 1 + 1 = Len(mpp)
        BY <2>1, <2>2, <3>4
      <4>2. mpp'[Len(mpp')] = mpp[Len(mpp)] /\ mpp' # <<>>
        BY <2>1, <2>2, <4>1
      <4> QED
        BY <2>3, <3>2, <4>2 DEF EosAhead
    <3> QED
      BY <3>3, <3>4
  <2>10. Joins'
    BY <2>3, <2>4 DEF DrainInv, Joins, Failed, AtRest
  <2> QED
    BY <2>7, <2>8, <2>9, <2>10 DEF DrainInv
<1>10. ASSUME TurnInfo PROVE DrainInv'
  BY <1>10
     DEF TurnInfo, TurnEnds, Goto, FlowResults, DrainInv, EosSeen, Works, Sends, Rests, SameGen,
         Awaits, Joins, EosAhead, AtRest, Failed, Tasked, Typed
<1>11. ASSUME TurnEos PROVE DrainInv'
  <2>1. PICK ret \in FlowResults : TurnEnds([dec EXCEPT !.ret = IF ret = "ok" THEN "eos" ELSE ret])
    BY <1>11 DEF TurnEos, FlowResults
  <2>2. /\ dec' = [dec EXCEPT !.ret = IF ret = "ok" THEN "eos" ELSE ret]
        /\ pc' = [pc EXCEPT !["T"] = "idle"]
        /\ task' = IF dec'.ret # "ok" /\ task = "started" THEN "paused" ELSE task
    BY <2>1, EndsEffect
  <2>3. dec'.ret \in {"eos", "error"} /\ dec'.gen = dec.gen
    BY <2>2 DEF FlowResults, Typed, Decs
  <2>4. /\ pc["T"] = "got" /\ got.what = "eos" /\ mpp' = mpp /\ op' = op
    BY <1>11 DEF TurnEos
  <2>5. /\ mpp = <<>> /\ pc["S"] \in {"wait", "join"}
    BY <2>4 DEF DrainInv, EosSeen
  <2>6. AtRest' /\ pc'["S"] = pc["S"]
    BY <2>2, <2>3 DEF AtRest, Typed
  <2> QED
    BY <2>3, <2>4, <2>5, <2>6
       DEF DrainInv, EosSeen, Sends, Rests, SameGen, Awaits, Joins, EosAhead, Sending, AtRest
<1>12. ASSUME TurnPicture PROVE DrainInv'
  <2>1. /\ dec' \in Decs /\ dec'.gen = dec.gen
        /\ \/ /\ pc' = [pc EXCEPT !["T"] = "idle"] /\ dec'.ret \in {dec.ret, "ok", "error"}
              /\ task' = IF dec'.ret # "ok" /\ task = "started" THEN "paused" ELSE task
           \/ pc' = [pc EXCEPT !["T"] = "buffer"] /\ task' = task /\ dec'.ret = dec.ret
    BY <1>12, PictureEffect DEF FlowResults
  <2>2. /\ pc["T"] # "idle" /\ (pc["T"] = "got" => got.what # "eos")
        /\ UNCHANGED <<mpp, op>>
    BY <1>12 DEF TurnPicture
  <2> QED
    BY <2>1, <2>2, TurnDrains
<1>13. ASSUME TurnConverted PROVE DrainInv'
  <2>1. /\ dec' \in Decs /\ dec'.gen = dec.gen
        /\ \/ /\ pc' = [pc EXCEPT !["T"] = "idle"] /\ dec'.ret \in {dec.ret, "ok", "error"}
              /\ task' = IF dec'.ret # "ok" /\ task = "started" THEN "paused" ELSE task
           \/ pc' = [pc EXCEPT !["T"] = "buffer"] /\ task' = task /\ dec'.ret = dec.ret
    BY <1>13, ConvertedEffect DEF FlowResults
  <2>2. /\ pc["T"] # "idle" /\ (pc["T"] = "got" => got.what # "eos")
        /\ UNCHANGED <<mpp, op>>
    BY <1>13 DEF TurnConverted
  <2> QED
    BY <2>1, <2>2, TurnDrains
<1>14. ASSUME TurnKept PROVE DrainInv'
  <2>1. /\ dec' \in Decs /\ dec'.gen = dec.gen
        /\ \/ /\ pc' = [pc EXCEPT !["T"] = "idle"] /\ dec'.ret \in {dec.ret, "ok", "error"}
              /\ task' = IF dec'.ret # "ok" /\ task = "started" THEN "paused" ELSE task
           \/ pc' = [pc EXCEPT !["T"] = "buffer"] /\ task' = task /\ dec'.ret = dec.ret
    BY <1>14, KeptEffect DEF FlowResults
  <2>2. /\ pc["T"] # "idle" /\ (pc["T"] = "got" => got.what # "eos")
        /\ UNCHANGED <<mpp, op>>
    BY <1>14 DEF TurnKept
  <2> QED
    BY <2>1, <2>2, TurnDrains
<1>15. ASSUME ChangeState PROVE DrainInv'
  <2>3. /\ pc' = [pc EXCEPT !["A"] = "lock"] /\ mpp' = <<>>
        /\ op'["S"].overtaken /\ dec'.ret = dec.ret
    BY <1>15, Beginnings DEF Begun, Callers
  <2>4. UNCHANGED <<got, task>>
    BY <1>15 DEF ChangeState
  <2>5. pc'["S"] = pc["S"] /\ pc'["T"] = pc["T"] /\ pc'["A"] = "lock"
    BY <2>3 DEF Typed
  <2> QED
    BY <2>3, <2>4, <2>5
       DEF DrainInv, EosSeen, Sends, Works, Rests, SameGen, Awaits, Joins, AtRest
<1>16. ASSUME Deactivate PROVE DrainInv'
  BY <1>16 DEF Deactivate, Goto, DrainInv, EosSeen, Sends, Rests, SameGen, Awaits, Joins, Control
<1>17. ASSUME Stop PROVE DrainInv'
  <2>1. Begun("A", "stop", FALSE, TRUE)
    BY <1>17, Beginnings
  <2> QED
    BY <1>17, <2>1
       DEF Begun, Stop, DrainInv, EosSeen, Works, Sends, Rests, SameGen, Awaits, Joins, Tasked
<1>18. ASSUME Stopped PROVE DrainInv'
  BY <1>18 DEF Stopped, Goto, DrainInv, EosSeen, Works, Sends, Rests, SameGen, Awaits, Joins, Tasked
<1>19. ASSUME Start PROVE DrainInv'
  BY <1>19 DEF Start, Fresh, DrainInv, EosSeen, Works, Sends, Rests, SameGen, Awaits, Joins, Tasked
<1>20. ASSUME NEW t \in Callers, ResetUntasked(t) PROVE DrainInv'
  <2>1. Cleared(t)
    BY <1>20, Endings
  <2>2. CASE t = "S"
    BY <1>20, <2>1, <2>2
       DEF Cleared, ResetUntasked, DrainInv, EosSeen, Sends, Rests, SameGen, Awaits, Joins,
           Control, FreshOnly, Typed, Sending
  <2>3. CASE t = "A"
    BY <1>20, <2>1, <2>3
       DEF Cleared, ResetUntasked, DrainInv, EosSeen, Sends, Rests, SameGen, Awaits, Joins,
           Control, Typed, Callers, Sending, Locking, Nobody
  <2> QED
    BY <1>20, <2>2, <2>3 DEF Callers
<1>21. ASSUME NEW t \in Callers, ResetLocked(t) PROVE DrainInv'
  <2>1. CASE t = "S"
    BY <1>21, <2>1
       DEF ResetLocked, Goto, DrainInv, EosSeen, Works, Sends, Rests, SameGen, Awaits, Joins,
           Typed
  <2>2. CASE t = "A"
    BY <1>21, <2>2
       DEF ResetLocked, Goto, DrainInv, EosSeen, Works, Sends, Rests, SameGen, Awaits, Joins,
           EosAhead, AtRest, Failed
  <2> QED
    BY <1>21, <2>1, <2>2 DEF Callers
<1>22. ASSUME NEW t \in Callers, VideoShutdown(t) PROVE DrainInv'
  <2>1. /\ pc[t] = "shutdown" /\ t = "S" /\ op["S"].kind \in Drains /\ op["S"].drain
        /\ UNCHANGED <<got, dec, task>>
    BY <1>22 DEF VideoShutdown, Control, Callers
  <2>2. /\ ~\E i \in DOMAIN mpp : mpp[i].what = "eos"
        /\ ~(pc["T"] = "got" /\ got.what = "eos") /\ dec.ret # "eos"
        /\ task = "started" \/ (AtRest /\ dec.ret = "error")
    BY <2>1 DEF DrainInv, EosSeen, Sends, Works, Tasked, AtRest
  <2>3. ASSUME EosSent("S")
        PROVE  DrainInv'
    <3>1. "S" \in Callers
      BY DEF Callers
    <3>2. /\ mpp' \in Seq(Items) /\ Len(mpp') = Len(mpp) + 1
          /\ mpp'[Len(mpp')].what = "eos"
          /\ \A i \in DOMAIN mpp' : \/ i \in DOMAIN mpp /\ mpp'[i] = mpp[i]
                                    \/ mpp'[i].what = "eos"
          /\ pc' = [pc EXCEPT !["S"] = "wait"] /\ op' = op
      BY <2>3, <3>1, EosEffect
    <3>3. /\ mpp' # <<>>
          /\ \A i \in DOMAIN mpp' : mpp'[i].what = "eos" => i = Len(mpp')
      <4>1. mpp' = Append(mpp, [what |-> "eos", pic |-> NoPic]) /\ mpp \in Seq(Items)
        BY <2>3 DEF EosSent, Typed
      <4>2. \A i \in DOMAIN mpp' : i # Len(mpp') => i \in DOMAIN mpp /\ mpp'[i] = mpp[i]
        BY <3>2, <4>1
      <4> QED
        BY <2>2, <3>2, <4>1, <4>2
    <3>4. EosAhead'
      BY <2>1, <2>2, <3>2, <3>3 DEF EosAhead, Failed, AtRest
    <3>5. pc'["S"] = "wait" /\ pc'["T"] = pc["T"]
      BY <3>2 DEF Typed
    <3> QED
      BY <2>1, <2>2, <3>2, <3>3, <3>4, <3>5
         DEF DrainInv, EosSeen, Sends, Rests, SameGen, Awaits, Joins, Sending
  <2>4. ASSUME op'["S"].result = "error" \/ op["S"].overtaken,
               op'["S"].overtaken = op["S"].overtaken, mpp' = <<>> \/ mpp' = mpp,
               pc' = [pc EXCEPT !["S"] = "join"]
        PROVE  DrainInv'
    <3>1. pc'["S"] = "join" /\ pc'["T"] = pc["T"]
      BY <2>4 DEF Typed
    <3> QED
      BY <2>1, <2>2, <2>4, <3>1
         DEF DrainInv, EosSeen, Sends, Rests, SameGen, Awaits, Joins, Sending
  <2>5. ASSUME ShutdownFailed("S"), mpp' = <<>> \/ mpp' = mpp
        PROVE  DrainInv'
    <3>1. "S" \in Callers
      BY DEF Callers
    <3>2. /\ pc' = [pc EXCEPT !["S"] = "join"]
          /\ op'["S"].overtaken = op["S"].overtaken /\ op'["S"].result = "error"
      BY <2>5, <3>1, FailedEffect
    <3> QED
      BY <2>4, <2>5, <3>2
  <2> QED
    BY <1>22, <2>1, <2>3, <2>5 DEF VideoShutdown
<1>23. ASSUME NEW t \in Callers, JpegShutdown(t) PROVE DrainInv'
  <2>1. /\ pc[t] = "shutdown" /\ t = "S" /\ op["S"].kind \in Drains /\ op["S"].drain
        /\ UNCHANGED <<got, dec, task>>
    BY <1>23 DEF JpegShutdown, Control, Callers
  <2>2. /\ ~\E i \in DOMAIN mpp : mpp[i].what = "eos"
        /\ ~(pc["T"] = "got" /\ got.what = "eos") /\ dec.ret # "eos"
        /\ task = "started" \/ (AtRest /\ dec.ret = "error")
    BY <2>1 DEF DrainInv, EosSeen, Sends, Works, Tasked, AtRest
  <2>3. ASSUME EosSent("S")
        PROVE  DrainInv'
    <3>1. "S" \in Callers
      BY DEF Callers
    <3>2. /\ mpp' \in Seq(Items) /\ Len(mpp') = Len(mpp) + 1
          /\ mpp'[Len(mpp')].what = "eos"
          /\ \A i \in DOMAIN mpp' : \/ i \in DOMAIN mpp /\ mpp'[i] = mpp[i]
                                    \/ mpp'[i].what = "eos"
          /\ pc' = [pc EXCEPT !["S"] = "wait"] /\ op' = op
      BY <2>3, <3>1, EosEffect
    <3>3. /\ mpp' # <<>>
          /\ \A i \in DOMAIN mpp' : mpp'[i].what = "eos" => i = Len(mpp')
      <4>1. mpp' = Append(mpp, [what |-> "eos", pic |-> NoPic]) /\ mpp \in Seq(Items)
        BY <2>3 DEF EosSent, Typed
      <4>2. \A i \in DOMAIN mpp' : i # Len(mpp') => i \in DOMAIN mpp /\ mpp'[i] = mpp[i]
        BY <3>2, <4>1
      <4> QED
        BY <2>2, <3>2, <4>1, <4>2
    <3>4. EosAhead'
      BY <2>1, <2>2, <3>2, <3>3 DEF EosAhead, Failed, AtRest
    <3>5. pc'["S"] = "wait" /\ pc'["T"] = pc["T"]
      BY <3>2 DEF Typed
    <3> QED
      BY <2>1, <2>2, <3>2, <3>3, <3>4, <3>5
         DEF DrainInv, EosSeen, Sends, Rests, SameGen, Awaits, Joins, Sending
  <2>4. ASSUME op'["S"].result = "error" \/ op["S"].overtaken,
               op'["S"].overtaken = op["S"].overtaken, mpp' = <<>> \/ mpp' = mpp,
               pc' = [pc EXCEPT !["S"] = "join"]
        PROVE  DrainInv'
    <3>1. pc'["S"] = "join" /\ pc'["T"] = pc["T"]
      BY <2>4 DEF Typed
    <3> QED
      BY <2>1, <2>2, <2>4, <3>1
         DEF DrainInv, EosSeen, Sends, Rests, SameGen, Awaits, Joins, Sending
  <2>5. ASSUME ShutdownFailed("S"), mpp' = <<>> \/ mpp' = mpp
        PROVE  DrainInv'
    <3>1. "S" \in Callers
      BY DEF Callers
    <3>2. /\ pc' = [pc EXCEPT !["S"] = "join"]
          /\ op'["S"].overtaken = op["S"].overtaken /\ op'["S"].result = "error"
      BY <2>5, <3>1, FailedEffect
    <3> QED
      BY <2>4, <2>5, <3>2
  <2>6. ASSUME dec.gen # op["S"].gen, Goto("S", "join"), UNCHANGED <<mpp, op>>
        PROVE  DrainInv'
    <3>1. op["S"].overtaken
      BY <2>1, <2>6 DEF DrainInv, SameGen
    <3> QED
      BY <2>4, <2>6, <3>1 DEF Goto
  <2> QED
    BY <1>23, <2>1, <2>3, <2>5, <2>6 DEF JpegShutdown
<1>24. ASSUME NEW t \in Callers, WaitPaused(t) PROVE DrainInv'
  <2>1. CASE t = "S"
    BY <1>24, <2>1
       DEF WaitPaused, Goto, DrainInv, EosSeen, Sends, Rests, SameGen, Awaits, Joins, EosAhead,
           AtRest, Failed, Sending
  <2>2. CASE t = "A"
    BY <1>24, <2>2
       DEF WaitPaused, Goto, DrainInv, EosSeen, Works, Sends, Rests, SameGen, Awaits, Joins,
           EosAhead, AtRest, Failed
  <2> QED
    BY <1>24, <2>1, <2>2 DEF Callers
<1>25. ASSUME NEW t \in Callers, StopTask(t) PROVE DrainInv'
  <2>1. CASE t = "S"
    BY <1>25, <2>1
       DEF StopTask, DrainInv, EosSeen, Sends, Rests, SameGen, Awaits, Joins, AtRest, Failed,
           Sending
  <2>2. CASE t = "A"
    BY <1>25, <2>2
       DEF StopTask, DrainInv, EosSeen, Sends, Rests, SameGen, Awaits, Joins, Control, Callers,
           Sending, Locking
  <2> QED
    BY <1>25, <2>1, <2>2 DEF Callers
<1>26. ASSUME NEW t \in Callers, ResetEnds(t) PROVE DrainInv'
  <2>3. Cleared(t)
    BY <1>26, Endings
  <2>4. /\ pc[t] = "join" /\ task = "stopped" /\ pc["T"] = "idle" /\ task' = task
    BY <1>26 DEF ResetEnds
  <2>5. \A u \in Callers : u # t => pc[u] \notin Locking
    BY <1>26, ClearsAlone
  <2>6. CASE t = "S"
    <3>1. mpp' = <<>>
      BY <2>3, <2>4, <2>6 DEF Cleared, Control, Resetting, FreshOnly
    <3>2. pc'["S"] = "idle" /\ pc'["T"] = "idle"
      BY <2>3, <2>4, <2>6 DEF Cleared, Typed
    <3> QED
      BY <2>3, <2>4, <3>1, <3>2
         DEF Cleared, DrainInv, EosSeen, Sends, Rests, SameGen, Awaits, Joins, Sending
  <2>7. CASE t = "A"
    <3>1. mpp' = mpp
      BY <2>3, <2>7 DEF Cleared, Control
    <3>2. /\ pc["S"] \notin Locking /\ pc'["S"] = pc["S"] /\ pc'["T"] = "idle"
          /\ pc'["A"] # "idle"
      BY <2>3, <2>4, <2>5, <2>7 DEF Cleared, Typed, Callers
    <3> QED
      BY <2>3, <2>4, <3>1, <3>2
         DEF Cleared, DrainInv, EosSeen, Sends, Rests, SameGen, Awaits, Joins, Sending, Locking
  <2> QED
    BY <2>6, <2>7 DEF Callers
<1>27. ASSUME UNCHANGED vars PROVE DrainInv'
  BY <1>27
     DEF vars, DrainInv, EosSeen, Works, Sends, Rests, SameGen, Awaits, Joins, EosAhead, AtRest,
         Failed
<1> QED
  BY <1>1, <1>2, <1>3, <1>4, <1>5, <1>6, <1>7, <1>8, <1>9, <1>10, <1>11, <1>12, <1>13, <1>14,
     <1>15, <1>16, <1>17, <1>18, <1>19, <1>20, <1>21, <1>22, <1>23, <1>24, <1>25, <1>26, <1>27
     DEF Next, StreamStep, TaskStep, AppStep, ResetStep, Callers

\* A reset shows what was kept back only when it drains.
LEMMA ClearsShow ==
  ASSUME Typed, FramesTyped, FreshOnly, NEW t \in Callers, ResetUntasked(t) \/ ResetEnds(t)
  PROVE  \/ shown' = shown
         \/ \E p \in Frames : Current(p) /\ epoch' = epoch /\ shown' = Append(shown, p)
<1>1. /\ FlushReady(op[t].drain) /\ op[t].drain \in BOOLEAN
      /\ op[t].drain => epoch' = epoch
  BY Endings DEF Cleared
<1>2. \/ shown' = shown
      \/ \E n \in Frames : /\ op[t].drain /\ ready = <<n>> /\ fr[n].buf # NoPic
                           /\ fr[n].buf \in Frames /\ shown' = Append(shown, fr[n].buf)
  BY <1>1, FlushEffect
<1> QED
  BY <1>1, <1>2 DEF FreshOnly

\* Every picture a step shows is one sent since the last flush or restart.
LEMMA ShowsFresh ==
  ASSUME Typed, FramesTyped, Tasked, Held, FreshOnly, [Next]_vars
  PROVE  \/ shown' = shown
         \/ \E p \in Frames : Current(p) /\ epoch' = epoch /\ shown' = Append(shown, p)
<1>1. CASE TurnEos
  <2>1. FlushReady(TRUE) /\ epoch' = epoch
    BY <1>1 DEF TurnEos
  <2>2. \/ shown' = shown
        \/ \E n \in Frames : /\ ready = <<n>> /\ fr[n].buf # NoPic
                             /\ fr[n].buf \in Frames /\ shown' = Append(shown, fr[n].buf)
    BY <2>1, FlushEffect
  <2> QED
    BY <2>1, <2>2 DEF FreshOnly
<1>2. CASE TurnConverted
  <2>1. pc["T"] = "buffer" /\ epoch' = epoch
    BY <1>2 DEF TurnConverted
  <2>2. Current(got.pic) /\ got.pic \in Frames
    BY <2>1, InHand DEF FreshOnly
  <2>3. shown' = shown \/ shown' = Append(shown, got.pic)
    BY <1>2, ConvertedEffect
  <2> QED
    BY <2>1, <2>2, <2>3
<1>3. CASE TurnKept
  <2>1. pc["T"] = "buffer" /\ epoch' = epoch
    BY <1>3 DEF TurnKept
  <2>2. Current(got.pic) /\ got.pic \in Frames
    BY <2>1, InHand DEF FreshOnly
  <2>3. \/ shown' = shown
        \/ \E n \in Frames : /\ ready = <<n>>
                             /\ \/ shown' = Append(shown, got.pic)
                                \/ fr[n].buf \in Frames /\ shown' = Append(shown, fr[n].buf)
    BY <1>3, KeptEffect
  <2>4. \A n \in Frames : fr[n].buf \in Frames => Current(fr[n].buf)
    BY Constants DEF FreshOnly
  <2> QED
    BY <2>1, <2>2, <2>3, <2>4
<1>4. ASSUME NEW t \in Callers, ResetUntasked(t) \/ ResetEnds(t)
      PROVE  \/ shown' = shown
             \/ \E p \in Frames : Current(p) /\ epoch' = epoch /\ shown' = Append(shown, p)
  BY <1>4, ClearsShow
<1>5. CASE \/ StreamStep \/ AppStep \/ Poll \/ TurnInfo \/ TurnPicture
  BY <1>5 DEF StreamStep, AppStep, HandleFrame, HandleLocked, HandlePacket, HandleSend, HandleSent,
     Drain, SetFormat, Flush, ChangeState, Deactivate, Stop, Stopped, Start, Poll, TurnInfo,
     TurnPicture
<1>6. ASSUME NEW t \in Callers, ResetLocked(t) \/ VideoShutdown(t) \/ JpegShutdown(t)
                                \/ WaitPaused(t) \/ StopTask(t)
      PROVE  shown' = shown
  BY <1>6 DEF ResetLocked, VideoShutdown, JpegShutdown, WaitPaused, StopTask
<1>7. CASE UNCHANGED vars
  BY <1>7 DEF vars
<1> QED
  BY <1>1, <1>2, <1>3, <1>4, <1>5, <1>6, <1>7 DEF Next, TaskStep, ResetStep, Callers

\* A drain that comes back with OK left nothing behind.
LEMMA DrainReturns ==
  ASSUME Typed, FramesTyped, Control, Tasked, DrainInv, [Next]_vars,
         op["S"].kind \in {"drain", "finish"}, op'["S"].kind = "none", flow' = "ok",
         ~op["S"].overtaken, pc["A"] = "idle"
  PROVE  mpp = <<>> /\ ready' = <<>> /\ list' = <<>>
<1>1. op["S"].kind # "frame" /\ op["S"].kind # "none" /\ "S" \in Callers /\ pc["S"] # "idle"
      /\ op["S"].drain
  BY DEF Control, Callers, Drains
<1>2. ASSUME ResetUntasked("S") \/ ResetEnds("S")
      PROVE  mpp = <<>> /\ ready' = <<>> /\ list' = <<>>
  <2>1. ASSUME NEW failed \in BOOLEAN, NEW fails \in BOOLEAN, Clear("S", failed, fails)
        PROVE  ~failed /\ dec.ret # "error" /\ ready' = <<>> /\ list' = <<>>
    <3>1. /\ list' = <<>> /\ FlushReady(op["S"].drain)
          /\ (op["S"].kind \in {"drain", "finish"} /\ flow' = "ok") => ~failed /\ dec.ret # "error"
      BY <1>1, <2>1, ClearEffect DEF Cleared
    <3>2. ready' = <<>>
      BY <3>1 DEF FlushReady
    <3> QED
      BY <3>1, <3>2
  <2>2. CASE ResetUntasked("S")
    <3>1. PICK fails \in BOOLEAN : Clear("S", FALSE, fails)
      BY <2>2 DEF ResetUntasked
    <3>2. pc["S"] = "lock" /\ task # "started"
      BY <2>2 DEF ResetUntasked
    <3> QED
      BY <2>1, <3>1, <3>2 DEF DrainInv, Rests
  <2>3. CASE ResetEnds("S")
    <3>1. PICK fails \in BOOLEAN : Clear("S", op["S"].result = "error", fails)
      BY <2>3 DEF ResetEnds
    <3>2. pc["S"] = "join"
      BY <2>3 DEF ResetEnds
    <3>3. (op["S"].result = "error") \in BOOLEAN
      OBVIOUS
    <3>4. ~(op["S"].result = "error") /\ dec.ret # "error" /\ ready' = <<>> /\ list' = <<>>
      BY <2>1, <3>1, <3>3
    <3> QED
      BY <1>1, <3>2, <3>4 DEF DrainInv, Joins, Failed
  <2> QED
    BY <1>2, <2>2, <2>3
<1>3. ASSUME op'["S"] = op["S"] PROVE FALSE
  BY <1>1, <1>3
<1>4. CASE StreamStep
  <2>1. (pc["S"] = "lock" /\ op["S"].kind = "frame") \/ pc["S"] \in Sending \/ pc["S"] = "idle"
    BY <1>4 DEF StreamStep, HandleFrame, HandleLocked, HandlePacket, HandleSend, HandleSent, Drain,
       SetFormat, Flush, Streaming, Sending
  <2> QED
    BY <1>1, <2>1 DEF Control
<1>5. CASE TaskStep
  BY <1>3, <1>5 DEF TaskStep, Poll, TurnInfo, TurnEos, TurnPicture, TurnConverted, TurnKept
<1>6. CASE AppStep
  <2>1. CASE ChangeState
    <3>1. op'["S"].kind = op["S"].kind
      BY <2>1, Beginnings DEF Begun, Callers
    <3> QED
      BY <1>1, <3>1
  <2>2. CASE ~ChangeState
    BY <1>3, <1>6, <2>2 DEF AppStep, Deactivate, Stop, Stopped, Start
  <2> QED
    BY <2>1, <2>2
<1>7. ASSUME NEW t \in Callers, ResetStep(t) PROVE ResetUntasked("S") \/ ResetEnds("S")
  <2>1. CASE t = "A"
    <3>1. pc["A"] # "idle"
      BY <1>7, <2>1 DEF ResetStep, ResetUntasked, ResetLocked, VideoShutdown, JpegShutdown,
         WaitPaused, StopTask, ResetEnds
    <3> QED
      BY <3>1
  <2>2. CASE t = "S"
    <3>1. ASSUME ResetLocked("S") PROVE op'["S"].kind = op["S"].kind
      BY <1>1, <3>1 DEF ResetLocked, Typed, Ops
    <3>2. ASSUME VideoShutdown("S") \/ JpegShutdown("S") PROVE op'["S"].kind = op["S"].kind
      <4>1. EosSent("S") \/ ShutdownFailed("S") \/ op' = op
        BY <3>2 DEF VideoShutdown, JpegShutdown
      <4> QED
        BY <1>1, <4>1, FailedEffect DEF EosSent
    <3>3. ASSUME WaitPaused("S") \/ StopTask("S") PROVE op' = op
      BY <3>3 DEF WaitPaused, StopTask
    <3> QED
      BY <1>1, <1>7, <2>2, <3>1, <3>2, <3>3 DEF ResetStep
  <2> QED
    BY <2>1, <2>2 DEF Callers
<1>8. CASE UNCHANGED vars
  BY <1>3, <1>8 DEF vars
<1> QED
  BY <1>2, <1>4, <1>5, <1>6, <1>7, <1>8 DEF Next, Callers

-----------------------------------------------------------------------------
(* The theorems *)

Inv == /\ Typed /\ FramesTyped /\ Control /\ Tasked /\ Held
       /\ FreshOnly /\ DrainInv

\* The initial states satisfy the invariant,
LEMMA Initially == Init => Inv
<1> SUFFICES ASSUME Init PROVE Inv
  OBVIOUS
<1>1. Typed
  <2>1. dec \in Decs
    <3>1. PICK j \in BOOLEAN, c \in BOOLEAN : dec = [Fresh EXCEPT !.convert = c, !.jpeg = j]
      BY DEF Init
    <3> QED
      BY <3>1 DEF Fresh, Decs
  <2>2. op \in [Callers -> Ops] /\ got \in Gots
    BY Constants DEF Init, Callers
  <2>3. mpp \in Seq(Items) /\ epoch \in [now : Nat, of : [Frames -> Nat]]
    BY DEF Init
  <2> QED
    BY <2>1, <2>2, <2>3 DEF Init, Typed
<1>2. FramesTyped
  <2>1. fr \in [Frames -> FrameRec]
    <3>1. \A n \in Frames : [pts |-> FramePts[n], buf |-> NoPic] \in FrameRec
      <4>1. \A n \in Frames : FramePts[n] \in TimeRange
        BY DecoderAssumption DEF TimeRange, NoPts
      <4> QED
        BY <4>1, Constants DEF FrameRec
    <3> QED
      BY <3>1 DEF Init
  <2>2. Len(ready) <= 1 /\ fed \in 0..NFrames
    BY DecoderAssumption DEF Init
  <2> QED
    BY <2>1, <2>2 DEF Init, FramesTyped, FrTyped
<1>3. Control
  BY DEF Init, Control, NoOp, Callers, Places, Locking, Sending, Resetting, Drains, Nobody
<1>4. Tasked /\ Held /\ DrainInv
  BY DEF Init, Tasked, Held, NoOp, Callers, DrainInv, EosSeen, Sends, Works, Rests, SameGen, Awaits,
     Joins, AtRest, Fresh, Sending
<1>5. FreshOnly
  BY DEF Init, FreshOnly, NoOp
<1> QED
  BY <1>1, <1>2, <1>3, <1>4, <1>5 DEF Inv

\* every step keeps it,
LEMMA Preserved == Inv /\ [Next]_vars => Inv'
BY TypedStep, FramesTypedStep, ControlStep, TaskedStep, HeldStep, FreshOnlyStep, DrainInvStep
   DEF Inv

\* and so it always holds.
LEMMA Invariance == Spec => []Inv
BY Initially, Preserved, PTL DEF Spec

\* struct _GstMppDec, the lists of frames and the task keep their types.
THEOREM TypesHold == Spec => []TypeOK
<1>1. Inv => TypeOK
  <2> SUFFICES ASSUME Inv PROVE TypeOK
    OBVIOUS
  <2>1. /\ dec.ret \in FlowResults \cup {"eos"} /\ dec.gen \in Nat
        /\ \A f \in {"flushing", "draining", "decoded", "seen", "useMpp", "mixed", "convert",
               "jpeg", "alloc"} : dec[f] \in BOOLEAN
    BY DEF Inv, Typed, Decs, FlowResults
  <2>2. \A i \in DOMAIN mpp : mpp[i].what \in {"pic", "info", "eos"}
    <3>1. \A i \in DOMAIN mpp : mpp[i] \in Items
      BY DEF Inv, Typed
    <3> QED
      BY <3>1 DEF Items
  <2>3. /\ list \in Seq(Frames) /\ ready \in Seq(Frames) /\ Len(ready) <= 1
        /\ fr \in [Frames -> [pts : 0..NoPts, buf : Frames \cup {NoPic}]]
        /\ shown \in Seq(Frames) /\ fed \in 0..NFrames
    BY DEF Inv, FramesTyped, FrTyped, FrameRec, TimeRange, Pictures
  <2> QED
    BY <2>1, <2>2, <2>3 DEF Inv, Typed, TypeOK
<1> QED
  BY <1>1, Invariance, PTL

\* gst_mpp_dec_reset clears what a turn of gst_mpp_dec_loop works on only when no turn
\* is under way: a turn that outlives the task has a reset waiting for it in
\* gst_pad_stop_task, and an element that is down has neither.
THEOREM ClearsAtRest == Spec => []ClearedAlone
<1>1. Inv => ClearedAlone
  BY DEF Inv, Tasked, ClearedAlone, Callers
<1> QED
  BY <1>1, Invariance, PTL

\* gst_mpp_dec_flush: what is shown, by whichever path, was sent since the last flush or
\* restart that returned.
THEOREM FlushHides == Spec => NothingStale
<1> DEFINE Stale == Len(shown') > Len(shown) => epoch.of[shown'[Len(shown')]] = epoch'.now
<1>1. Inv /\ [Next]_vars => [Stale]_vars
  <2> SUFFICES ASSUME Inv, [Next]_vars PROVE Stale
    OBVIOUS
  <2>1. shown \in Seq(Frames)
    BY DEF Inv, FramesTyped
  <2>2. \/ shown' = shown
        \/ \E p \in Frames : Current(p) /\ epoch' = epoch /\ shown' = Append(shown, p)
    BY ShowsFresh DEF Inv
  <2>3. CASE shown' = shown
    BY <2>1, <2>3
  <2>4. ASSUME NEW p \in Frames, Current(p), epoch' = epoch, shown' = Append(shown, p)
        PROVE  Stale
    <3>1. shown'[Len(shown')] = p
      BY <2>1, <2>4
    <3> QED
      BY <2>4, <3>1 DEF Current
  <2> QED
    BY <2>2, <2>3, <2>4
<1> QED
  BY <1>1, Invariance, PTL DEF Spec, NothingStale

\* gst_mpp_dec_drain, finish: when one reports OK and no teardown has overtaken it, the MPP
\* holds nothing it would reset, nothing is kept back and no frame waits for a picture.
THEOREM DrainsComplete == Spec => DrainedBeforeReset
<1> DEFINE Drained == op["S"].kind \in {"drain", "finish"} /\ op'["S"].kind = "none" /\ flow' = "ok"
                        /\ ~op["S"].overtaken /\ pc["A"] = "idle"
                      => mpp = <<>> /\ ready' = <<>> /\ list' = <<>>
<1>1. Inv /\ [Next]_vars => [Drained]_vars
  BY DrainReturns DEF Inv
<1> QED
  BY <1>1, Invariance, PTL DEF Spec, DrainedBeforeReset
=============================================================================
