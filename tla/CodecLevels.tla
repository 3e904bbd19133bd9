----------------------------- MODULE CodecLevels -----------------------------
(***************************************************************************)
(* The level an H.264 or H.265 encoder writes into its stream and its caps *)
(* (gst_mpp_h264_enc_effective_level, gst_mpp_h265_enc_effective_level):   *)
(* the one the application declared, raised to the lowest level that can   *)
(* carry the stream, or none.  MPP itself looks at the picture size only.  *)
(*                                                                         *)
(* Picture sizes are in macroblocks for H.264 and in units of 64 luma      *)
(* samples for H.265, which keeps the largest limits below 2^31; the grade *)
(* is H.264's profile ("high" or another) and H.265's tier.                *)
(***************************************************************************)
EXTENDS Integers, Sequences

CONSTANTS
  Sizes,        \* picture sizes to try, per codec; 0 while there are no caps
  FrameRates,   \* pairs: numerator and denominator
  Bitrates      \* bits per second, 0 when there is no limit

VARIABLES
  codec, declared, grade,
  stream        \* GstMppEncRateInfo: size, frame rate, bit rate

Undefined == 0       \* the H.265 levels without a high tier
OneB == 99           \* GST_MPP_H264_LEVEL_1B: not where its number puts it

\* Level, picture size, size times frame rate, bit rate.
H264 ==
  << <<10, 99, 1485, 64>>, <<99, 99, 1485, 128>>, <<11, 396, 3000, 192>>,
     <<12, 396, 6000, 384>>, <<13, 396, 11880, 768>>, <<20, 396, 11880, 2000>>,
     <<21, 792, 19800, 4000>>, <<22, 1620, 20250, 4000>>, <<30, 1620, 40500, 10000>>,
     <<31, 3600, 108000, 14000>>, <<32, 5120, 216000, 20000>>,
     <<40, 8192, 245760, 20000>>, <<41, 8192, 245760, 50000>>,
     <<42, 8704, 522240, 50000>>, <<50, 22080, 589824, 135000>>,
     <<51, 36864, 983040, 240000>>, <<52, 36864, 2073600, 240000>>,
     <<60, 139264, 4177920, 240000>>, <<61, 139264, 8355840, 480000>>,
     <<62, 139264, 16711680, 800000>> >>

\* The same, and the high tier's bit rate.
H265 ==
  << <<30, 576, 8640, 128, Undefined>>, <<60, 1920, 57600, 1500, Undefined>>,
     <<63, 3840, 115200, 3000, Undefined>>, <<90, 8640, 259200, 6000, Undefined>>,
     <<93, 15360, 518400, 10000, Undefined>>, <<120, 34816, 1044480, 12000, 30000>>,
     <<123, 34816, 2088960, 20000, 50000>>, <<150, 139264, 4177920, 25000, 100000>>,
     <<153, 139264, 8355840, 40000, 160000>>, <<156, 139264, 16711680, 60000, 240000>>,
     <<180, 557056, 16711680, 60000, 240000>>, <<183, 557056, 33423360, 120000, 480000>>,
     <<186, 557056, 66846720, 240000, 800000>> >>

Table == IF codec = "h264" THEN H264 ELSE H265

Index(level) == LET I == {i \in DOMAIN Table : Table[i][1] = level}
                IN IF I = {} THEN 1 ELSE CHOOSE i \in I : TRUE

\* cpb_br_vcl_factor: 1250 for the High profile of H.264.
MaxBits(row) ==
  IF codec = "h264" THEN row[4] * (IF grade = "high" THEN 1250 ELSE 1000)
  ELSE row[IF grade = "high" THEN 5 ELSE 4] * 1000

\* Rates are compared by cross-multiplication.
Admits(row) ==
  /\ MaxBits(row) # Undefined
  /\ stream.size <= row[2]
  /\ stream.size * stream.fps[1] <= row[3] * stream.fps[2]
  /\ stream.bps # 0 => stream.bps <= MaxBits(row)

\* The first level that carries the stream; 1b is never chosen.  0: there is none.
Required ==
  LET I == {i \in DOMAIN Table : Table[i][1] # OneB /\ Admits(Table[i])}
  IN IF I = {} THEN 0 ELSE CHOOSE i \in I : \A j \in I : i <= j

Refused == 0

ComparedAsNumbers ==           \* mutant of Effective: 1b is above every level
  IF stream.size = 0 THEN declared
  ELSE IF Required = 0 THEN Refused
  ELSE IF Table[Required][1] <= declared THEN declared ELSE Table[Required][1]

\* Without caps the declared level stands.
Effective ==
  IF stream.size = 0 THEN declared
  ELSE IF Required = 0 THEN Refused
  ELSE IF Required <= Index(declared) THEN declared ELSE Table[Required][1]

-----------------------------------------------------------------------------
Init ==
  /\ codec \in {"h264", "h265"}
  /\ declared = IF codec = "h264" THEN 40 ELSE 120
  /\ grade = "main"
  /\ stream = [size |-> 0, fps |-> <<0, 1>>, bps |-> 0]

\* The level, profile, tier and bps properties.
SetLevel ==
  /\ \E i \in DOMAIN Table : declared' = Table[i][1]
  /\ UNCHANGED <<codec, grade, stream>>

SetGrade ==
  /\ grade' \in {"main", "high"} \ {grade}
  /\ UNCHANGED <<codec, declared, stream>>

SetBps ==
  /\ \E b \in Bitrates : stream' = [stream EXCEPT !.bps = b]
  /\ UNCHANGED <<codec, declared, grade>>

SetFormat ==
  /\ \E s \in Sizes[codec], f \in FrameRates :
       stream' = [stream EXCEPT !.size = s, !.fps = f]
  /\ UNCHANGED <<codec, declared, grade>>

Next == SetLevel \/ SetGrade \/ SetBps \/ SetFormat

Spec == Init /\ [][Next]_<<codec, declared, grade, stream>>

-----------------------------------------------------------------------------
\* gst_mpp_h264_enc_effective_level, gst_mpp_h265_enc_effective_level: the level
\* that goes out carries the stream on all three axes, also when it is the declared
\* one, which is only compared with the required one by its place in the table;
\* and the stream is refused only when no level carries it.
LevelCarries ==
  stream.size # 0 =>
    IF Effective = Refused THEN \A i \in DOMAIN Table : ~Admits(Table[i])
    ELSE Admits(Table[Index(Effective)])
=============================================================================
