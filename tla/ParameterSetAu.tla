--------------------------- MODULE ParameterSetAu ---------------------------
(***************************************************************************)
(* gst_mpp_dec_is_parameter_set_au (gstmppdec.c): is an input of the       *)
(* decoder nothing but parameter sets?  The MPP makes no picture of such   *)
(* an input, so that handle_frame must release its frame at once; of any   *)
(* other input the frame must wait for its picture.                        *)
(*                                                                         *)
(* Caps choose the codec and how NAL units are told apart: by start codes  *)
(* (nal_length_size 0) or by a length before each of that many bytes.  An  *)
(* input is put together piece by piece; offsets count from 0, as in C.    *)
(***************************************************************************)
EXTENDS Integers, Sequences

CONSTANTS
  Pieces,      \* per codec, the pieces inputs are made of, sequences of bytes
  MaxPieces    \* bound: pieces of an input, per codec

Disabled == 99          \* GST_MPP_DEC_NAL_LENGTH_DISABLED
NoField == -1

VARIABLES
  type,        \* mpp_type: "AVC", "HEVC" or "other"
  nal,         \* nal_length_size
  au,          \* the input, and how many pieces it is made of
  made

Size == Len(au)
At(i) == au[i + 1]
Unit(from, to) == SubSeq(au, from + 1, to)
Least(S) == CHOOSE i \in S : \A j \in S : i <= j
Most(S) == CHOOSE i \in S : \A j \in S : i >= j

-----------------------------------------------------------------------------
\* The field of the codec data (0..3) is a length of 1, 2 or 4 bytes; NoField
\* stands for codec data that is missing or too short to tell.
CodecDataLength(field) == IF field \in {NoField, 2} THEN Disabled ELSE field + 1

NalFormat(t, format, field) ==
  CASE t \in {"AVC", "HEVC"} /\ format = "byte-stream" -> 0
    [] <<t, format>> \in {<<"AVC", "avc">>, <<"AVC", "avc3">>, <<"HEVC", "hvc1">>,
                          <<"HEVC", "hev1">>} -> CodecDataLength(field)
    [] OTHER -> Disabled

\* SPS or PPS; VPS, SPS or PPS.
IsParameterSet(u) ==
  \/ /\ type = "AVC" /\ Len(u) >= 2 /\ u[1] < 128
     /\ u[1] % 32 \in {7, 8}
  \/ /\ type = "HEVC" /\ Len(u) >= 3 /\ u[1] < 128 /\ u[2] % 8 # 0
     /\ u[1] \div 2 \in 32..34

NoCode == [prefix |-> -1, nal |-> -1]

\* The next start code: where it begins, and where the unit after it does.
FindStartCode(from) ==
  LET long(i) == i + 4 <= Size /\ At(i + 2) = 0 /\ At(i + 3) = 1
      I == {i \in from..(Size - 3) : At(i) = 0 /\ At(i + 1) = 0
                                       /\ (At(i + 2) = 1 \/ long(i))}
  IN IF I = {} THEN NoCode
     ELSE [prefix |-> Least(I), nal |-> Least(I) + (IF At(Least(I) + 2) = 1 THEN 3 ELSE 4)]

Untrimmed(from, to) == to      \* mutant of TrimmedEnd: zeros are the unit's

\* The end of a unit without the zeros that follow it.
TrimmedEnd(from, to) == Most({from} \cup {e \in (from + 1)..to : At(e - 1) # 0})

\* The loop over the units, from the one that begins at start.
SetsFrom[start \in 0..Size] ==
  LET next == FindStartCode(start)
      end == TrimmedEnd(start, IF next = NoCode THEN Size ELSE next.prefix)
  IN /\ end > start /\ IsParameterSet(Unit(start, end))
     /\ next # NoCode => next.nal < Size /\ SetsFrom[next.nal]

AnnexB ==
  LET first == FindStartCode(0)
  IN /\ first # NoCode /\ \A i \in 0..(first.prefix - 1) : At(i) = 0
     /\ first.nal < Size /\ SetsFrom[first.nal]

\* The length at an offset, big-endian, byte by byte of at most four.
Number(offset) ==
  LET with(n, i) == IF i < nal THEN n * 256 + At(offset + i) ELSE n
  IN with(with(with(with(0, 0), 1), 2), 3)

\* The loop over the units, from the one whose length is at offset.
LengthsFrom[offset \in 0..Size] ==
  \/ offset = Size
  \/ /\ Size - offset >= nal /\ Number(offset) # 0
     /\ Number(offset) <= Size - offset - nal
     /\ LET end == offset + nal + Number(offset)
        IN IsParameterSet(Unit(offset + nal, end)) /\ LengthsFrom[end]

LengthPrefixed == LengthsFrom[0]

IsParameterSetAu ==
  /\ au # <<>> /\ nal # Disabled
  /\ IF nal = 0 THEN AnnexB ELSE LengthPrefixed

-----------------------------------------------------------------------------
Init == type = "other" /\ nal = Disabled /\ au = <<>> /\ made = 0

\* set_format, between two inputs: gst_mpp_dec_configure_nal_format.
Configure ==
  /\ made = 0
  /\ \E t \in {"AVC", "HEVC", "other"}, field \in NoField..3,
        format \in {"byte-stream", "avc", "avc3", "hvc1", "hev1", "other"} :
       type' = t /\ nal' = NalFormat(t, format, field)
  /\ UNCHANGED <<au, made>>

\* External: upstream makes the input.
Longer ==
  /\ nal # Disabled /\ made < MaxPieces[type]
  /\ \E p \in Pieces[type] : au' = au \o p
  /\ made' = made + 1
  /\ UNCHANGED <<type, nal>>

Next == Configure \/ Longer

Spec == Init /\ [][Next]_<<type, nal, au, made>>

-----------------------------------------------------------------------------
\* The bytes of an input cut at its start codes, and at its lengths.
StartCodes == {i \in 0..(Size - 3) : Unit(i, i + 3) = <<0, 0, 1>>}
UnitAfter(s) ==
  LET end == Least({Size} \cup {n \in StartCodes : n > s})
  IN Unit(s + 3, Most({s + 3} \cup {e \in (s + 4)..end : At(e - 1) # 0}))
ByStartCodes ==
  /\ StartCodes # {}
  /\ \A i \in 0..(Least(StartCodes) - 1) : At(i) = 0
  /\ \A s \in StartCodes : IsParameterSet(UnitAfter(s))
ByLengths ==
  \E cuts \in SUBSET (1..(Size - 1)) :
    \A c \in {0} \cup cuts :
         LET d == Least({Size} \cup {x \in cuts : x > c})
         IN d - c > nal /\ d - c = nal + Number(c) /\ IsParameterSet(Unit(c + nal, d))

\* gst_mpp_dec_is_parameter_set_au: an input is released at once exactly when some
\* way to cut it into its units leaves only parameter sets, whatever zeros, short
\* units and truncated lengths are between them: a frame released too early leaves
\* its picture to be shown as another's, one released too late waits for ever.
AccountedExactly ==
  nal # Disabled /\ au # <<>> =>
    (IsParameterSetAu <=> IF nal = 0 THEN ByStartCodes ELSE ByLengths)
=============================================================================
