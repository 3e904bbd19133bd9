------------------------------- MODULE Codecs -------------------------------
(***************************************************************************)
(* What the codecs decide in one thread at a time: the encoder's restarts  *)
(* (FaultRecovery), its configuration (EncConfig) and levels               *)
(* (CodecLevels), and the decoder's parameter sets (ParameterSetAu), for   *)
(* any values of their constants.  They share no state.                    *)
(***************************************************************************)
EXTENDS FaultRecovery

CONSTANTS
  PictureSizes, Outputs, Strides, Aligned, Rates, Layers, Limits, MaxQueue,   \* EncConfig
  MaxStarts,
  LevelSizes, FrameRates, Bitrates,                                           \* CodecLevels
  Pieces, MaxPieces                                                           \* ParameterSetAu

VARIABLES
  app, enc, mpp, queue, starts,
  codec, declared, grade, stream,
  type, nal, au, made

Enc == INSTANCE EncConfig WITH Sizes <- PictureSizes
Level == INSTANCE CodecLevels WITH Sizes <- LevelSizes
Nal == INSTANCE ParameterSetAu

-----------------------------------------------------------------------------
(* The properties of the instances, under their own names *)

\* EncConfig: with nothing marked dirty, MPP holds what the element reports.
CleanMeansHeld == Enc!CleanMeansHeld

\* CodecLevels: the level that goes out carries the stream.
LevelCarries == Level!LevelCarries

\* ParameterSetAu: an input is released at once exactly when it is parameter sets.
AccountedExactly == Nal!AccountedExactly
=============================================================================
