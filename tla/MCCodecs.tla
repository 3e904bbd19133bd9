------------------------------ MODULE MCCodecs ------------------------------
(***************************************************************************)
(* The codecs' decisions on small instances.  They share no state, so a    *)
(* behaviour picks one in its first state and takes that one's steps: the  *)
(* run explores the union of their states, not the product.                *)
(***************************************************************************)
EXTENDS Codecs

\* Sizes, rates and bit rates at the limits of the tables and one beyond.
MCLevelSizes == [h264 |-> {99, 100, 396, 1620, 8192, 8704, 36864, 139264, 139265},
                 h265 |-> {576, 577, 8640, 34816, 139264, 557056, 557057}]
MCFrameRates == {<<15, 1>>, <<30, 1>>, <<121, 2>>}

MCPieces == [AVC |-> {<<0>>, <<1>>, <<2>>, <<0, 0, 1>>, <<7>>, <<7, 1>>},
             HEVC |-> {<<0>>, <<1>>, <<3>>, <<0, 0, 1>>, <<64, 1, 1>>}]
MCMaxPieces == [AVC |-> 5, HEVC |-> 4]

VARIABLE part                                               \* the one that runs

encVars == <<app, enc, mpp, queue, starts>>
levelVars == <<codec, declared, grade, stream>>
nalVars == <<type, nal, au, made>>

-----------------------------------------------------------------------------
\* The parts that do not run stay in one of their initial states.
CodecsInit ==
  /\ part \in {"recovery", "config", "levels", "nal"}
  /\ Init /\ Enc!Init /\ Nal!Init
  /\ Level!Init /\ (part # "levels" => codec = "h264")

Recovery == /\ part = "recovery" /\ Next
            /\ UNCHANGED <<part, encVars, levelVars, nalVars>>
Config == /\ part = "config" /\ Enc!Next
          /\ UNCHANGED <<part, vars, levelVars, nalVars>>
Levels == /\ part = "levels" /\ Level!Next
          /\ UNCHANGED <<part, vars, encVars, nalVars>>
Nals == /\ part = "nal" /\ Nal!Next
        /\ UNCHANGED <<part, vars, encVars, levelVars>>

CodecsSpec ==
  CodecsInit /\ [][Recovery \/ Config \/ Levels \/ Nals]_<<part, vars, encVars, levelVars, nalVars>>
=============================================================================
