----------------------------- MODULE Parts_proofs -----------------------------
(***************************************************************************)
(* Theorems about the parts that run in one thread, or between two writers *)
(* of one structure: of Codecs, the restarts, the configuration and the    *)
(* levels of the encoders, and the decoder's parameter sets; of Elements,  *)
(* the compositor's outputs, the sink's memories and the source's frames.  *)
(* Each has an inductive invariant of its own, stated first; none needs    *)
(* another's.                                                              *)
(*                                                                         *)
(* Restarts are bounded in every span of time, not only in the windows the *)
(* code happens to open.  That invariant relates any two attempts: those   *)
(* of one window are as far apart in the history as in the window's own    *)
(* count, those of neighbouring windows leave no more than the budget      *)
(* between them, and all others are two widths apart.                      *)
(***************************************************************************)
EXTENDS Codecs, Elements, SequenceLemmas

-----------------------------------------------------------------------------
(* The encoder's restarts *)

\* Attempts a and b, in this order, with "apart" attempts from one to the other.
Related(a, b, apart) ==
  \/ b.win = a.win /\ apart = b.nth - a.nth
  \/ b.win - a.win >= RestartWindow /\ apart <= Budget - a.nth + b.nth
  \/ b.win - a.win >= RestartWindow + RestartWindow

AttemptTimes ==
  \A i \in 1..Len(restarts) :
    LET a == restarts[i]
    IN a.win <= a.at /\ a.at < a.win + RestartWindow /\ (a.nth = 1 => a.at = a.win)

AttemptPairs ==
  \A i, j \in 1..Len(restarts) : i < j => Related(restarts[i], restarts[j], j - i)

\* The newest attempt opened or joined the window the code is counting.
CurrentWindow ==
  /\ budgetFrom <= now
  /\ budgetFrom = 0 => restarts = <<>>
  /\ budgetFrom # 0 => /\ Len(restarts) > 0 /\ attempts >= 1
                       /\ restarts[Len(restarts)].win = budgetFrom
                       /\ restarts[Len(restarts)].nth = attempts

RestartsInv == AttemptTimes /\ AttemptPairs /\ CurrentWindow

-----------------------------------------------------------------------------
\* The two windows and their histories keep their types.
THEOREM TypesHold == Spec => []TypeOK
<1> USE DEF TypeOK
<1>1. ASSUME Init PROVE TypeOK
  <2>1. faults \in Seq(Fault) /\ restarts \in Seq(Attempt)
    BY <1>1 DEF Init
  <2>2. attempts \in 0..Budget
    BY <1>1, WindowsAssumption DEF Init
  <2>3. reading \in BOOLEAN /\ crossed \in BOOLEAN
    BY <1>1 DEF Init
  <2>4. /\ now \in Nat \ {0} /\ lastPoll \in Nat /\ window \in Nat /\ count \in Nat
        /\ budgetFrom \in Nat /\ errors \in Nat
    BY <1>1 DEF Init
  <2> QED BY <2>1, <2>2, <2>3, <2>4
<1>2. TypeOK /\ [Next]_vars => TypeOK'
  <2> SUFFICES ASSUME TypeOK, [Next]_vars PROVE TypeOK'
    OBVIOUS
  <2>0. RestartContext => budgetFrom' \in Nat /\ attempts' \in 0..Budget /\ restarts' \in Seq(Attempt)
    <3> SUFFICES ASSUME RestartContext
                 PROVE  budgetFrom' \in Nat /\ attempts' \in 0..Budget /\ restarts' \in Seq(Attempt)
      OBVIOUS
    <3> DEFINE fresh == Expired(budgetFrom, now, RestartWindow)
               from == IF fresh THEN now ELSE budgetFrom
               used == IF fresh THEN 0 ELSE attempts
    <3>1. from \in Nat /\ used \in 0..Budget
      BY WindowsAssumption
    <3>2. CASE Granted(used)
      <4>1. used + 1 \in 1..Budget
        BY <3>1, <3>2, WindowsAssumption DEF Granted
      <4>2. [at |-> now, win |-> from, nth |-> used + 1] \in Attempt
        BY <3>1, <4>1 DEF Attempt
      <4>3. /\ budgetFrom' = from /\ attempts' = used + 1
            /\ restarts' = Append(restarts, [at |-> now, win |-> from, nth |-> used + 1])
        BY <3>2 DEF RestartContext
      <4>4. used + 1 \in 0..Budget
        BY <4>1
      <4> QED BY <3>1, <4>2, <4>3, <4>4
    <3>3. CASE ~Granted(used)
      BY <3>1, <3>3 DEF RestartContext
    <3> QED BY <3>2, <3>3
  <2>1. CASE PollStart
    BY <2>1 DEF PollStart, budgetVars
  <2>2. CASE OwnedFault
    <3>1. \A over \in BOOLEAN : [at |-> lastPoll, crossed |-> over] \in Fault
      BY DEF Fault
    <3> DEFINE fresh == Expired(window, lastPoll, FaultWindow)
               tally == (IF fresh THEN 0 ELSE count) + 1
    <3>2. tally \in Nat /\ Crosses(tally) \in BOOLEAN
      BY DEF Crosses
    <3>3. faults' = Append(faults, [at |-> lastPoll, crossed |-> Crosses(tally)])
      BY <2>2 DEF OwnedFault, Account
    <3>4. faults' \in Seq(Fault)
      BY <3>1, <3>2, <3>3
    <3>5. window' \in Nat /\ count' \in Nat /\ crossed' \in BOOLEAN
      BY <2>2, <3>2 DEF OwnedFault, Account, Cleared
    <3> QED BY <2>2, <3>4, <3>5 DEF OwnedFault, budgetVars
  <2>3. CASE PollEnd
    BY <2>0, <2>3 DEF PollEnd, budgetVars
  <2>4. CASE RuntimeError
    BY <2>0, <2>4 DEF RuntimeError, bridgeVars
  <2>5. CASE Tick
    BY <2>5 DEF Tick, bridgeVars, budgetVars
  <2>6. CASE UNCHANGED vars
    BY <2>6 DEF vars, bridgeVars, budgetVars
  <2> QED BY <2>1, <2>2, <2>3, <2>4, <2>5, <2>6 DEF Next
<1> QED BY <1>1, <1>2, PTL DEF Spec

-----------------------------------------------------------------------------
\* The arithmetic of Related, on integers, when an attempt opens a window.
LEMMA Opens ==
  ASSUME NEW aw \in Nat, NEW an \in 1..Budget, NEW bw \in Nat, NEW bn \in 1..Budget,
         NEW cw \in Nat, NEW d \in Int, Budget \in Nat \ {0}, RestartWindow \in Nat \ {0},
         cw - bw >= RestartWindow,
         \/ bw = aw /\ d = bn - an
         \/ bw - aw >= RestartWindow /\ d <= Budget - an + bn
         \/ bw - aw >= RestartWindow + RestartWindow
  PROVE  \/ cw - aw >= RestartWindow /\ d + 1 <= Budget - an + 1
         \/ cw - aw >= RestartWindow + RestartWindow
OBVIOUS

-----------------------------------------------------------------------------
\* A granted attempt is the next of the window that is open, or opens one that
\* begins a width or more after the last: it is related to every earlier one.
LEMMA NewAttempt ==
  ASSUME TypeOK, RestartsInv, now' = now, RestartContext
  PROVE  RestartsInv'
<1> USE DEF TypeOK
<1> DEFINE fresh == Expired(budgetFrom, now, RestartWindow)
           from == IF fresh THEN now ELSE budgetFrom
           used == IF fresh THEN 0 ELSE attempts
           new == [at |-> now, win |-> from, nth |-> used + 1]
<1>1. CASE ~Granted(used)
  <2>1. ~fresh /\ UNCHANGED <<budgetFrom, attempts, restarts>>
    BY <1>1, WindowsAssumption DEF RestartContext, Granted
  <2> QED BY <2>1 DEF RestartsInv, AttemptTimes, AttemptPairs, CurrentWindow, Related
<1>2. CASE Granted(used)
  <2>1. /\ budgetFrom' = from /\ attempts' = used + 1 /\ restarts' = Append(restarts, new)
        /\ used \in 0..(Budget - 1) /\ from \in Nat \ {0}
    BY <1>2, WindowsAssumption DEF RestartContext, Granted, Expired
  <2>2. /\ new \in Attempt /\ Len(restarts') = Len(restarts) + 1
        /\ restarts'[Len(restarts) + 1] = new
        /\ \A i \in 1..Len(restarts) : restarts'[i] = restarts[i]
    <3>1. new \in Attempt
      BY <2>1, WindowsAssumption DEF Attempt
    <3> QED BY <2>1, <3>1
  <2>3. new.win <= new.at /\ new.at < new.win + RestartWindow /\ (new.nth = 1 => new.at = new.win)
    <3>1. CASE fresh
      BY <3>1, WindowsAssumption
    <3>2. CASE ~fresh
      BY <3>2, <2>1, WindowsAssumption DEF RestartsInv, CurrentWindow, Expired
    <3> QED BY <3>1, <3>2
  <2>4. ASSUME NEW i \in 1..Len(restarts)
        PROVE  Related(restarts[i], new, Len(restarts) + 1 - i)
    <3> DEFINE latest == restarts[Len(restarts)]
    <3>1. budgetFrom # 0 /\ latest.win = budgetFrom /\ latest.nth = attempts
      BY DEF RestartsInv, CurrentWindow
    <3> DEFINE a == restarts[i]
               d == Len(restarts) - i
    <3>2. /\ a.win \in Nat /\ a.nth \in 1..Budget
          /\ latest.win \in Nat /\ latest.nth \in 1..Budget
      <4>1. Len(restarts) \in 1..Len(restarts)
        OBVIOUS
      <4>2. a \in Attempt /\ latest \in Attempt
        BY <4>1
      <4> QED BY <4>2 DEF Attempt
    <3>3. Related(a, latest, d)
      <4>1. CASE i = Len(restarts)
        <5>1. a = latest /\ d = 0
          BY <4>1
        <5>2. d = latest.nth - a.nth
          BY <5>1, <3>2
        <5> QED BY <5>1, <5>2 DEF Related
      <4>2. CASE i # Len(restarts)
        BY <4>2 DEF RestartsInv, AttemptPairs
      <4> QED BY <4>1, <4>2
    <3>4. d \in Int /\ Len(restarts) + 1 - i = d + 1
      OBVIOUS
    <3>5. CASE fresh
      <4>1. new.win \in Nat /\ new.win - latest.win >= RestartWindow /\ new.nth = 1
        BY <3>1, <3>5, <2>1 DEF Expired
      <4>2. \/ new.win - a.win >= RestartWindow /\ d + 1 <= Budget - a.nth + 1
            \/ new.win - a.win >= RestartWindow + RestartWindow
        <5> HIDE DEF new, latest, a, d
        <5>1. Budget \in Nat \ {0} /\ RestartWindow \in Nat \ {0}
          BY WindowsAssumption
        <5>2. \/ latest.win = a.win /\ d = latest.nth - a.nth
              \/ latest.win - a.win >= RestartWindow /\ d <= Budget - a.nth + latest.nth
              \/ latest.win - a.win >= RestartWindow + RestartWindow
          BY <3>3 DEF Related
        <5> QED BY <3>2, <3>4, <4>1, <5>1, <5>2, Opens, ZenonT(60)
      <4> QED BY <3>4, <4>1, <4>2 DEF Related
    <3>6. CASE ~fresh
      <4>1. new.win = latest.win /\ new.nth = latest.nth + 1
        BY <3>1, <3>6
      <4>2. \/ latest.win = a.win /\ d + 1 = (latest.nth + 1) - a.nth
            \/ latest.win - a.win >= RestartWindow /\ d + 1 <= Budget - a.nth + (latest.nth + 1)
            \/ latest.win - a.win >= RestartWindow + RestartWindow
        <5>1. \/ latest.win = a.win /\ d = latest.nth - a.nth
              \/ latest.win - a.win >= RestartWindow /\ d <= Budget - a.nth + latest.nth
              \/ latest.win - a.win >= RestartWindow + RestartWindow
          BY <3>3 DEF Related
        <5> HIDE DEF new, latest, a, d
        <5>2. latest.nth \in Int /\ a.nth \in Int /\ Budget \in Int
          BY <3>2, WindowsAssumption
        <5>3. d = latest.nth - a.nth => d + 1 = (latest.nth + 1) - a.nth
          BY <3>4, <5>2
        <5>4. d <= Budget - a.nth + latest.nth => d + 1 <= Budget - a.nth + (latest.nth + 1)
          BY SMTT(30), <3>4, <5>2
        <5> QED BY <5>1, <5>3, <5>4
      <4> QED BY <3>4, <4>1, <4>2 DEF Related
    <3> QED BY <3>5, <3>6
  <2>5. AttemptTimes'
    BY <2>2, <2>3 DEF RestartsInv, AttemptTimes
  <2>6. AttemptPairs'
    <3> SUFFICES ASSUME NEW i \in 1..Len(restarts'), NEW j \in 1..Len(restarts'), i < j
                 PROVE  Related(restarts'[i], restarts'[j], j - i)
      BY DEF AttemptPairs, Related
    <3>1. CASE j = Len(restarts) + 1
      <4>1. i \in 1..Len(restarts)
        BY <2>2, <3>1
      <4> QED BY <2>2, <2>4, <3>1, <4>1
    <3>2. CASE j # Len(restarts) + 1
      <4>1. i \in 1..Len(restarts) /\ j \in 1..Len(restarts)
        BY SMTT(30), <2>2, <3>2
      <4> QED BY <2>2, <4>1 DEF RestartsInv, AttemptPairs
    <3> QED BY <3>1, <3>2
  <2>7. CurrentWindow'
    BY <2>1, <2>2 DEF RestartsInv, CurrentWindow
  <2> QED BY <2>5, <2>6, <2>7 DEF RestartsInv
<1> QED BY <1>1, <1>2

\* Two attempts as far apart as twice the budget allows are a width apart.
LEMMA PairsBound ==
  ASSUME TypeOK, RestartsInv
  PROVE  RestartsBounded
<1> SUFFICES ASSUME NEW i \in 1..Len(restarts), NEW j \in 1..Len(restarts),
                    j = i + 2 * Budget - 1
             PROVE  restarts[j].at - restarts[i].at >= RestartWindow
  BY DEF RestartsBounded
<1> DEFINE a == restarts[i]
           b == restarts[j]
           apart == j - i
<1>1. i < j /\ apart = Budget + Budget - 1 /\ apart \in Int
  BY WindowsAssumption DEF TypeOK
<1>2. Related(a, b, apart)
  BY <1>1 DEF RestartsInv, AttemptPairs
<1>3. /\ a.at \in Nat /\ a.win \in Nat /\ a.nth \in 1..Budget
      /\ b.at \in Nat /\ b.win \in Nat /\ b.nth \in 1..Budget
  <2>1. a \in Attempt /\ b \in Attempt
    BY DEF TypeOK
  <2> QED BY <2>1 DEF Attempt
<1>4. /\ a.at < a.win + RestartWindow /\ b.win <= b.at
      /\ a.nth = 1 => a.at = a.win
  BY DEF RestartsInv, AttemptTimes
<1>5. b.at - a.at >= RestartWindow
  <2>1. \/ b.win = a.win /\ apart = b.nth - a.nth
        \/ b.win - a.win >= RestartWindow /\ apart <= Budget - a.nth + b.nth
        \/ b.win - a.win >= RestartWindow + RestartWindow
    BY <1>2 DEF Related
  <2> HIDE DEF a, b, apart
  <2>2. CASE b.win = a.win /\ apart = b.nth - a.nth
    BY <1>1, <1>3, <2>2, WindowsAssumption
  <2>3. CASE b.win - a.win >= RestartWindow /\ apart <= Budget - a.nth + b.nth
    <3>1. a.nth = 1
      BY SMTT(30), <1>1, <1>3, <2>3, WindowsAssumption
    <3> QED BY SMTT(30), <1>3, <1>4, <2>3, <3>1, WindowsAssumption
  <2>4. CASE b.win - a.win >= RestartWindow + RestartWindow
    BY SMTT(30), <1>3, <1>4, <2>4, WindowsAssumption
  <2> QED BY <2>1, <2>2, <2>3, <2>4
<1> QED BY <1>5

\* gst_mpp_enc_restart_context: whatever the budget and the width, twice the
\* budget of restart attempts always takes at least one whole window.
THEOREM RestartsHold == Spec => []RestartsBounded
<1>1. Init => RestartsInv
  BY DEF Init, RestartsInv, AttemptTimes, AttemptPairs, CurrentWindow
<1>2. TypeOK /\ RestartsInv /\ [Next]_vars => RestartsInv'
  <2> SUFFICES ASSUME TypeOK, RestartsInv, [Next]_vars PROVE RestartsInv'
    OBVIOUS
  <2>1. ASSUME UNCHANGED budgetVars, now' \in Nat, now <= now'
        PROVE  RestartsInv'
    BY <2>1 DEF TypeOK, budgetVars, RestartsInv, AttemptTimes, AttemptPairs, CurrentWindow, Related
  <2>2. CASE PollStart
    BY <2>1, <2>2 DEF PollStart, TypeOK
  <2>3. CASE OwnedFault
    BY <2>1, <2>3 DEF OwnedFault, TypeOK
  <2>4. CASE PollEnd
    BY <2>1, <2>4, NewAttempt DEF PollEnd, TypeOK
  <2>5. CASE RuntimeError
    BY <2>5, NewAttempt DEF RuntimeError
  <2>6. CASE Tick
    BY <2>1, <2>6 DEF Tick, TypeOK
  <2>7. CASE UNCHANGED vars
    BY <2>1, <2>7 DEF vars, TypeOK
  <2> QED BY <2>2, <2>3, <2>4, <2>5, <2>6, <2>7 DEF Next
<1>3. TypeOK /\ RestartsInv => RestartsBounded
  BY PairsBound
<1> QED BY <1>1, <1>2, <1>3, TypesHold, PTL DEF Spec

-----------------------------------------------------------------------------
(* The faults.  The window that is open began at the first of its "count"   *)
(* faults, which are the last of the history and none of which crossed; an  *)
(* unbroken run of faults that reaches further back than that window either *)
(* leaves less than the threshold to the window before, or began a whole    *)
(* width before this one.                                                   *)

\* Faults are counted at the poll's own reading of the clock, in its order.
FaultTimes ==
  /\ lastPoll <= now
  /\ reading => lastPoll # 0
  /\ \A i \in 1..Len(faults) : faults[i].at <= lastPoll
  /\ \A i, j \in 1..Len(faults) : i <= j => faults[i].at <= faults[j].at

OpenWindow ==
  /\ count < Threshold /\ count <= Len(faults)
  /\ window = 0 <=> count = 0
  /\ window # 0 => /\ faults[Len(faults) - count + 1].at = window
                   /\ faults[Len(faults)].at - window < FaultWindow
  /\ \A i \in (Len(faults) - count + 1)..Len(faults) : ~faults[i].crossed

\* No fault from the i-th to the j-th made the bridge ask for a restart.
Unbroken(i, j) == \A k \in i..j : ~faults[k].crossed

\* How far back an unbroken run of faults ending now may reach.
RunsBack ==
  \A i \in 1..Len(faults) : Unbroken(i, Len(faults)) =>
    /\ window # 0
    /\ \/ Len(faults) - i < count
       \/ Len(faults) - count - i + 1 < Threshold
       \/ window - faults[i].at >= FaultWindow

FaultsInv == FaultTimes /\ OpenWindow /\ RunsBack /\ CrossingJustified /\ WedgeNoticed

-----------------------------------------------------------------------------
\* gst_mpp_fault_account: one fault more keeps the windows' invariant, whether
\* it opens a window, joins the one that is open or crosses.
LEMMA FaultCounted ==
  ASSUME TypeOK, FaultsInv, reading, Account, UNCHANGED <<now, reading, lastPoll>>
  PROVE  FaultsInv'
<1> USE DEF TypeOK
<1> DEFINE n == Len(faults)
           fresh == Expired(window, lastPoll, FaultWindow)
           kept == IF fresh THEN 0 ELSE count
           from == IF fresh THEN lastPoll ELSE window
           over == Crosses(kept + 1)
           new == [at |-> lastPoll, crossed |-> over]
<1>1. /\ window' = Cleared(over, from) /\ count' = Cleared(over, kept + 1)
      /\ faults' = Append(faults, new)
  BY DEF Account
<1>2. /\ n \in Nat /\ kept \in Nat /\ kept <= n /\ kept < Threshold /\ over \in BOOLEAN
      /\ from \in Nat /\ from # 0 /\ lastPoll # 0 /\ (over <=> kept + 1 >= Threshold)
  BY WindowsAssumption DEF FaultsInv, FaultTimes, OpenWindow, Crosses, Expired
<1>3. /\ new \in Fault /\ Len(faults') = n + 1 /\ faults'[n + 1] = new
      /\ \A i \in 1..n : faults'[i] = faults[i]
  <2>1. new \in Fault
    BY <1>2 DEF Fault
  <2> QED BY <1>1, <2>1
<1>4. \A i \in 1..n : faults[i].at \in Nat /\ faults[i].at <= lastPoll
  <2>1. \A i \in 1..n : faults[i] \in Fault
    OBVIOUS
  <2> QED BY <2>1 DEF Fault, FaultsInv, FaultTimes
<1>5. /\ ~fresh => window # 0 /\ kept = count /\ count # 0 /\ from = window /\ lastPoll - window < FaultWindow
      /\ fresh => kept = 0 /\ from = lastPoll
  BY WindowsAssumption DEF FaultsInv, OpenWindow, Expired
<1>6. /\ from <= lastPoll /\ lastPoll - from < FaultWindow
      /\ \A i \in (n - kept + 1)..n : ~faults[i].crossed
  <2>1. CASE fresh
    BY <1>2, <1>5, <2>1, WindowsAssumption
  <2>2. CASE ~fresh
    <3>1. n - count + 1 \in 1..n /\ faults[n - count + 1].at = window
      BY <1>2, <1>5, <2>2 DEF FaultsInv, OpenWindow
    <3>2. \A i \in (n - count + 1)..n : ~faults[i].crossed
      BY DEF FaultsInv, OpenWindow
    <3> HIDE DEF n, fresh, kept, from
    <3> QED BY <1>4, <1>5, <2>2, <3>1, <3>2
  <2> QED BY <2>1, <2>2
<1>7. (IF kept = 0 THEN lastPoll ELSE faults[n - kept + 1].at) = from
  <2>1. CASE fresh
    BY <1>5, <2>1
  <2>2. CASE ~fresh
    BY <1>5, <2>2 DEF FaultsInv, OpenWindow
  <2> QED BY <2>1, <2>2
<1>8. FaultTimes'
  <2>1. \A i \in 1..(n + 1) : faults'[i].at <= lastPoll
    BY <1>2, <1>3, <1>4
  <2>2. \A i, j \in 1..(n + 1) : i <= j => faults'[i].at <= faults'[j].at
    <3> SUFFICES ASSUME NEW i \in 1..(n + 1), NEW j \in 1..(n + 1), i <= j
                 PROVE  faults'[i].at <= faults'[j].at
      OBVIOUS
    <3>1. CASE j = n + 1
      BY <1>3, <2>1, <3>1
    <3>2. CASE j # n + 1
      <4>1. i \in 1..n /\ j \in 1..n
        BY <1>2, <3>2
      <4> QED BY <1>3, <4>1 DEF FaultsInv, FaultTimes
    <3> QED BY <3>1, <3>2
  <2> QED BY <1>3, <2>1, <2>2 DEF FaultsInv, FaultTimes
<1>9. OpenWindow'
  <2>1. CASE over
    BY <1>1, <1>2, <1>3, <2>1, WindowsAssumption DEF OpenWindow, Cleared
  <2>2. CASE ~over
    <3>1. window' = from /\ count' = kept + 1 /\ ~faults'[n + 1].crossed
      BY <1>1, <1>3, <2>2 DEF Cleared
    <3>2. faults'[Len(faults') - count' + 1].at = from
      <4> HIDE DEF fresh, kept, from
      <4>1. Len(faults') - count' + 1 = n - kept + 1
        BY <1>2, <1>3, <3>1
      <4>2. CASE kept = 0
        BY <1>3, <1>7, <3>1, <4>1, <4>2
      <4>3. CASE kept # 0
        <5>1. n - kept + 1 \in 1..n
          BY <1>2, <4>3
        <5> QED BY <1>3, <1>7, <4>1, <4>3, <5>1
      <4> QED BY <4>2, <4>3
    <3>3. faults'[Len(faults')].at - window' < FaultWindow
      BY <1>3, <1>6, <3>1
    <3>4. ASSUME NEW i \in (Len(faults') - count' + 1)..Len(faults')
          PROVE  ~faults'[i].crossed
      <4> HIDE DEF n, fresh, kept, from
      <4>0. i \in (n + 1 - kept)..(n + 1)
        BY SMTT(30), <1>2, <1>3, <3>1
      <4>1. CASE i = n + 1
        BY <3>1, <4>1
      <4>2. CASE i # n + 1
        <5>1. i \in (n - kept + 1)..n /\ i \in 1..n
          BY <1>2, <4>0, <4>2
        <5> QED BY <1>3, <1>6, <5>1
      <4> QED BY <4>1, <4>2
    <3> HIDE DEF n, fresh, kept, from
    <3>5. count' < Threshold /\ count' <= Len(faults') /\ (window' = 0 <=> count' = 0)
      BY <1>2, <1>3, <2>2, <3>1, WindowsAssumption
    <3>6. \A i \in (Len(faults') - count' + 1)..Len(faults') : ~faults'[i].crossed
      BY <3>4
    <3>7. faults'[Len(faults') - count' + 1].at = window'
      BY <3>1, <3>2
    <3> QED BY <3>3, <3>5, <3>6, <3>7 DEF OpenWindow
  <2> QED BY <2>1, <2>2
<1>10. CrossingJustified'
  <2> SUFFICES ASSUME NEW j \in 1..(n + 1), faults'[j].crossed
               PROVE  /\ j >= Threshold
                      /\ faults'[j].at - faults'[j - Threshold + 1].at < FaultWindow
                      /\ \A i \in (j - Threshold + 1)..(j - 1) : ~faults'[i].crossed
    BY <1>3 DEF CrossingJustified
  <2> HIDE DEF n, fresh, kept, from
  <2>1. CASE j = n + 1
    <3>1. kept + 1 = Threshold
      BY <1>2, <1>3, <2>1, WindowsAssumption
    <3>2. j >= Threshold /\ j - Threshold + 1 = n - kept + 1 /\ j - 1 = n
      BY <1>2, <2>1, <3>1, WindowsAssumption
    <3>3. faults'[n - kept + 1].at = from
      <4>1. CASE kept = 0
        BY <1>2, <1>3, <1>7, <4>1
      <4>2. CASE kept # 0
        <5>1. n - kept + 1 \in 1..n
          BY <1>2, <4>2
        <5> QED BY <1>3, <1>7, <4>2, <5>1
      <4> QED BY <4>1, <4>2
    <3>4. \A i \in (n - kept + 1)..n : i \in 1..n
      BY <1>2
    <3> QED BY <1>3, <1>6, <2>1, <3>2, <3>3, <3>4
  <2>2. CASE j # n + 1
    <3>1. j \in 1..n /\ faults[j].crossed
      BY <1>2, <1>3, <2>2
    <3>2. /\ j >= Threshold
          /\ faults[j].at - faults[j - Threshold + 1].at < FaultWindow
          /\ \A i \in (j - Threshold + 1)..(j - 1) : ~faults[i].crossed
      BY <3>1 DEF n, FaultsInv, CrossingJustified
    <3>3. j - Threshold + 1 \in 1..n /\ \A i \in (j - Threshold + 1)..(j - 1) : i \in 1..n
      BY <1>2, <3>1, <3>2, WindowsAssumption
    <3> QED BY <1>3, <3>1, <3>2, <3>3
  <2> QED BY <2>1, <2>2
<1>11. RunsBack'
  <2> SUFFICES ASSUME NEW i \in 1..Len(faults'), Unbroken(i, Len(faults))'
               PROVE  /\ window' # 0
                      /\ \/ Len(faults') - i < count'
                         \/ Len(faults') - count' - i + 1 < Threshold
                         \/ window' - faults'[i].at >= FaultWindow
    BY DEF RunsBack
  <2>0. i \in 1..(n + 1) /\ \A k \in i..(n + 1) : ~faults'[k].crossed
    BY <1>3 DEF Unbroken
  <2>1. ~over /\ window' = from /\ count' = kept + 1
    <3>1. ~faults'[n + 1].crossed
      BY <1>2, <2>0
    <3>2. ~over
      BY <1>3, <3>1
    <3> HIDE DEF n, fresh, kept, from, over
    <3> QED BY <1>1, <3>2 DEF Cleared
  <2>2. CASE i = n + 1
    BY <1>2, <1>3, <2>1, <2>2
  <2>3. CASE i # n + 1
    <3> HIDE DEF n, fresh, kept, from
    <3>1. i \in 1..n /\ \A k \in i..n : k \in 1..n /\ k \in i..(n + 1)
      BY <1>2, <2>0, <2>3
    <3>2. Unbroken(i, n)
      BY <1>3, <2>0, <3>1 DEF Unbroken
    <3>3. /\ window # 0
          /\ \/ n - i < count
             \/ n - count - i + 1 < Threshold
             \/ window - faults[i].at >= FaultWindow
      BY <3>1, <3>2 DEF n, FaultsInv, RunsBack
    <3>4. count \in Nat /\ count < Threshold /\ count <= n /\ faults[i].at \in Nat /\ faults'[i].at = faults[i].at
      BY <1>3, <1>4, <3>1 DEF n, FaultsInv, OpenWindow
    <3>5. CASE ~fresh
      <4>1. window' = window /\ count' = count + 1 /\ Len(faults') = n + 1
        BY <1>3, <1>5, <2>1, <3>5
      <4> QED BY <1>2, <1>5, <3>1, <3>3, <3>4, <3>5, <4>1
    <3>6. CASE fresh
      <4>1. kept = 0 /\ from = lastPoll /\ lastPoll - window >= FaultWindow
        BY <1>5, <3>3, <3>6 DEF fresh, Expired
      <4>2. CASE n - i < count
        BY <1>2, <1>3, <2>1, <3>1, <3>4, <4>1, <4>2, WindowsAssumption
      <4>3. CASE n - i >= count
        <5>1. count # 0 /\ faults[n - count + 1].at = window
          BY <3>3 DEF n, FaultsInv, OpenWindow
        <5>2. n - count + 1 \in 1..n /\ i <= n - count + 1
          BY <1>2, <3>1, <3>4, <4>3, <5>1
        <5>3. faults[i].at <= window
          BY <3>1, <5>1, <5>2 DEF n, FaultsInv, FaultTimes
        <5>4. lastPoll - faults[i].at >= FaultWindow
          BY <3>4, <4>1, <5>3, WindowsAssumption
        <5> QED BY <1>2, <2>1, <3>4, <4>1, <5>4
      <4> QED BY <1>2, <3>1, <3>4, <4>2, <4>3
    <3> QED BY <3>5, <3>6
  <2> QED BY <2>2, <2>3
<1>12. WedgeNoticed'
  <2> SUFFICES ASSUME NEW i \in 1..(n + 1), NEW j \in 1..(n + 1), j = i + 2 * Threshold - 2,
                      faults'[j].at - faults'[i].at < FaultWindow,
                      \A k \in i..j : ~faults'[k].crossed
               PROVE  FALSE
    BY <1>3 DEF WedgeNoticed
  <2>1. CASE j = n + 1
    <3>0. Unbroken(i, Len(faults))'
      BY <1>3, <2>1 DEF Unbroken
    <3>1. /\ window' # 0
          /\ \/ Len(faults') - i < count'
             \/ Len(faults') - count' - i + 1 < Threshold
             \/ window' - faults'[i].at >= FaultWindow
      BY <1>3, <1>11, <3>0 DEF RunsBack
    <3>2. count' \in Nat /\ count' < Threshold /\ window' = from
      BY SMTT(30), <1>1, <1>2, <1>9, <3>1 DEF OpenWindow, Cleared
    <3>3. Len(faults') - i = Threshold + Threshold - 2 /\ Len(faults') \in Int /\ i \in Int
      <4> HIDE DEF n
      <4> QED BY SMTT(30), <1>2, <1>3, <2>1, WindowsAssumption
    <3>4. window' - faults'[i].at >= FaultWindow
      <4> DEFINE L == Len(faults')
                 c == count'
      <4> HIDE DEF n, from, fresh, kept
      <4>1. L - i = Threshold + Threshold - 2 /\ L \in Int /\ i \in Int /\ c \in Nat /\ c < Threshold
        BY <3>2, <3>3
      <4>2. L - i < c \/ L - c - i + 1 < Threshold \/ window' - faults'[i].at >= FaultWindow
        BY <3>1
      <4> HIDE DEF L, c
      <4>3. ~(L - i < c) /\ ~(L - c - i + 1 < Threshold)
        BY <4>1, WindowsAssumption
      <4> QED BY <4>2, <4>3
    <3>5. faults'[j].at = lastPoll /\ faults'[i].at \in Nat
      BY <1>2, <1>3, <1>4, <2>1
    <3> HIDE DEF n, from, fresh, kept
    <3> QED BY SMTT(30), <1>2, <1>6, <3>2, <3>4, <3>5, WindowsAssumption
  <2>2. CASE j # n + 1
    <3>1. j \in 1..n /\ i \in 1..n /\ \A k \in i..j : k \in 1..n
      BY <1>2, <2>2, WindowsAssumption
    <3> HIDE DEF n
    <3>2. \E k \in i..j : faults[k].crossed
      BY <1>3, <3>1 DEF n, FaultsInv, WedgeNoticed
    <3> QED BY <1>3, <3>1, <3>2
  <2> QED BY <2>1, <2>2
<1> QED BY <1>8, <1>9, <1>10, <1>11, <1>12 DEF FaultsInv

\* The windows' invariant holds initially and no step breaks it.
LEMMA FaultsInvariant == Spec => []FaultsInv
<1>1. Init => FaultsInv
  <2> SUFFICES ASSUME Init PROVE FaultsInv
    OBVIOUS
  <2>1. Len(faults) = 0 /\ 1..Len(faults) = {}
    BY DEF Init
  <2>2. FaultTimes /\ OpenWindow /\ RunsBack
    BY <2>1, WindowsAssumption DEF Init, FaultTimes, OpenWindow, RunsBack
  <2>3. CrossingJustified /\ WedgeNoticed
    BY <2>1 DEF CrossingJustified, WedgeNoticed
  <2> QED BY <2>2, <2>3 DEF FaultsInv
<1>2. TypeOK /\ FaultsInv /\ [Next]_vars => FaultsInv'
  <2> SUFFICES ASSUME TypeOK, FaultsInv, [Next]_vars PROVE FaultsInv'
    OBVIOUS
  <2>1. ASSUME UNCHANGED <<window, count, faults>>, now' \in Nat, lastPoll' \in Nat,
               now <= now', lastPoll <= lastPoll', lastPoll' <= now', reading' => lastPoll' # 0
        PROVE  FaultsInv'
    <3>1. \A i \in 1..Len(faults) : faults[i].at \in Nat /\ faults[i].at <= lastPoll'
      <4>1. \A i \in 1..Len(faults) : faults[i] \in Fault
        BY DEF TypeOK
      <4> QED BY <2>1, <4>1 DEF TypeOK, Fault, FaultsInv, FaultTimes
    <3>2. FaultTimes'
      BY <2>1, <3>1 DEF TypeOK, FaultsInv, FaultTimes
    <3>3. OpenWindow' /\ RunsBack' /\ CrossingJustified' /\ WedgeNoticed'
      BY <2>1 DEF FaultsInv, OpenWindow, RunsBack, Unbroken, CrossingJustified, WedgeNoticed
    <3> QED BY <3>2, <3>3 DEF FaultsInv
  <2>2. lastPoll <= now /\ (reading => lastPoll # 0)
    BY DEF FaultsInv, FaultTimes
  <2>3. CASE PollStart
    BY <2>1, <2>2, <2>3 DEF PollStart, TypeOK
  <2>4. CASE OwnedFault
    BY <2>4, FaultCounted DEF OwnedFault
  <2>5. CASE PollEnd
    BY <2>1, <2>2, <2>5 DEF PollEnd, TypeOK
  <2>6. CASE RuntimeError
    BY <2>1, <2>2, <2>6 DEF RuntimeError, bridgeVars, TypeOK
  <2>7. CASE Tick
    BY <2>1, <2>2, <2>7 DEF Tick, bridgeVars, TypeOK
  <2>8. CASE UNCHANGED vars
    BY <2>1, <2>2, <2>8 DEF vars, bridgeVars, TypeOK
  <2> QED BY <2>3, <2>4, <2>5, <2>6, <2>7, <2>8 DEF Next
<1> QED BY <1>1, <1>2, TypesHold, PTL DEF Spec

\* gst_mpp_fault_account: whatever the threshold and the width, a crossing
\* rests on a threshold of faults inside one window that served no other.
THEOREM CrossingsHold == Spec => []CrossingJustified
<1>1. FaultsInv => CrossingJustified
  BY DEF FaultsInv
<1> QED BY <1>1, FaultsInvariant, PTL

\* gst_mpp_fault_account: however the faults of a wedged encoder fall against
\* the tumbling window, one short of twice the threshold always crosses.
THEOREM WedgesNoticed == Spec => []WedgeNoticed
<1>1. FaultsInv => WedgeNoticed
  BY DEF FaultsInv
<1> QED BY <1>1, FaultsInvariant, PTL

-----------------------------------------------------------------------------
(* The encoder's configuration: clean flags tell the truth *)

SizesOf == PictureSizes \cup Outputs \cup {0}
RatesOf == Rates \cup {0, CHOOSE r \in Rates : TRUE}
LayersOf == Layers \cup {0}
LevelsOf == {0} \cup {Enc!EffectiveLevel(s, r) : s \in SizesOf, r \in RatesOf}
GeometriesOf == [size : SizesOf, stride : Strides \cup {0, Aligned}]
CfgsOf == [prep : GeometriesOf, rate : RatesOf, level : LevelsOf]
EncSet == [prop : BOOLEAN, ref : BOOLEAN, res : BOOLEAN, err : BOOLEAN, lost : BOOLEAN,
           input : SizesOf, info : GeometriesOf, frame : GeometriesOf,
           cfg : CfgsOf, refcfg : LayersOf, caps : [size : SizesOf, level : LevelsOf]]
MppSet == [cfg : CfgsOf, refs : LayersOf]
AppSet == [rate : RatesOf, layers : LayersOf, size : SizesOf]

\* An element with nothing left to write.
Clean(e) == ~e.prop /\ ~e.err /\ ~e.lost

\* What holds of the element and of MPP between any two steps of a frame: one geometry;
\* references that are not marked dirty are those asked for, in the element's struct as
\* in MPP; and with nothing left to write the two structs are the same, with the rate
\* asked for and the level published.
Agree(e, m) ==
  /\ e.frame = e.info /\ e.cfg.prep = e.info
  /\ starts = 1 /\ ~e.ref =>
       /\ m.refs = Enc!Flat(app.layers)
       /\ (IF app.layers < 2 THEN 0 ELSE e.refcfg) = Enc!Flat(app.layers)
  /\ Clean(e) => /\ ~e.ref /\ m.cfg = e.cfg /\ e.cfg.rate = app.rate
                 /\ e.caps = [size |-> e.info.size, level |-> e.cfg.level]

ConfigInv ==
  /\ app \in AppSet /\ enc \in EncSet /\ mpp \in MppSet /\ starts \in Nat \ {0}
  /\ Agree(enc, mpp)

\* The element and MPP in the middle of a frame.
Good(p) == /\ p = [ok |-> p.ok, e |-> p.e, m |-> p.m, q |-> p.q]
           /\ p.ok \in BOOLEAN /\ p.e \in EncSet /\ p.m \in MppSet /\ Agree(p.e, p.m)

LEMMA StridedIs ==
  ASSUME NEW e \in EncSet, NEW g \in GeometriesOf
  PROVE  /\ Enc!Strided(e, g) \in EncSet
         /\ LET s == Enc!Strided(e, g)
            IN /\ s.frame = g /\ s.info = g /\ s.cfg.prep = g
               /\ s.ref = e.ref /\ s.refcfg = e.refcfg /\ s.res = e.res /\ s.input = e.input
               /\ s.cfg.rate = e.cfg.rate /\ s.cfg.level = e.cfg.level /\ s.caps = e.caps
               /\ s.err = e.err /\ s.lost = e.lost
               /\ (s.prop <=> e.prop \/ g.stride # e.info.stride)
<1> DEFINE c == [e.cfg EXCEPT !.prep = g]
           b == e.prop \/ g.stride # e.info.stride
           s == [e EXCEPT !.frame = g, !.cfg = c, !.info = g, !.prop = b]
<1>1. e.cfg \in CfgsOf
  BY DEF EncSet
<1>2. c \in CfgsOf /\ c.prep = g /\ c.rate = e.cfg.rate /\ c.level = e.cfg.level
  BY <1>1 DEF CfgsOf
<1>3. b \in BOOLEAN /\ (b <=> e.prop \/ g.stride # e.info.stride)
  OBVIOUS
<1>4. Enc!Strided(e, g) = s
  BY DEF Enc!Strided, EncSet
<1> HIDE DEF c, b
<1>5. s \in EncSet
  BY <1>2, <1>3 DEF EncSet
<1>6. /\ s.frame = g /\ s.info = g /\ s.cfg = c /\ s.prop = b
      /\ s.ref = e.ref /\ s.refcfg = e.refcfg /\ s.res = e.res /\ s.input = e.input
      /\ s.caps = e.caps /\ s.err = e.err /\ s.lost = e.lost
  BY DEF EncSet
<1> HIDE DEF s
<1> QED BY <1>2, <1>3, <1>4, <1>5, <1>6

LEMMA LevelledIs ==
  ASSUME app \in AppSet, NEW e \in EncSet, NEW level \in LevelsOf
  PROVE  LET l == Enc!Levelled(e, level)
         IN /\ l \in EncSet
            /\ l.refcfg = (IF e.ref /\ ~(app.layers < 2) THEN app.layers ELSE e.refcfg)
            /\ l.cfg.prep = e.cfg.prep /\ l.cfg.level = (IF level = 0 THEN e.cfg.level ELSE level)
            /\ l.frame = e.frame /\ l.info = e.info /\ l.ref = e.ref /\ l.prop = e.prop
            /\ l.err = e.err /\ l.lost = e.lost /\ l.caps = e.caps
<1> DEFINE k == IF level = 0 THEN e.cfg.level ELSE level
           c == [e.cfg EXCEPT !.level = k]
           r == IF e.ref THEN Enc!RefCfg(e, app.layers) ELSE e.refcfg
           l == [e EXCEPT !.cfg = c, !.refcfg = r]
<1>1. e.cfg \in CfgsOf /\ e.refcfg \in LayersOf /\ app.layers \in LayersOf
  BY DEF EncSet, AppSet
<1>2. k \in LevelsOf
  BY <1>1 DEF CfgsOf
<1>3. r \in LayersOf /\ r = (IF e.ref /\ ~(app.layers < 2) THEN app.layers ELSE e.refcfg)
  BY <1>1 DEF Enc!RefCfg
<1>4. Enc!Levelled(e, level) = l
  BY DEF Enc!Levelled, EncSet
<1> HIDE DEF k, r
<1>5. c \in CfgsOf /\ c.prep = e.cfg.prep /\ c.level = k
  BY <1>1, <1>2 DEF CfgsOf
<1> HIDE DEF c
<1>6. l \in EncSet
  BY <1>3, <1>5 DEF EncSet
<1>7. /\ l.refcfg = r /\ l.cfg = c /\ l.frame = e.frame /\ l.info = e.info /\ l.ref = e.ref
      /\ l.prop = e.prop /\ l.err = e.err /\ l.lost = e.lost /\ l.caps = e.caps
  BY DEF EncSet
<1> HIDE DEF l
<1> QED BY <1>3, <1>4, <1>5, <1>6, <1>7 DEF k

\* What is written for MPP: the rate and the references asked for.
LEMMA WrittenIs ==
  ASSUME app \in AppSet, NEW e \in EncSet, NEW level \in LevelsOf
  PROVE  LET l == Enc!Written(e, level)
         IN /\ l \in EncSet
            /\ l.refcfg = (IF e.ref /\ ~(app.layers < 2) THEN app.layers ELSE e.refcfg)
            /\ l.cfg.prep = e.cfg.prep /\ l.cfg.level = (IF level = 0 THEN e.cfg.level ELSE level)
            /\ l.cfg.rate = app.rate /\ ~l.prop /\ ~l.ref
            /\ l.frame = e.frame /\ l.info = e.info
            /\ l.err = e.err /\ l.lost = e.lost /\ l.caps = e.caps
<1> DEFINE v == Enc!Levelled(e, level)
           c == [v.cfg EXCEPT !.rate = app.rate]
           l == [v EXCEPT !.prop = FALSE, !.ref = FALSE, !.cfg = c]
<1>1. /\ v \in EncSet
      /\ v.refcfg = (IF e.ref /\ ~(app.layers < 2) THEN app.layers ELSE e.refcfg)
      /\ v.cfg.prep = e.cfg.prep /\ v.cfg.level = (IF level = 0 THEN e.cfg.level ELSE level)
      /\ v.frame = e.frame /\ v.info = e.info /\ v.err = e.err /\ v.lost = e.lost /\ v.caps = e.caps
  BY LevelledIs
<1>2. Enc!Written(e, level) = l
  BY <1>1 DEF Enc!Written, EncSet
<1> HIDE DEF v
<1>3. v.cfg \in CfgsOf /\ app.rate \in RatesOf
  BY <1>1 DEF EncSet, AppSet
<1>4. c \in CfgsOf /\ c.prep = v.cfg.prep /\ c.level = v.cfg.level /\ c.rate = app.rate
  BY <1>3 DEF CfgsOf
<1> HIDE DEF c
<1>5. l \in EncSet
  BY <1>1, <1>4 DEF EncSet
<1>6. /\ l.refcfg = v.refcfg /\ l.cfg = c /\ l.frame = v.frame /\ l.info = v.info /\ ~l.ref
      /\ ~l.prop /\ l.err = v.err /\ l.lost = v.lost /\ l.caps = v.caps
  BY <1>1 DEF EncSet
<1> HIDE DEF l
<1> QED BY <1>1, <1>2, <1>4, <1>5, <1>6

LEMMA Paired ==
  ASSUME NEW b \in BOOLEAN, NEW x \in EncSet, NEW y \in MppSet, NEW z, Agree(x, y)
  PROVE  Good([ok |-> b, e |-> x, m |-> y, q |-> z])
BY DEF Good

LEMMA Raised ==
  ASSUME NEW e \in EncSet
  PROVE  /\ [e EXCEPT !.err = TRUE] \in EncSet /\ [e EXCEPT !.lost = TRUE] \in EncSet
         /\ [e EXCEPT !.ref = TRUE, !.prop = TRUE] \in EncSet
         /\ \A x \in {[e EXCEPT !.err = TRUE], [e EXCEPT !.lost = TRUE]} :
              /\ ~Clean(x)
              /\ x.ref = e.ref /\ x.refcfg = e.refcfg /\ x.frame = e.frame /\ x.info = e.info
              /\ x.cfg = e.cfg
         /\ LET x == [e EXCEPT !.ref = TRUE, !.prop = TRUE]
            IN /\ ~Clean(x) /\ x.ref
               /\ x.frame = e.frame /\ x.info = e.info /\ x.cfg = e.cfg
BY DEF EncSet, Clean

\* The element is raised to a level and its references, or has everything written.
LEMMA ReferencesKept ==
  ASSUME app \in AppSet, NEW e \in EncSet, NEW m \in MppSet, Agree(e, m), starts = 1,
         NEW k, k = (IF e.ref /\ ~(app.layers < 2) THEN app.layers ELSE e.refcfg),
         NEW refs, refs = (IF e.ref THEN Enc!Flat(app.layers) ELSE m.refs)
  PROVE  /\ refs = Enc!Flat(app.layers)
         /\ (IF app.layers < 2 THEN 0 ELSE k) = Enc!Flat(app.layers)
<1>1. CASE e.ref
  BY <1>1 DEF Enc!Flat
<1>2. CASE ~e.ref
  BY <1>2 DEF Agree
<1> QED BY <1>1, <1>2

\* gst_mpp_enc_apply_properties_full, whatever MPP answers.
LEMMA AppliedGood ==
  ASSUME app \in AppSet, NEW p, Good(p), NEW answer
  PROVE  Good(Enc!Applied(p, answer))
<1> DEFINE level == Enc!EffectiveLevel(p.e.info.size, app.rate)
           v == Enc!Levelled(p.e, level)
           e == Enc!Written(p.e, level)
           refs == IF p.e.ref THEN Enc!Flat(app.layers) ELSE p.m.refs
           r == Enc!Applied(p, answer)
           m == [p.m EXCEPT !.refs = refs]
<1>1. p.e \in EncSet /\ p.m \in MppSet /\ p.e.info \in GeometriesOf /\ app.rate \in RatesOf
      /\ app.layers \in LayersOf /\ p.m.refs \in LayersOf /\ Agree(p.e, p.m)
  BY DEF Good, EncSet, AppSet, MppSet
<1>2. level \in LevelsOf
  <2>1. p.e.info.size \in SizesOf
    BY <1>1 DEF GeometriesOf
  <2> QED BY <1>1, <2>1 DEF LevelsOf
<1>3. refs \in LayersOf
  BY <1>1 DEF Enc!Flat, LayersOf
<1>4. m \in MppSet /\ m.refs = refs
  BY <1>1, <1>3 DEF MppSet
<1>5. p = [ok |-> p.ok, e |-> p.e, m |-> p.m, q |-> p.q] /\ p.ok \in BOOLEAN
  BY DEF Good
<1>6. \/ r = [p EXCEPT !.ok = FALSE]
      \/ r = p
      \/ r = [p EXCEPT !.ok = FALSE, !.e = [v EXCEPT !.ref = TRUE, !.prop = TRUE]]
      \/ r = [p EXCEPT !.ok = FALSE, !.e = [e EXCEPT !.err = TRUE], !.m = m]
      \/ r = [p EXCEPT !.ok = FALSE, !.e = [e EXCEPT !.lost = TRUE], !.m = m]
      \/ /\ r = [p EXCEPT !.e = [e EXCEPT !.lost = FALSE,
                                          !.caps = [size |-> e.info.size, level |-> level]],
                          !.m = [cfg |-> e.cfg, refs |-> refs]]
         /\ level # 0 /\ ~p.e.err
  BY Zenon DEF Enc!Applied, Enc!Refused, Enc!RefsRefused
<1>7. /\ v \in EncSet
      /\ v.cfg.prep = p.e.cfg.prep /\ v.frame = p.e.frame /\ v.info = p.e.info
  BY <1>1, <1>2, LevelledIs
<1>8. /\ e \in EncSet
      /\ e.refcfg = (IF p.e.ref /\ ~(app.layers < 2) THEN app.layers ELSE p.e.refcfg)
      /\ e.cfg.prep = p.e.cfg.prep /\ e.cfg.level = (IF level = 0 THEN p.e.cfg.level ELSE level)
      /\ e.cfg.rate = app.rate /\ ~e.prop /\ ~e.ref
      /\ e.frame = p.e.frame /\ e.info = p.e.info
      /\ e.err = p.e.err /\ e.lost = p.e.lost /\ e.caps = p.e.caps
  BY <1>1, <1>2, WrittenIs
<1>9. starts = 1 => /\ refs = Enc!Flat(app.layers)
                    /\ (IF app.layers < 2 THEN 0 ELSE e.refcfg) = Enc!Flat(app.layers)
  <2> HIDE DEF e, refs
  <2>1. refs = (IF p.e.ref THEN Enc!Flat(app.layers) ELSE p.m.refs)
    BY DEF refs
  <2> QED BY <1>1, <1>8, <2>1, ReferencesKept
<1> HIDE DEF v, e, refs, m, r, level
<1>10. p.e.frame = p.e.info /\ p.e.cfg.prep = p.e.info
  BY <1>1 DEF Agree
<1>11. ASSUME r = [p EXCEPT !.ok = FALSE] \/ r = p
       PROVE  Good(r)
  <2>1. r = [ok |-> r.ok, e |-> p.e, m |-> p.m, q |-> p.q] /\ r.ok \in BOOLEAN
    BY <1>5, <1>11
  <2> QED BY <1>1, <2>1, Paired
<1>12. ASSUME r = [p EXCEPT !.ok = FALSE, !.e = [v EXCEPT !.ref = TRUE, !.prop = TRUE]]
       PROVE  Good(r)
  <2> DEFINE x == [v EXCEPT !.ref = TRUE, !.prop = TRUE]
  <2>1. x \in EncSet /\ ~Clean(x) /\ x.ref /\ x.frame = v.frame /\ x.info = v.info /\ x.cfg = v.cfg
    BY <1>7, Raised
  <2> HIDE DEF x
  <2>2. Agree(x, p.m)
    BY <1>7, <1>10, <2>1 DEF Agree
  <2>3. r = [ok |-> FALSE, e |-> x, m |-> p.m, q |-> p.q]
    BY <1>5, <1>12 DEF x
  <2> QED BY <1>1, <2>1, <2>2, <2>3, Paired
<1>13. ASSUME NEW x \in {[e EXCEPT !.err = TRUE], [e EXCEPT !.lost = TRUE]},
              r = [p EXCEPT !.ok = FALSE, !.e = x, !.m = m]
       PROVE  Good(r)
  <2>1. /\ x \in EncSet /\ ~Clean(x) /\ x.ref = e.ref /\ x.refcfg = e.refcfg
        /\ x.frame = e.frame /\ x.info = e.info /\ x.cfg = e.cfg
    BY <1>8, Raised
  <2>2. Agree(x, m)
    BY <1>4, <1>8, <1>9, <1>10, <2>1 DEF Agree
  <2>3. r = [ok |-> FALSE, e |-> x, m |-> m, q |-> p.q]
    BY <1>5, <1>13
  <2> QED BY <1>4, <2>1, <2>2, <2>3, Paired
<1>14. ASSUME r = [p EXCEPT !.e = [e EXCEPT !.lost = FALSE,
                                            !.caps = [size |-> e.info.size, level |-> level]],
                            !.m = [cfg |-> e.cfg, refs |-> refs]],
              level # 0, ~p.e.err
       PROVE  Good(r)
  <2> DEFINE x == [e EXCEPT !.lost = FALSE, !.caps = [size |-> e.info.size, level |-> level]]
             y == [cfg |-> e.cfg, refs |-> refs]
  <2>1. e.info.size \in SizesOf
    BY <1>8 DEF EncSet, GeometriesOf
  <2>2. [size |-> e.info.size, level |-> level] \in [size : SizesOf, level : LevelsOf]
    BY <1>2, <2>1
  <2>3. /\ x \in EncSet /\ x.ref = e.ref /\ x.refcfg = e.refcfg /\ x.frame = e.frame
        /\ x.info = e.info /\ x.cfg = e.cfg
        /\ x.caps = [size |-> e.info.size, level |-> level]
    BY <1>8, <2>2 DEF EncSet
  <2>4. y \in MppSet /\ y.cfg = e.cfg /\ y.refs = refs
    BY <1>3, <1>8 DEF MppSet, EncSet
  <2> HIDE DEF x, y
  <2>5. Agree(x, y)
    BY <1>8, <1>9, <1>10, <1>14, <2>3, <2>4 DEF Agree
  <2>6. r = [ok |-> p.ok, e |-> x, m |-> y, q |-> p.q]
    BY <1>5, <1>14 DEF x, y
  <2> QED BY <1>5, <2>3, <2>4, <2>5, <2>6, Paired
<1>15. Good(r)
  BY <1>6, <1>11, <1>12, <1>13, <1>14
<1> QED BY <1>15 DEF r

\* An element that still has something to write may have another geometry.
LEMMA Moved ==
  ASSUME NEW e, NEW m, Agree(e, m), NEW x, NEW y, x.ref = e.ref, x.refcfg = e.refcfg,
         x.frame = x.info, x.cfg.prep = x.info, y.refs = m.refs, ~Clean(x)
  PROVE  Agree(x, y)
BY DEF Agree

LEMMA TargetIs ==
  ASSUME app \in AppSet, NEW s \in SizesOf
  PROVE  Enc!Target(s) \in GeometriesOf
BY DEF AppSet, Enc!Target, GeometriesOf

LEMMA RescaledGood ==
  ASSUME app \in AppSet, NEW p, Good(p), NEW reject
  PROVE  Good(Enc!Rescaled(p, reject))
<1> DEFINE d == Enc!Drained(p)
           g == Enc!Target(p.e.input)
           x == [p.e EXCEPT !.res = FALSE, !.prop = TRUE]
           e == Enc!Strided(x, g)
           c == [e.caps EXCEPT !.size = e.info.size]
           r == Enc!Rescaled(p, reject)
<1>1. /\ p = [ok |-> p.ok, e |-> p.e, m |-> p.m, q |-> p.q] /\ p.ok \in BOOLEAN
      /\ p.e \in EncSet /\ p.m \in MppSet /\ Agree(p.e, p.m)
  BY DEF Good
<1>2. d = [ok |-> p.ok, e |-> p.e, m |-> p.m, q |-> <<>>]
  BY <1>1 DEF Enc!Drained
<1>3. g \in GeometriesOf
  BY <1>1, TargetIs DEF EncSet
<1>4. x \in EncSet /\ x.ref = p.e.ref /\ x.refcfg = p.e.refcfg /\ x.prop
  BY <1>1 DEF EncSet
<1>5. d.e = p.e
  BY <1>2
<1>6. \/ r = p
      \/ r = [d EXCEPT !.ok = FALSE, !.e = [e EXCEPT !.err = TRUE]]
      \/ r = [d EXCEPT !.e = [e EXCEPT !.caps = c], !.m = [d.m EXCEPT !.cfg = e.cfg]]
  BY <1>5, Zenon DEF Enc!Rescaled
<1> HIDE DEF x, g
<1>7. /\ e \in EncSet /\ e.frame = g /\ e.info = g /\ e.cfg.prep = g /\ e.prop
      /\ e.ref = p.e.ref /\ e.refcfg = p.e.refcfg
  BY <1>3, <1>4, StridedIs
<1> HIDE DEF d, e, r
<1>8. ASSUME r = [d EXCEPT !.ok = FALSE, !.e = [e EXCEPT !.err = TRUE]] PROVE Good(r)
  <2> DEFINE y == [e EXCEPT !.err = TRUE]
  <2>1. /\ y \in EncSet /\ ~Clean(y) /\ y.ref = e.ref /\ y.refcfg = e.refcfg
        /\ y.frame = e.frame /\ y.info = e.info /\ y.cfg = e.cfg
    BY <1>7, Raised
  <2> HIDE DEF y
  <2>2. Agree(y, p.m)
    BY <1>1, <1>7, <2>1, Moved
  <2>3. r = [ok |-> FALSE, e |-> y, m |-> p.m, q |-> <<>>]
    BY <1>2, <1>8 DEF y
  <2> QED BY <1>1, <2>1, <2>2, <2>3, Paired
<1>9. ASSUME r = [d EXCEPT !.e = [e EXCEPT !.caps = c], !.m = [d.m EXCEPT !.cfg = e.cfg]]
      PROVE  Good(r)
  <2> DEFINE y == [e EXCEPT !.caps = c]
             m == [p.m EXCEPT !.cfg = e.cfg]
  <2>1. c \in [size : SizesOf, level : LevelsOf]
    BY <1>3, <1>7 DEF EncSet, GeometriesOf
  <2> HIDE DEF c
  <2>2. /\ y \in EncSet /\ ~Clean(y) /\ y.ref = e.ref /\ y.refcfg = e.refcfg
        /\ y.frame = e.frame /\ y.info = e.info /\ y.cfg = e.cfg
    BY <1>7, <2>1 DEF EncSet, Clean
  <2>3. m \in MppSet /\ m.refs = p.m.refs
    BY <1>1, <1>7 DEF EncSet, MppSet
  <2>4. r = [ok |-> p.ok, e |-> y, m |-> m, q |-> <<>>]
    BY <1>2, <1>9
  <2> HIDE DEF y, m
  <2>5. Agree(y, m)
    BY <1>1, <1>7, <2>2, <2>3, Moved
  <2> QED BY <1>1, <2>2, <2>3, <2>4, <2>5, Paired
<1>10. Good(r)
  BY <1>6, <1>8, <1>9
<1> QED BY <1>10 DEF r

LEMMA QueuedGood ==
  ASSUME NEW p, Good(p), NEW own, own # 0 => own \in Strides \ {p.e.info.stride}, NEW refused
  PROVE  Good(Enc!Queued(p, own, refused))
<1> DEFINE g == [p.e.info EXCEPT !.stride = own]
           e == Enc!Strided(p.e, g)
           r == Enc!Queued(p, own, refused)
<1>1. /\ p = [ok |-> p.ok, e |-> p.e, m |-> p.m, q |-> p.q] /\ p.ok \in BOOLEAN
      /\ p.e \in EncSet /\ p.m \in MppSet /\ Agree(p.e, p.m)
  BY DEF Good
<1>2. \/ r = p
      \/ r = [p EXCEPT !.q = Append(p.q, p.e.info)]
      \/ own # 0 /\ r = [p EXCEPT !.ok = FALSE, !.e = e]
      \/ own # 0 /\ r = [p EXCEPT !.e = e, !.q = Append(p.q, g), !.m = [p.m EXCEPT !.cfg = e.cfg]]
  BY Zenon DEF Enc!Queued
<1>3. CASE r = p
  BY <1>3
<1>4. CASE r = [p EXCEPT !.q = Append(p.q, p.e.info)]
  <2>1. r = [ok |-> p.ok, e |-> p.e, m |-> p.m, q |-> Append(p.q, p.e.info)]
    BY <1>1, <1>4
  <2> QED BY <1>1, <2>1, Paired
<1>5. ASSUME own # 0
      PROVE  /\ e \in EncSet /\ ~Clean(e) /\ e.ref = p.e.ref /\ e.refcfg = p.e.refcfg
             /\ e.frame = e.info /\ e.cfg.prep = e.info
  <2>1. p.e.info \in GeometriesOf
    BY <1>1 DEF EncSet
  <2>2. g \in GeometriesOf /\ g.stride # p.e.info.stride
    BY <1>5, <2>1 DEF GeometriesOf
  <2> HIDE DEF g
  <2> QED BY <1>1, <2>2, StridedIs DEF Clean
<1> HIDE DEF e, g
<1>6. CASE own # 0 /\ r = [p EXCEPT !.ok = FALSE, !.e = e]
  <2>1. r = [ok |-> FALSE, e |-> e, m |-> p.m, q |-> p.q]
    BY <1>1, <1>6
  <2>2. Agree(e, p.m)
    BY <1>1, <1>5, <1>6, Moved
  <2>3. e \in EncSet
    BY <1>5, <1>6
  <2>4. Good([ok |-> FALSE, e |-> e, m |-> p.m, q |-> p.q])
    BY <1>1, <2>2, <2>3, Paired
  <2> QED BY <2>1, <2>4
<1>7. CASE own # 0 /\ r = [p EXCEPT !.e = e, !.q = Append(p.q, g), !.m = [p.m EXCEPT !.cfg = e.cfg]]
  <2> DEFINE m == [p.m EXCEPT !.cfg = e.cfg]
  <2>1. m \in MppSet /\ m.refs = p.m.refs
    BY <1>1, <1>5, <1>7 DEF EncSet, MppSet
  <2>2. r = [ok |-> p.ok, e |-> e, m |-> m, q |-> Append(p.q, g)]
    BY <1>1, <1>7
  <2> HIDE DEF m
  <2>3. Agree(e, m)
    BY <1>1, <1>5, <1>7, <2>1, Moved
  <2>4. e \in EncSet
    BY <1>5, <1>7
  <2> DEFINE z == Append(p.q, g)
  <2> HIDE DEF z
  <2>5. Good([ok |-> p.ok, e |-> e, m |-> m, q |-> z])
    BY <1>1, <2>1, <2>3, <2>4, Paired
  <2> QED BY <2>2, <2>5 DEF z
<1> QED BY <1>2, <1>3, <1>4, <1>6, <1>7

LEMMA FormatGood ==
  ASSUME app \in AppSet, NEW p, Good(p), NEW s \in PictureSizes, NEW coloured \in BOOLEAN
  PROVE  Good(Enc!FormatTaken(p, s, coloured))
<1> DEFINE d == Enc!Drained(p)
           kept == coloured \/ p.e.input = 0
           b == p.e.err /\ kept
           c == IF kept THEN p.e.cfg ELSE p.m.cfg
           x == [p.e EXCEPT !.input = s, !.prop = TRUE, !.err = b, !.cfg = c]
           g == Enc!Target(s)
           e == Enc!Strided(x, g)
           r == Enc!FormatTaken(p, s, coloured)
<1>1. /\ p = [ok |-> p.ok, e |-> p.e, m |-> p.m, q |-> p.q] /\ p.ok \in BOOLEAN
      /\ p.e \in EncSet /\ p.m \in MppSet /\ Agree(p.e, p.m)
  BY DEF Good
<1>2. d = [ok |-> p.ok, e |-> p.e, m |-> p.m, q |-> <<>>]
  BY <1>1 DEF Enc!Drained
<1>3. d.e = p.e
  BY <1>2
<1>4. r = p \/ r = [d EXCEPT !.e = e]
  BY <1>1, <1>3 DEF Enc!FormatTaken, EncSet
<1>5. s \in SizesOf /\ g \in GeometriesOf
  BY TargetIs DEF SizesOf
<1>6. b \in BOOLEAN /\ c \in CfgsOf
  BY <1>1 DEF EncSet, MppSet
<1> HIDE DEF b, c
<1>7. x \in EncSet /\ x.ref = p.e.ref /\ x.refcfg = p.e.refcfg /\ x.prop
  BY <1>1, <1>5, <1>6 DEF EncSet
<1> HIDE DEF x, g
<1>8. /\ e \in EncSet /\ ~Clean(e) /\ e.ref = p.e.ref /\ e.refcfg = p.e.refcfg
      /\ e.frame = e.info /\ e.cfg.prep = e.info
  BY <1>5, <1>7, StridedIs DEF Clean
<1> HIDE DEF e, d
<1>9. CASE r = [d EXCEPT !.e = e]
  <2>1. r = [ok |-> p.ok, e |-> e, m |-> p.m, q |-> <<>>]
    BY <1>2, <1>9
  <2>2. Agree(e, p.m)
    BY <1>1, <1>8, Moved
  <2> QED BY <1>1, <1>8, <2>1, <2>2, Paired
<1> QED BY <1>4, <1>9

\* A step that takes what has been made of the element and of MPP.
LEMMA TakenGood ==
  ASSUME ConfigInv, NEW p, Good(p), Enc!Take(p), UNCHANGED <<app, starts>>
  PROVE  ConfigInv'
<1>1. enc' = p.e /\ mpp' = p.m
  BY DEF Enc!Take
<1>2. p.e \in EncSet /\ p.m \in MppSet /\ Agree(p.e, p.m)
  BY DEF Good
<1>3. Agree(enc, mpp)'
  BY <1>1, <1>2 DEF Agree, Clean, Enc!Flat
<1> QED BY <1>1, <1>2, <1>3 DEF ConfigInv

LEMMA ConfigStep ==
  ASSUME ConfigInv, [Enc!Next]_(Enc!vars)
  PROVE  ConfigInv'
<1>1. app \in AppSet /\ enc \in EncSet /\ mpp \in MppSet /\ starts \in Nat \ {0} /\ Agree(enc, mpp)
  BY DEF ConfigInv
<1>2. Good(Enc!Now)
  BY <1>1, Paired DEF Enc!Now
<1>3. ASSUME NEW r \in Rates, Enc!SetRate(r) PROVE ConfigInv'
  <2>1. /\ app' = [app EXCEPT !.rate = r] /\ enc' = [enc EXCEPT !.prop = TRUE]
        /\ UNCHANGED <<mpp, starts>>
    BY <1>3 DEF Enc!SetRate
  <2>2. app' \in AppSet /\ app'.layers = app.layers
    BY <1>1, <2>1 DEF AppSet, RatesOf
  <2>3. /\ enc' \in EncSet /\ ~Clean(enc') /\ enc'.frame = enc.frame /\ enc'.info = enc.info
        /\ enc'.cfg = enc.cfg /\ enc'.ref = enc.ref /\ enc'.refcfg = enc.refcfg
    BY <1>1, <2>1 DEF EncSet, Clean
  <2>4. Agree(enc, mpp)'
    BY <1>1, <2>1, <2>2, <2>3 DEF Agree, Clean, Enc!Flat
  <2> QED BY <1>1, <2>1, <2>2, <2>3, <2>4 DEF ConfigInv
<1>4. ASSUME NEW n \in Layers, Enc!SetLayers(n) PROVE ConfigInv'
  <2>1. /\ app' = [app EXCEPT !.layers = n] /\ enc' = [enc EXCEPT !.prop = TRUE, !.ref = TRUE]
        /\ UNCHANGED <<mpp, starts>>
    BY <1>4 DEF Enc!SetLayers
  <2>2. app' \in AppSet
    BY <1>1, <2>1 DEF AppSet, LayersOf
  <2>3. /\ enc' \in EncSet /\ ~Clean(enc') /\ enc'.frame = enc.frame /\ enc'.info = enc.info
        /\ enc'.cfg = enc.cfg /\ enc'.ref
    BY <1>1, <2>1 DEF EncSet, Clean
  <2>4. Agree(enc, mpp)'
    BY <1>1, <2>1, <2>3 DEF Agree, Clean
  <2> QED BY <1>1, <2>1, <2>2, <2>3, <2>4 DEF ConfigInv
<1>5. ASSUME NEW s \in Outputs, Enc!SetSize(s) PROVE ConfigInv'
  <2>1. /\ app' = [app EXCEPT !.size = s] /\ enc' = [enc EXCEPT !.res = enc.res \/ enc.input # 0]
        /\ UNCHANGED <<mpp, starts>>
    BY <1>1, <1>5 DEF Enc!SetSize, EncSet
  <2>2. app' \in AppSet /\ app'.layers = app.layers /\ app'.rate = app.rate
    BY <1>1, <2>1 DEF AppSet, SizesOf
  <2> DEFINE b == enc.res \/ enc.input # 0
  <2>3. b \in BOOLEAN
    OBVIOUS
  <2> HIDE DEF b
  <2>4. /\ enc' \in EncSet /\ (Clean(enc') <=> Clean(enc)) /\ enc'.frame = enc.frame
        /\ enc'.info = enc.info /\ enc'.cfg = enc.cfg /\ enc'.ref = enc.ref
        /\ enc'.refcfg = enc.refcfg /\ enc'.caps = enc.caps
    BY <1>1, <2>1, <2>3 DEF EncSet, Clean, b
  <2>5. Agree(enc, mpp)'
    BY <1>1, <2>1, <2>2, <2>4 DEF Agree, Clean, Enc!Flat
  <2> QED BY <1>1, <2>1, <2>2, <2>4, <2>5 DEF ConfigInv
<1>6. ASSUME NEW s \in PictureSizes, Enc!SetFormat(s) PROVE ConfigInv'
  <2>1. PICK coloured \in BOOLEAN :
          LET p == Enc!FormatTaken(Enc!Now, s, coloured)
          IN /\ \E answer \in Enc!Answers(p.e) : Enc!Take(Enc!Applied(p, answer))
             /\ UNCHANGED <<app, starts>>
    BY <1>6 DEF Enc!SetFormat
  <2> DEFINE p == Enc!FormatTaken(Enc!Now, s, coloured)
  <2>2. Good(p)
    BY <1>1, <1>2, FormatGood
  <2>3. PICK answer : Enc!Take(Enc!Applied(p, answer))
    BY <2>1
  <2> HIDE DEF p
  <2>4. Good(Enc!Applied(p, answer))
    BY <1>1, <2>2, AppliedGood
  <2> QED BY <2>1, <2>3, <2>4, TakenGood
<1>7. CASE Enc!HandleFrame
  <2>1. UNCHANGED <<app, starts>>
    BY <1>7 DEF Enc!HandleFrame
  <2>2. PICK answer, late :
          LET p == Enc!Rescaled(Enc!Applied(Enc!Now, answer), late)
              others == IF p.e.input = p.e.info.size THEN Strides \ {p.e.info.stride} ELSE {}
          IN \E own \in {0} \cup others :
               \E refused \in {FALSE, own # 0} : Enc!Take(Enc!Queued(p, own, refused))
    BY <1>7 DEF Enc!HandleFrame
  <2> DEFINE a == Enc!Applied(Enc!Now, answer)
             p == Enc!Rescaled(a, late)
  <2>3. Good(a)
    BY <1>1, <1>2, AppliedGood
  <2>4. Good(p)
    <3> HIDE DEF a
    <3> QED BY <1>1, <2>3, RescaledGood
  <2>5. PICK own, refused : /\ own # 0 => own \in Strides \ {p.e.info.stride}
                            /\ Enc!Take(Enc!Queued(p, own, refused))
    BY <2>2
  <2> HIDE DEF p
  <2>6. Good(Enc!Queued(p, own, refused))
    BY <2>4, <2>5, QueuedGood
  <2> QED BY <2>1, <2>5, <2>6, TakenGood
<1>8. CASE Enc!SendFrame
  BY <1>1, <1>8 DEF Enc!SendFrame, ConfigInv, Agree, Clean
<1>9. CASE Enc!RestartContext
  <2> DEFINE k == IF app.layers < 2 THEN 0 ELSE enc.refcfg
  <2>1. mpp' = [cfg |-> enc.cfg, refs |-> k] /\ UNCHANGED <<app, enc, starts>>
    BY <1>9 DEF Enc!RestartContext
  <2>2. k \in LayersOf /\ enc.cfg \in CfgsOf
    BY <1>1 DEF EncSet, LayersOf
  <2>3. starts = 1 /\ ~enc.ref => k = Enc!Flat(app.layers)
    BY <1>1 DEF Agree
  <2> HIDE DEF k
  <2>4. mpp' \in MppSet /\ mpp'.cfg = enc.cfg /\ mpp'.refs = k
    BY <2>1, <2>2 DEF MppSet
  <2>5. Agree(enc, mpp)'
    BY <1>1, <2>1, <2>3, <2>4 DEF Agree, Clean, Enc!Flat
  <2> QED BY <1>1, <2>1, <2>4, <2>5 DEF ConfigInv
<1>10. CASE Enc!Flush
  <2>1. enc' = [enc EXCEPT !.prop = TRUE] /\ UNCHANGED <<app, mpp, starts>>
    BY <1>10 DEF Enc!Flush
  <2>2. /\ enc' \in EncSet /\ ~Clean(enc') /\ enc'.frame = enc.frame /\ enc'.info = enc.info
        /\ enc'.cfg = enc.cfg /\ enc'.ref = enc.ref /\ enc'.refcfg = enc.refcfg
    BY <1>1, <2>1 DEF EncSet, Clean
  <2>3. Agree(enc, mpp)'
    BY <1>1, <2>1, <2>2 DEF Agree, Clean, Enc!Flat
  <2> QED BY <1>1, <2>1, <2>2, <2>3 DEF ConfigInv
<1>11. CASE Enc!StopStart
  <2>1. /\ enc' = [Enc!Fresh EXCEPT !.ref = enc.ref, !.res = enc.res] /\ starts' = starts + 1
        /\ mpp' = [cfg |-> Enc!NoCfg, refs |-> 0] /\ UNCHANGED app
    BY <1>11 DEF Enc!StopStart
  <2>2. mpp' \in MppSet
    BY <2>1 DEF MppSet, CfgsOf, GeometriesOf, SizesOf, RatesOf, LevelsOf, LayersOf, Enc!NoCfg, Enc!None
  <2>3. enc.ref \in BOOLEAN /\ enc.res \in BOOLEAN
    BY <1>1 DEF EncSet
  <2>4. enc' = [prop |-> TRUE, ref |-> enc.ref, res |-> enc.res, err |-> FALSE, lost |-> FALSE,
                input |-> 0, info |-> Enc!None, frame |-> Enc!None, cfg |-> Enc!NoCfg,
                refcfg |-> 0, caps |-> [size |-> 0, level |-> 0]]
    BY <2>1 DEF Enc!Fresh
  <2>5. Enc!None \in GeometriesOf /\ Enc!NoCfg \in CfgsOf /\ Enc!NoCfg.prep = Enc!None
        /\ 0 \in SizesOf /\ 0 \in LevelsOf /\ 0 \in LayersOf
    BY DEF Enc!None, Enc!NoCfg, CfgsOf, GeometriesOf, SizesOf, RatesOf, LevelsOf, LayersOf
  <2>6. /\ enc' \in EncSet /\ ~Clean(enc') /\ enc'.frame = enc'.info /\ enc'.cfg.prep = enc'.info
    BY <2>3, <2>4, <2>5 DEF EncSet, Clean
  <2>7. starts' \in Nat \ {0} /\ starts' # 1
    BY <1>1, <2>1
  <2>8. Agree(enc, mpp)'
    BY <2>6, <2>7 DEF Agree, Clean
  <2> QED BY <1>1, <2>1, <2>2, <2>6, <2>7, <2>8 DEF ConfigInv
<1>12. CASE UNCHANGED Enc!vars
  BY <1>1, <1>12 DEF Enc!vars, ConfigInv, Agree, Clean, Enc!Flat
<1> QED BY <1>3, <1>4, <1>5, <1>6, <1>7, <1>8, <1>9, <1>10, <1>11, <1>12 DEF Enc!Next

\* Clean flags tell the truth, whatever MPP refuses and in whatever order properties are
\* set, formats change, frames come, contexts restart and sessions end; for any sizes,
\* strides, rates, layers and levels.
THEOREM CleanHolds == Enc!Spec => []CleanMeansHeld
<1>1. Enc!Init => ConfigInv
  <2> SUFFICES ASSUME Enc!Init PROVE ConfigInv
    OBVIOUS
  <2>1. Enc!None \in GeometriesOf /\ Enc!NoCfg \in CfgsOf /\ Enc!NoCfg.prep = Enc!None
        /\ 0 \in SizesOf /\ 0 \in LevelsOf /\ 0 \in LayersOf
    BY DEF Enc!None, Enc!NoCfg, CfgsOf, GeometriesOf, SizesOf, RatesOf, LevelsOf, LayersOf
  <2>2. /\ app \in AppSet /\ app.layers = 0
    BY DEF Enc!Init, AppSet, RatesOf, LayersOf, SizesOf
  <2>3. mpp \in MppSet /\ mpp.refs = 0
    BY <2>1 DEF Enc!Init, MppSet
  <2>4. /\ enc \in EncSet /\ ~Clean(enc) /\ enc.frame = enc.info /\ enc.cfg.prep = enc.info
        /\ enc.refcfg = 0
    BY <2>1 DEF Enc!Init, Enc!Fresh, EncSet, Clean
  <2>5. starts = 1
    BY DEF Enc!Init
  <2> QED BY <2>2, <2>3, <2>4, <2>5 DEF ConfigInv, Agree, Enc!Flat
<1>2. ConfigInv /\ [Enc!Next]_(Enc!vars) => ConfigInv'
  BY ConfigStep
<1>3. ConfigInv => CleanMeansHeld
  <2> SUFFICES ASSUME ConfigInv, Clean(enc)
               PROVE  /\ mpp.cfg.rate = app.rate
                      /\ starts = 1 => mpp.refs = Enc!Flat(app.layers)
                      /\ mpp.cfg.prep = enc.frame
                      /\ enc.caps = [size |-> enc.frame.size, level |-> mpp.cfg.level]
    BY DEF CleanMeansHeld, Enc!CleanMeansHeld, Clean
  <2>1. Agree(enc, mpp)
    BY DEF ConfigInv
  <2> QED BY <2>1 DEF Agree
<1> QED BY <1>1, <1>2, <1>3, PTL DEF Enc!Spec

-----------------------------------------------------------------------------
(* The level that goes out *)

\* The caps and the properties are numbers; a frame rate is a pair of them.
StreamsKnown ==
  /\ \A c \in {"h264", "h265"} : LevelSizes[c] \subseteq Nat
  /\ FrameRates \subseteq Nat \X Nat /\ Bitrates \subseteq Nat

\* The declared level is one of the codec's.
LevelInv ==
  /\ codec \in {"h264", "h265"} /\ grade \in {"main", "high"}
  /\ stream \in [size : Nat, fps : Nat \X Nat, bps : Nat]
  /\ \E i \in DOMAIN Level!Table : declared = Level!Table[i][1]

\* H.264's limits grow along its table, on every axis, and every level has one place.
LEMMA Rows264 ==
  /\ DOMAIN Level!H264 = 1 .. 20
  /\ \A i \in 1 .. 20 : /\ Level!H264[i][1] \in Nat \ {0} /\ Level!H264[i][2] \in Nat
                        /\ Level!H264[i][3] \in Nat /\ Level!H264[i][4] \in Nat \ {0}
                        /\ Level!H264[i][1] = 99 <=> i = 2
  /\ \A i, j \in 1 .. 20 : i <= j => /\ Level!H264[i][2] <= Level!H264[j][2]
                                     /\ Level!H264[i][3] <= Level!H264[j][3]
                                     /\ Level!H264[i][4] <= Level!H264[j][4]
                                     /\ Level!H264[i][1] = Level!H264[j][1] => i = j
BY DEF Level!H264

\* H.265's as well, the high tier's from the first level that has one.
LEMMA Rows265 ==
  /\ DOMAIN Level!H265 = 1 .. 13
  /\ \A i \in 1 .. 13 : /\ Level!H265[i][1] \in Nat \ {0, 99} /\ Level!H265[i][2] \in Nat
                        /\ Level!H265[i][3] \in Nat /\ Level!H265[i][4] \in Nat \ {0}
                        /\ Level!H265[i][5] \in Nat
  /\ \A i, j \in 1 .. 13 : i <= j => /\ Level!H265[i][2] <= Level!H265[j][2]
                                     /\ Level!H265[i][3] <= Level!H265[j][3]
                                     /\ Level!H265[i][4] <= Level!H265[j][4]
                                     /\ Level!H265[i][5] <= Level!H265[j][5]
                                     /\ Level!H265[i][1] = Level!H265[j][1] => i = j
BY DEF Level!H265, Level!Undefined

\* The places of the codec's table, what a row holds, and a row that admits no less.
Places == IF codec = "h264" THEN 20 ELSE 13
Row(r) == r[1] \in Nat \ {0} /\ r[2] \in Nat /\ r[3] \in Nat /\ Level!MaxBits(r) \in Nat
Grows(r, s) == r[2] <= s[2] /\ r[3] <= s[3] /\ Level!MaxBits(r) <= Level!MaxBits(s)

\* What both tables have in common, of n places.
Ordered(n) ==
  /\ DOMAIN Level!Table = 1 .. n
  /\ \A i \in 1 .. n : Row(Level!Table[i]) /\ (Level!Table[i][1] = 99 => i = 2)
  /\ \A i, j \in 1 .. n : i <= j => /\ Grows(Level!Table[i], Level!Table[j])
                                    /\ Level!Table[i][1] = Level!Table[j][1] => i = j

LEMMA Rows ==
  ASSUME codec \in {"h264", "h265"}, grade \in {"main", "high"}
  PROVE  Ordered(Places)
<1>1. CASE codec = "h264"
  <2>1. Level!Table = Level!H264 /\ Places = 20
    BY <1>1 DEF Level!Table, Places
  <2>2. \/ \A i \in 1 .. 20 : Level!MaxBits(Level!H264[i]) = Level!H264[i][4] * 1250
        \/ \A i \in 1 .. 20 : Level!MaxBits(Level!H264[i]) = Level!H264[i][4] * 1000
    BY <1>1 DEF Level!MaxBits
  <2>3. ASSUME NEW i \in 1 .. 20 PROVE Level!MaxBits(Level!H264[i]) \in Nat
    <3>1. Level!H264[i][4] \in Nat
      BY Rows264
    <3> QED BY <2>2, <3>1
  <2>4. ASSUME NEW i \in 1 .. 20, NEW j \in 1 .. 20, i <= j
        PROVE  Level!MaxBits(Level!H264[i]) <= Level!MaxBits(Level!H264[j])
    <3>1. /\ Level!H264[i][4] \in Nat /\ Level!H264[j][4] \in Nat /\ Level!H264[i][4] <= Level!H264[j][4]
      BY <2>4, Rows264, ZenonT(60)
    <3> QED BY <2>2, <3>1
  <2>5. ASSUME NEW i \in 1 .. 20, NEW j \in 1 .. 20, i <= j
        PROVE  Grows(Level!Table[i], Level!Table[j]) /\ (Level!Table[i][1] = Level!Table[j][1] => i = j)
    <3>1. /\ Level!H264[i][2] <= Level!H264[j][2] /\ Level!H264[i][3] <= Level!H264[j][3]
          /\ Level!H264[i][1] = Level!H264[j][1] => i = j
      BY <2>5, Rows264, ZenonT(60)
    <3>2. Level!MaxBits(Level!H264[i]) <= Level!MaxBits(Level!H264[j])
      BY <2>4, <2>5
    <3> QED BY <2>1, <3>1, <3>2 DEF Grows
  <2>6. ASSUME NEW i \in 1 .. 20
        PROVE  Row(Level!Table[i]) /\ (Level!Table[i][1] = 99 => i = 2)
    <3>1. /\ Level!H264[i][1] \in Nat \ {0} /\ Level!H264[i][2] \in Nat /\ Level!H264[i][3] \in Nat
          /\ Level!H264[i][1] = 99 => i = 2
      BY Rows264
    <3> QED BY <2>1, <2>3, <3>1 DEF Row
  <2>7. DOMAIN Level!Table = 1 .. 20
    BY <2>1, Rows264, ZenonT(30)
  <2>8. Ordered(20)
    BY <2>5, <2>6, <2>7 DEF Ordered
  <2> QED BY <2>1, <2>8
<1>2. CASE codec = "h265"
  <2>1. Level!Table = Level!H265 /\ Places = 13
    BY <1>2 DEF Level!Table, Places
  <2>2. \/ \A i \in 1 .. 13 : Level!MaxBits(Level!H265[i]) = Level!H265[i][5] * 1000
        \/ \A i \in 1 .. 13 : Level!MaxBits(Level!H265[i]) = Level!H265[i][4] * 1000
    BY <1>2 DEF Level!MaxBits
  <2>3. ASSUME NEW i \in 1 .. 13 PROVE Level!MaxBits(Level!H265[i]) \in Nat
    <3>1. Level!H265[i][4] \in Nat /\ Level!H265[i][5] \in Nat
      BY Rows265
    <3> QED BY <2>2, <3>1
  <2>4. ASSUME NEW i \in 1 .. 13, NEW j \in 1 .. 13, i <= j
        PROVE  Level!MaxBits(Level!H265[i]) <= Level!MaxBits(Level!H265[j])
    <3>1. /\ Level!H265[i][4] \in Nat /\ Level!H265[j][4] \in Nat /\ Level!H265[i][4] <= Level!H265[j][4]
          /\ Level!H265[i][5] \in Nat /\ Level!H265[j][5] \in Nat /\ Level!H265[i][5] <= Level!H265[j][5]
      BY <2>4, Rows265, ZenonT(30)
    <3> QED BY <2>2, <3>1
  <2>5. ASSUME NEW i \in 1 .. 13, NEW j \in 1 .. 13, i <= j
        PROVE  Grows(Level!Table[i], Level!Table[j]) /\ (Level!Table[i][1] = Level!Table[j][1] => i = j)
    <3>1. /\ Level!H265[i][2] <= Level!H265[j][2] /\ Level!H265[i][3] <= Level!H265[j][3]
          /\ Level!H265[i][1] = Level!H265[j][1] => i = j
      BY <2>5, Rows265, ZenonT(30)
    <3>2. Level!MaxBits(Level!H265[i]) <= Level!MaxBits(Level!H265[j])
      BY <2>4, <2>5
    <3> QED BY <2>1, <3>1, <3>2 DEF Grows
  <2>6. ASSUME NEW i \in 1 .. 13
        PROVE  Row(Level!Table[i]) /\ (Level!Table[i][1] = 99 => i = 2)
    <3>1. /\ Level!H265[i][1] \in Nat \ {0} /\ Level!H265[i][2] \in Nat /\ Level!H265[i][3] \in Nat
          /\ Level!H265[i][1] = 99 => i = 2
      BY Rows265
    <3> QED BY <2>1, <2>3, <3>1 DEF Row
  <2>7. DOMAIN Level!Table = 1 .. 13
    BY <2>1, Rows265, ZenonT(30)
  <2>8. Ordered(13)
    BY <2>5, <2>6, <2>7 DEF Ordered
  <2> QED BY <2>1, <2>8
<1> QED BY <1>1, <1>2

\* A row below which another carries the stream carries it too.
LEMMA Admitted ==
  ASSUME NEW r, NEW s, stream \in [size : Nat, fps : Nat \X Nat, bps : Nat],
         Row(r), Row(s), Grows(r, s), Level!Admits(r)
  PROVE  Level!Admits(s)
<1> DEFINE load == stream.size * stream.fps[1]
           d == stream.fps[2]
<1>1. load \in Nat /\ d \in Nat /\ stream.size \in Nat /\ stream.bps \in Nat
  OBVIOUS
<1> USE DEF Row, Grows
<1>2. /\ Level!MaxBits(r) # 0 /\ stream.size <= r[2] /\ load <= r[3] * d
      /\ stream.bps # 0 => stream.bps <= Level!MaxBits(r)
  BY DEF Level!Admits, Level!Undefined
<1> HIDE DEF load, d
<1>3. r[3] * d <= s[3] * d /\ r[3] * d \in Nat /\ s[3] * d \in Nat
  BY <1>1
<1>4. /\ Level!MaxBits(s) # 0 /\ stream.size <= s[2] /\ load <= s[3] * d
      /\ stream.bps # 0 => stream.bps <= Level!MaxBits(s)
  BY <1>1, <1>2, <1>3
<1> QED BY <1>4 DEF Level!Admits, Level!Undefined, load, d

\* The level that goes out carries the stream, or none does.
LEMMA Carried ==
  ASSUME LevelInv
  PROVE  LevelCarries
<1> DEFINE T == Level!Table
           D == Level!Index(declared)
           I == {i \in DOMAIN T : T[i][1] # Level!OneB /\ Level!Admits(T[i])}
           R == Level!Required
           n == Places
<1>1. /\ codec \in {"h264", "h265"} /\ grade \in {"main", "high"}
      /\ stream \in [size : Nat, fps : Nat \X Nat, bps : Nat]
  BY DEF LevelInv
<1>2. /\ DOMAIN T = 1 .. n /\ n \in {13, 20}
      /\ \A i \in 1 .. n : Row(T[i]) /\ T[i][1] \in Nat \ {0} /\ (T[i][1] = 99 => i = 2)
      /\ \A i, j \in 1 .. n : i <= j => Grows(T[i], T[j]) /\ (T[i][1] = T[j][1] => i = j)
  <2>1. n \in {13, 20}
    BY DEF Places
  <2>2. Ordered(n)
    BY <1>1, Rows
  <2> HIDE DEF n
  <2> QED BY <2>1, <2>2 DEF Ordered, Row
<1> HIDE DEF n
<1>3. \A i \in 1 .. n : Level!Index(T[i][1]) = i
  <2> TAKE i \in 1 .. n
  <2>1. \A j \in DOMAIN T : T[j][1] = T[i][1] <=> j = i
    BY <1>2
  <2>2. {j \in DOMAIN T : T[j][1] = T[i][1]} = {i}
    BY <1>2, <2>1
  <2> QED BY <2>2 DEF Level!Index
<1>4. D \in 1 .. n /\ declared = T[D][1] /\ declared # 0
  <2>1. PICK i \in 1 .. n : declared = T[i][1]
    BY <1>2 DEF LevelInv
  <2> QED BY <1>2, <1>3, <2>1
<1>5. \A i, j \in 1 .. n : i <= j /\ Level!Admits(T[i]) => Level!Admits(T[j])
  BY <1>1, <1>2, Admitted
<1>6. CASE I = {}
  <2>1. R = 0
    BY <1>6 DEF Level!Required
  <2>2. \A i \in 1 .. n : ~Level!Admits(T[i])
    <3> SUFFICES ASSUME NEW i \in 1 .. n, Level!Admits(T[i]) PROVE FALSE
      OBVIOUS
    <3>1. T[i][1] = 99 /\ i = 2
      BY <1>2, <1>6 DEF Level!OneB
    <3>2. 3 \in 1 .. n /\ T[3][1] # 99 /\ Level!Admits(T[3])
      BY <1>2, <1>5, <3>1
    <3>3. 3 \in DOMAIN T
      BY <1>2, <3>2
    <3>4. 3 \in I
      BY <3>2, <3>3 DEF Level!OneB
    <3> QED BY <1>6, <3>4
  <2>3. stream.size # 0 => Level!Effective = 0
    BY <2>1 DEF Level!Effective, Level!Refused
  <2> QED BY <1>2, <2>2, <2>3 DEF LevelCarries, Level!LevelCarries, Level!Refused
<1>7. CASE I # {}
  <2>1. \E i \in I : \A j \in I : i <= j
    <3>1. I \subseteq 1 .. n /\ n \in Int /\ 1 \in Int
      BY <1>2
    <3>2. IsFiniteSet(I)
      BY <3>1, FS_Interval, FS_Subset
    <3>3. I \in SUBSET Nat
      BY <3>1
    <3> HIDE DEF I
    <3> QED BY <1>7, <3>2, <3>3, LeastAndLast
  <2>2. R \in I
    BY <1>7, <2>1 DEF Level!Required
  <2>3. R \in 1 .. n /\ Level!Admits(T[R]) /\ R # 0 /\ T[R][1] # 0
    BY <1>2, <2>2
  <2> HIDE DEF T, D, R
  <2>4. CASE R <= D /\ stream.size # 0
    <3>1. Level!Effective = declared
      BY <2>3, <2>4 DEF Level!Effective, R, D
    <3>2. Level!Admits(T[D])
      BY <1>4, <1>5, <2>3, <2>4
    <3> QED BY <1>4, <3>1, <3>2 DEF LevelCarries, Level!LevelCarries, Level!Refused, D, T
  <2>5. CASE ~(R <= D) /\ stream.size # 0
    <3>1. Level!Effective = T[R][1]
      BY <2>3, <2>5 DEF Level!Effective, R, D, T
    <3>2. Level!Index(T[R][1]) = R
      BY <1>3, <2>3
    <3> QED BY <2>3, <3>1, <3>2 DEF LevelCarries, Level!LevelCarries, Level!Refused, T
  <2> QED BY <2>4, <2>5 DEF LevelCarries, Level!LevelCarries
<1> QED BY <1>6, <1>7

\* The level that goes out carries the stream on all three axes, or no level does, for
\* any picture sizes, frame rates and bit rates.
THEOREM LevelHolds ==
  ASSUME StreamsKnown
  PROVE  Level!Spec => []LevelCarries
<1>1. Level!Init => LevelInv
  <2>1. 40 = Level!H264[12][1] /\ 12 \in DOMAIN Level!H264
    BY DEF Level!H264
  <2>2. 120 = Level!H265[6][1] /\ 6 \in DOMAIN Level!H265
    BY DEF Level!H265
  <2> QED BY <2>1, <2>2 DEF Level!Init, LevelInv, Level!Table
<1>2. LevelInv /\ [Level!Next]_<<codec, declared, grade, stream>> => LevelInv'
  <2> SUFFICES ASSUME LevelInv, [Level!Next]_<<codec, declared, grade, stream>>
               PROVE  LevelInv'
    OBVIOUS
  <2>1. codec' = codec
    BY DEF Level!Next, Level!SetLevel, Level!SetGrade, Level!SetBps, Level!SetFormat
  <2>2. Level!Table' = Level!Table
    BY <2>1 DEF Level!Table
  <2> USE <2>1, <2>2 DEF LevelInv
  <2>3. CASE Level!SetLevel
    BY <2>3 DEF Level!SetLevel
  <2>4. CASE Level!SetGrade
    BY <2>4 DEF Level!SetGrade
  <2>5. CASE Level!SetBps
    BY <2>5 DEF Level!SetBps, StreamsKnown
  <2>6. CASE Level!SetFormat
    BY <2>6 DEF Level!SetFormat, StreamsKnown
  <2>7. CASE UNCHANGED <<codec, declared, grade, stream>>
    BY <2>7
  <2> QED BY <2>3, <2>4, <2>5, <2>6, <2>7 DEF Level!Next
<1>3. LevelInv => LevelCarries
  BY Carried
<1> QED BY <1>1, <1>2, <1>3, PTL DEF Level!Spec

-----------------------------------------------------------------------------
(* The decoder's parameter sets.  The loop over the units is a recursive   *)
(* function; what it computes for every input is shown by the last offset  *)
(* at which it would differ from the bytes cut into their units.           *)

\* A loop that only goes forward defines a function: f[i] is the verdict of its steps
\* from i on.
LEMMA Loops ==
  ASSUME NEW n \in Nat, NEW ok \in [0..n -> BOOLEAN], NEW go \in [0..n -> BOOLEAN], NEW to,
         \A i \in 0..n : go[i] => to[i] \in (i + 1)..n
  PROVE  \E f \in [0..n -> BOOLEAN] : \A i \in 0..n : f[i] = (ok[i] /\ (go[i] => f[to[i]]))
<1> DEFINE Fits(f, k) == f \in [k..n -> BOOLEAN] /\ \A i \in k..n : f[i] = (ok[i] /\ (go[i] => f[to[i]]))
           B == {k \in 0..(n + 1) : \E f : Fits(f, k)}
<1>1. n + 1 \in B
  <2> DEFINE e == [i \in (n + 1)..n |-> TRUE]
  <2>1. (n + 1)..n = {}
    OBVIOUS
  <2>2. e \in [(n + 1)..n -> BOOLEAN]
    OBVIOUS
  <2> HIDE DEF e
  <2>3. Fits(e, n + 1)
    BY <2>1, <2>2
  <2> QED BY <2>3
<1>2. PICK k \in B : \A j \in B : k <= j
  <2>1. B \in SUBSET Nat /\ B # {}
    BY <1>1
  <2>2. IsFiniteSet(B)
    <3>1. B \subseteq 0..(n + 1) /\ 0 \in Int /\ n + 1 \in Int
      OBVIOUS
    <3> HIDE DEF B
    <3> QED BY <3>1, FS_Interval, FS_Subset
  <2> HIDE DEF B
  <2> QED BY <2>1, <2>2, LeastAndLast
<1>3. PICK f : Fits(f, k)
  OBVIOUS
<1>4. k = 0
  <2> SUFFICES ASSUME k # 0 PROVE FALSE
    OBVIOUS
  <2> DEFINE j == k - 1
             v == ok[j] /\ (go[j] => f[to[j]])
             g == [i \in j..n |-> IF i = j THEN v ELSE f[i]]
  <2>1. j \in 0..n /\ \A i \in j..n : i = j \/ i \in k..n
    OBVIOUS
  <2>2. v \in BOOLEAN
    OBVIOUS
  <2>3. g \in [j..n -> BOOLEAN]
    <3> HIDE DEF v
    <3> QED BY <1>3, <2>1, <2>2
  <2>4. \A i \in j..n : go[i] => to[i] \in k..n /\ g[to[i]] = f[to[i]]
    <3> HIDE DEF v
    <3> QED BY <2>1
  <2>5. ASSUME NEW i \in j..n PROVE g[i] = (ok[i] /\ (go[i] => g[to[i]]))
    <3>1. CASE i = j
      <4>1. g[i] = v
        BY <3>1
      <4>2. go[i] => g[to[i]] = f[to[i]]
        BY <2>4
      <4> HIDE DEF g
      <4> QED BY <3>1, <4>1, <4>2
    <3>2. CASE i # j
      <4>1. g[i] = f[i] /\ i \in k..n
        BY <2>1, <3>2
      <4>2. f[i] = (ok[i] /\ (go[i] => f[to[i]]))
        BY <1>3, <4>1
      <4>3. go[i] => g[to[i]] = f[to[i]]
        BY <2>4
      <4> HIDE DEF g
      <4> QED BY <4>1, <4>2, <4>3
    <3> QED BY <3>1, <3>2
  <2>6. Fits(g, j)
    BY <2>3, <2>5
  <2> HIDE DEF g, v
  <2>7. j \in B
    <3>1. j \in 0..(n + 1)
      BY <2>1
    <3> HIDE DEF Fits, j
    <3> QED BY <2>6, <3>1
  <2>8. k \in Nat
    OBVIOUS
  <2>9. ~(k <= j)
    BY <2>8
  <2> HIDE DEF B, j
  <2> QED BY <1>2, <2>7, <2>9
<1> QED BY <1>3, <1>4

\* The bytes of an input, whatever pieces it was made of.
Bytes == au \in Seq(Nat)

LEMMA Sizes ==
  ASSUME Bytes
  PROVE  /\ Nal!Size \in Nat
         /\ \A i \in 0..(Nal!Size - 1) : Nal!At(i) \in Nat
BY DEF Bytes, Nal!Size, Nal!At

\* The least and the last member of a set of offsets.
LEMMA Extremes ==
  ASSUME NEW n \in Nat, NEW B, B \subseteq 0..n, B # {}
  PROVE  /\ Nal!Least(B) \in B /\ \A j \in B : Nal!Least(B) <= j
         /\ Nal!Most(B) \in B /\ \A j \in B : j <= Nal!Most(B)
<1>1. B \in SUBSET Nat /\ IsFiniteSet(B)
  <2>1. B \in SUBSET Nat /\ B \subseteq 0..n
    OBVIOUS
  <2>2. IsFiniteSet(0..n)
    <3>1. 0 \in Int /\ n \in Int
      OBVIOUS
    <3> QED BY <3>1, FS_Interval
  <2>3. IsFiniteSet(B)
    BY <2>1, <2>2, FS_Subset
  <2> QED BY <2>1, <2>3
<1>2. (\E i \in B : \A j \in B : i <= j) /\ (\E i \in B : \A j \in B : j <= i)
  BY <1>1, LeastAndLast
<1>3. \A i, j \in B : (i >= j) <=> (j <= i)
  BY <1>1
<1> QED BY <1>2, <1>3 DEF Nal!Least, Nal!Most

LEMMA Codes ==
  ASSUME Bytes, NEW i
  PROVE  i \in Nal!StartCodes <=> /\ i \in 0..(Nal!Size - 3)
                                  /\ Nal!At(i) = 0 /\ Nal!At(i + 1) = 0 /\ Nal!At(i + 2) = 1
<1> SUFFICES ASSUME i \in 0..(Nal!Size - 3)
             PROVE  Nal!Unit(i, i + 3) = <<0, 0, 1>> <=>
                      Nal!At(i) = 0 /\ Nal!At(i + 1) = 0 /\ Nal!At(i + 2) = 1
  BY DEF Nal!StartCodes
<1> DEFINE u == SubSeq(au, i + 1, i + 3)
<1>1. /\ Len(au) \in Nat /\ i + 1 \in 1..Len(au) /\ i + 3 \in 1..Len(au)
  BY DEF Bytes, Nal!Size
<1>2. /\ u \in Seq(Nat) /\ Len(u) = 3
      /\ u[1] = au[i + 1] /\ u[2] = au[i + 2] /\ u[3] = au[i + 3]
  BY <1>1 DEF Bytes
<1> HIDE DEF u
<1>3. u = <<0, 0, 1>> <=> u[1] = 0 /\ u[2] = 0 /\ u[3] = 1
  <2>1. u = <<u[1], u[2], u[3]>>
    BY <1>2
  <2> QED BY <2>1
<1>4. i + 1 + 1 = i + 2 /\ i + 2 + 1 = i + 3
  BY <1>1
<1> QED BY <1>2, <1>3, <1>4 DEF Nal!Unit, Nal!At, u

\* FindStartCode finds the first start code at or after an offset, with the zero before it.
LEMMA NextCode ==
  ASSUME Bytes, NEW from \in Nat
  PROVE  LET C == {s \in Nal!StartCodes : s >= from}
             t == Nal!Least(C)
             c == Nal!FindStartCode(from)
         IN /\ C = {} => c = Nal!NoCode
            /\ C # {} => /\ t \in C /\ \A s \in C : t <= s
                         /\ c # Nal!NoCode /\ c.nal = t + 3
                         /\ c.prefix = t \/ (c.prefix = t - 1 /\ Nal!At(t - 1) = 0 /\ t > from)
<1> DEFINE n == Nal!Size
           C == {s \in Nal!StartCodes : s >= from}
           long(i) == i + 4 <= n /\ Nal!At(i + 2) = 0 /\ Nal!At(i + 3) = 1
           I == {i \in from..(n - 3) : Nal!At(i) = 0 /\ Nal!At(i + 1) = 0
                                         /\ (Nal!At(i + 2) = 1 \/ long(i))}
           t == Nal!Least(C)
           p == Nal!Least(I)
           c == Nal!FindStartCode(from)
<1>1. n \in Nat
  BY Sizes
<1>2. c = IF I = {} THEN Nal!NoCode ELSE [prefix |-> p, nal |-> p + (IF Nal!At(p + 2) = 1 THEN 3 ELSE 4)]
  BY DEF Nal!FindStartCode
<1>3. ASSUME NEW i \in I PROVE i \in C \/ (i + 1 \in C /\ Nal!At(i + 2) = 0)
  <2>1. CASE Nal!At(i + 2) = 1
    <3>1. i \in 0..(n - 3)
      BY <1>1
    <3>2. i \in Nal!StartCodes
      BY <2>1, <3>1, Codes
    <3> QED BY <3>2
  <2>2. CASE long(i)
    <3>1. i + 1 \in 0..(n - 3) /\ (i + 1) + 1 = i + 2 /\ (i + 1) + 2 = i + 3 /\ i + 1 >= from
      BY <1>1, <2>2
    <3>2. Nal!At(i + 1) = 0 /\ Nal!At((i + 1) + 1) = 0 /\ Nal!At((i + 1) + 2) = 1
      BY <2>2, <3>1
    <3>3. i + 1 \in Nal!StartCodes
      BY <3>1, <3>2, Codes
    <3> QED BY <2>2, <3>1, <3>3
  <2> QED BY <2>1, <2>2
<1>4. ASSUME NEW s \in C PROVE s \in I /\ s \in 0..n
  <2>1. /\ s \in 0..(n - 3) /\ s >= from
        /\ Nal!At(s) = 0 /\ Nal!At(s + 1) = 0 /\ Nal!At(s + 2) = 1
    BY Codes
  <2> QED BY <1>1, <2>1
<1>5. CASE C = {}
  <2>1. I = {}
    BY <1>3, <1>5
  <2> QED BY <1>2, <1>5, <2>1
<1>6. CASE C # {}
  <2>1. t \in C /\ \A s \in C : t <= s
    <3>1. C \subseteq 0..n
      BY <1>4
    <3> HIDE DEF C
    <3> QED BY <1>1, <1>6, <3>1, Extremes
  <2>2. p \in I /\ \A i \in I : p <= i
    <3>1. I # {}
      BY <1>4, <1>6
    <3>2. I \subseteq 0..n
      BY <1>1
    <3> HIDE DEF I
    <3> QED BY <1>1, <3>1, <3>2, Extremes
  <2>3. p <= t
    BY <1>4, <2>1, <2>2
  <2>4. p \in C \/ (p + 1 \in C /\ Nal!At(p + 2) = 0)
    BY <1>3, <2>2
  <2>5. Nal!At(t + 2) = 1 /\ t \in Nat
    <3>1. t \in Nal!StartCodes
      BY <2>1
    <3> QED BY <3>1, <1>1, Codes
  <2>6. p \in Nat /\ p >= from /\ Nal!At(p) = 0
    BY <2>2
  <2>7. c = [prefix |-> p, nal |-> p + (IF Nal!At(p + 2) = 1 THEN 3 ELSE 4)]
    BY <1>2, <2>2
  <2> HIDE DEF C, I, t, p, c
  <2>8. p = t \/ (p + 1 = t /\ Nal!At(p + 2) = 0)
    BY <2>1, <2>3, <2>4, <2>5, <2>6
  <2>9. c.prefix = p /\ c.nal = p + (IF Nal!At(p + 2) = 1 THEN 3 ELSE 4)
    BY <2>7
  <2>10. c # Nal!NoCode
    BY <2>6, <2>9 DEF Nal!NoCode
  <2>11. c.nal = t + 3
    BY <2>5, <2>6, <2>8, <2>9
  <2>12. p = t \/ (p = t - 1 /\ Nal!At(t - 1) = 0 /\ t > from)
    BY <2>5, <2>6, <2>8
  <2> USE DEF C, t, c
  <2> HIDE DEF p
  <2> QED BY <1>6, <2>1, <2>9, <2>10, <2>11, <2>12
<1> QED BY <1>5, <1>6

\* Trimming ends at or after where it begins, and a unit of nothing is no parameter set.
LEMMA Trimmed ==
  ASSUME Bytes, NEW from \in Nat, NEW to \in Nat
  PROVE  /\ Nal!TrimmedEnd(from, to) \in Nat
         /\ Nal!TrimmedEnd(from, to) = from \/ Nal!TrimmedEnd(from, to) \in (from + 1)..to
<1> DEFINE B == {from} \cup {e \in (from + 1)..to : Nal!At(e - 1) # 0}
<1>1. B \subseteq 0..(from + to) /\ B # {} /\ from + to \in Nat
  OBVIOUS
<1>2. \A b \in B : b = from \/ b \in (from + 1)..to
  OBVIOUS
<1> HIDE DEF B
<1>3. Nal!Most(B) \in B
  BY <1>1, Extremes
<1>4. Nal!TrimmedEnd(from, to) = Nal!Most(B)
  BY DEF Nal!TrimmedEnd, B
<1> QED BY <1>2, <1>3, <1>4

\* A zero before the end is trimmed with the others.
LEMMA ZeroTrimmed ==
  ASSUME Bytes, NEW from \in Nat, NEW to \in Nat, to > from, Nal!At(to - 1) = 0
  PROVE  Nal!TrimmedEnd(from, to - 1) = Nal!TrimmedEnd(from, to)
<1>1. {e \in (from + 1)..(to - 1) : Nal!At(e - 1) # 0} = {e \in (from + 1)..to : Nal!At(e - 1) # 0}
  <2>1. ASSUME NEW e \in (from + 1)..to, Nal!At(e - 1) # 0 PROVE e \in (from + 1)..(to - 1)
    <3>1. e # to
      BY <2>1
    <3> QED BY <2>1, <3>1
  <2> QED BY <2>1
<1> QED BY <1>1 DEF Nal!TrimmedEnd

LEMMA EmptyUnit ==
  ASSUME Bytes, NEW i \in 0..Nal!Size
  PROVE  ~Nal!IsParameterSet(Nal!Unit(i, i))
<1> DEFINE u == SubSeq(au, i + 1, i)
<1>1. Len(u) = 0
  BY DEF Bytes, Nal!Size
<1> HIDE DEF u
<1>2. ~(Len(u) >= 2) /\ ~(Len(u) >= 3)
  BY <1>1
<1>3. ~Nal!IsParameterSet(u)
  BY <1>2 DEF Nal!IsParameterSet
<1> QED BY <1>3 DEF Nal!Unit, u

\* Where the unit ends that begins at an offset, and the verdict of the loop from there.
UnitEnd(i) ==
  LET next == Nal!FindStartCode(i)
  IN Nal!TrimmedEnd(i, IF next = Nal!NoCode THEN Nal!Size ELSE next.prefix)

LEMMA SetsFromIs ==
  ASSUME Bytes, NEW i \in 0..Nal!Size
  PROVE  Nal!SetsFrom[i] <=>
           /\ UnitEnd(i) > i /\ Nal!IsParameterSet(Nal!Unit(i, UnitEnd(i)))
           /\ Nal!FindStartCode(i) # Nal!NoCode =>
                Nal!FindStartCode(i).nal < Nal!Size /\ Nal!SetsFrom[Nal!FindStartCode(i).nal]
<1> DEFINE n == Nal!Size
           c(j) == Nal!FindStartCode(j)
           set(j) == UnitEnd(j) > j /\ Nal!IsParameterSet(Nal!Unit(j, UnitEnd(j)))
           ok == [j \in 0..n |-> set(j) /\ (c(j) # Nal!NoCode => c(j).nal < n)]
           go == [j \in 0..n |-> c(j) # Nal!NoCode /\ c(j).nal < n]
           to == [j \in 0..n |-> c(j).nal]
<1>1. n \in Nat
  BY Sizes
<1>2. ok \in [0..n -> BOOLEAN] /\ go \in [0..n -> BOOLEAN]
  <2> HIDE DEF c, set
  <2> QED OBVIOUS
<1>3. ASSUME NEW j \in 0..n, go[j] PROVE to[j] \in (j + 1)..n
  <2> DEFINE C == {s \in Nal!StartCodes : s >= j}
             t == Nal!Least(C)
  <2>1. c(j) # Nal!NoCode /\ c(j).nal < n
    BY <1>3
  <2>2. j \in Nat
    BY <1>1
  <2>3. C # {}
    BY <2>1, <2>2, NextCode, Zenon
  <2>4. t \in C /\ c(j).nal = t + 3
    BY <2>2, <2>3, NextCode, Zenon
  <2>5. t \in 0..(n - 3)
    BY <2>4, Codes
  <2> HIDE DEF C, t, c
  <2> QED BY <1>1, <2>1, <2>4, <2>5 DEF C
<1> HIDE DEF ok, go, to
<1>4. PICK f \in [0..n -> BOOLEAN] : \A j \in 0..n : f[j] = (ok[j] /\ (go[j] => f[to[j]]))
  <2>1. \A j \in 0..n : go[j] => to[j] \in (j + 1)..n
    BY <1>3
  <2> HIDE DEF n
  <2>2. \A a \in [0..n -> BOOLEAN], b \in [0..n -> BOOLEAN] : \A d :
          (\A j \in 0..n : b[j] => d[j] \in (j + 1)..n)
             => \E f \in [0..n -> BOOLEAN] : \A j \in 0..n : f[j] = (a[j] /\ (b[j] => f[d[j]]))
    BY <1>1, Loops
  <2> QED BY <1>2, <2>1, <2>2, Zenon
<1>5. ASSUME NEW j \in 0..n
      PROVE  f[j] = (set(j) /\ (c(j) # Nal!NoCode => c(j).nal < n /\ f[c(j).nal]))
  <2>1. /\ ok[j] = (set(j) /\ (c(j) # Nal!NoCode => c(j).nal < n))
        /\ go[j] = (c(j) # Nal!NoCode /\ c(j).nal < n)
        /\ to[j] = c(j).nal
    BY DEF ok, go, to
  <2> HIDE DEF c, set, n
  <2> QED BY <1>4, <2>1
<1>6. Nal!SetsFrom = CHOOSE h : h = [j \in 0..n |-> set(j) /\ (c(j) # Nal!NoCode => c(j).nal < n /\ h[c(j).nal])]
  BY DEF Nal!SetsFrom, UnitEnd
<1>7. f = [j \in 0..n |-> set(j) /\ (c(j) # Nal!NoCode => c(j).nal < n /\ f[c(j).nal])]
  <2> DEFINE g(j) == set(j) /\ (c(j) # Nal!NoCode => c(j).nal < n /\ f[c(j).nal])
  <2>1. f = [j \in 0..n |-> f[j]]
    OBVIOUS
  <2>2. \A j \in 0..n : f[j] = g(j)
    BY <1>5
  <2> HIDE DEF g, n
  <2>3. f = [j \in 0..n |-> g(j)]
    BY <2>1, <2>2
  <2> QED BY <2>3, Zenon DEF g, n
<1>8. Nal!SetsFrom = [j \in 0..n |-> set(j) /\ (c(j) # Nal!NoCode => c(j).nal < n /\ Nal!SetsFrom[c(j).nal])]
  <2> DEFINE P(h) == h = [j \in 0..n |-> set(j) /\ (c(j) # Nal!NoCode => c(j).nal < n /\ h[c(j).nal])]
  <2>1. Nal!SetsFrom = CHOOSE h : P(h)
    BY <1>6, Zenon
  <2>2. \E h : P(h)
    BY <1>7, Zenon
  <2> HIDE DEF P
  <2>3. P(Nal!SetsFrom)
    BY <2>1, <2>2, Zenon
  <2> QED BY <2>3, Zenon DEF P
<1>9. Nal!SetsFrom[i] = (set(i) /\ (c(i) # Nal!NoCode => c(i).nal < n /\ Nal!SetsFrom[c(i).nal]))
  <2> DEFINE g(j) == set(j) /\ (c(j) # Nal!NoCode => c(j).nal < n /\ Nal!SetsFrom[c(j).nal])
  <2>1. Nal!SetsFrom = [j \in 0..n |-> g(j)]
    BY <1>8, Zenon
  <2> HIDE DEF g, n
  <2>2. Nal!SetsFrom[i] = g(i)
    BY <2>1, Zenon DEF n
  <2> QED BY <2>2, Zenon DEF g, n
<1> QED BY <1>9, Zenon

CodesFrom(i) == {s \in Nal!StartCodes : s >= i}

\* A unit ends at the next start code or at the end of the input, without the zeros before it.
LEMMA UnitEndIs ==
  ASSUME Bytes, NEW i \in 0..Nal!Size
  PROVE  LET to == IF CodesFrom(i) = {} THEN Nal!Size ELSE Nal!Least(CodesFrom(i))
         IN to \in 0..Nal!Size /\ UnitEnd(i) = Nal!TrimmedEnd(i, to)
<1> DEFINE n == Nal!Size
           C == {s \in Nal!StartCodes : s >= i}
           t == Nal!Least(C)
           c == Nal!FindStartCode(i)
<1>1. n \in Nat /\ i \in Nat
  BY Sizes
<1>2. UnitEnd(i) = Nal!TrimmedEnd(i, IF c = Nal!NoCode THEN n ELSE c.prefix)
  BY Zenon DEF UnitEnd
<1>3. CASE C = {}
  <2>1. c = Nal!NoCode
    BY <1>1, <1>3, NextCode, Zenon
  <2>2. n \in 0..n
    BY <1>1
  <2> QED BY <1>2, <1>3, <2>1, <2>2, Zenon DEF CodesFrom
<1>4. CASE C # {}
  <2>1. /\ t \in C /\ c # Nal!NoCode
        /\ c.prefix = t \/ (c.prefix = t - 1 /\ Nal!At(t - 1) = 0 /\ t > i)
    BY <1>1, <1>4, NextCode, Zenon
  <2>2. t \in Nal!StartCodes
    BY <2>1
  <2> HIDE DEF t, c
  <2>3. t \in 0..(n - 3)
    BY <2>2, Codes
  <2> HIDE DEF n
  <2>4. t \in Nat /\ t \in 0..n
    BY <1>1, <2>3
  <2>5. UnitEnd(i) = Nal!TrimmedEnd(i, t)
    <3>1. CASE c.prefix = t
      BY <1>2, <2>1, <3>1
    <3>2. CASE c.prefix = t - 1 /\ Nal!At(t - 1) = 0 /\ t > i
      <4>1. Nal!TrimmedEnd(i, t - 1) = Nal!TrimmedEnd(i, t)
        BY <1>1, <2>4, <3>2, ZeroTrimmed
      <4> QED BY <1>2, <2>1, <3>2, <4>1
    <3> QED BY <2>1, <3>1, <3>2
  <2> QED BY <1>4, <2>4, <2>5, Zenon DEF CodesFrom, t, n
<1> QED BY <1>3, <1>4

\* A unit that is a parameter set has bytes.
LEMMA UnitHasBytes ==
  ASSUME Bytes, NEW i \in 0..Nal!Size, Nal!IsParameterSet(Nal!Unit(i, UnitEnd(i)))
  PROVE  UnitEnd(i) > i /\ i < Nal!Size
<1> DEFINE n == Nal!Size
           to == IF CodesFrom(i) = {} THEN Nal!Size ELSE Nal!Least(CodesFrom(i))
           end == UnitEnd(i)
<1>1. n \in Nat /\ i \in 0..n /\ i \in Nat
  BY Sizes
<1>2. to \in 0..n /\ end = Nal!TrimmedEnd(i, to)
  BY UnitEndIs, Zenon
<1> HIDE DEF to, n, end
<1>3. to \in Nat
  BY <1>1, <1>2
<1>4. end = i \/ end \in (i + 1)..to
  BY <1>1, <1>2, <1>3, Trimmed
<1>5. end # i
  <2> SUFFICES ASSUME end = i PROVE FALSE
    OBVIOUS
  <2>1. Nal!IsParameterSet(Nal!Unit(i, i))
    BY Zenon DEF end
  <2>2. ~Nal!IsParameterSet(Nal!Unit(i, i))
    BY EmptyUnit
  <2> QED BY <2>1, <2>2
<1>6. end > i /\ i < n
  BY <1>1, <1>2, <1>4, <1>5
<1> QED BY <1>6 DEF end, n

\* Start codes do not overlap.
LEMMA CodesApart ==
  ASSUME Bytes, NEW s \in Nal!StartCodes
  PROVE  /\ s \in Nat /\ s + 3 \in 0..Nal!Size
         /\ \A x \in Nal!StartCodes : x > s <=> x >= s + 3
<1> DEFINE n == Nal!Size
<1>1. n \in Nat
  BY Sizes
<1>2. s \in 0..(n - 3) /\ Nal!At(s + 1) = 0 /\ Nal!At(s + 2) = 1
  BY Codes
<1>3. ASSUME NEW x \in Nal!StartCodes PROVE x > s <=> x >= s + 3
  <2>1. x \in 0..(n - 3) /\ Nal!At(x) = 0 /\ Nal!At(x + 1) = 0
    BY Codes
  <2>2. x # s + 2
    <3> SUFFICES ASSUME x = s + 2 PROVE FALSE
      OBVIOUS
    <3>1. Nal!At(x) = 1
      BY <1>2
    <3> QED BY <2>1, <3>1
  <2>3. x # s + 1
    <3> SUFFICES ASSUME x = s + 1 PROVE FALSE
      OBVIOUS
    <3>1. x + 1 = s + 2
      BY <1>2
    <3>2. Nal!At(x + 1) = 1
      BY <1>2, <3>1
    <3> QED BY <2>1, <3>2
  <2> HIDE DEF n
  <2> QED BY <1>1, <1>2, <2>1, <2>2, <2>3
<1>4. s \in Nat /\ s + 3 \in 0..n
  <2> HIDE DEF n
  <2> QED BY <1>1, <1>2
<1> QED BY <1>3, <1>4

LEMMA UnitAfterIs ==
  ASSUME Bytes, NEW s \in Nal!StartCodes
  PROVE  Nal!UnitAfter(s) = Nal!Unit(s + 3, UnitEnd(s + 3))
<1> DEFINE n == Nal!Size
           i == s + 3
           X == {x \in Nal!StartCodes : x > s}
           C == CodesFrom(i)
           to == IF C = {} THEN n ELSE Nal!Least(C)
           end == Nal!Least({n} \cup X)
<1>1. n \in Nat /\ s \in Nat /\ i \in 0..n
  BY Sizes, CodesApart
<1>2. X = C
  BY CodesApart DEF CodesFrom
<1>3. to \in 0..n /\ UnitEnd(i) = Nal!TrimmedEnd(i, to)
  BY <1>1, UnitEndIs, Zenon
<1>4. \A x \in C : x \in 0..(n - 3)
  BY Codes DEF CodesFrom
<1>5. end = to
  <2>1. {n} \cup X \subseteq 0..n /\ {n} \cup X # {}
    BY <1>1, <1>2, <1>4
  <2>2. end \in {n} \cup X /\ \A x \in {n} \cup X : end <= x
    <3> HIDE DEF X, n
    <3> QED BY <1>1, <2>1, Extremes
  <2>3. CASE C = {}
    BY <1>2, <2>2, <2>3
  <2>4. CASE C # {}
    <3>1. C \subseteq 0..n
      BY <1>1, <1>4
    <3>2. to \in C /\ \A x \in C : to <= x
      <4> HIDE DEF C, n
      <4> QED BY <1>1, <2>4, <3>1, Extremes
    <3>3. to \in 0..(n - 3) /\ end <= to /\ (end = n \/ end \in C)
      BY <1>2, <1>4, <2>2, <3>2
    <3> HIDE DEF to, end, C, n
    <3>4. end \in C
      BY <1>1, <3>3
    <3>5. end \in 0..(n - 3) /\ to <= end
      BY <1>4, <3>2, <3>4
    <3> QED BY <1>1, <3>3, <3>5
  <2> QED BY <2>3, <2>4
<1>6. Nal!UnitAfter(s) = Nal!Unit(i, Nal!TrimmedEnd(i, end))
  <2>1. i + 1 = s + 4
    BY <1>1
  <2> QED BY <2>1 DEF Nal!UnitAfter, Nal!TrimmedEnd
<1> QED BY <1>3, <1>5, <1>6, Zenon

\* The loop accepts the rest of the input when it accepts the unit and the rest after it.
LEMMA SetsAfter ==
  ASSUME Bytes, NEW s \in Nal!StartCodes
  PROVE  LET C == CodesFrom(s + 3)
             t == Nal!Least(C)
         IN Nal!SetsFrom[s + 3] <=>
              /\ Nal!IsParameterSet(Nal!UnitAfter(s))
              /\ C # {} => t + 3 < Nal!Size /\ Nal!SetsFrom[t + 3]
<1> DEFINE n == Nal!Size
           i == s + 3
           C == CodesFrom(i)
           t == Nal!Least(C)
           c == Nal!FindStartCode(i)
           set == Nal!IsParameterSet(Nal!Unit(i, UnitEnd(i)))
<1>1. i \in 0..n /\ i \in Nat /\ s \in Nat
  BY CodesApart
<1>2. Nal!SetsFrom[i] <=>
        /\ UnitEnd(i) > i /\ set
        /\ c # Nal!NoCode => c.nal < n /\ Nal!SetsFrom[c.nal]
  BY <1>1, SetsFromIs, Zenon
<1>3. set => UnitEnd(i) > i
  BY <1>1, UnitHasBytes, Zenon
<1>4. /\ C = {} => c = Nal!NoCode
      /\ C # {} => c # Nal!NoCode /\ c.nal = t + 3
  <2>1. C = {x \in Nal!StartCodes : x >= i}
    BY DEF CodesFrom
  <2> QED BY <1>1, <2>1, NextCode, Zenon
<1>5. Nal!UnitAfter(s) = Nal!Unit(i, UnitEnd(i))
  BY UnitAfterIs, Zenon
<1>6. Nal!SetsFrom[i] <=>
        /\ Nal!IsParameterSet(Nal!UnitAfter(s))
        /\ C # {} => t + 3 < n /\ Nal!SetsFrom[t + 3]
  <2> HIDE DEF i, C, t, c, n
  <2>1. CASE C = {}
    BY <1>2, <1>3, <1>4, <1>5, <2>1, Zenon
  <2>2. CASE C # {}
    BY <1>2, <1>3, <1>4, <1>5, <2>2, Zenon
  <2> QED BY <2>1, <2>2
<1> QED BY <1>6, Zenon

\* The loop accepts the rest of the input exactly when every unit in it is a parameter set:
\* the last start code where it does not would be one where it does.
LEMMA AllSets ==
  ASSUME Bytes, NEW s \in Nal!StartCodes
  PROVE  Nal!SetsFrom[s + 3] <=> \A x \in CodesFrom(s) : Nal!IsParameterSet(Nal!UnitAfter(x))
<1> DEFINE n == Nal!Size
           set(x) == Nal!IsParameterSet(Nal!UnitAfter(x))
           Agrees(x) == Nal!SetsFrom[x + 3] <=> \A y \in CodesFrom(x) : set(y)
           B == {x \in Nal!StartCodes : ~Agrees(x)}
<1>1. n \in Nat
  BY Sizes
<1>2. \A x \in Nal!StartCodes : x \in 0..n /\ x \in Nat
  <2> SUFFICES ASSUME NEW x \in Nal!StartCodes PROVE x \in 0..n
    OBVIOUS
  <2>1. x \in 0..(n - 3)
    BY Codes
  <2> QED BY <1>1, <2>1
<1>3. B = {}
  <2> SUFFICES ASSUME B # {} PROVE FALSE
    OBVIOUS
  <2> DEFINE x == Nal!Most(B)
             C == CodesFrom(x + 3)
             t == Nal!Least(C)
  <2>1. x \in B /\ \A y \in B : y <= x
    <3>1. B \subseteq 0..n
      BY <1>2
    <3> HIDE DEF B, n
    <3> QED BY <1>1, <3>1, Extremes
  <2>2. x \in Nal!StartCodes /\ ~Agrees(x)
    <3> HIDE DEF x, Agrees
    <3> QED BY <2>1
  <2>3. Nal!SetsFrom[x + 3] <=> set(x) /\ (C # {} => t + 3 < n /\ Nal!SetsFrom[t + 3])
    BY <2>2, SetsAfter, Zenon
  <2> HIDE DEF x
  <2>4. CodesFrom(x) = {x} \cup C
    <3>1. \A y \in Nal!StartCodes : (y > x <=> y >= x + 3) /\ y \in Nat /\ x \in Nat
      BY <1>2, <2>2, CodesApart
    <3>2. \A y \in Nal!StartCodes : y >= x <=> y = x \/ y >= x + 3
      BY <3>1
    <3> QED BY <2>2, <3>2 DEF CodesFrom
  <2>5. CASE C = {}
    <3>1. (\A y \in CodesFrom(x) : set(y)) <=> set(x)
      BY <2>4, <2>5
    <3> QED BY <2>2, <2>3, <2>5, <3>1
  <2>6. CASE C # {}
    <3>1. t \in C /\ \A y \in C : t <= y
      <4>1. C \subseteq 0..n
        BY <1>2 DEF CodesFrom
      <4> HIDE DEF C, n
      <4> QED BY <1>1, <2>6, <4>1, Extremes
    <3> HIDE DEF t
    <3>2. t \in Nal!StartCodes /\ t > x /\ t \in Nat /\ x \in Nat
      <4>1. t \in Nal!StartCodes /\ t >= x + 3
        BY <3>1 DEF CodesFrom
      <4>2. t > x
        BY <2>2, <4>1, CodesApart
      <4> QED BY <1>2, <2>2, <4>1, <4>2
    <3>3. Agrees(t)
      <4>1. t \notin B
        <5> HIDE DEF B
        <5> QED BY <2>1, <3>2
      <4> QED BY <3>2, <4>1
    <3>4. C = CodesFrom(t)
      <4>1. \A y \in Nal!StartCodes : y \in Nat
        BY <1>2
      <4>2. \A y \in Nal!StartCodes : y >= x + 3 <=> y >= t
        <5> SUFFICES ASSUME NEW y \in Nal!StartCodes PROVE y >= x + 3 <=> y >= t
          OBVIOUS
        <5>1. y >= x + 3 => y >= t
          <6>1. y >= x + 3 => y \in C
            BY DEF CodesFrom
          <6> QED BY <3>1, <3>2, <4>1, <6>1
        <5>2. y >= t => y >= x + 3
          <6>1. y > x <=> y >= x + 3
            BY <2>2, CodesApart
          <6> QED BY <3>2, <4>1, <6>1
        <5> QED BY <5>1, <5>2
      <4> QED BY <4>2 DEF CodesFrom
    <3>5. set(t) => t + 3 < n
      <4>1. Nal!UnitAfter(t) = Nal!Unit(t + 3, UnitEnd(t + 3)) /\ t + 3 \in 0..n
        BY <3>2, UnitAfterIs, CodesApart
      <4> QED BY <4>1, UnitHasBytes
    <3>6. (\A y \in CodesFrom(x) : set(y)) <=> set(x) /\ \A y \in C : set(y)
      <4> HIDE DEF C, set
      <4> QED BY <2>4
    <3>7. (\A y \in C : set(y)) <=> t + 3 < n /\ Nal!SetsFrom[t + 3]
      <4> HIDE DEF C, set, n
      <4>1. (\A y \in C : set(y)) <=> Nal!SetsFrom[t + 3]
        BY <3>3, <3>4, Zenon
      <4>2. (\A y \in C : set(y)) => t + 3 < n
        BY <3>1, <3>5, Zenon
      <4> QED BY <4>1, <4>2, Zenon
    <3> HIDE DEF C, set, n
    <3> QED BY <2>2, <2>3, <2>6, <3>6, <3>7, Zenon
  <2> QED BY <2>5, <2>6
<1> QED BY <1>3

LEMMA AnnexBIs ==
  ASSUME Bytes
  PROVE  Nal!AnnexB <=> Nal!ByStartCodes
<1> DEFINE n == Nal!Size
           S == Nal!StartCodes
           t == Nal!Least(S)
           c == Nal!FindStartCode(0)
<1>1. n \in Nat
  BY Sizes
<1>2. \A x \in S : x \in 0..n /\ x \in Nat /\ x >= 0
  <2> SUFFICES ASSUME NEW x \in S PROVE x \in 0..n
    OBVIOUS
  <2>1. x \in 0..(n - 3)
    BY Codes
  <2> QED BY <1>1, <2>1
<1>3. S = {s \in S : s >= 0}
  BY <1>2
<1>4. /\ S = {} => c = Nal!NoCode
      /\ S # {} => /\ t \in S /\ \A s \in S : t <= s
                   /\ c # Nal!NoCode /\ c.nal = t + 3
                   /\ c.prefix = t \/ (c.prefix = t - 1 /\ Nal!At(t - 1) = 0 /\ t > 0)
  <2>1. 0 \in Nat
    OBVIOUS
  <2> DEFINE C == {s \in S : s >= 0}
  <2>2. /\ C = {} => c = Nal!NoCode
        /\ C # {} => /\ Nal!Least(C) \in C /\ \A s \in C : Nal!Least(C) <= s
                     /\ c # Nal!NoCode /\ c.nal = Nal!Least(C) + 3
                     /\ c.prefix = Nal!Least(C)
                        \/ (c.prefix = Nal!Least(C) - 1 /\ Nal!At(Nal!Least(C) - 1) = 0 /\ Nal!Least(C) > 0)
    BY <2>1, NextCode, Zenon
  <2>3. C = S
    BY <1>3
  <2> HIDE DEF C
  <2> QED BY <2>2, <2>3, Zenon
<1>5. Nal!AnnexB <=> /\ c # Nal!NoCode /\ \A i \in 0..(c.prefix - 1) : Nal!At(i) = 0
                     /\ c.nal < n /\ Nal!SetsFrom[c.nal]
  BY Zenon DEF Nal!AnnexB
<1>6. Nal!ByStartCodes <=> /\ S # {} /\ \A i \in 0..(t - 1) : Nal!At(i) = 0
                           /\ \A x \in S : Nal!IsParameterSet(Nal!UnitAfter(x))
  BY Zenon DEF Nal!ByStartCodes
<1>7. CASE S = {}
  BY <1>4, <1>5, <1>6, <1>7, Zenon
<1>8. CASE S # {}
  <2>1. t \in S /\ \A s \in S : t <= s
    BY <1>4, <1>8, Zenon
  <2>2. /\ c # Nal!NoCode /\ c.nal = t + 3
        /\ c.prefix = t \/ (c.prefix = t - 1 /\ Nal!At(t - 1) = 0 /\ t > 0)
    BY <1>4, <1>8, Zenon
  <2> HIDE DEF t, c
  <2>3. t \in Nat
    BY <1>2, <2>1
  <2>4. (\A i \in 0..(c.prefix - 1) : Nal!At(i) = 0) <=> (\A i \in 0..(t - 1) : Nal!At(i) = 0)
    <3>1. CASE c.prefix = t
      BY <3>1
    <3>2. CASE c.prefix = t - 1 /\ Nal!At(t - 1) = 0 /\ t > 0
      <4> DEFINE p == c.prefix
      <4>1. \A i \in 0..(t - 1) : i = t - 1 \/ i \in 0..(p - 1)
        BY <2>3, <3>2
      <4>2. \A i \in 0..(p - 1) : i \in 0..(t - 1)
        BY <2>3, <3>2
      <4> HIDE DEF p
      <4>3. (\A i \in 0..(p - 1) : Nal!At(i) = 0) <=> (\A i \in 0..(t - 1) : Nal!At(i) = 0)
        BY <3>2, <4>1, <4>2, Zenon
      <4> QED BY <4>3 DEF p
    <3> QED BY <2>2, <3>1, <3>2
  <2>5. CodesFrom(t) = S
    BY <2>1, <1>2 DEF CodesFrom
  <2>6. Nal!SetsFrom[t + 3] <=> \A x \in S : Nal!IsParameterSet(Nal!UnitAfter(x))
    BY <2>1, <2>5, AllSets
  <2>7. (\A x \in S : Nal!IsParameterSet(Nal!UnitAfter(x))) => t + 3 < n
    <3>1. Nal!UnitAfter(t) = Nal!Unit(t + 3, UnitEnd(t + 3)) /\ t + 3 \in 0..n
      BY <2>1, UnitAfterIs, CodesApart
    <3>2. Nal!IsParameterSet(Nal!UnitAfter(t)) => t + 3 < n
      BY <3>1, UnitHasBytes
    <3> QED BY <2>1, <3>2, Zenon
  <2> HIDE DEF S, n
  <2> QED BY <1>5, <1>6, <1>8, <2>2, <2>4, <2>6, <2>7, Zenon
<1> QED BY <1>7, <1>8

\* The length at an offset is a number, when its bytes are in the input.
LEMMA NumberType ==
  ASSUME Bytes, nal \in {1, 2, 4}, NEW i \in 0..Nal!Size, Nal!Size - i >= nal
  PROVE  Nal!Number(i) \in Nat
<1> DEFINE n == Nal!Size
<1>1. n \in Nat /\ i \in Nat
  BY Sizes
<1>2. \A k \in {0, 1, 2, 3} : k < nal => Nal!At(i + k) \in Nat
  <2> SUFFICES ASSUME NEW k \in {0, 1, 2, 3}, k < nal PROVE Nal!At(i + k) \in Nat
    OBVIOUS
  <2>1. i + k \in 0..(n - 1)
    BY <1>1
  <2> QED BY <2>1, Sizes
<1> DEFINE with(v, k) == IF k < nal THEN v * 256 + Nal!At(i + k) ELSE v
<1>3. \A k \in {0, 1, 2, 3}, v \in Nat : with(v, k) \in Nat
  <2> SUFFICES ASSUME NEW k \in {0, 1, 2, 3}, NEW v \in Nat PROVE with(v, k) \in Nat
    OBVIOUS
  <2> QED BY <1>2
<1>4. Nal!Number(i) = with(with(with(with(0, 0), 1), 2), 3)
  BY Zenon DEF Nal!Number
<1> HIDE DEF with
<1>5. with(0, 0) \in Nat
  BY <1>3
<1>6. with(with(0, 0), 1) \in Nat
  BY <1>3, <1>5
<1>7. with(with(with(0, 0), 1), 2) \in Nat
  BY <1>3, <1>6
<1> QED BY <1>3, <1>4, <1>7

\* A unit and its length fit from an offset on.
UnitFits(i) ==
  /\ Nal!Size - i >= nal /\ Nal!Number(i) # 0
  /\ Nal!Number(i) <= Nal!Size - i - nal

LengthsEnd(i) == i + nal + Nal!Number(i)

LEMMA LengthsFromIs ==
  ASSUME Bytes, nal \in {1, 2, 4}, NEW i \in 0..Nal!Size
  PROVE  /\ Nal!LengthsFrom[i] <=>
              \/ i = Nal!Size
              \/ /\ UnitFits(i) /\ Nal!IsParameterSet(Nal!Unit(i + nal, LengthsEnd(i)))
                 /\ Nal!LengthsFrom[LengthsEnd(i)]
         /\ UnitFits(i) => LengthsEnd(i) \in (i + 1)..Nal!Size
<1> DEFINE n == Nal!Size
           set(j) == Nal!IsParameterSet(Nal!Unit(j + nal, LengthsEnd(j)))
           ok == [j \in 0..n |-> j = n \/ (UnitFits(j) /\ set(j))]
           go == [j \in 0..n |-> j # n /\ UnitFits(j)]
           to == [j \in 0..n |-> LengthsEnd(j)]
           h(f, j) == j = n \/ (UnitFits(j) /\ set(j) /\ f[LengthsEnd(j)])
<1>1. n \in Nat
  BY Sizes
<1>2. ok \in [0..n -> BOOLEAN] /\ go \in [0..n -> BOOLEAN]
  <2>1. \A j : UnitFits(j) \in BOOLEAN
    BY Zenon DEF UnitFits
  <2> HIDE DEF set, n
  <2> QED BY <2>1
<1>3. ASSUME NEW j \in 0..n, UnitFits(j) PROVE LengthsEnd(j) \in (j + 1)..n
  <2>1. n - j >= nal /\ Nal!Number(j) # 0 /\ Nal!Number(j) <= n - j - nal
    BY <1>3 DEF UnitFits
  <2>2. Nal!Number(j) \in Nat
    BY <2>1, NumberType
  <2> DEFINE m == Nal!Number(j)
  <2> HIDE DEF n, m
  <2>3. j + nal + m \in (j + 1)..n
    BY <1>1, <2>1, <2>2 DEF m
  <2> QED BY <2>3 DEF LengthsEnd, m
<1> HIDE DEF ok, go, to
<1>4. PICK f \in [0..n -> BOOLEAN] : \A j \in 0..n : f[j] = (ok[j] /\ (go[j] => f[to[j]]))
  <2>1. \A j \in 0..n : go[j] => to[j] \in (j + 1)..n
    BY <1>3 DEF go, to
  <2> HIDE DEF n
  <2>2. \A a \in [0..n -> BOOLEAN], b \in [0..n -> BOOLEAN] : \A d :
          (\A j \in 0..n : b[j] => d[j] \in (j + 1)..n)
             => \E f \in [0..n -> BOOLEAN] : \A j \in 0..n : f[j] = (a[j] /\ (b[j] => f[d[j]]))
    BY <1>1, Loops
  <2> DEFINE Q(a, b, d) ==
               (\A j \in 0..n : b[j] => d[j] \in (j + 1)..n)
                  => \E f \in [0..n -> BOOLEAN] : \A j \in 0..n : f[j] = (a[j] /\ (b[j] => f[d[j]]))
  <2>3. Q(ok, go, to)
    <3>1. \A a \in [0..n -> BOOLEAN], b \in [0..n -> BOOLEAN] : \A d : Q(a, b, d)
      BY <2>2, Zenon
    <3> HIDE DEF Q, n
    <3> QED BY <1>2, <3>1
  <2> HIDE DEF h, n
  <2> QED BY <2>1, <2>3, Zenon
<1>5. ASSUME NEW j \in 0..n PROVE f[j] = h(f, j)
  <2>1. /\ ok[j] = (j = n \/ (UnitFits(j) /\ set(j)))
        /\ go[j] = (j # n /\ UnitFits(j))
        /\ to[j] = LengthsEnd(j)
    BY DEF ok, go, to
  <2>2. n \in 0..n => ok[n] /\ ~go[n]
    BY DEF ok, go
  <2> HIDE DEF set, n
  <2> QED BY <1>4, <2>1, <2>2
<1>6. f = [j \in 0..n |-> h(f, j)]
  <2> HIDE DEF h, n
  <2>1. f = [j \in 0..n |-> f[j]]
    BY <1>4
  <2> QED BY <1>5, <2>1
<1>7. Nal!LengthsFrom = CHOOSE g : g = [j \in 0..n |-> h(g, j)]
  BY DEF Nal!LengthsFrom, UnitFits, LengthsEnd
<1>8. Nal!LengthsFrom = [j \in 0..n |-> h(Nal!LengthsFrom, j)]
  <2> HIDE DEF h, n
  <2> DEFINE P(g) == g = [j \in 0..n |-> h(g, j)]
  <2>1. Nal!LengthsFrom = CHOOSE g : P(g)
    BY <1>7, Zenon
  <2>2. \E g : P(g)
    BY <1>6, Zenon
  <2> HIDE DEF P
  <2>3. P(Nal!LengthsFrom)
    BY <2>1, <2>2, Zenon
  <2> QED BY <2>3, Zenon DEF P
<1>9. Nal!LengthsFrom[i] = h(Nal!LengthsFrom, i)
  <2> HIDE DEF h, n
  <2> QED BY <1>8, Zenon DEF n
<1> QED BY <1>3, <1>9, Zenon

\* A set of cuts tells where a unit ends.
CutAfter(cuts, c) == Nal!Least({Nal!Size} \cup {x \in cuts : x > c})
GoodCut(cuts, c) ==
  LET d == CutAfter(cuts, c)
  IN d - c > nal /\ d - c = nal + Nal!Number(c) /\ Nal!IsParameterSet(Nal!Unit(c + nal, d))

\* The end of a unit is the only one its cuts can tell, once the others are further on.
LEMMA FirstCut ==
  ASSUME Bytes, NEW c \in 0..(Nal!Size - 1), NEW cuts \in SUBSET (1..(Nal!Size - 1))
  PROVE  /\ CutAfter(cuts, c) = Nal!Size \/ CutAfter(cuts, c) \in cuts
         /\ CutAfter(cuts, c) \in (c + 1)..Nal!Size
         /\ \A x \in cuts : x > c => CutAfter(cuts, c) <= x
<1> DEFINE n == Nal!Size
           X == {x \in cuts : x > c}
           d == Nal!Least({n} \cup X)
<1>1. n \in Nat
  BY Sizes
<1>2. {n} \cup X \subseteq 0..n /\ {n} \cup X # {}
  <2>1. \A x \in cuts : x \in 1..(n - 1)
    OBVIOUS
  <2> HIDE DEF n
  <2>2. \A x \in cuts : x \in 0..n
    BY <1>1, <2>1
  <2>3. \A x \in X : x \in 0..n
    BY <2>2
  <2>4. n \in 0..n
    BY <1>1
  <2> HIDE DEF X
  <2> QED BY <2>3, <2>4
<1>3. d \in {n} \cup X /\ \A x \in {n} \cup X : d <= x
  <2> HIDE DEF X, n
  <2> QED BY <1>1, <1>2, Extremes
<1>4. d \in (c + 1)..n
  <2>1. d = n \/ (d \in cuts /\ d > c)
    <3> HIDE DEF d, n
    <3> QED BY <1>3
  <2>2. d \in cuts => d \in 1..(n - 1)
    OBVIOUS
  <2> HIDE DEF d, n
  <2>3. c \in 0..(n - 1)
    BY DEF n
  <2> QED BY <1>1, <2>1, <2>2, <2>3
<1> HIDE DEF d
<1> QED BY <1>3, <1>4 DEF CutAfter, d

\* What the loop accepts can be cut into parameter sets: the last offset where it cannot
\* would be one where it can.
LEMMA AcceptedIsCut ==
  ASSUME Bytes, nal \in {1, 2, 4}, NEW i \in 0..(Nal!Size - 1), Nal!LengthsFrom[i]
  PROVE  \E cuts \in SUBSET ((i + 1)..(Nal!Size - 1)) : \A c \in {i} \cup cuts : GoodCut(cuts, c)
<1> DEFINE n == Nal!Size
           Cuts(j) == SUBSET ((j + 1)..(n - 1))
           Cut(j) == \E cuts \in Cuts(j) : \A c \in {j} \cup cuts : GoodCut(cuts, c)
           B == {j \in 0..(n - 1) : Nal!LengthsFrom[j] /\ ~Cut(j)}
<1>1. n \in Nat
  BY Sizes
<1>2. B = {}
  <2> SUFFICES ASSUME B # {} PROVE FALSE
    OBVIOUS
  <2> DEFINE j == Nal!Most(B)
             end == LengthsEnd(j)
  <2>1. j \in B /\ \A k \in B : k <= j
    <3>1. B \subseteq 0..n
      BY <1>1
    <3> HIDE DEF B, n
    <3> QED BY <1>1, <3>1, Extremes
  <2>2. j \in 0..(n - 1) /\ Nal!LengthsFrom[j] /\ ~Cut(j)
    <3> HIDE DEF j, Cut
    <3> QED BY <2>1
  <2> HIDE DEF j
  <2>3. j \in 0..n /\ j # n
    BY <1>1, <2>2
  <2>4. UnitFits(j) /\ Nal!IsParameterSet(Nal!Unit(j + nal, end)) /\ Nal!LengthsFrom[end]
    BY <2>2, <2>3, LengthsFromIs, Zenon
  <2>5. end \in (j + 1)..n
    BY <2>3, <2>4, LengthsFromIs, Zenon
  <2>6. Nal!Number(j) \in Nat /\ end = j + nal + Nal!Number(j) /\ Nal!Number(j) # 0
    BY <2>3, <2>4, NumberType DEF UnitFits, LengthsEnd
  <2>7. ASSUME NEW cuts, CutAfter(cuts, j) = end PROVE GoodCut(cuts, j)
    <3>1. end - j > nal /\ end - j = nal + Nal!Number(j)
      <4> DEFINE m == Nal!Number(j)
      <4> HIDE DEF m, end, n
      <4>1. m \in Nat /\ end = j + nal + m /\ m # 0
        BY <2>6 DEF m
      <4>2. end - j > nal /\ end - j = nal + m
        BY <2>3, <1>1, <4>1
      <4> QED BY <4>2 DEF m
    <3> QED BY <2>4, <2>7, <3>1, Zenon DEF GoodCut
  <2> HIDE DEF end
  <2>8. CASE end = n
    <3>1. {} \in SUBSET (1..(Nal!Size - 1))
      OBVIOUS
    <3>2. CutAfter({}, j) = end
      BY <2>2, <2>8, <3>1, FirstCut
    <3>3. GoodCut({}, j)
      BY <2>7, <3>2
    <3>4. {} \in Cuts(j) /\ {j} \cup {} = {j}
      OBVIOUS
    <3>5. \A c \in {j} \cup {} : GoodCut({}, c)
      BY <3>3, <3>4
    <3>6. Cut(j)
      BY <3>4, <3>5
    <3> QED BY <2>2, <3>6
  <2>9. CASE end # n
    <3>1. end \in 0..(n - 1) /\ end > j /\ end \in Nat /\ j \in Nat
      <4> HIDE DEF n
      <4> QED BY <1>1, <2>2, <2>5, <2>9
    <3>2. Cut(end)
      <4>1. end \notin B
        <5>1. ~(end <= j)
          BY <3>1
        <5> HIDE DEF B
        <5> QED BY <2>1, <5>1
      <4> QED BY <2>4, <3>1, <4>1
    <3>3. PICK cuts \in Cuts(end) : \A c \in {end} \cup cuts : GoodCut(cuts, c)
      BY <3>2
    <3> DEFINE more == {end} \cup cuts
    <3>4. \A x \in cuts : x \in (end + 1)..(n - 1)
      BY <3>3
    <3>5. more \in Cuts(j) /\ more \in SUBSET (1..(n - 1)) /\ \A x \in more : x > j
      <4>1. ASSUME NEW x \in more PROVE x \in (j + 1)..(n - 1) /\ x \in 1..(n - 1) /\ x > j
        <5>1. CASE x = end
          <6> HIDE DEF n
          <6> QED BY <1>1, <3>1, <5>1
        <5>2. CASE x \in cuts
          <6>1. x \in (end + 1)..(n - 1)
            BY <3>4, <5>2
          <6> HIDE DEF n
          <6> QED BY <1>1, <3>1, <6>1
        <5> QED BY <5>1, <5>2
      <4> HIDE DEF more
      <4> QED BY <4>1
    <3>6. CutAfter(more, j) = end
      <4> DEFINE d == CutAfter(more, j)
      <4>1. (d = n \/ d \in more) /\ d \in (j + 1)..n /\ \A x \in more : x > j => d <= x
        BY <2>2, <3>5, FirstCut
      <4>2. d <= end
        BY <3>5, <4>1
      <4>3. d \in more => d = end \/ d >= end + 1
        <5>1. d \in more => d = end \/ d \in (end + 1)..(n - 1)
          <6> HIDE DEF d, n
          <6>1. d \in more => d = end \/ d \in cuts
            OBVIOUS
          <6> QED BY <3>4, <6>1, Zenon DEF n
        <5> HIDE DEF d, n, more
        <5> QED BY <1>1, <3>1, <5>1
      <4> HIDE DEF d, n, more
      <4> QED BY <1>1, <2>5, <2>9, <3>1, <4>1, <4>2, <4>3 DEF d
    <3>7. \A c \in {end} \cup cuts : CutAfter(more, c) = CutAfter(cuts, c)
      <4> SUFFICES ASSUME NEW c \in {end} \cup cuts PROVE CutAfter(more, c) = CutAfter(cuts, c)
        OBVIOUS
      <4>1. ~(end > c)
        <5>1. c = end \/ c \in (end + 1)..(n - 1)
          <6>1. c = end \/ c \in cuts
            OBVIOUS
          <6> QED BY <3>4, <6>1, Zenon
        <5> HIDE DEF n
        <5> QED BY <1>1, <3>1, <5>1
      <4>2. {x \in more : x > c} = {x \in cuts : x > c}
        BY <4>1
      <4> QED BY <4>2 DEF CutAfter
    <3>8. \A c \in {end} \cup cuts : GoodCut(more, c)
      BY <3>3, <3>7 DEF GoodCut
    <3>9. GoodCut(more, j)
      BY <2>7, <3>6
    <3>10. \A c \in {j} \cup more : GoodCut(more, c)
      BY <3>8, <3>9
    <3> HIDE DEF more
    <3>11. Cut(j)
      BY <3>5, <3>10
    <3> QED BY <2>2, <3>11
  <2> QED BY <2>8, <2>9
<1>3. i \notin B
  BY <1>2
<1>4. Cut(i)
  BY <1>3
<1> QED BY <1>4

\* An input cut into parameter sets is accepted from each cut on.
LEMMA CutIsAccepted ==
  ASSUME Bytes, nal \in {1, 2, 4}, Nal!Size # 0,
         NEW cuts \in SUBSET (1..(Nal!Size - 1)), \A c \in {0} \cup cuts : GoodCut(cuts, c)
  PROVE  Nal!LengthsFrom[0]
<1> DEFINE n == Nal!Size
           A == {0} \cup cuts
           B == {c \in A : ~Nal!LengthsFrom[c]}
<1>1. n \in Nat /\ n # 0
  BY Sizes
<1>2. \A c \in A : c \in 0..(n - 1) /\ c \in 0..n
  <2> HIDE DEF n
  <2> SUFFICES ASSUME NEW c \in A PROVE c \in 0..(n - 1) /\ c \in 0..n
    OBVIOUS
  <2>1. CASE c = 0
    BY <1>1, <2>1
  <2>2. CASE c \in 1..(n - 1)
    BY <1>1, <2>2
  <2> QED BY <2>1, <2>2 DEF n
<1>3. B = {}
  <2> SUFFICES ASSUME B # {} PROVE FALSE
    OBVIOUS
  <2> DEFINE c == Nal!Most(B)
             d == CutAfter(cuts, c)
             m == Nal!Number(c)
  <2>1. c \in B /\ \A k \in B : k <= c
    <3>1. B \subseteq 0..n
      BY <1>2
    <3> HIDE DEF B, n
    <3> QED BY <1>1, <3>1, Extremes
  <2>2. c \in A /\ ~Nal!LengthsFrom[c]
    BY <2>1
  <2> HIDE DEF c
  <2>3. c \in 0..(n - 1) /\ c \in 0..n /\ c # n
    <3> HIDE DEF n, A
    <3> QED BY <1>1, <1>2, <2>2
  <2>4. (d = n \/ d \in cuts) /\ d \in (c + 1)..n
    BY <2>3, FirstCut
  <2>5. d - c > nal /\ d - c = nal + m /\ Nal!IsParameterSet(Nal!Unit(c + nal, d))
    BY <2>2, Zenon DEF GoodCut
  <2>6. n - c >= nal
    <3> HIDE DEF d, m, n, c
    <3> QED BY <1>1, <2>3, <2>4, <2>5
  <2>7. m \in Nat
    BY <2>3, <2>6, NumberType
  <2>8. m # 0 /\ m <= n - c - nal /\ d = c + nal + m
    <3> HIDE DEF d, m, n, c
    <3> QED BY <1>1, <2>3, <2>4, <2>5, <2>7
  <2>9. Nal!LengthsFrom[d]
    <3>1. CASE d = n
      <4>1. d \in 0..n
        BY <1>1, <3>1
      <4> QED BY <3>1, <4>1, LengthsFromIs
    <3>2. CASE d \in cuts
      <4>1. d \in A
        BY <3>2
      <4>2. ~(d <= c)
        <5> HIDE DEF d, n, c
        <5> QED BY <1>1, <2>3, <2>4
      <4>3. d \notin B
        <5> HIDE DEF B, d
        <5> QED BY <2>1, <4>2
      <4> HIDE DEF A, d
      <4> QED BY <4>1, <4>3
    <3> QED BY <2>4, <3>1, <3>2
  <2>10. UnitFits(c)
    BY <2>6, <2>8 DEF UnitFits
  <2>11. LengthsEnd(c) = d
    BY <2>8 DEF LengthsEnd
  <2>12. Nal!LengthsFrom[c]
    <3> HIDE DEF d
    <3> QED BY <2>3, <2>5, <2>9, <2>10, <2>11, LengthsFromIs
  <2> QED BY <2>2, <2>12
<1>4. 0 \in A
  OBVIOUS
<1> QED BY <1>3, <1>4

LEMMA LengthsAre ==
  ASSUME Bytes, nal \in {1, 2, 4}, Nal!Size # 0
  PROVE  Nal!LengthPrefixed <=> Nal!ByLengths
<1>1. Nal!Size \in Nat
  BY Sizes
<1>2. Nal!ByLengths <=> \E cuts \in SUBSET (1..(Nal!Size - 1)) : \A c \in {0} \cup cuts : GoodCut(cuts, c)
  BY Zenon DEF Nal!ByLengths, GoodCut, CutAfter
<1>3. Nal!LengthsFrom[0] => Nal!ByLengths
  <2>1. 0 \in 0..(Nal!Size - 1) /\ 0 + 1 = 1
    BY <1>1
  <2>2. Nal!LengthsFrom[0] =>
          \E cuts \in SUBSET ((0 + 1)..(Nal!Size - 1)) : \A c \in {0} \cup cuts : GoodCut(cuts, c)
    BY <2>1, AcceptedIsCut, Zenon
  <2> QED BY <1>2, <2>1, <2>2
<1>4. Nal!ByLengths => Nal!LengthsFrom[0]
  BY <1>2, CutIsAccepted, Zenon
<1> QED BY <1>3, <1>4, Zenon DEF Nal!LengthPrefixed

\* What pieces are made of, and the codecs whose inputs are read.
BytesKnown == \A t \in {"AVC", "HEVC"} : Pieces[t] \subseteq Seq(Nat)

NalInv ==
  /\ Bytes /\ nal \in {0, 1, 2, 4, Nal!Disabled}
  /\ nal # Nal!Disabled => type \in {"AVC", "HEVC"}

\* gst_mpp_dec_is_parameter_set_au releases an input at once exactly when some way to
\* cut it into its units leaves only parameter sets, for inputs of any length.
THEOREM AccountedHolds ==
  ASSUME BytesKnown
  PROVE  Nal!Spec => []AccountedExactly
<1>1. Nal!Init => NalInv
  BY DEF Nal!Init, NalInv, Bytes
<1>2. NalInv /\ [Nal!Next]_<<type, nal, au, made>> => NalInv'
  <2> SUFFICES ASSUME NalInv, [Nal!Next]_<<type, nal, au, made>>
               PROVE  NalInv'
    OBVIOUS
  <2>1. CASE Nal!Configure
    <3>1. PICK t \in {"AVC", "HEVC", "other"}, field \in Nal!NoField..3,
               format \in {"byte-stream", "avc", "avc3", "hvc1", "hev1", "other"} :
                 type' = t /\ nal' = Nal!NalFormat(t, format, field)
      BY <2>1 DEF Nal!Configure
    <3>2. Nal!CodecDataLength(field) \in {1, 2, 4, Nal!Disabled}
      BY DEF Nal!CodecDataLength, Nal!NoField
    <3>3. au' = au
      BY <2>1 DEF Nal!Configure
    <3> HIDE DEF NalInv
    <3>4. nal' \in {0, 1, 2, 4, Nal!Disabled} /\ (nal' # Nal!Disabled => t \in {"AVC", "HEVC"})
      BY <3>1, <3>2 DEF Nal!NalFormat
    <3>5. Nal!Disabled' = Nal!Disabled
      BY DEF Nal!Disabled
    <3> QED BY <3>1, <3>3, <3>4, <3>5 DEF NalInv, Bytes
  <2>2. CASE Nal!Longer
    <3>1. nal # Nal!Disabled /\ type' = type /\ nal' = nal
      BY <2>2 DEF Nal!Longer
    <3>2. PICK p \in Pieces[type] : au' = au \o p
      BY <2>2 DEF Nal!Longer
    <3>3. p \in Seq(Nat)
      BY <3>1, <3>2 DEF NalInv, BytesKnown
    <3>4. au' \in Seq(Nat)
      BY <3>2, <3>3, ConcatProperties DEF NalInv, Bytes
    <3> QED BY <3>1, <3>4 DEF NalInv, Bytes, Nal!Disabled
  <2>3. CASE UNCHANGED <<type, nal, au, made>>
    BY <2>3 DEF NalInv, Bytes, Nal!Disabled
  <2> QED BY <2>1, <2>2, <2>3 DEF Nal!Next
<1>3. NalInv => AccountedExactly
  <2> SUFFICES ASSUME NalInv, nal # Nal!Disabled, au # <<>>
               PROVE  Nal!IsParameterSetAu <=> IF nal = 0 THEN Nal!ByStartCodes ELSE Nal!ByLengths
    BY DEF AccountedExactly, Nal!AccountedExactly
  <2>1. Bytes /\ Nal!Size # 0
    BY DEF NalInv, Bytes, Nal!Size
  <2>2. CASE nal = 0
    BY <2>1, <2>2, AnnexBIs DEF Nal!IsParameterSetAu
  <2>3. CASE nal # 0
    <3>1. nal \in {1, 2, 4}
      BY <2>3 DEF NalInv
    <3> QED BY <2>1, <2>3, <3>1, LengthsAre DEF Nal!IsParameterSetAu
  <2> QED BY <2>2, <2>3
<1> QED BY <1>1, <1>2, <1>3, PTL DEF Nal!Spec

-----------------------------------------------------------------------------
(* The compositor: an output is whole *)

\* What the passes have done by each point of an interval: pads lose their buffers
\* meanwhile and get none, so a primary that is passed through stays alone.
WholeInv ==
  /\ drawn = [passes |-> drawn.passes, pat |-> drawn.pat]
  /\ comp \in {"create", "collect", "layout", "check"} => drawn.passes = {}
  /\ comp = "collect" => dest = "pool" \/ (dest = "primary" /\ current \subseteq {0})
  /\ comp \in {"layout", "check", "copied", "scaled"} => dest = "pool"
  /\ comp \in {"copied", "scaled"} => "copy" \in drawn.passes /\ 1 \in inputs
  /\ comp = "scaled" => drawn.pat = <<rects[1].w, rects[1].h>>
  /\ ComposedWhole

LEMMA WholeStep ==
  ASSUME WholeInv, [Comp!Next]_(Comp!compVars)
  PROVE  WholeInv'
<1> USE DEF Comp!frame, ComposedWhole, Comp!ComposedWhole
<1>1. ASSUME NEW p \in 0..1, Comp!Request(p) PROVE WholeInv'
  BY <1>1 DEF WholeInv, Comp!Request
<1>2. ASSUME NEW p \in 0..1, Comp!Release(p) PROVE WholeInv'
  BY <1>2 DEF WholeInv, Comp!Release
<1>3. ASSUME NEW p \in 0..1, Comp!Flush(p) PROVE WholeInv'
  BY <1>3 DEF WholeInv, Comp!Flush
<1>4. ASSUME NEW l \in Comp!Layouts, Comp!SetLayout(l) PROVE WholeInv'
  BY <1>4 DEF WholeInv, Comp!SetLayout
<1>5. CASE Comp!Released
  BY <1>5 DEF WholeInv, Comp!Released
<1>6. CASE Comp!Stop
  BY <1>6 DEF WholeInv, Comp!Stop
<1>7. CASE Comp!Interval
  BY <1>7 DEF WholeInv, Comp!Interval
<1>8. CASE Comp!CreateOutput
  BY <1>8 DEF WholeInv, Comp!CreateOutput, Comp!Output
<1>9. CASE Comp!Collect
  <2>1. /\ inputs' = current /\ comp = "collect" /\ UNCHANGED <<current, dest, rects, drawn>>
        /\ \/ current = {} /\ comp' = "push"
           \/ comp' = "failed"
           \/ dest = "primary" /\ comp' = "push"
           \/ current # {} /\ ~(current = {0} /\ dest = "primary") /\ comp' = "layout"
    BY <1>9 DEF Comp!Collect
  <2> QED BY <2>1 DEF WholeInv
<1>10. CASE Comp!Calculate
  BY <1>10 DEF WholeInv, Comp!Calculate
<1>11. CASE Comp!Refuse
  BY <1>11 DEF WholeInv, Comp!Refuse
<1>12. CASE Comp!Copy
  BY <1>12 DEF WholeInv, Comp!Copy, Comp!Passed
<1>13. CASE Comp!Scale
  <2>1. /\ drawn' = [drawn EXCEPT !.pat = <<rects[1].w, rects[1].h>>]
        /\ comp = "copied" /\ comp' = "scaled" /\ UNCHANGED <<current, dest, inputs, rects>>
    BY <1>13 DEF Comp!Scale, Comp!AcquiredPool
  <2> QED BY <2>1 DEF WholeInv
<1>14. CASE Comp!Blend
  BY <1>14 DEF WholeInv, Comp!Blend, Comp!Passed
<1>15. CASE Comp!Push
  BY <1>15 DEF WholeInv, Comp!Push
<1>16. CASE UNCHANGED Comp!compVars
  BY <1>16 DEF WholeInv, Comp!compVars
<1> QED BY <1>1, <1>2, <1>3, <1>4, <1>5, <1>6, <1>7, <1>8, <1>9, <1>10, <1>11, <1>12, <1>13,
           <1>14, <1>15, <1>16 DEF Comp!Next

\* A composed output carries what was collected for it, whatever is flushed, requested,
\* released and laid out anew meanwhile, for any sizes and rectangles.
THEOREM WholeHolds == Comp!Spec => []ComposedWhole
<1>1. Comp!Init => WholeInv
  BY DEF Comp!Init, WholeInv, ComposedWhole, Comp!ComposedWhole
<1>2. WholeInv /\ [Comp!Next]_(Comp!compVars) => WholeInv'
  BY WholeStep
<1>3. WholeInv => ComposedWhole
  BY DEF WholeInv
<1> QED BY <1>1, <1>2, <1>3, PTL DEF Comp!Spec

-----------------------------------------------------------------------------
(* The compositor: the presets fit *)

LEMMA Halves ==
  ASSUME NEW n \in Nat, n >= 4, n % 2 = 0
  PROVE  /\ \A d \in {2, 20} : /\ Comp!EvenFloor(n \div d) \in Nat
                               /\ Comp!EvenFloor(n \div d) % 2 = 0
         /\ 0 < Comp!EvenFloor(n \div 2) /\ Comp!EvenFloor(n \div 2) < n
         /\ Comp!EvenFloor(n \div 20) + Comp!EvenFloor(n \div 2) <= n
         /\ (n - Comp!EvenFloor(n \div 2)) % 2 = 0
         /\ (n - Comp!EvenFloor(n \div 20) - Comp!EvenFloor(n \div 2)) % 2 = 0
BY DEF Comp!EvenFloor

\* The rectangles of a preset layout fit in the output; two pictures tile it.
LEMMA PresetRects ==
  ASSUME NEW s \in Nat \X Nat, s[1] >= 4, s[2] >= 4, s[1] % 2 = 0, s[2] % 2 = 0,
         NEW l \in Comp!Layouts \ {"custom"}, NEW c
  PROVE  LET r(i) == Comp!RectOf(l, i, s, c)
             area(q) == q.w * q.h
         IN /\ \A i \in 0..1 : Comp!Valid(r(i), s)
            /\ l \notin Comp!Pip => /\ area(r(0)) + area(r(1)) = s[1] * s[2]
                                    /\ \/ r(0).x + r(0).w <= r(1).x
                                       \/ r(0).y + r(0).h <= r(1).y
<1> DEFINE r(i) == Comp!RectOf(l, i, s, c)
           w == s[1]  h == s[2]
           hw == Comp!EvenFloor(s[1] \div 2)   hh == Comp!EvenFloor(s[2] \div 2)
           mw == Comp!EvenFloor(s[1] \div 20)  mh == Comp!EvenFloor(s[2] \div 20)
           rect(x, y, a, b) == [x |-> x, y |-> y, w |-> a, h |-> b]
           Fits(q) == Comp!Valid(q, s)
<1>1. /\ w \in Nat /\ w >= 4 /\ w % 2 = 0 /\ hw \in Nat /\ mw \in Nat /\ hw % 2 = 0 /\ mw % 2 = 0
      /\ 0 < hw /\ hw < w /\ mw + hw <= w /\ (w - hw) % 2 = 0 /\ (w - mw - hw) % 2 = 0
  BY Halves
<1>2. /\ h \in Nat /\ h >= 4 /\ h % 2 = 0 /\ hh \in Nat /\ mh \in Nat /\ hh % 2 = 0 /\ mh % 2 = 0
      /\ 0 < hh /\ hh < h /\ mh + hh <= h /\ (h - hh) % 2 = 0 /\ (h - mh - hh) % 2 = 0
  BY Halves
<1>3. ASSUME NEW x \in Int, NEW y \in Int, NEW a \in Int, NEW b \in Int, x >= 0, y >= 0, a > 0, b > 0,
             x + a <= w, y + b <= h, x % 2 = 0, y % 2 = 0, a % 2 = 0, b % 2 = 0
      PROVE  Fits(rect(x, y, a, b))
  BY <1>3 DEF Comp!Valid
<1>4. CASE l \in Comp!Pip
  <2> DEFINE x == IF l \in {"pip-top-right", "pip-bottom-right"} THEN w - mw - hw ELSE mw
             y == IF l \in {"pip-bottom-right", "pip-bottom-left"} THEN h - mh - hh ELSE mh
  <2>1. r(0) = rect(0, 0, w, h)
    BY <1>4 DEF Comp!RectOf, Comp!Pip
  <2>2. r(1) = rect(x, y, hw, hh)
    BY <1>4 DEF Comp!RectOf, Comp!Pip
  <2>3. /\ x \in Int /\ y \in Int /\ x >= 0 /\ y >= 0 /\ x + hw <= w /\ y + hh <= h
        /\ x % 2 = 0 /\ y % 2 = 0
    <3> HIDE DEF w, h, hw, hh, mw, mh
    <3> QED BY <1>1, <1>2
  <2> HIDE DEF r, w, h, hw, hh, mw, mh, x, y, Fits, rect
  <2>4. 0 \in Int /\ 0 % 2 = 0 /\ 0 + w <= w /\ 0 + h <= h
    BY <1>1, <1>2
  <2>5. Fits(r(0))
    BY <1>1, <1>2, <1>3, <2>1, <2>4
  <2>6. Fits(r(1))
    BY <1>1, <1>2, <1>3, <2>2, <2>3
  <2>7. \A i \in 0..1 : Fits(r(i))
    BY <2>5, <2>6
  <2> QED BY <1>4, <2>7 DEF Fits, r
<1>5. CASE l = "pbp-left-right"
  <2>1. r(0) = rect(0, 0, hw, h) /\ r(1) = rect(hw, 0, w - hw, h)
    BY <1>5 DEF Comp!RectOf, Comp!Pip
  <2> HIDE DEF r, w, h, hw, hh, mw, mh
  <2>2. 0 \in Int /\ 0 % 2 = 0 /\ 0 + h <= h /\ 0 + hw <= w /\ w - hw \in Int /\ w - hw > 0
        /\ hw + (w - hw) <= w
    BY <1>1, <1>2
  <2>3. hw * h + (w - hw) * h = w * h
    BY <1>1, <1>2
  <2>4. r(0).w * r(0).h + r(1).w * r(1).h = w * h /\ r(0).x + r(0).w <= r(1).x
    BY <1>1, <2>1, <2>3
  <2> HIDE DEF Fits, rect
  <2>5. Fits(r(0)) /\ Fits(r(1))
    BY <1>1, <1>2, <1>3, <2>1, <2>2
  <2>6. \A i \in 0..1 : Fits(r(i))
    BY <2>5
  <2> QED BY <2>4, <2>6 DEF Fits, r, w, h
<1>6. CASE l = "pbp-top-bottom"
  <2>1. r(0) = rect(0, 0, w, hh) /\ r(1) = rect(0, hh, w, h - hh)
    BY <1>6 DEF Comp!RectOf, Comp!Pip
  <2> HIDE DEF r, w, h, hw, hh, mw, mh
  <2>2. 0 \in Int /\ 0 % 2 = 0 /\ 0 + w <= w /\ 0 + hh <= h /\ h - hh \in Int /\ h - hh > 0
        /\ hh + (h - hh) <= h
    BY <1>1, <1>2
  <2>3. w * hh + w * (h - hh) = w * h
    BY <1>1, <1>2
  <2>4. r(0).w * r(0).h + r(1).w * r(1).h = w * h /\ r(0).y + r(0).h <= r(1).y
    BY <1>2, <2>1, <2>3
  <2> HIDE DEF Fits, rect
  <2>5. Fits(r(0)) /\ Fits(r(1))
    BY <1>1, <1>2, <1>3, <2>1, <2>2
  <2>6. \A i \in 0..1 : Fits(r(i))
    BY <2>5
  <2> QED BY <2>4, <2>6 DEF Fits, r, w, h
<1> QED BY <1>4, <1>5, <1>6 DEF Comp!Layouts, Comp!Pip

\* Whatever even size is negotiated, the presets' rectangles fit it and two pictures tile it.
THEOREM PresetsHold ==
  ASSUME OutputSizes \subseteq Nat \X Nat
  PROVE  Comp!Spec => []Comp!PresetsFit
<1> DEFINE Sized == size \in Nat \X Nat
<1>1. Comp!Init => Sized
  BY DEF Comp!Init
<1>2. Sized /\ [Comp!Next]_(Comp!compVars) => Sized'
  BY DEF Comp!Next, Comp!compVars, Comp!frame, Comp!Request, Comp!Release, Comp!Flush,
         Comp!SetLayout, Comp!Released, Comp!Stop, Comp!Interval, Comp!CreateOutput, Comp!Collect,
         Comp!Calculate, Comp!Refuse, Comp!Copy, Comp!Scale, Comp!Blend, Comp!Push
<1>3. Sized => Comp!PresetsFit
  BY PresetRects DEF Comp!PresetsFit
<1> QED BY <1>1, <1>2, <1>3, PTL DEF Comp!Spec

-----------------------------------------------------------------------------
(* The sink's memories: names and handles *)

Dumb(d) == <<"dumb", d>>
Dmabuf(d) == <<"dmabuf", d>>
Import(m) == <<"import", m>>
Buffers == {Dumb(d) : d \in Mem!Dumbs}

LEMMA Tags ==
  /\ \A d, e : (Dumb(d) = Dumb(e) => d = e) /\ (Dmabuf(d) = Dmabuf(e) => d = e)
  /\ \A d, e : Dumb(d) # Dmabuf(e) /\ Dumb(d) # Import(e) /\ Dmabuf(d) # Import(e)
  /\ \A d : Mem!None # Dumb(d) /\ Mem!None # Dmabuf(d) /\ Mem!None # Import(d)
  /\ \A m, n : Import(m) = Import(n) => m = n
  /\ \A d : Dumb(d)[1] = "dumb" /\ Dumb(d)[2] = d /\ Dmabuf(d)[2] = d
  /\ \A m : Import(m)[1] = "import"
<1>1. \A d : <<"none">> # <<"dumb", d>> /\ <<"none">> # <<"dmabuf", d>> /\ <<"none">> # <<"import", d>>
  OBVIOUS
<1> QED BY <1>1 DEF Dumb, Dmabuf, Import, Mem!None

LEMMA KindsOfMemory ==
  /\ Mem!Exported = {Dmabuf(d) : d \in Mem!Dumbs}
  /\ Mem!Mems = Foreign \cup {Dmabuf(d) : d \in Mem!Dumbs}
  /\ Mem!Kms = Buffers \cup {Import(m) : m \in Mem!Mems}
BY DEF Mem!Exported, Mem!Mems, Mem!Kms, Buffers, Dumb, Dmabuf, Import

\* A table of handles and the handles it uses.
Used(t) == {h \in Mem!Handles : t[h] # Mem!None}

LEMMA HandlesFinite ==
  ASSUME MaxDumbs \in Nat
  PROVE  /\ IsFiniteSet(Mem!Handles) /\ Cardinality(Mem!Handles) = MaxDumbs + 4
         /\ Mem!Handles = 1..(MaxDumbs + 4)
         /\ \A t : IsFiniteSet(Used(t)) /\ Cardinality(Used(t)) \in Nat
<1>1. Mem!Handles = 1..(MaxDumbs + 4)
  BY DEF Mem!Handles
<1>2. 1 \in Int /\ MaxDumbs + 4 \in Int
  OBVIOUS
<1>3. IsFiniteSet(1..(MaxDumbs + 4)) /\ Cardinality(1..(MaxDumbs + 4)) = MaxDumbs + 4
  BY <1>2, FS_Interval
<1>4. \A t : Used(t) \in SUBSET Mem!Handles
  BY DEF Used
<1>5. \A t : IsFiniteSet(Used(t)) /\ Cardinality(Used(t)) \in Nat
  BY <1>1, <1>3, <1>4, FS_Subset, FS_CardinalityType
<1> QED BY <1>1, <1>3, <1>5

\* With a handle to spare, the kernel gives the first.
LEMMA FirstFreeIs ==
  ASSUME MaxDumbs \in Nat, NEW t, Cardinality(Used(t)) < MaxDumbs + 4
  PROVE  Mem!FirstFree(t) \in Mem!Handles /\ t[Mem!FirstFree(t)] = Mem!None
<1> DEFINE F == {h \in Mem!Handles : t[h] = Mem!None}
<1>1. F # {}
  <2> SUFFICES ASSUME F = {} PROVE FALSE
    OBVIOUS
  <2>1. Used(t) = Mem!Handles
    BY DEF Used
  <2> QED BY <2>1, HandlesFinite
<1>2. F \in SUBSET Nat /\ IsFiniteSet(F)
  <2>1. F \in SUBSET Mem!Handles
    OBVIOUS
  <2> QED BY <2>1, HandlesFinite, FS_Subset
<1>3. PICK h \in F : \A g \in F : h <= g
  <2> HIDE DEF F
  <2> QED BY <1>1, <1>2, LeastAndLast
<1>4. \E x \in Mem!Handles : t[x] = Mem!None /\ \A g \in 1..(x - 1) : t[g] # Mem!None
  <2>1. ASSUME NEW g \in 1..(h - 1) PROVE t[g] # Mem!None
    BY <1>3, <2>1, HandlesFinite
  <2> QED BY <1>3, <2>1
<1> QED BY <1>4 DEF Mem!FirstFree

\* What one table has and the other has not are objects of a set, under free handles.
Adds(t, u, S) == \A h \in Mem!Handles : u[h] = t[h] \/ (t[h] = Mem!None /\ u[h] \in S)

\* drmPrimeFDToHandle of an object: it keeps its handle, or takes a free one.
LEMMA OpenedIs ==
  ASSUME MaxDumbs \in Nat, NEW O, NEW t \in [Mem!Handles -> O], NEW o \in O,
         Cardinality(Used(t)) < MaxDumbs + 4
  PROVE  /\ Mem!Opened(t, o) \in [Mem!Handles -> O]
         /\ Adds(t, Mem!Opened(t, o), {o})
         /\ Cardinality(Used(Mem!Opened(t, o))) <= Cardinality(Used(t)) + 1
<1>1. CASE \E h \in Mem!Handles : t[h] = o
  <2>1. Mem!Opened(t, o) = t
    BY <1>1 DEF Mem!Opened
  <2>2. Adds(t, t, {o})
    BY DEF Adds
  <2> QED BY <2>1, <2>2, HandlesFinite
<1>2. CASE ~\E h \in Mem!Handles : t[h] = o
  <2> DEFINE f == Mem!FirstFree(t)
             u == [t EXCEPT ![f] = o]
  <2>1. f \in Mem!Handles /\ t[f] = Mem!None
    BY FirstFreeIs
  <2>2. Mem!Opened(t, o) = u
    BY <1>2 DEF Mem!Opened
  <2> HIDE DEF f
  <2>3. u \in [Mem!Handles -> O] /\ \A h \in Mem!Handles : u[h] = IF h = f THEN o ELSE t[h]
    BY <2>1
  <2> HIDE DEF u
  <2>4. Used(u) = Used(t) \cup {f} \/ Used(u) = Used(t)
    BY <2>1, <2>3 DEF Used
  <2>5. Cardinality(Used(u)) <= Cardinality(Used(t)) + 1
    <3>1. f \notin Used(t)
      BY <2>1 DEF Used
    <3>2. Cardinality(Used(t) \cup {f}) = Cardinality(Used(t)) + 1
      BY <3>1, HandlesFinite, FS_AddElement
    <3>3. Cardinality(Used(t)) \in Nat
      BY HandlesFinite
    <3>4. CASE Used(u) = Used(t) \cup {f}
      BY <3>2, <3>3, <3>4
    <3>5. CASE Used(u) = Used(t)
      BY <3>3, <3>5
    <3> QED BY <2>4, <3>4, <3>5
  <2>6. Adds(t, u, {o})
    BY <2>1, <2>3 DEF Adds
  <2> QED BY <2>2, <2>3, <2>5, <2>6
<1> QED BY <1>1, <1>2

\* The objects of an import, none of them a dumb buffer's or all of them one's.
Planar(objs, O) ==
  /\ objs \in Seq(O \ {Mem!None}) /\ Len(objs) \in 1..4
  /\ \A i \in 2..Len(objs) : objs[i] = objs[i - 1] =>
       \A j \in i..Len(objs) : \E k \in 1..(i - 1) : objs[j] = objs[k]
Objects(objs) == {objs[i] : i \in 1..Len(objs)}

\* What opening one plane after the other adds to the table is the planes' objects.
LEMMA OpenedAllIs ==
  ASSUME MaxDumbs \in Nat, NEW O, NEW t \in [Mem!Handles -> O], NEW objs, Planar(objs, O),
         Cardinality(Used(t)) <= MaxDumbs
  PROVE  /\ Mem!OpenedAll(t, objs) \in [Mem!Handles -> O]
         /\ Adds(t, Mem!OpenedAll(t, objs), Objects(objs))
<1> DEFINE Pl(i, s) == IF i \in DOMAIN objs THEN Mem!Opened(s, objs[i]) ELSE s
           Fit(s, n) == /\ s \in [Mem!Handles -> O] /\ Adds(t, s, Objects(objs))
                        /\ Cardinality(Used(s)) <= MaxDumbs + n
<1>1. DOMAIN objs = 1..Len(objs) /\ \A i \in DOMAIN objs : objs[i] \in O \cap Objects(objs)
  BY DEF Planar, Objects
<1>2. ASSUME NEW s, NEW n \in 0..3, NEW i \in 1..4, Fit(s, n)
      PROVE  Fit(Pl(i, s), n + 1)
  <2>1. CASE i \in DOMAIN objs
    <3> DEFINE u == Mem!Opened(s, objs[i])
    <3>1. /\ s \in [Mem!Handles -> O] /\ objs[i] \in O
          /\ Cardinality(Used(s)) < MaxDumbs + 4 /\ Cardinality(Used(s)) \in Nat
      <4>1. s \in [Mem!Handles -> O] /\ Cardinality(Used(s)) <= MaxDumbs + n
        BY <1>2
      <4>2. Cardinality(Used(s)) \in Nat
        BY HandlesFinite
      <4>3. objs[i] \in O
        BY <1>1, <2>1
      <4> QED BY <4>1, <4>2, <4>3
    <3>2. /\ u \in [Mem!Handles -> O] /\ Adds(s, u, {objs[i]})
          /\ Cardinality(Used(u)) <= Cardinality(Used(s)) + 1
      BY <3>1, OpenedIs
    <3>3. Pl(i, s) = u
      BY <2>1
    <3>4. Cardinality(Used(u)) \in Nat
      BY HandlesFinite
    <3> HIDE DEF u, Pl
    <3>5. Cardinality(Used(u)) <= MaxDumbs + (n + 1)
      BY <1>2, <3>1, <3>2, <3>4
    <3>6. Adds(t, u, Objects(objs))
      BY <1>1, <1>2, <2>1, <3>2 DEF Adds
    <3> QED BY <3>2, <3>3, <3>5, <3>6
  <2>2. CASE i \notin DOMAIN objs
    <3>1. Pl(i, s) = s
      BY <2>2
    <3> HIDE DEF Pl
    <3>2. Cardinality(Used(s)) \in Nat
      BY HandlesFinite
    <3> QED BY <1>2, <3>1, <3>2
  <2> QED BY <2>1, <2>2
<1>3. Fit(t, 0)
  BY HandlesFinite DEF Adds
<1>4. Mem!OpenedAll(t, objs) = Pl(4, Pl(3, Pl(2, Pl(1, t))))
  BY DEF Mem!OpenedAll
<1>5. Fit(Pl(4, Pl(3, Pl(2, Pl(1, t)))), 4)
  <2>1. Fit(Pl(1, t), 1)
    BY <1>2, <1>3
  <2> HIDE DEF Pl, Fit
  <2>2. Fit(Pl(2, Pl(1, t)), 2)
    BY <1>2, <2>1
  <2>3. Fit(Pl(3, Pl(2, Pl(1, t))), 3)
    BY <1>2, <2>2
  <2> QED BY <1>2, <2>3
<1> HIDE DEF Pl
<1> QED BY <1>4, <1>5

\* An import leaves the table as it was without its objects.
LEMMA ImportIs ==
  ASSUME MaxDumbs \in Nat, NEW O, NEW t \in [Mem!Handles -> O], NEW objs, Planar(objs, O),
         Cardinality(Used(t)) <= MaxDumbs
  PROVE  LET u == Mem!ClosedAll(Mem!OpenedAll(t, objs), objs)
         IN /\ u \in [Mem!Handles -> O \cup {Mem!None}]
            /\ \A h \in Mem!Handles : u[h] = IF t[h] \in Objects(objs) THEN Mem!None ELSE t[h]
<1> DEFINE o == Mem!OpenedAll(t, objs)
           Stops(k) == /\ \A i \in 2..k : objs[i] # objs[i - 1]
                       /\ k = Len(objs) \/ objs[k + 1] = objs[k]
           n == CHOOSE k \in 1..Len(objs) : Stops(k)
<1>1. /\ o \in [Mem!Handles -> O]
      /\ Adds(t, o, Objects(objs))
  BY OpenedAllIs
<1>2. \E k \in 1..Len(objs) : Stops(k)
  <2>1. Len(objs) \in 1..4
    BY DEF Planar
  <2>2. CASE objs[2] = objs[1] \/ Len(objs) = 1
    <3>1. Stops(1)
      BY <2>2
    <3> QED BY <2>1, <3>1
  <2>3. CASE ~(objs[2] = objs[1] \/ Len(objs) = 1) /\ (objs[3] = objs[2] \/ Len(objs) = 2)
    <3>1. Stops(2)
      BY <2>3
    <3> QED BY <2>1, <2>3, <3>1
  <2>4. CASE ~(objs[2] = objs[1] \/ Len(objs) = 1) /\ ~(objs[3] = objs[2] \/ Len(objs) = 2)
             /\ (objs[4] = objs[3] \/ Len(objs) = 3)
    <3>1. objs[2] # objs[1] /\ objs[3] # objs[2]
      BY <2>4
    <3>2. 3 \in 1..Len(objs)
      BY <2>1, <2>4
    <3>3. \A i \in 2..3 : objs[i] # objs[i - 1]
      <4>1. \A i \in 2..3 : i = 2 \/ i = 3
        OBVIOUS
      <4> QED BY <3>1, <4>1
    <3>4. Stops(3)
      BY <2>4, <3>3
    <3> QED BY <3>2, <3>4
  <2>5. CASE ~(objs[2] = objs[1] \/ Len(objs) = 1) /\ ~(objs[3] = objs[2] \/ Len(objs) = 2)
             /\ ~(objs[4] = objs[3] \/ Len(objs) = 3)
    <3>1. Len(objs) = 4
      BY <2>1, <2>5
    <3>2. \A i \in 2..4 : objs[i] # objs[i - 1]
      <4>1. objs[2] # objs[1] /\ objs[3] # objs[2] /\ objs[4] # objs[3]
        BY <2>5, <3>1
      <4>2. \A i \in 2..4 : i = 2 \/ i = 3 \/ i = 4
        OBVIOUS
      <4> QED BY <4>1, <4>2
    <3>3. Stops(4)
      BY <3>1, <3>2
    <3> QED BY <3>1, <3>3
  <2> QED BY <2>2, <2>3, <2>4, <2>5
<1>3. n \in 1..Len(objs) /\ Stops(n)
  BY <1>2
<1>4. Mem!ClosedAll(o, objs) = [h \in Mem!Handles |-> IF \E i \in 1..n : o[h] = objs[i] THEN Mem!None ELSE o[h]]
  BY DEF Mem!ClosedAll
<1> HIDE DEF n, o
<1>5. \A x : (\E i \in 1..n : x = objs[i]) <=> x \in Objects(objs)
  <2>1. Len(objs) \in Nat
    BY DEF Planar
  <2>2. ASSUME NEW j \in 1..Len(objs) PROVE \E i \in 1..n : objs[j] = objs[i]
    <3>1. CASE j \in 1..n
      BY <3>1
    <3>2. CASE j > n
      <4>1. n + 1 \in 2..Len(objs) /\ j \in (n + 1)..Len(objs) /\ objs[n + 1] = objs[(n + 1) - 1]
        BY <1>3, <2>1, <3>2
      <4>2. \E k \in 1..((n + 1) - 1) : objs[j] = objs[k]
        BY <4>1 DEF Planar
      <4> QED BY <1>3, <4>2
    <3> QED BY <1>3, <2>1, <3>1, <3>2
  <2>3. \A i \in 1..n : i \in 1..Len(objs)
    BY <1>3, <2>1
  <2>4. ASSUME NEW x, x \in Objects(objs) PROVE \E i \in 1..n : x = objs[i]
    BY <2>2, <2>4 DEF Objects
  <2>5. ASSUME NEW x, NEW i \in 1..n, x = objs[i] PROVE x \in Objects(objs)
    BY <2>3, <2>5 DEF Objects
  <2> QED BY <2>4, <2>5
<1>6. \A h \in Mem!Handles : Mem!ClosedAll(o, objs)[h] = IF o[h] \in Objects(objs) THEN Mem!None ELSE o[h]
  BY <1>4, <1>5
<1>7. Mem!None \notin Objects(objs)
  BY DEF Planar, Objects
<1>8. Mem!ClosedAll(o, objs) \in [Mem!Handles -> O \cup {Mem!None}]
  BY <1>1, <1>4
<1>9. \A h \in Mem!Handles : Mem!ClosedAll(o, objs)[h] = IF t[h] \in Objects(objs) THEN Mem!None ELSE t[h]
  BY <1>1, <1>6, <1>7 DEF Adds
<1> QED BY <1>8, <1>9 DEF o

-----------------------------------------------------------------------------
(* The sink's memories: the invariants *)

MemTyped ==
  /\ handle \in [Mem!Dumbs -> 0..(MaxDumbs + 4)]
  /\ cached \in [Mem!Mems -> Mem!Kms \cup {Mem!None}]
  /\ up \subseteq Mem!Mems \cup Buffers
  /\ last \in [kms : Mem!Kms \cup {Mem!None}, parent : Mem!Mems \cup {Mem!None}]

\* The table names dumb buffers only, each once.
TableInv ==
  /\ table \in [Mem!Handles -> Buffers \cup {Mem!None}]
  /\ \A g, h \in Mem!Handles : table[g] = table[h] => table[g] = Mem!None \/ g = h

\* A memory of upstream's is cached as its import, or as the dumb buffer it exports.
CachedOwn ==
  \A m \in Mem!Mems : \/ cached[m] \in {Mem!None, Import(m)}
                      \/ \E d \in Mem!Dumbs : m = Dmabuf(d) /\ cached[m] = Dumb(d)

\* A dumb buffer that was never made is nowhere, another is with upstream as it is or exported.
DumbsOnce ==
  \A d \in Mem!Dumbs : /\ handle[d] = 0 => Dumb(d) \notin up /\ Dmabuf(d) \notin up
                       /\ Dumb(d) \notin up \/ Dmabuf(d) \notin up

CacheInv == MemTyped /\ TableInv /\ CachedOwn /\ DumbsOnce /\ CacheExact

\* The handles and the dumb buffers that live name each other.
HandleInv ==
  /\ \A h \in Mem!Handles : table[h] # Mem!None =>
        \E d \in Mem!Dumbs : table[h] = Dumb(d) /\ Dumb(d) \in live /\ handle[d] = h
  /\ \A d \in Mem!Dumbs : Dumb(d) \in live =>
        handle[d] \in Mem!Handles /\ table[handle[d]] = Dumb(d)

LEMMA Unmixed ==
  ASSUME Mem!ObjectsAssumption
  PROVE  /\ MaxDumbs \in Nat
         /\ \A m \in Mem!Mems : m \notin Mem!Kms /\ m # Mem!None
         /\ \A m \in Foreign : \A d \in Mem!Dumbs : m # Dmabuf(d) /\ m # Dumb(d)
         /\ \A d \in Mem!Dumbs : Dmabuf(d) \in Mem!Mems /\ Dumb(d) \in Mem!Kms /\ Dumb(d) \in Buffers
         /\ \A m \in Mem!Mems : Import(m) \in Mem!Kms
         /\ Mem!None \notin Mem!Kms /\ Mem!None \notin Buffers
BY Tags, KindsOfMemory DEF Mem!ObjectsAssumption, Buffers

\* There is always a handle to spare for the planes of a frame.
LEMMA FewUsed ==
  ASSUME MaxDumbs \in Nat, TableInv
  PROVE  Cardinality(Used(table)) <= MaxDumbs
<1> DEFINE U == Used(table)
           f == [h \in U |-> table[h][2]]
<1>1. ASSUME NEW h \in U PROVE \E d \in Mem!Dumbs : table[h] = Dumb(d) /\ f[h] = d
  BY Tags DEF Used, TableInv, Buffers
<1>2. \A g, h \in U : f[g] = f[h] => g = h
  BY <1>1 DEF Used, TableInv
<1>3. f \in [U -> Mem!Dumbs] /\ \A h \in U : f[h] \in Mem!Dumbs
  BY <1>1
<1> HIDE DEF U, f
<1>4. f \in Injection(U, Mem!Dumbs)
  BY <1>2, <1>3 DEF Injection, IsInjective
<1>5. IsFiniteSet(Mem!Dumbs) /\ Cardinality(Mem!Dumbs) = MaxDumbs
  <2>1. Mem!Dumbs = 1..MaxDumbs /\ 1 \in Int /\ MaxDumbs \in Int
    BY DEF Mem!Dumbs
  <2>2. IsFiniteSet(1..MaxDumbs) /\ Cardinality(1..MaxDumbs) = IF 1 > MaxDumbs THEN 0 ELSE MaxDumbs - 1 + 1
    BY <2>1, FS_Interval
  <2> QED BY <2>1, <2>2
<1>6. Cardinality(U) <= Cardinality(Mem!Dumbs)
  BY <1>4, <1>5, FS_Injection
<1> QED BY <1>5, <1>6 DEF U

\* gst_kms_allocator_memory_reset: what is not held is gone, and its handles with it.
LEMMA Settled ==
  ASSUME NEW t, NEW lv, NEW c, NEW l, NEW u, Mem!Settle(t, lv, lv, c, l, u),
         Mem!Held(c, l, u) \subseteq lv
  PROVE  /\ live' = Mem!Held(c, l, u) /\ fbs' = live'
         /\ cached' = c /\ last' = l /\ up' = u
         /\ table' = [h \in Mem!Handles |->
                         IF \E k \in lv \ live' : k[1] = "dumb" /\ handle[k[2]] = h
                         THEN Mem!None ELSE t[h]]
BY DEF Mem!Settle

\* A table that only loses handles stays one.
LEMMA TableShrinks ==
  ASSUME NEW t \in [Mem!Handles -> Buffers \cup {Mem!None}],
         \A g, h \in Mem!Handles : t[g] = t[h] => t[g] = Mem!None \/ g = h,
         table' \in [Mem!Handles -> Buffers \cup {Mem!None}],
         \A h \in Mem!Handles : table'[h] \in {t[h], Mem!None}
  PROVE  TableInv'
BY HandlesFinite DEF TableInv

\* The kernel gives a dumb buffer's object one handle.
LEMMA OpenedOnce ==
  ASSUME MaxDumbs \in Nat, TableInv, NEW d \in Mem!Dumbs
  PROVE  LET u == Mem!Opened(table, Dumb(d))
         IN /\ u \in [Mem!Handles -> Buffers \cup {Mem!None}]
            /\ \A g, h \in Mem!Handles : u[g] = u[h] => u[g] = Mem!None \/ g = h
            /\ \E h \in Mem!Handles : u[h] = Dumb(d)
            /\ Adds(table, u, {Dumb(d)})
<1> DEFINE u == Mem!Opened(table, Dumb(d))
<1>1. Cardinality(Used(table)) < MaxDumbs + 4
  BY FewUsed, HandlesFinite
<1>2. table \in [Mem!Handles -> Buffers \cup {Mem!None}] /\ Dumb(d) \in Buffers \cup {Mem!None}
  BY DEF TableInv, Buffers
<1>3. u \in [Mem!Handles -> Buffers \cup {Mem!None}] /\ Adds(table, u, {Dumb(d)})
  BY <1>1, <1>2, OpenedIs
<1>4. CASE \E h \in Mem!Handles : table[h] = Dumb(d)
  <2>1. u = table
    BY <1>4 DEF Mem!Opened
  <2> QED BY <1>3, <1>4, <2>1 DEF TableInv
<1>5. CASE ~\E h \in Mem!Handles : table[h] = Dumb(d)
  <2> DEFINE f == Mem!FirstFree(table)
  <2>1. f \in Mem!Handles
    BY <1>1, FirstFreeIs
  <2>2. u = [table EXCEPT ![f] = Dumb(d)]
    BY <1>5 DEF Mem!Opened
  <2> HIDE DEF f, u
  <2>3. \A h \in Mem!Handles : u[h] = IF h = f THEN Dumb(d) ELSE table[h]
    BY <1>2, <2>1, <2>2
  <2>4. \A g, h \in Mem!Handles : u[g] = u[h] => u[g] = Mem!None \/ g = h
    BY <1>5, <2>3 DEF TableInv
  <2> QED BY <1>3, <2>1, <2>3, <2>4 DEF u
<1> QED BY <1>4, <1>5

LEMMA PlanesOfMemory ==
  ASSUME Mem!ObjectsAssumption, NEW m \in Mem!Mems
  PROVE  /\ m \in Foreign => Objects(Mem!ObjectsIn(m)) \cap (Buffers \cup {Mem!None}) = {}
         /\ \A d \in Mem!Dumbs : m = Dmabuf(d) => Objects(Mem!ObjectsIn(m)) = {Dumb(d)}
         /\ Planar(Mem!ObjectsIn(m), Buffers \cup {Mem!None} \cup Objects(Mem!ObjectsIn(m)))
<1>1. CASE m \in Foreign
  <2>1. Mem!ObjectsIn(m) = ObjectsOf[m] /\ \A d \in Mem!Dumbs : m # Dmabuf(d)
    BY <1>1, Unmixed, KindsOfMemory DEF Mem!ObjectsIn
  <2> DEFINE o == ObjectsOf[m]
             R == {o[i] : i \in DOMAIN o}
  <2>2. /\ o \in Seq(R) /\ Len(o) \in 1..4 /\ R \cap (Buffers \cup {Mem!None}) = {}
        /\ \A i \in 2..Len(o) : o[i] = o[i - 1] =>
             \A j \in i..Len(o) : \E k \in 1..(i - 1) : o[j] = o[k]
    BY <1>1 DEF Mem!ObjectsAssumption, Mem!ToSet, Buffers, Dumb
  <2>3. R = Objects(o)
    <3>1. DOMAIN o = 1..Len(o)
      BY <2>2
    <3> QED BY <3>1 DEF Objects
  <2> HIDE DEF o, R
  <2>4. Planar(o, Buffers \cup {Mem!None} \cup R)
    <3>1. DOMAIN o = 1..Len(o) /\ Len(o) \in Nat /\ \A i \in 1..Len(o) : o[i] \in R /\ o[i] # Mem!None
      BY <2>2
    <3>2. o \in Seq((Buffers \cup {Mem!None} \cup R) \ {Mem!None})
      BY <2>2, <3>1
    <3> QED BY <2>2, <3>2 DEF Planar
  <2> QED BY <2>1, <2>2, <2>3, <2>4 DEF o
<1>2. CASE m \notin Foreign
  <2>1. PICK d \in Mem!Dumbs : m = Dmabuf(d)
    BY <1>2, KindsOfMemory
  <2> DEFINE o == <<Dumb(d), Dumb(d)>>
  <2>2. Mem!ObjectsIn(m) = o
    BY <2>1, Tags, KindsOfMemory DEF Mem!ObjectsIn, Dumb, Dmabuf
  <2>3. Len(o) = 2 /\ o[1] = Dumb(d) /\ o[2] = Dumb(d)
    OBVIOUS
  <2>4. Objects(o) = {Dumb(d)}
    BY <2>3 DEF Objects
  <2>5. Dumb(d) \in (Buffers \cup {Mem!None} \cup {Dumb(d)}) \ {Mem!None}
    BY Tags
  <2>6. o \in Seq((Buffers \cup {Mem!None} \cup {Dumb(d)}) \ {Mem!None})
    BY <2>5
  <2> HIDE DEF o
  <2>7. Planar(o, Buffers \cup {Mem!None} \cup {Dumb(d)})
    BY <2>3, <2>6 DEF Planar
  <2>8. \A e \in Mem!Dumbs : m = Dmabuf(e) => e = d
    BY <2>1, Tags
  <2> QED BY <1>2, <2>2, <2>4, <2>7, <2>8
<1> QED BY <1>1, <1>2

\* An import of upstream's memory leaves the table alone; one of an exported dumb
\* buffer closes the dumb buffer's own handle.
LEMMA ImportTable ==
  ASSUME Mem!ObjectsAssumption, TableInv, NEW m \in Mem!Mems
  PROVE  LET o == Mem!ObjectsIn(m)
             u == Mem!ClosedAll(Mem!OpenedAll(table, o), o)
         IN /\ u \in [Mem!Handles -> Buffers \cup {Mem!None}]
            /\ \A h \in Mem!Handles : u[h] \in {table[h], Mem!None}
            /\ m \in Foreign => \A h \in Mem!Handles : u[h] = table[h]
            /\ \A d \in Mem!Dumbs : m = Dmabuf(d) =>
                 \A h \in Mem!Handles : u[h] = IF table[h] = Dumb(d) THEN Mem!None ELSE table[h]
<1> DEFINE o == Mem!ObjectsIn(m)
           u == Mem!ClosedAll(Mem!OpenedAll(table, o), o)
           O == Buffers \cup {Mem!None} \cup Objects(o)
<1>1. MaxDumbs \in Nat /\ Cardinality(Used(table)) <= MaxDumbs
  BY Unmixed, FewUsed
<1>2. table \in [Mem!Handles -> O] /\ table \in [Mem!Handles -> Buffers \cup {Mem!None}]
  BY DEF TableInv
<1>3. Planar(o, O)
  BY PlanesOfMemory
<1> HIDE DEF o, O
<1>4. /\ u \in [Mem!Handles -> O \cup {Mem!None}]
      /\ \A h \in Mem!Handles : u[h] = IF table[h] \in Objects(o) THEN Mem!None ELSE table[h]
  BY <1>1, <1>2, <1>3, ImportIs
<1> HIDE DEF u
<1>5. u \in [Mem!Handles -> Buffers \cup {Mem!None}]
  BY <1>2, <1>4
<1>6. m \in Foreign => Objects(o) \cap (Buffers \cup {Mem!None}) = {}
  BY PlanesOfMemory DEF o
<1>7. \A d \in Mem!Dumbs : m = Dmabuf(d) => Objects(o) = {Dumb(d)}
  BY PlanesOfMemory DEF o
<1>8. m \in Foreign => \A h \in Mem!Handles : u[h] = table[h]
  BY <1>2, <1>4, <1>6
<1>9. \A d \in Mem!Dumbs : m = Dmabuf(d) =>
        \A h \in Mem!Handles : u[h] = IF table[h] = Dumb(d) THEN Mem!None ELSE table[h]
  BY <1>4, <1>7
<1>10. \A h \in Mem!Handles : u[h] \in {table[h], Mem!None}
  BY <1>4
<1> QED BY <1>5, <1>8, <1>9, <1>10 DEF u, o

-----------------------------------------------------------------------------
(* The sink's memories: the initial states and the steps *)

LEMMA MemInitially ==
  ASSUME Mem!ObjectsAssumption, Mem!Init
  PROVE  CacheInv /\ HandleInv
<1>1. MemTyped
  BY Unmixed, KindsOfMemory DEF Mem!Init, Mem!NoLast, MemTyped
<1>2. TableInv
  BY DEF Mem!Init, TableInv
<1>3. CachedOwn /\ HandleInv
  BY Unmixed DEF Mem!Init, CachedOwn, HandleInv
<1>4. DumbsOnce
  BY Unmixed DEF Mem!Init, DumbsOnce
<1>5. CacheExact
  <2>1. Mem!Held(cached, last, up) = {}
    BY Unmixed, KindsOfMemory DEF Mem!Init, Mem!NoLast, Mem!Held
  <2> QED BY <2>1, KindsOfMemory DEF Mem!Init, CacheExact, Mem!CacheExact
<1> QED BY <1>1, <1>2, <1>3, <1>4, <1>5 DEF CacheInv

\* A step that settles and leaves what there is to hold within what lives.
LEMMA SettledCache ==
  ASSUME Mem!ObjectsAssumption, CacheInv, UNCHANGED handle,
         NEW t \in [Mem!Handles -> Buffers \cup {Mem!None}],
         \A h \in Mem!Handles : t[h] \in {table[h], Mem!None},
         NEW lv, NEW c, NEW l, NEW u, Mem!Settle(t, lv, lv, c, l, u),
         Mem!Held(c, l, u) \subseteq lv, lv \subseteq Mem!Kms, u \subseteq up,
         c \in [Mem!Mems -> Mem!Kms \cup {Mem!None}],
         \A m \in Mem!Mems : c[m] \in {cached[m], Mem!None, Import(m)},
         l \in [kms : Mem!Kms \cup {Mem!None}, parent : Mem!Mems \cup {Mem!None}],
         list' = {m \in Mem!Mems : c[m] # Mem!None}, list' \subseteq u
  PROVE  CacheInv'
<1>1. /\ live' = Mem!Held(c, l, u) /\ fbs' = live' /\ cached' = c /\ last' = l /\ up' = u
      /\ table' = [h \in Mem!Handles |->
                      IF \E k \in lv \ live' : k[1] = "dumb" /\ handle[k[2]] = h
                      THEN Mem!None ELSE t[h]]
  BY Settled
<1>2. MemTyped'
  BY <1>1 DEF CacheInv, MemTyped
<1>3. TableInv'
  <2>1. \A h \in Mem!Handles : t[h] \in Buffers \cup {Mem!None}
    OBVIOUS
  <2>2. /\ table' \in [Mem!Handles -> Buffers \cup {Mem!None}]
        /\ \A h \in Mem!Handles : table'[h] \in {t[h], Mem!None}
    BY <1>1, <2>1
  <2>3. \A g, h \in Mem!Handles : t[g] = t[h] => t[g] = Mem!None \/ g = h
    BY DEF CacheInv, TableInv
  <2> QED BY <2>2, <2>3, TableShrinks
<1>4. CachedOwn'
  BY <1>1 DEF CacheInv, CachedOwn
<1>5. DumbsOnce'
  BY <1>1 DEF CacheInv, DumbsOnce
<1>6. CacheExact'
  BY <1>1 DEF CacheExact, Mem!CacheExact
<1> QED BY <1>2, <1>3, <1>4, <1>5, <1>6 DEF CacheInv

LEMMA ImportCached ==
  ASSUME Mem!ObjectsAssumption, CacheInv, NEW m \in Mem!Mems, Mem!ShowImported(m)
  PROVE  CacheInv'
<1> DEFINE o == Mem!ObjectsIn(m)
           t == Mem!ClosedAll(Mem!OpenedAll(table, o), o)
           k == Import(m)
           c == [cached EXCEPT ![m] = k]
<1>1. PICK shown1 \in {TRUE, ~Refuses} :
        Mem!Settle(t, live \cup {k}, fbs \cup {k}, c,
                   IF shown1 THEN [kms |-> k, parent |-> m] ELSE last, up)
  BY DEF Mem!ShowImported, Mem!AddFb, Mem!Cache, Import
<1> DEFINE l == IF shown1 THEN [kms |-> k, parent |-> m] ELSE last
           lv == live \cup {k}
<1>2. /\ t \in [Mem!Handles -> Buffers \cup {Mem!None}]
      /\ \A h \in Mem!Handles : t[h] \in {table[h], Mem!None}
  BY ImportTable DEF CacheInv
<1>3. k \in Mem!Kms /\ k # Mem!None
  BY Unmixed, Tags
<1>4. fbs = live /\ live = Mem!Held(cached, last, up) /\ live \subseteq Mem!Kms
  BY DEF CacheInv, CacheExact, Mem!CacheExact, Mem!Held
<1>5. m \in up /\ cached[m] = Mem!None /\ list' = list \cup {m} /\ UNCHANGED handle
  BY DEF Mem!ShowImported
<1> HIDE DEF t, k
<1>6. /\ c \in [Mem!Mems -> Mem!Kms \cup {Mem!None}]
      /\ \A n \in Mem!Mems : c[n] = IF n = m THEN k ELSE cached[n]
  BY <1>3 DEF CacheInv, MemTyped
<1>7. l \in [kms : Mem!Kms \cup {Mem!None}, parent : Mem!Mems \cup {Mem!None}]
  BY <1>3 DEF CacheInv, MemTyped
<1>8. l.kms = k \/ l = last
  OBVIOUS
<1>9. list' = {n \in Mem!Mems : c[n] # Mem!None} /\ list' \subseteq up
  BY <1>3, <1>5, <1>6 DEF CacheInv, CacheExact, Mem!CacheExact
<1> HIDE DEF c, l
<1>10. Mem!Held(c, l, up) \subseteq lv
  BY <1>4, <1>6, <1>8 DEF Mem!Held
<1>11. Mem!Settle(t, lv, lv, c, l, up)
  BY <1>1, <1>4 DEF c, l
<1>12. \A n \in Mem!Mems : c[n] \in {cached[n], Mem!None, Import(n)}
  BY <1>6 DEF k
<1>13. lv \subseteq Mem!Kms
  BY <1>3, <1>4
<1> HIDE DEF lv
<1> QED BY <1>2, <1>5, <1>6, <1>7, <1>9, <1>10, <1>11, <1>12, <1>13, SettledCache

LEMMA MadeCached ==
  ASSUME Mem!ObjectsAssumption, CacheInv, NEW d \in Mem!Dumbs, Mem!Alloc(d) \/ Mem!AllocFails(d)
  PROVE  CacheInv'
<1> DEFINE t == Mem!Opened(table, Dumb(d))
           x == Mem!HandleOf(t, Dumb(d))
<1>1. /\ t \in [Mem!Handles -> Buffers \cup {Mem!None}]
      /\ \A g, h \in Mem!Handles : t[g] = t[h] => t[g] = Mem!None \/ g = h
      /\ \E h \in Mem!Handles : t[h] = Dumb(d)
  BY OpenedOnce, Unmixed DEF CacheInv
<1>2. x \in 1..(MaxDumbs + 4)
  BY <1>1, HandlesFinite, Unmixed DEF Mem!HandleOf
<1>3. handle[d] = 0 /\ handle' = [handle EXCEPT ![d] = x]
  BY DEF Mem!Alloc, Mem!AllocFails, Mem!Create, Dumb
<1> HIDE DEF t, x
<1>4. MaxDumbs \in Nat /\ x # 0 /\ x \in 0..(MaxDumbs + 4)
  BY <1>2, Unmixed
<1>5. /\ handle' \in [Mem!Dumbs -> 0..(MaxDumbs + 4)]
      /\ \A e \in Mem!Dumbs : handle'[e] = 0 => handle[e] = 0 /\ e # d
  BY <1>3, <1>4 DEF CacheInv, MemTyped
<1>6. CASE Mem!AllocFails(d)
  <2>1. UNCHANGED <<table, live, fbs, cached, list, up, last>>
    BY <1>6 DEF Mem!AllocFails
  <2>2. MemTyped' /\ TableInv' /\ CachedOwn'
    BY <1>5, <2>1 DEF CacheInv, MemTyped, TableInv, CachedOwn
  <2>3. DumbsOnce'
    BY <1>5, <2>1 DEF CacheInv, DumbsOnce
  <2>4. CacheExact'
    BY <2>1 DEF CacheInv, CacheExact, Mem!CacheExact, Mem!Held
  <2> QED BY <2>2, <2>3, <2>4 DEF CacheInv
<1>7. CASE Mem!Alloc(d)
  <2> DEFINE k == Dumb(d)
             m == Dmabuf(d)
  <2>1. /\ table' = t /\ live' = live \cup {k} /\ fbs' = fbs \cup {k} /\ last' = last
        /\ \/ cached' = [cached EXCEPT ![m] = k] /\ list' = list \cup {m} /\ up' = up \cup {m}
           \/ up' = up \cup {k} /\ cached' = cached /\ list' = list
    BY <1>7 DEF Mem!Alloc, Mem!Export, Mem!AddFb, Mem!Cache, t, Dumb, Dmabuf
  <2>2. /\ k \in Mem!Kms /\ k \in Buffers /\ m \in Mem!Mems /\ m \notin Mem!Kms /\ k # Mem!None
        /\ k \notin Mem!Mems
    BY Unmixed
  <2>3. k \notin up /\ m \notin up
    BY <1>3 DEF CacheInv, DumbsOnce
  <2>4. /\ list = {n \in Mem!Mems : cached[n] # Mem!None} /\ list \subseteq up /\ fbs = live
        /\ live = Mem!Held(cached, last, up)
    BY DEF CacheInv, CacheExact, Mem!CacheExact
  <2>5. cached[m] = Mem!None
    BY <2>2, <2>3, <2>4
  <2>6. cached \in [Mem!Mems -> Mem!Kms \cup {Mem!None}]
    BY DEF CacheInv, MemTyped
  <2>7. \A e \in Mem!Dumbs : (Dumb(e) = k => e = d) /\ (Dmabuf(e) = m => e = d) /\ Dumb(e) # m /\ Dmabuf(e) # k
    BY Tags
  <2>8. MemTyped'
    BY <1>5, <2>1, <2>2, <2>6 DEF CacheInv, MemTyped
  <2>9. TableInv'
    BY <1>1, <2>1 DEF TableInv
  <2>10. CachedOwn'
    <3>1. m = Dmabuf(d) /\ k = Dumb(d)
      OBVIOUS
    <3> HIDE DEF m, k
    <3> QED BY <2>1, <2>2, <2>6, <3>1 DEF CacheInv, CachedOwn
  <2>11. DumbsOnce'
    <3> HIDE DEF m, k
    <3>1. \A e \in Mem!Dumbs : e # d => Dumb(e) # k /\ Dmabuf(e) # m /\ Dumb(e) # m /\ Dmabuf(e) # k
      BY <2>7
    <3>2. k = Dumb(d) /\ m = Dmabuf(d) /\ k # m
      BY <2>2 DEF k, m
    <3> QED BY <1>5, <2>1, <2>3, <3>1, <3>2 DEF CacheInv, DumbsOnce
  <2>12. CacheExact'
    <3> HIDE DEF m, k
    <3>1. Mem!Held(cached', last', up') = live \cup {k}
      <4>1. ASSUME cached' = [cached EXCEPT ![m] = k], up' = up \cup {m}
            PROVE  Mem!Held(cached', last', up') = live \cup {k}
        <5>1. \A n \in Mem!Mems : cached'[n] = IF n = m THEN k ELSE cached[n]
          BY <2>6, <4>1
        <5>2. \A y \in Mem!Kms : (\E n \in Mem!Mems : cached'[n] = y)
                                   <=> y = k \/ \E n \in Mem!Mems : cached[n] = y
          BY <2>2, <2>5, <5>1, Unmixed
        <5>3. \A y \in Mem!Kms : y \in up' <=> y \in up
          BY <2>2, <4>1
        <5> QED BY <2>1, <2>2, <2>4, <5>2, <5>3 DEF Mem!Held
      <4>2. ASSUME cached' = cached, up' = up \cup {k}
            PROVE  Mem!Held(cached', last', up') = live \cup {k}
        BY <2>1, <2>2, <2>4, <4>2 DEF Mem!Held
      <4> QED BY <2>1, <4>1, <4>2
    <3>2. list' = {n \in Mem!Mems : cached'[n] # Mem!None} /\ list' \subseteq up'
      BY <2>1, <2>2, <2>4, <2>6
    <3> QED BY <2>1, <2>4, <3>1, <3>2 DEF CacheExact, Mem!CacheExact
  <2> QED BY <2>8, <2>9, <2>10, <2>11, <2>12 DEF CacheInv
<1> QED BY <1>6, <1>7

LEMMA CacheStep ==
  ASSUME Mem!ObjectsAssumption, CacheInv, [Mem!Next]_(Mem!kmsVars)
  PROVE  CacheInv'
<1>1. /\ fbs = live /\ live = Mem!Held(cached, last, up) /\ live \subseteq Mem!Kms
      /\ list = {m \in Mem!Mems : cached[m] # Mem!None} /\ list \subseteq up
  BY DEF CacheInv, CacheExact, Mem!CacheExact, Mem!Held
<1>2. /\ table \in [Mem!Handles -> Buffers \cup {Mem!None}]
      /\ \A h \in Mem!Handles : table[h] \in {table[h], Mem!None}
      /\ cached \in [Mem!Mems -> Mem!Kms \cup {Mem!None}]
      /\ last \in [kms : Mem!Kms \cup {Mem!None}, parent : Mem!Mems \cup {Mem!None}]
  BY DEF CacheInv, TableInv, MemTyped
<1>3. Mem!NoLast \in [kms : Mem!Kms \cup {Mem!None}, parent : Mem!Mems \cup {Mem!None}]
      /\ Mem!NoLast.kms = Mem!None
  BY DEF Mem!NoLast
<1>4. ASSUME NEW d \in Mem!Dumbs, Mem!Alloc(d) \/ Mem!AllocFails(d) PROVE CacheInv'
  BY <1>4, MadeCached
<1>5. ASSUME NEW k \in Mem!Kms, Mem!ShowKms(k) PROVE CacheInv'
  <2> DEFINE l == [kms |-> k, parent |-> Mem!None]
  <2>1. k \in up /\ Mem!Settle(table, live, live, cached, l, up) /\ UNCHANGED <<handle, list>>
    BY <1>1, <1>5 DEF Mem!ShowKms
  <2>2. /\ l \in [kms : Mem!Kms \cup {Mem!None}, parent : Mem!Mems \cup {Mem!None}]
        /\ l.kms = k
    OBVIOUS
  <2> HIDE DEF l
  <2>3. Mem!Held(cached, l, up) \subseteq live
    BY <1>1, <2>1, <2>2 DEF Mem!Held
  <2> QED BY <1>1, <1>2, <2>1, <2>2, <2>3, SettledCache
<1>6. ASSUME NEW m \in Mem!Mems, Mem!ShowCached(m) PROVE CacheInv'
  <2> DEFINE l == [kms |-> cached[m], parent |-> m]
  <2>1. cached[m] # Mem!None /\ Mem!Settle(table, live, live, cached, l, up) /\ UNCHANGED <<handle, list>>
    BY <1>1, <1>6 DEF Mem!ShowCached
  <2>2. /\ l \in [kms : Mem!Kms \cup {Mem!None}, parent : Mem!Mems \cup {Mem!None}]
        /\ l.kms = cached[m]
    BY <1>2
  <2> HIDE DEF l
  <2>3. Mem!Held(cached, l, up) \subseteq live
    BY <1>1, <2>1, <2>2 DEF Mem!Held
  <2> QED BY <1>1, <1>2, <2>1, <2>2, <2>3, SettledCache
<1>7. ASSUME NEW m \in Mem!Mems, Mem!ShowImported(m) PROVE CacheInv'
  BY <1>7, ImportCached
<1>8. ASSUME Mem!Drain PROVE CacheInv'
  <2> DEFINE c == [m \in Mem!Mems |-> IF m \in list THEN Mem!None ELSE cached[m]]
  <2>1. PICK l \in {last, Mem!NoLast} : Mem!Settle(table, live, live, c, l, up)
    BY <1>1, <1>8 DEF Mem!Drain
  <2>2. list' = {} /\ UNCHANGED handle
    BY <1>8 DEF Mem!Drain
  <2>3. c \in [Mem!Mems -> Mem!Kms \cup {Mem!None}] /\ \A m \in Mem!Mems : c[m] = Mem!None
    BY <1>1, <1>2
  <2> HIDE DEF c
  <2>4. Mem!Held(c, l, up) \subseteq live
    BY <1>1, <1>3, <2>3, Unmixed DEF Mem!Held
  <2>5. list' = {m \in Mem!Mems : c[m] # Mem!None} /\ list' \subseteq up
    BY <2>2, <2>3
  <2>6. l \in [kms : Mem!Kms \cup {Mem!None}, parent : Mem!Mems \cup {Mem!None}]
    BY <1>2, <1>3
  <2> QED BY <1>1, <1>2, <2>1, <2>2, <2>3, <2>4, <2>5, <2>6, SettledCache
<1>9. ASSUME NEW m \in Mem!Mems \cup Mem!Kms, Mem!Disposed(m) PROVE CacheInv'
  <2> DEFINE c == IF m \in Mem!Mems THEN [cached EXCEPT ![m] = Mem!None] ELSE cached
             u == up \ {m}
  <2>1. Mem!Settle(table, live, live, c, last, u) /\ list' = list \ {m} /\ UNCHANGED handle
    BY <1>1, <1>9 DEF Mem!Disposed
  <2>2. /\ c \in [Mem!Mems -> Mem!Kms \cup {Mem!None}]
        /\ \A n \in Mem!Mems : c[n] = IF n = m THEN Mem!None ELSE cached[n]
    BY <1>2
  <2> HIDE DEF c
  <2>3. Mem!Held(c, last, u) \subseteq live
    BY <1>1, <2>2, Unmixed DEF Mem!Held
  <2>4. list' = {n \in Mem!Mems : c[n] # Mem!None} /\ list' \subseteq u
    BY <1>1, <2>1, <2>2
  <2>5. u \subseteq up /\ \A n \in Mem!Mems : c[n] \in {cached[n], Mem!None, Import(n)}
    BY <2>2
  <2> HIDE DEF u
  <2> QED BY <1>1, <1>2, <2>1, <2>2, <2>3, <2>4, <2>5, SettledCache
<1>10. ASSUME Mem!Stop PROVE CacheInv'
  <2>1. Mem!Settle(table, live, live, cached, Mem!NoLast, up) /\ UNCHANGED <<handle, list>>
    BY <1>1, <1>10 DEF Mem!Stop
  <2>2. Mem!Held(cached, Mem!NoLast, up) \subseteq live
    BY <1>1, <1>3, Unmixed DEF Mem!Held
  <2> QED BY <1>1, <1>2, <1>3, <2>1, <2>2, SettledCache
<1>11. ASSUME UNCHANGED Mem!kmsVars PROVE CacheInv'
  <2>1. UNCHANGED <<table, handle, live, fbs, cached, list, up, last>>
    BY <1>11 DEF Mem!kmsVars
  <2> QED BY <2>1 DEF CacheInv, MemTyped, TableInv, CachedOwn, DumbsOnce, CacheExact,
                      Mem!CacheExact, Mem!Held
<1> QED BY <1>4, <1>5, <1>6, <1>7, <1>8, <1>9, <1>10, <1>11 DEF Mem!Next

\* The list of the sink's cache, the framebuffers and what is held of them agree,
\* whatever upstream frees and however often the sink is drained or stopped.
THEOREM CacheHolds ==
  ASSUME Mem!ObjectsAssumption
  PROVE  Mem!Spec => []CacheExact
<1>1. Mem!Init => CacheInv
  BY MemInitially
<1>2. CacheInv /\ [Mem!Next]_(Mem!kmsVars) => CacheInv'
  BY CacheStep
<1>3. CacheInv => CacheExact
  BY DEF CacheInv
<1> QED BY <1>1, <1>2, <1>3, PTL DEF Mem!Spec

\* A step that settles leaves handles and dumb buffers paired if a handle it closed
\* itself was of a buffer that does not survive it.
LEMMA SettledHandles ==
  ASSUME Mem!ObjectsAssumption, CacheInv, HandleInv, UNCHANGED handle,
         NEW t, \A h \in Mem!Handles : t[h] \in {table[h], Mem!None},
         NEW lv, NEW c, NEW l, NEW u, Mem!Settle(t, lv, lv, c, l, u),
         Mem!Held(c, l, u) \subseteq lv, lv \subseteq Mem!Kms,
         live \subseteq lv, \A d \in Mem!Dumbs : Dumb(d) \in lv => Dumb(d) \in live,
         \A h \in Mem!Handles : t[h] # table[h] => table[h] \notin Mem!Held(c, l, u)
  PROVE  HandleInv'
<1>1. /\ live' = Mem!Held(c, l, u)
      /\ table' = [h \in Mem!Handles |->
                      IF \E k \in lv \ live' : k[1] = "dumb" /\ handle[k[2]] = h
                      THEN Mem!None ELSE t[h]]
  BY Settled
<1>2. \A d : Dumb(d)[1] = "dumb" /\ Dumb(d)[2] = d /\ Mem!None # Dumb(d)
  BY Tags
<1>3. \A k \in lv : k[1] = "dumb" => \E d \in Mem!Dumbs : k = Dumb(d)
  BY Tags, KindsOfMemory DEF Buffers
<1>4. ASSUME NEW h \in Mem!Handles, table'[h] # Mem!None
      PROVE  \E d \in Mem!Dumbs : table'[h] = Dumb(d) /\ Dumb(d) \in live' /\ handle'[d] = h
  <2>1. table'[h] = t[h] /\ t[h] = table[h]
    BY <1>1, <1>4
  <2>2. PICK d \in Mem!Dumbs : table[h] = Dumb(d) /\ Dumb(d) \in live /\ handle[d] = h
    BY <1>4, <2>1 DEF HandleInv
  <2>3. table[h] # Mem!None
    BY <1>4, <2>1
  <2> QED BY <1>1, <1>2, <1>4, <2>1, <2>2
<1>5. ASSUME NEW d \in Mem!Dumbs, Dumb(d) \in live'
      PROVE  handle'[d] \in Mem!Handles /\ table'[handle'[d]] = Dumb(d)
  <2>1. Dumb(d) \in live /\ handle[d] \in Mem!Handles /\ table[handle[d]] = Dumb(d)
    BY <1>1, <1>5 DEF HandleInv
  <2>2. t[handle[d]] = Dumb(d)
    BY <1>1, <1>5, <2>1
  <2>3. ASSUME NEW k \in lv \ live', k[1] = "dumb", handle[k[2]] = handle[d] PROVE FALSE
    <3>1. PICK e \in Mem!Dumbs : k = Dumb(e)
      BY <1>3, <2>3
    <3>2. Dumb(e) \in live /\ handle[e] = handle[d]
      BY <1>2, <2>3, <3>1
    <3>3. table[handle[e]] = Dumb(e)
      BY <3>2 DEF HandleInv
    <3> QED BY <1>5, <2>1, <2>3, <3>1, <3>2, <3>3
  <2> QED BY <1>1, <2>1, <2>2, <2>3
<1> QED BY <1>4, <1>5 DEF HandleInv

LEMMA ImportHandles ==
  ASSUME Mem!ObjectsAssumption, ~Refuses, CacheInv, HandleInv,
         NEW m \in Mem!Mems, Mem!ShowImported(m)
  PROVE  HandleInv'
<1> DEFINE o == Mem!ObjectsIn(m)
           t == Mem!ClosedAll(Mem!OpenedAll(table, o), o)
           k == Import(m)
           c == [cached EXCEPT ![m] = k]
           l == [kms |-> k, parent |-> m]
           lv == live \cup {k}
<1>1. fbs = live /\ live = Mem!Held(cached, last, up) /\ live \subseteq Mem!Kms
  BY DEF CacheInv, CacheExact, Mem!CacheExact, Mem!Held
<1>2. Mem!Settle(t, lv, lv, c, l, up)
  <2>1. \A b \in {TRUE, ~Refuses} : b = TRUE
    BY DEF Mem!ObjectsAssumption
  <2> QED BY <1>1, <2>1 DEF Mem!ShowImported, Mem!AddFb, Mem!Cache, Import
<1>3. /\ \A h \in Mem!Handles : t[h] \in {table[h], Mem!None}
      /\ m \in Foreign => \A h \in Mem!Handles : t[h] = table[h]
      /\ \A d \in Mem!Dumbs : m = Dmabuf(d) =>
           \A h \in Mem!Handles : t[h] = IF table[h] = Dumb(d) THEN Mem!None ELSE table[h]
  BY ImportTable DEF CacheInv
<1>4. k \in Mem!Kms /\ \A d \in Mem!Dumbs : Dumb(d) # k
  BY Unmixed, Tags
<1>5. m \in up /\ UNCHANGED handle
  BY DEF Mem!ShowImported
<1> HIDE DEF t
<1>6. \A n \in Mem!Mems : c[n] = IF n = m THEN k ELSE cached[n]
  BY DEF CacheInv, MemTyped
<1>7. l.kms = k
  OBVIOUS
<1> HIDE DEF k, c, l
<1>8. Mem!Held(c, l, up) \subseteq lv
  BY <1>1, <1>4, <1>6, <1>7 DEF Mem!Held
<1>9. ASSUME NEW d \in Mem!Dumbs, m = Dmabuf(d) PROVE Dumb(d) \notin Mem!Held(c, l, up)
  <2>1. Dumb(d) \notin up
    BY <1>5, <1>9 DEF CacheInv, DumbsOnce
  <2>2. ASSUME NEW n \in Mem!Mems, c[n] = Dumb(d) PROVE FALSE
    <3>1. n # m /\ cached[n] = Dumb(d)
      BY <1>4, <1>6, <2>2
    <3>2. \E e \in Mem!Dumbs : n = Dmabuf(e) /\ cached[n] = Dumb(e)
      BY <3>1, Tags DEF CacheInv, CachedOwn
    <3> QED BY <1>9, <3>1, <3>2, Tags
  <2> QED BY <1>4, <1>7, <2>1, <2>2 DEF Mem!Held
<1>10. ASSUME NEW h \in Mem!Handles, t[h] # table[h] PROVE table[h] \notin Mem!Held(c, l, up)
  <2>1. PICK d \in Mem!Dumbs : m = Dmabuf(d)
    BY <1>3, <1>10, KindsOfMemory
  <2>2. table[h] = Dumb(d)
    BY <1>3, <1>10, <2>1
  <2> QED BY <1>9, <2>1, <2>2
<1>11. lv \subseteq Mem!Kms /\ live \subseteq lv
  BY <1>1, <1>4
<1>12. \A d \in Mem!Dumbs : Dumb(d) \in lv => Dumb(d) \in live
  BY <1>4
<1> HIDE DEF lv
<1> QED BY <1>2, <1>3, <1>5, <1>8, <1>10, <1>11, <1>12, SettledHandles

LEMMA MadeHandles ==
  ASSUME Mem!ObjectsAssumption, CacheInv, HandleInv,
         NEW d \in Mem!Dumbs, Mem!Alloc(d) \/ Mem!AllocFails(d)
  PROVE  HandleInv'
<1> DEFINE t == Mem!Opened(table, Dumb(d))
           x == Mem!HandleOf(t, Dumb(d))
<1>1. /\ \A g, h \in Mem!Handles : t[g] = t[h] => t[g] = Mem!None \/ g = h
      /\ \E h \in Mem!Handles : t[h] = Dumb(d)
      /\ Adds(table, t, {Dumb(d)})
  BY OpenedOnce, Unmixed DEF CacheInv
<1>2. x \in Mem!Handles /\ t[x] = Dumb(d)
  BY <1>1 DEF Mem!HandleOf
<1>3. handle[d] = 0 /\ handle' = [handle EXCEPT ![d] = x]
  BY DEF Mem!Alloc, Mem!AllocFails, Mem!Create, Dumb
<1>4. 0 \notin Mem!Handles
  BY HandlesFinite, Unmixed
<1> HIDE DEF t, x
<1>5. Dumb(d) \notin live
  BY <1>3, <1>4 DEF HandleInv
<1>6. \A e \in Mem!Dumbs : handle'[e] = IF e = d THEN x ELSE handle[e]
  BY <1>3 DEF CacheInv, MemTyped
<1>7. \A e \in Mem!Dumbs : (Dumb(e) = Dumb(d) => e = d) /\ Dumb(e) # Mem!None
  BY Tags
<1>8. CASE Mem!AllocFails(d)
  <2>1. live' = live /\ table' = table
    BY <1>8 DEF Mem!AllocFails
  <2> QED BY <1>5, <1>6, <2>1 DEF HandleInv
<1>9. CASE Mem!Alloc(d)
  <2>1. table' = t /\ live' = live \cup {Dumb(d)}
    BY <1>9 DEF Mem!Alloc, t, Dumb
  <2>2. ASSUME NEW h \in Mem!Handles, t[h] # Mem!None
        PROVE  \E e \in Mem!Dumbs : t[h] = Dumb(e) /\ Dumb(e) \in live' /\ handle'[e] = h
    <3>1. CASE t[h] = Dumb(d)
      <4>1. h = x
        BY <1>1, <1>2, <1>7, <3>1
      <4> QED BY <1>6, <2>1, <3>1, <4>1
    <3>2. CASE t[h] # Dumb(d)
      <4>1. t[h] = table[h]
        BY <1>1, <3>2 DEF Adds
      <4>2. PICK e \in Mem!Dumbs : table[h] = Dumb(e) /\ Dumb(e) \in live /\ handle[e] = h
        BY <2>2, <4>1 DEF HandleInv
      <4>3. e # d
        BY <1>5, <4>2
      <4> QED BY <1>6, <2>1, <4>1, <4>2, <4>3
    <3> QED BY <3>1, <3>2
  <2>3. ASSUME NEW e \in Mem!Dumbs, Dumb(e) \in live'
        PROVE  handle'[e] \in Mem!Handles /\ t[handle'[e]] = Dumb(e)
    <3>1. CASE e = d
      BY <1>2, <1>6, <3>1
    <3>2. CASE e # d
      <4>1. Dumb(e) \in live /\ handle'[e] = handle[e]
        BY <1>6, <1>7, <2>1, <2>3, <3>2
      <4>2. handle[e] \in Mem!Handles /\ table[handle[e]] = Dumb(e)
        BY <4>1 DEF HandleInv
      <4>3. t[handle[e]] = table[handle[e]]
        BY <1>1, <1>7, <4>2 DEF Adds
      <4> QED BY <4>1, <4>2, <4>3
    <3> QED BY <3>1, <3>2
  <2> QED BY <2>1, <2>2, <2>3 DEF HandleInv
<1> QED BY <1>8, <1>9

LEMMA HandleStep ==
  ASSUME Mem!ObjectsAssumption, ~Refuses, CacheInv, HandleInv, [Mem!Next]_(Mem!kmsVars)
  PROVE  HandleInv'
<1>1. /\ fbs = live /\ live = Mem!Held(cached, last, up) /\ live \subseteq Mem!Kms
      /\ list = {m \in Mem!Mems : cached[m] # Mem!None}
  BY DEF CacheInv, CacheExact, Mem!CacheExact, Mem!Held
<1>2. /\ \A h \in Mem!Handles : table[h] \in {table[h], Mem!None}
      /\ \A m \in Mem!Mems : cached[m] \in Mem!Kms \cup {Mem!None}
      /\ Mem!NoLast.kms = Mem!None
  BY DEF CacheInv, MemTyped, Mem!NoLast
<1>3. ASSUME NEW c, NEW l, NEW u, Mem!Settle(table, live, live, c, l, u), UNCHANGED handle,
             \A m \in Mem!Mems : c[m] \in {cached[m], Mem!None},
             l.kms \in {last.kms, Mem!None} \cup live, u \subseteq up
      PROVE  HandleInv'
  <2>1. Mem!Held(c, l, u) \subseteq live
    BY <1>1, <1>3, Unmixed DEF Mem!Held
  <2> QED BY <1>1, <1>2, <1>3, <2>1, SettledHandles
<1>4. ASSUME NEW d \in Mem!Dumbs, Mem!Alloc(d) \/ Mem!AllocFails(d) PROVE HandleInv'
  BY <1>4, MadeHandles
<1>5. ASSUME NEW k \in Mem!Kms, Mem!ShowKms(k) PROVE HandleInv'
  <2> DEFINE l == [kms |-> k, parent |-> Mem!None]
  <2>1. Mem!Settle(table, live, live, cached, l, up) /\ UNCHANGED handle /\ k \in up
    BY <1>1, <1>5 DEF Mem!ShowKms
  <2>2. l.kms = k /\ k \in live
    BY <1>1, <2>1 DEF Mem!Held
  <2> HIDE DEF l
  <2> QED BY <1>3, <2>1, <2>2
<1>6. ASSUME NEW m \in Mem!Mems, Mem!ShowCached(m) PROVE HandleInv'
  <2> DEFINE l == [kms |-> cached[m], parent |-> m]
  <2>1. /\ Mem!Settle(table, live, live, cached, l, up) /\ UNCHANGED handle
        /\ cached[m] # Mem!None
    BY <1>1, <1>6 DEF Mem!ShowCached
  <2>2. l.kms = cached[m] /\ cached[m] \in live
    BY <1>1, <1>2, <2>1 DEF Mem!Held
  <2> HIDE DEF l
  <2> QED BY <1>3, <2>1, <2>2
<1>7. ASSUME NEW m \in Mem!Mems, Mem!ShowImported(m) PROVE HandleInv'
  BY <1>7, ImportHandles
<1>8. ASSUME Mem!Drain PROVE HandleInv'
  <2> DEFINE c == [m \in Mem!Mems |-> IF m \in list THEN Mem!None ELSE cached[m]]
  <2>1. PICK l \in {last, Mem!NoLast} : Mem!Settle(table, live, live, c, l, up)
    BY <1>1, <1>8 DEF Mem!Drain
  <2>2. UNCHANGED handle /\ \A m \in Mem!Mems : c[m] \in {cached[m], Mem!None}
    BY <1>8 DEF Mem!Drain
  <2> HIDE DEF c
  <2> QED BY <1>2, <1>3, <2>1, <2>2
<1>9. ASSUME NEW m \in Mem!Mems \cup Mem!Kms, Mem!Disposed(m) PROVE HandleInv'
  <2> DEFINE c == IF m \in Mem!Mems THEN [cached EXCEPT ![m] = Mem!None] ELSE cached
  <2>1. Mem!Settle(table, live, live, c, last, up \ {m}) /\ UNCHANGED handle
    BY <1>1, <1>9 DEF Mem!Disposed
  <2>2. \A n \in Mem!Mems : c[n] \in {cached[n], Mem!None}
    BY DEF CacheInv, MemTyped
  <2> HIDE DEF c
  <2>3. up \ {m} \subseteq up
    OBVIOUS
  <2> QED BY <1>3, <2>1, <2>2, <2>3
<1>10. ASSUME Mem!Stop PROVE HandleInv'
  <2>1. Mem!Settle(table, live, live, cached, Mem!NoLast, up) /\ UNCHANGED handle
    BY <1>1, <1>10 DEF Mem!Stop
  <2> QED BY <1>2, <1>3, <2>1
<1>11. ASSUME UNCHANGED Mem!kmsVars PROVE HandleInv'
  BY <1>11 DEF Mem!kmsVars, HandleInv
<1> QED BY <1>4, <1>5, <1>6, <1>7, <1>8, <1>9, <1>10, <1>11 DEF Mem!Next

\* If the plane takes what an import made for it, the open handles are those of the
\* dumb buffers that live: an import closes what it opened and nothing else.
THEOREM HandlesHold ==
  ASSUME Mem!ObjectsAssumption, ~Refuses
  PROVE  Mem!Spec => []HandlesExact
<1>1. Mem!Init => CacheInv /\ HandleInv
  BY MemInitially
<1>2. CacheInv /\ HandleInv /\ [Mem!Next]_(Mem!kmsVars) => (CacheInv /\ HandleInv)'
  BY CacheStep, HandleStep
<1>3. CacheInv /\ HandleInv => HandlesExact
  <2> SUFFICES ASSUME HandleInv, NEW h \in Mem!Handles
               PROVE  LET owners == {<<"dumb", d>> : d \in {x \in Mem!Dumbs :
                                        <<"dumb", x>> \in live /\ handle[x] = h}}
                      IN IF table[h] = Mem!None THEN owners = {} ELSE owners = {table[h]}
    BY DEF HandlesExact, Mem!HandlesExact
  <2> DEFINE owners == {Dumb(d) : d \in {x \in Mem!Dumbs : Dumb(x) \in live /\ handle[x] = h}}
  <2>1. \A o \in owners : o = table[h]
    BY DEF HandleInv
  <2>2. table[h] # Mem!None => table[h] \in owners
    BY DEF HandleInv
  <2>3. table[h] = Mem!None => owners = {}
    BY <2>1, Tags
  <2>4. table[h] # Mem!None => owners = {table[h]}
    BY <2>1, <2>2
  <2> QED BY <2>3, <2>4 DEF Dumb
<1> QED BY <1>1, <1>2, <1>3, PTL DEF Mem!Spec

-----------------------------------------------------------------------------
(* The source: frames are fresh *)

\* If the CRTC has not changed since a frame was taken from it, it still shows that
\* frame's framebuffer; a look that no longer waits for another has seen one.
FreshInv ==
  /\ turned \in BOOLEAN /\ sync \in BOOLEAN
  /\ ~running => pc = "idle"
  /\ running /\ ~turned /\ seen # Src!Off /\ pc \in {"idle", "look"} => shown = seen
  /\ pc \in {"get", "import", "made"} /\ ~turned => shown = fb
  /\ pc = "look" /\ ~sync /\ SyncFb /\ seen # Src!Off => turned

LEMMA FreshStep ==
  ASSUME SyncFb \in BOOLEAN, FreshInv, [Src!Next]_(Src!srcVars)
  PROVE  FreshInv' /\ (SyncFb /\ pc = "look" /\ pc' = "get" /\ seen # Src!Off => turned)
<1> DEFINE Goal == FreshInv' /\ (SyncFb /\ pc = "look" /\ pc' = "get" /\ seen # Src!Off => turned)
<1> USE DEF Src!device, Src!stream
<1>1. ASSUME NEW f \in Fbs \cup {Src!Off}, Src!Flip(f) PROVE Goal
  BY <1>1 DEF FreshInv, Src!Flip
<1>2. CASE Src!Start
  BY <1>2 DEF FreshInv, Src!Start, Src!Open
<1>3. CASE Src!StartFails
  BY <1>3 DEF FreshInv, Src!StartFails
<1>4. CASE Src!Stop
  BY <1>4 DEF FreshInv, Src!Stop
<1>5. CASE Src!Create
  BY <1>5 DEF FreshInv, Src!Create
<1>6. CASE Src!Look
  <2>1. PICK due \in BOOLEAN : /\ pc' = IF due THEN "get" ELSE "look"
                               /\ fb' = IF due THEN shown ELSE fb
                               /\ turned' = (turned /\ ~due)
    BY <1>6 DEF Src!Look
  <2>2. /\ pc = "look" /\ (~sync \/ shown # seen) /\ sync' = FALSE
        /\ UNCHANGED <<shown, running, seen>>
    BY <1>6 DEF Src!Look, Src!Fresh
  <2>3. SyncFb /\ seen # Src!Off => turned
    BY <2>2 DEF FreshInv
  <2>4. CASE due
    BY <2>1, <2>2, <2>3, <2>4 DEF FreshInv
  <2>5. CASE ~due
    BY <2>1, <2>2, <2>3, <2>5 DEF FreshInv
  <2> QED BY <2>4, <2>5
<1>7. CASE Src!LookFails \/ Src!Fail
  BY <1>7 DEF FreshInv, Src!LookFails, Src!Fail
<1>8. CASE Src!GetFb
  BY <1>8 DEF FreshInv, Src!GetFb
<1>9. CASE Src!ImportPlane
  BY <1>9 DEF FreshInv, Src!ImportPlane
<1>10. CASE Src!ImportFails \/ Src!Imported
  BY <1>10 DEF FreshInv, Src!ImportFails, Src!Imported
<1>11. CASE Src!FreeHandle
  BY <1>11 DEF FreshInv, Src!FreeHandle
<1>12. CASE Src!Deliver
  BY <1>12 DEF FreshInv, Src!Deliver
<1>13. CASE Src!GetCaps \/ Src!FreeAsked
  BY <1>13 DEF FreshInv, Src!GetCaps, Src!FreeAsked
<1>14. ASSUME NEW b \in out, Src!Consume(b) PROVE Goal
  BY <1>14 DEF FreshInv, Src!Consume
<1>15. CASE UNCHANGED Src!srcVars
  BY <1>15 DEF FreshInv, Src!srcVars
<1> QED BY <1>1, <1>2, <1>3, <1>4, <1>5, <1>6, <1>7, <1>8, <1>9, <1>10, <1>11, <1>12, <1>13,
           <1>14, <1>15 DEF Src!Next

\* With sync-fb, the CRTC has changed between two frames taken from it, for any
\* number of framebuffers, sessions and buffers downstream.
THEOREM FramesFreshHold ==
  ASSUME SyncFb \in BOOLEAN
  PROVE  Src!Spec => FramesFresh
<1>1. Src!Init => FreshInv
  BY DEF Src!Init, FreshInv
<1>2. FreshInv /\ [Src!Next]_(Src!srcVars) =>
        /\ FreshInv'
        /\ [SyncFb /\ pc = "look" /\ pc' = "get" /\ seen # Src!Off => turned]_(Src!srcVars)
  BY FreshStep
<1> QED BY <1>1, <1>2, PTL DEF Src!Spec, FramesFresh, Src!FramesFresh

-----------------------------------------------------------------------------
(* The source: what it owns *)

\* The planes of a framebuffer, each with an object.
PlanesKnown == \A f \in Fbs : PlanesOf[f] \in Seq(Nat)

Owned(B) == UNION {Src!ToSet(b) : b \in B}
Apart(B) == \A b, c \in B : \A i \in DOMAIN b, j \in DOMAIN c : b[i] = c[j] => b = c /\ i = j

\* Memories are named by their descriptors; a handle that is asked for is on one of the
\* two lists of what will be closed.
OwnedInv ==
  /\ mems \in Seq(Src!Fds) /\ out \subseteq Seq(Src!Fds) /\ fds \subseteq Src!Fds
  /\ hs \in Seq(Src!ToSet(hs)) /\ asked \in Seq(Src!ToSet(asked))
  /\ {e.handle : e \in names} \subseteq Src!ToSet(hs) \cup Src!ToSet(asked)
  /\ pc \in {"idle", "look", "get", "ended"} => hs = <<>>
  /\ pc \notin {"import", "made"} => mems = <<>>
  /\ pc \in {"get", "import", "made"} => fb \in Fbs
  /\ shown \in Fbs \cup {Src!Off}
  /\ plane > 1 => pc = "import" /\ mems # <<>>
  /\ ~running => pc = "idle"
  /\ files = IF running THEN {fd} ELSE {}
  /\ mems # <<>> => mems \notin out
  /\ fds = Owned(out \cup {mems}) /\ Apart(out \cup {mems})

LEMMA Tails ==
  ASSUME NEW s, s \in Seq(Src!ToSet(s)), s # <<>>
  PROVE  /\ Tail(s) \in Seq(Src!ToSet(Tail(s)))
         /\ Src!ToSet(s) \subseteq Src!ToSet(Tail(s)) \cup {Head(s)}
<1> DEFINE S == Src!ToSet(s)
           t == Tail(s)
<1>1. s \in Seq(S) /\ DOMAIN s = 1..Len(s) /\ Len(s) \in Nat \ {0}
  <2>1. s \in Seq(S)
    OBVIOUS
  <2> HIDE DEF S
  <2> QED BY <2>1
<1> HIDE DEF S
<1>2. t \in Seq(S) /\ DOMAIN t = 1..Len(t) /\ Len(t) = Len(s) - 1 /\ Head(s) = s[1]
      /\ \A i \in 1..Len(t) : t[i] = s[i + 1]
  BY <1>1
<1> HIDE DEF t
<1>3. t \in Seq(Src!ToSet(t))
  <2>1. \A i \in 1..Len(t) : t[i] \in Src!ToSet(t)
    BY <1>2 DEF Src!ToSet
  <2>2. t = [i \in 1..Len(t) |-> t[i]] /\ Len(t) \in Nat
    BY <1>1, <1>2
  <2> HIDE DEF Src!ToSet
  <2> QED BY <2>1, <2>2
<1>4. ASSUME NEW i \in DOMAIN s PROVE s[i] \in Src!ToSet(t) \cup {Head(s)}
  <2>1. CASE i = 1
    BY <1>2, <2>1
  <2>2. CASE i # 1
    <3>1. i - 1 \in 1..Len(t) /\ t[i - 1] = s[i]
      BY <1>1, <1>2, <2>2
    <3> QED BY <1>2, <3>1 DEF Src!ToSet
  <2> QED BY <2>1, <2>2
<1> QED BY <1>3, <1>4 DEF Src!ToSet, t

\* The kernel gives a handle for each plane, open in the table.
LEMMA HandlesGiven ==
  ASSUME PlanesKnown, NEW f \in Fbs
  PROVE  LET h == Src!NewHandles(f)
         IN /\ h \in Seq(Src!ToSet(h))
            /\ {e.handle : e \in Src!Opens(f)} \subseteq {e.handle : e \in names} \cup Src!ToSet(h)
<1> DEFINE h == Src!NewHandles(f)
<1>1. Len(PlanesOf[f]) \in Nat
  BY DEF PlanesKnown
<1>2. DOMAIN h = 1..Len(PlanesOf[f]) /\ h = [i \in 1..Len(PlanesOf[f]) |-> h[i]]
  <2> DEFINE D == 1..Len(PlanesOf[f])
             free == Src!Handles \ {e.handle : e \in names}
             P(i) == CHOOSE x \in free :
                       Src!Rank(free, x) = Src!Rank(Src!ToSet(PlanesOf[f]), PlanesOf[f][i])
  <2>1. h = [i \in D |-> P(i)]
    BY DEF Src!NewHandles
  <2> HIDE DEF D, P, h
  <2>2. DOMAIN h = D /\ h = [i \in D |-> h[i]]
    BY <2>1
  <2> QED BY <2>2 DEF D
<1>3. Src!Opens(f) = names \cup {[handle |-> h[i], obj |-> PlanesOf[f][i]] : i \in 1..Len(PlanesOf[f])}
  BY DEF Src!Opens
<1> HIDE DEF h
<1>4. \A i \in 1..Len(PlanesOf[f]) : h[i] \in Src!ToSet(h)
  BY <1>2 DEF Src!ToSet
<1>5. h \in Seq(Src!ToSet(h))
  BY <1>1, <1>2, <1>4
<1>6. ASSUME NEW e \in Src!Opens(f)
      PROVE  e.handle \in {x.handle : x \in names} \cup Src!ToSet(h)
  BY <1>3, <1>4
<1> QED BY <1>5, <1>6 DEF h

\* A buffer that grows by a new descriptor.
LEMMA Grown ==
  ASSUME NEW F, NEW B \in SUBSET Seq(F), NEW s \in Seq(F), NEW d \in F,
         s # <<>> => s \notin B, d \notin Owned(B \cup {s}), Apart(B \cup {s})
  PROVE  /\ Append(s, d) \in Seq(F) /\ Append(s, d) # <<>> /\ Append(s, d) \notin B
         /\ Owned(B \cup {Append(s, d)}) = Owned(B \cup {s}) \cup {d}
         /\ Apart(B \cup {Append(s, d)})
<1> DEFINE t == Append(s, d)
           n == Len(s) + 1
<1>1. /\ t \in Seq(F) /\ DOMAIN t = 1..n /\ DOMAIN s = 1..(n - 1) /\ n \in Nat \ {0} /\ t[n] = d
      /\ \A i \in 1..(n - 1) : t[i] = s[i]
      /\ t # <<>>
  OBVIOUS
<1> HIDE DEF t, n
<1>2. Src!ToSet(t) = Src!ToSet(s) \cup {d}
  BY <1>1 DEF Src!ToSet
<1>3. \A b \in B : \A i \in DOMAIN b : b[i] \in Owned(B \cup {s}) /\ b[i] # d
  BY DEF Owned, Src!ToSet
<1>4. \A i \in DOMAIN s : s[i] # d
  BY DEF Owned, Src!ToSet
<1>5. t \notin B
  BY <1>1, <1>3
<1>6. Owned(B \cup {t}) = Owned(B \cup {s}) \cup {d}
  BY <1>2 DEF Owned
<1>7. ASSUME NEW b \in B, NEW i \in DOMAIN b, NEW j \in DOMAIN t, b[i] = t[j] PROVE FALSE
  <2>1. CASE j = n
    BY <1>1, <1>3, <1>7, <2>1
  <2>2. CASE j # n
    <3>1. j \in DOMAIN s /\ t[j] = s[j]
      BY <1>1, <2>2
    <3>2. s # <<>>
      BY <3>1, <1>1
    <3> QED BY <1>7, <3>1, <3>2 DEF Apart
  <2> QED BY <2>1, <2>2
<1>8. ASSUME NEW i \in DOMAIN t, NEW j \in DOMAIN t, t[i] = t[j] PROVE i = j
  <2>1. CASE i \in DOMAIN s /\ j \in DOMAIN s
    BY <1>1, <1>8, <2>1 DEF Apart
  <2>2. CASE i = n
    BY <1>1, <1>4, <1>8, <2>2
  <2>3. CASE j = n
    BY <1>1, <1>4, <1>8, <2>3
  <2> QED BY <1>1, <2>1, <2>2, <2>3
<1>9. Apart(B \cup {t})
  BY <1>7, <1>8 DEF Apart
<1> QED BY <1>1, <1>5, <1>6, <1>9 DEF t

\* A buffer that goes takes its descriptors and no other's.
LEMMA Gone ==
  ASSUME NEW F, NEW B \in SUBSET Seq(F), NEW s \in Seq(F), s \notin B, Apart(B \cup {s})
  PROVE  Owned(B) = Owned(B \cup {s}) \ Src!ToSet(s) /\ Apart(B)
<1>1. Apart(B)
  BY DEF Apart
<1>2. ASSUME NEW b \in B, NEW i \in DOMAIN b, b[i] \in Src!ToSet(s) PROVE FALSE
  <2>1. PICK j \in DOMAIN s : b[i] = s[j]
    BY <1>2 DEF Src!ToSet
  <2> QED BY <2>1 DEF Apart
<1>3. Owned(B \cup {s}) = Owned(B) \cup Src!ToSet(s)
  BY DEF Owned
<1>4. \A x \in Owned(B) : x \notin Src!ToSet(s)
  <2> SUFFICES ASSUME NEW b \in B, NEW x \in Src!ToSet(b) PROVE x \notin Src!ToSet(s)
    BY DEF Owned
  <2> QED BY <1>2 DEF Src!ToSet
<1> QED BY <1>1, <1>3, <1>4

LEMMA Empty ==
  ASSUME NEW B
  PROVE  /\ Owned(B \cup {<<>>}) = Owned(B)
         /\ Apart(B) => Apart(B \cup {<<>>})
         /\ Src!ToSet(<<>>) = {}
<1>1. DOMAIN <<>> = {} /\ Src!ToSet(<<>>) = {}
  BY DEF Src!ToSet
<1> QED BY <1>1 DEF Owned, Apart

LEMMA OwnedStep ==
  ASSUME PlanesKnown, ~Gaps, OwnedInv, [Src!Next]_(Src!srcVars)
  PROVE  OwnedInv'
<1> USE DEF Src!device, Src!stream
<1>1. ASSUME NEW f \in Fbs \cup {Src!Off}, Src!Flip(f) PROVE OwnedInv'
  BY <1>1 DEF OwnedInv, Src!Flip
<1>2. CASE Src!Start
  BY <1>2 DEF OwnedInv, Src!Start, Src!Open
<1>3. CASE Src!StartFails
  BY <1>3 DEF OwnedInv, Src!StartFails
<1>4. CASE Src!Stop
  BY <1>4 DEF OwnedInv, Src!Stop
<1>5. CASE Src!Create
  BY <1>5 DEF OwnedInv, Src!Create
<1>6. CASE Src!Look
  BY <1>6 DEF OwnedInv, Src!Look
<1>7. CASE Src!LookFails \/ Src!Fail
  BY <1>7 DEF OwnedInv, Src!LookFails, Src!Fail
<1>8. CASE Src!GetFb
  <2>1. CASE pc' = "ended" /\ UNCHANGED <<hs, names>>
    BY <1>8, <2>1 DEF OwnedInv, Src!GetFb
  <2>2. CASE hs' = Src!NewHandles(fb) /\ names' = Src!Opens(fb) /\ pc' = "import"
    <3>1. fb \in Fbs /\ hs = <<>> /\ UNCHANGED asked
      BY <1>8 DEF OwnedInv, Src!GetFb
    <3>2. /\ hs' \in Seq(Src!ToSet(hs'))
          /\ {e.handle : e \in names'} \subseteq {e.handle : e \in names} \cup Src!ToSet(hs')
      BY <2>2, <3>1, HandlesGiven
    <3>3. {e.handle : e \in names'} \subseteq Src!ToSet(hs') \cup Src!ToSet(asked')
      BY <3>1, <3>2, Empty DEF OwnedInv
    <3> QED BY <1>8, <2>2, <3>1, <3>2, <3>3 DEF OwnedInv, Src!GetFb
  <2> QED BY <1>8, <2>1, <2>2 DEF Src!GetFb
<1>9. CASE Src!ImportPlane
  <2>1. CASE plane > 1 /\ UNCHANGED <<fds, mems>>
    BY <1>9, <2>1 DEF OwnedInv, Src!ImportPlane
  <2>2. CASE fds # Src!Fds /\ fds' = fds \cup {Src!FirstFd} /\ mems' = Append(mems, Src!FirstFd)
    <3>1. Src!FirstFd \in Src!Fds \ fds
      <4> DEFINE G == Src!Fds \ fds
      <4>1. G # {} /\ IsFiniteSet(G) /\ G \in SUBSET Nat
        <5>1. 1 \in Int /\ 8 \in Int
          OBVIOUS
        <5>2. IsFiniteSet(Src!Fds)
          BY <5>1, FS_Interval DEF Src!Fds
        <5>3. fds \subseteq Src!Fds
          BY DEF OwnedInv
        <5>4. G \in SUBSET Src!Fds /\ G # {}
          BY <2>2, <5>3
        <5>5. IsFiniteSet(G)
          BY <5>2, <5>4, FS_Subset
        <5> QED BY <5>4, <5>5 DEF Src!Fds
      <4> HIDE DEF G
      <4>2. \E d \in G : \A e \in G : d <= e
        BY <4>1, LeastAndLast
      <4> QED BY <4>2 DEF G, Src!FirstFd
    <3>2. /\ mems \in Seq(Src!Fds) /\ out \in SUBSET Seq(Src!Fds) /\ (mems # <<>> => mems \notin out)
          /\ fds = Owned(out \cup {mems}) /\ Apart(out \cup {mems})
      BY DEF OwnedInv
    <3>3. /\ mems' \in Seq(Src!Fds) /\ mems' # <<>> /\ mems' \notin out
          /\ Owned(out \cup {mems'}) = fds' /\ Apart(out \cup {mems'})
      <4> DEFINE d == Src!FirstFd
      <4>1. d \in Src!Fds /\ d \notin Owned(out \cup {mems}) /\ mems' = Append(mems, d)
            /\ fds' = Owned(out \cup {mems}) \cup {d}
        BY <2>2, <3>1, <3>2
      <4> HIDE DEF d
      <4>2. /\ Append(mems, d) \in Seq(Src!Fds) /\ Append(mems, d) # <<>>
            /\ Append(mems, d) \notin out /\ Apart(out \cup {Append(mems, d)})
            /\ Owned(out \cup {Append(mems, d)}) = Owned(out \cup {mems}) \cup {d}
        <5>1. /\ out \in SUBSET Seq(Src!Fds) /\ mems \in Seq(Src!Fds) /\ d \in Src!Fds
              /\ (mems # <<>> => mems \notin out) /\ d \notin Owned(out \cup {mems})
              /\ Apart(out \cup {mems})
          BY <3>2, <4>1
        <5> QED BY <5>1, Grown, ZenonT(60)
      <4> QED BY <4>1, <4>2
    <3>4. UNCHANGED <<shown, files, fd, running, names, pc, fb, hs, asked, out>> /\ pc = "import"
      BY <1>9 DEF Src!ImportPlane
    <3> QED BY <2>2, <3>1, <3>3, <3>4 DEF OwnedInv
  <2> QED BY <1>9, <2>1, <2>2 DEF Src!ImportPlane
<1>10. CASE Src!ImportFails
  <2>1. /\ mems \in Seq(Src!Fds) /\ out \in SUBSET Seq(Src!Fds) /\ (mems # <<>> => mems \notin out)
        /\ fds = Owned(out \cup {mems}) /\ Apart(out \cup {mems})
    BY DEF OwnedInv
  <2>2. /\ fds' = fds \ Src!ToSet(mems) /\ mems' = <<>> /\ plane' = 1 /\ pc' = "failed" /\ out' = out
        /\ UNCHANGED <<shown, files, fd, running, names, fb, hs, asked>> /\ pc = "import"
    BY <1>10 DEF Src!ImportFails, Src!Dropped
  <2>3. fds' = Owned(out) /\ Apart(out)
    <3>1. CASE mems = <<>>
      BY <2>1, <2>2, <3>1, Empty DEF Apart
    <3>2. CASE mems # <<>>
      BY <2>1, <2>2, <3>2, Gone
    <3> QED BY <3>1, <3>2
  <2>4. fds' = Owned(out \cup {mems'}) /\ Apart(out \cup {mems'})
    BY <2>2, <2>3, Empty
  <2>5. <<>> \in Seq(Src!Fds) /\ ~(1 > 1)
    OBVIOUS
  <2> QED BY <2>2, <2>4, <2>5 DEF OwnedInv
<1>11. CASE Src!Imported
  <2>1. /\ pc = "import" /\ pc' = "made" /\ plane' = 1
        /\ UNCHANGED <<shown, files, fd, running, names, fds, fb, hs, mems, asked, out>>
    BY <1>11 DEF Src!Imported
  <2>2. ~(1 > 1)
    OBVIOUS
  <2> QED BY <2>1, <2>2 DEF OwnedInv
<1>12. CASE Src!FreeHandle
  <2>1. /\ pc \in {"made", "failed"} /\ hs # <<>> /\ names' = {e \in names : e.handle # Head(hs)}
        /\ hs' = Tail(hs)
        /\ UNCHANGED <<shown, files, fd, running, fds, pc, fb, plane, mems, asked, out>>
    BY <1>12 DEF Src!FreeHandle, Src!Closed
  <2>2. hs' \in Seq(Src!ToSet(hs')) /\ Src!ToSet(hs) \subseteq Src!ToSet(hs') \cup {Head(hs)}
    BY <2>1, Tails DEF OwnedInv
  <2>3. {e.handle : e \in names'} \subseteq Src!ToSet(hs') \cup Src!ToSet(asked')
    BY <2>1, <2>2 DEF OwnedInv
  <2> QED BY <2>1, <2>2, <2>3 DEF OwnedInv
<1>13. CASE Src!Deliver
  <2>1. /\ out' = out \cup {mems} /\ mems' = <<>> /\ pc' = "idle" /\ pc = "made" /\ hs = <<>>
        /\ UNCHANGED <<shown, files, fd, running, names, fds, fb, hs, plane, asked>>
    BY <1>13 DEF Src!Deliver
  <2>2. fds' = Owned(out' \cup {mems'}) /\ Apart(out' \cup {mems'})
    BY <2>1, Empty DEF OwnedInv
  <2>3. <<>> \in Seq(Src!Fds) /\ out' \subseteq Seq(Src!Fds)
    BY <2>1 DEF OwnedInv
  <2>4. mems' = <<>> /\ (mems' # <<>> => mems' \notin out')
    BY <2>1
  <2> QED BY <2>1, <2>2, <2>3, <2>4 DEF OwnedInv
<1>14. CASE Src!GetCaps
  <2>1. /\ running /\ asked = <<>> /\ asked' = Src!NewHandles(shown) /\ names' = Src!Opens(shown)
        /\ shown \in Fbs
        /\ UNCHANGED <<shown, files, fd, running, fds, pc, fb, hs, plane, mems, out>>
    BY <1>14 DEF OwnedInv, Src!GetCaps
  <2>2. /\ asked' \in Seq(Src!ToSet(asked'))
        /\ {e.handle : e \in names'} \subseteq {e.handle : e \in names} \cup Src!ToSet(asked')
    BY <2>1, HandlesGiven
  <2>3. {e.handle : e \in names'} \subseteq Src!ToSet(hs') \cup Src!ToSet(asked')
    BY <2>1, <2>2, Empty DEF OwnedInv
  <2> QED BY <2>1, <2>2, <2>3 DEF OwnedInv
<1>15. CASE Src!FreeAsked
  <2>1. /\ asked # <<>> /\ names' = {e \in names : e.handle # Head(asked)} /\ asked' = Tail(asked)
        /\ UNCHANGED <<shown, files, fd, running, fds, pc, fb, hs, plane, mems, out>>
    BY <1>15 DEF Src!FreeAsked, Src!Closed
  <2>2. asked' \in Seq(Src!ToSet(asked')) /\ Src!ToSet(asked) \subseteq Src!ToSet(asked') \cup {Head(asked)}
    BY <2>1, Tails DEF OwnedInv
  <2>3. {e.handle : e \in names'} \subseteq Src!ToSet(hs') \cup Src!ToSet(asked')
    BY <2>1, <2>2 DEF OwnedInv
  <2> QED BY <2>1, <2>2, <2>3 DEF OwnedInv
<1>16. ASSUME NEW b \in out, Src!Consume(b) PROVE OwnedInv'
  <2>1. /\ out' = out \ {b} /\ fds' = fds \ Src!ToSet(b)
        /\ UNCHANGED <<shown, files, fd, running, names, pc, fb, hs, plane, mems, asked>>
    BY <1>16 DEF Src!Consume
  <2> DEFINE B == (out \ {b}) \cup {mems}
  <2>2. /\ mems \in Seq(Src!Fds) /\ out \subseteq Seq(Src!Fds) /\ (mems # <<>> => mems \notin out)
        /\ fds = Owned(out \cup {mems}) /\ Apart(out \cup {mems})
    BY DEF OwnedInv
  <2>3. B \cup {b} = out \cup {mems} /\ B \in SUBSET Seq(Src!Fds) /\ b \in Seq(Src!Fds)
    BY <2>2
  <2>4. fds' = Owned(B) /\ Apart(B)
    <3>1. CASE b = mems
      <4>1. b = <<>>
        BY <2>2, <3>1
      <4>2. B = out \cup {mems}
        BY <3>1
      <4> QED BY <2>1, <2>2, <4>1, <4>2, Empty
    <3>2. CASE b # mems
      <4>1. b \notin B
        BY <3>2
      <4> HIDE DEF B
      <4>2. Apart(B \cup {b}) /\ fds = Owned(B \cup {b})
        BY <2>2, <2>3
      <4>3. Owned(B) = Owned(B \cup {b}) \ Src!ToSet(b) /\ Apart(B)
        BY <2>3, <4>1, <4>2, Gone
      <4> QED BY <2>1, <4>2, <4>3
    <3> QED BY <3>1, <3>2
  <2> QED BY <2>1, <2>4 DEF OwnedInv
<1>17. CASE UNCHANGED Src!srcVars
  BY <1>17 DEF OwnedInv, Src!srcVars
<1> QED BY <1>1, <1>2, <1>3, <1>4, <1>5, <1>6, <1>7, <1>8, <1>9, <1>10, <1>11, <1>12, <1>13,
           <1>14, <1>15, <1>16, <1>17 DEF Src!Next

\* If planes of one object lie together in it, the source keeps open what it will
\* close, in the one file it uses, and every descriptor is of exactly one memory.
THEOREM ResourcesHold ==
  ASSUME PlanesKnown, ~Gaps
  PROVE  Src!Spec => []ResourcesOwned
<1>1. Src!Init => OwnedInv
  <2> SUFFICES ASSUME Src!Init PROVE OwnedInv
    OBVIOUS
  <2>1. Owned({<<>>}) = {} /\ Apart({<<>>}) /\ Src!ToSet(<<>>) = {}
    BY Empty DEF Owned, Apart
  <2> QED BY <2>1 DEF Src!Init, OwnedInv
<1>2. OwnedInv /\ [Src!Next]_(Src!srcVars) => OwnedInv'
  BY OwnedStep
<1>3. OwnedInv => ResourcesOwned
  BY DEF OwnedInv, ResourcesOwned, Src!ResourcesOwned, Owned, Apart
<1> QED BY <1>1, <1>2, <1>3, PTL DEF Src!Spec
=============================================================================
