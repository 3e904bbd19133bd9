--------------------------- MODULE FaultRecovery ---------------------------
(***************************************************************************)
(* How often the encoder may restart.  Two windows of time stand between a *)
(* hardware fault and a restart of the MPP context: the fault bridge asks  *)
(* for one when Threshold faults of this encoder fall in a window of       *)
(* FaultWindow (gst_mpp_fault_account), and the encoder grants at most     *)
(* Budget attempts in a window of RestartWindow                            *)
(* (gst_mpp_enc_restart_context).  Both windows tumble: the first event    *)
(* after one has expired opens the next.                                   *)
(*                                                                         *)
(* Time is a count of ticks of the monotonic clock, which never reads 0:   *)
(* 0 is the code's "no window".  What a restart does to the frames is      *)
(* MppEncoder's subject, who a fault belongs to is FaultBridge's.          *)
(***************************************************************************)
EXTENDS Integers, Sequences

CONSTANTS
  Threshold,       \* GST_MPP_FAULT_THRESHOLD
  FaultWindow,     \* GST_MPP_FAULT_WINDOW_US
  PollInterval,    \* POLL_INTERVAL_US
  Budget,          \* MPP_ENC_RESTART_BUDGET
  RestartWindow,   \* MPP_ENC_RESTART_WINDOW_US
  MaxTime, MaxFaults, MaxErrors    \* bounds: ticks, fault lines, MPP errors

ASSUME WindowsAssumption ==
  /\ Threshold \in Nat \ {0} /\ FaultWindow \in Nat \ {0}
  /\ Budget \in Nat \ {0} /\ RestartWindow \in Nat \ {0}
  /\ PollInterval \in Nat /\ MaxTime \in Nat /\ MaxFaults \in Nat /\ MaxErrors \in Nat

VARIABLES
  now,         \* g_get_monotonic_time
  reading,     \* the task is in gst_mpp_fault_bridge_poll
  lastPoll,    \* last_poll; also the poll's own "now", read once as it starts
  crossed,     \* the poll's result so far
  window,      \* window_started
  count,       \* window_faults
  budgetFrom,  \* restart_window_started
  attempts,    \* restart_attempts
  errors,      \* MPP errors met outside the bridge
  faults,      \* history: each fault counted, when, and whether it crossed
  restarts     \* history: each attempt, when, in which window, its number there

bridgeVars == <<reading, lastPoll, crossed, window, count, faults>>
budgetVars == <<budgetFrom, attempts, restarts>>
vars == <<now, bridgeVars, budgetVars, errors>>

-----------------------------------------------------------------------------
Init ==
  /\ now = 1 /\ reading = FALSE /\ lastPoll = 0 /\ crossed = FALSE
  /\ window = 0 /\ count = 0 /\ budgetFrom = 0 /\ attempts = 0
  /\ errors = 0 /\ faults = <<>> /\ restarts = <<>>

\* A window opened at "from" is taken for over a tick before its width.
ExpiredEarly(from, at, width) == from = 0 \/ at - from >= width - 1

\* At time "at" a window opened at "from" is over, or none was open.
Expired(from, at, width) == from = 0 \/ at - from >= width

-----------------------------------------------------------------------------
(* gst_mpp_enc_restart_context: an attempt, or the end of the budget *)

\* One attempt more than the budget.
GrantedLate(used) == used <= Budget
Granted(used) == used < Budget

RestartContext ==
  LET fresh == Expired(budgetFrom, now, RestartWindow)
      from == IF fresh THEN now ELSE budgetFrom
      used == IF fresh THEN 0 ELSE attempts
  IN /\ budgetFrom' = from
     /\ IF Granted(used)
          THEN /\ attempts' = used + 1
               /\ restarts' = Append(restarts, [at |-> now, win |-> from, nth |-> used + 1])
          ELSE attempts' = used /\ restarts' = restarts

-----------------------------------------------------------------------------
(* gst_mpp_fault_account and gst_mpp_fault_bridge_poll *)

\* Asked for one fault too late.
CrossesLate(seen) == seen > Threshold
Crosses(seen) == seen >= Threshold

\* The count outlives the crossing: the next fault asks again at once.
Kept(over, value) == value
Cleared(over, value) == IF over THEN 0 ELSE value

\* A fault counts at the instant its poll began, however late it is read.
Account ==
  LET fresh == Expired(window, lastPoll, FaultWindow)
      seen == (IF fresh THEN 0 ELSE count) + 1
      over == Crosses(seen)
  IN /\ window' = Cleared(over, IF fresh THEN lastPoll ELSE window)
     /\ count' = Cleared(over, seen)
     /\ crossed' = (crossed \/ over)
     /\ faults' = Append(faults, [at |-> lastPoll, crossed |-> over])

PollStart ==
  /\ ~reading
  /\ lastPoll = 0 \/ now - lastPoll >= PollInterval
  /\ reading' = TRUE /\ lastPoll' = now /\ crossed' = FALSE
  /\ UNCHANGED <<now, window, count, faults, budgetVars, errors>>

OwnedFault ==
  /\ reading /\ Len(faults) < MaxFaults /\ Account
  /\ UNCHANGED <<now, reading, lastPoll, budgetVars, errors>>

\* gst_mpp_enc_poll_kernel_faults: the poll is over; a crossing restarts.
PollEnd ==
  /\ reading /\ reading' = FALSE
  /\ IF crossed THEN RestartContext ELSE UNCHANGED budgetVars
  /\ UNCHANGED <<now, lastPoll, crossed, window, count, faults, errors>>

\* encode_put_frame or encode_get_packet fails: the same path, no bridge.
RuntimeError ==
  /\ ~reading /\ errors < MaxErrors /\ errors' = errors + 1
  /\ RestartContext
  /\ UNCHANGED <<now, bridgeVars>>

Tick ==
  /\ now < MaxTime /\ now' = now + 1
  /\ UNCHANGED <<bridgeVars, budgetVars, errors>>

Next == PollStart \/ OwnedFault \/ PollEnd \/ RuntimeError \/ Tick

Spec == Init /\ [][Next]_vars

-----------------------------------------------------------------------------
(* Properties *)

Fault == [at : Nat, crossed : BOOLEAN]
Attempt == [at : Nat, win : Nat, nth : 1..Budget]

\* The types of the two windows and of their histories.
TypeOK ==
  /\ now \in Nat \ {0} /\ reading \in BOOLEAN /\ lastPoll \in Nat /\ crossed \in BOOLEAN
  /\ window \in Nat /\ count \in Nat /\ budgetFrom \in Nat /\ attempts \in 0..Budget
  /\ errors \in Nat /\ faults \in Seq(Fault) /\ restarts \in Seq(Attempt)

\* The documented budget: no span of RestartWindow holds more than Budget
\* attempts.  A tumbling window does not keep it.
AnyWindow ==
  \A i \in 1..(Len(restarts) - Budget) :
    restarts[i + Budget].at - restarts[i].at >= RestartWindow

\* What the tumbling window does keep (gst_mpp_enc_restart_context): twice the
\* budget of attempts, first to last, always takes a whole window.
RestartsBounded ==
  \A i, j \in 1..Len(restarts) :
    j = i + 2 * Budget - 1 => restarts[j].at - restarts[i].at >= RestartWindow

\* A crossing rests on Threshold faults of its own inside one window: none of
\* them is older than the window and none served an earlier crossing.
CrossingJustified ==
  \A j \in 1..Len(faults) : faults[j].crossed =>
    /\ j >= Threshold
    /\ faults[j].at - faults[j - Threshold + 1].at < FaultWindow
    /\ \A i \in (j - Threshold + 1)..(j - 1) : ~faults[i].crossed

\* A wedged encoder is noticed wherever its faults fall against the tumbling
\* window: one fault short of twice Threshold in less than a window always
\* crosses.
WedgeNoticed ==
  \A i, j \in 1..Len(faults) :
    j = i + 2 * Threshold - 2 /\ faults[j].at - faults[i].at < FaultWindow
      => \E k \in i..j : faults[k].crossed
=============================================================================
