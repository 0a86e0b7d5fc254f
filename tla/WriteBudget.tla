---------------------------- MODULE WriteBudget ----------------------------
(***************************************************************************)
(* What the write governor promises the flash, without saying how: a       *)
(* history of transfers, and when the next one may join it.  There is no   *)
(* state but the history itself: no wear.json, no last_upload_at, no       *)
(* pruned window, no request that waits with an old clock.                 *)
(*                                                                         *)
(* Interval, HourTicks and Lag are in ticks.  A promise about real time    *)
(* can only be kept up to the Lag between a request's clock and its        *)
(* transfer.  Once a write may have been forgotten (a save that failed, a  *)
(* death in mid-transfer) nothing is promised any more.                    *)
(***************************************************************************)
EXTENDS Integers, Sequences, FiniteSets

CONSTANTS
  Interval,     \* between a scheduled transfer and any earlier one
  HourTicks,    \* the rolling hour
  Allowance,    \* interactive transfers in it
  Lag           \* longest time from a request's clock to its transfer

VARIABLES
  clock,    \* real time
  log,      \* every transfer: [lane, at, done]
  faults    \* occasions on which a write may have been forgotten

budget == <<clock, log, faults>>

(* The interactive transfers of the last hour, less the lag. *)
Recent ==
  {i \in 1..Len(log) : log[i].lane = "interactive" /\ log[i].done > clock - (HourTicks - Lag)}

(* A scheduled transfer keeps its distance from all before it; interactive  *)
(* ones are so many to an hour; recovery has no limit of its own.           *)
Permitted(lane) ==
  /\ lane = "scheduled" =>
       \A i \in 1..Len(log) : clock - log[i].done + Lag >= Interval
  /\ lane = "interactive" => Cardinality(Recent) < Allowance

BudgetInit == clock = 0 /\ log = <<>> /\ faults = 0

Pass ==
  /\ clock' = clock + 1
  /\ UNCHANGED <<log, faults>>

Forget ==
  /\ faults' = faults + 1
  /\ UNCHANGED <<clock, log>>

(* at is the clock of the request. *)
Write(lane, at) ==
  /\ log' = Append(log, [lane |-> lane, at |-> at, done |-> clock])
  /\ faults = 0 => Permitted(lane)
  /\ UNCHANGED <<clock, faults>>

BudgetNext ==
  \/ Pass
  \/ Forget
  \/ \E lane \in {"scheduled", "interactive", "recovery"}, at \in (clock - Lag)..clock :
       Write(lane, at)

BudgetSpec == BudgetInit /\ [][BudgetNext]_budget
============================================================================
