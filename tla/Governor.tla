----------------------------- MODULE Governor -----------------------------
(***************************************************************************)
(* One process that owns the panel: Governor::upload_to_panel behind the   *)
(* daemon's mutex, wear.json, and the panel itself.                        *)
(*                                                                         *)
(* A request takes its `now' when it arrives (server.rs, dispatch; the     *)
(* scheduler at the top of its loop) and waits for the mutex afterwards,   *)
(* so a decision is made with a clock that is up to MaxLag ticks old, and  *)
(* two requests may be served in the other order than their clocks.        *)
(*                                                                         *)
(* The transfer and the bookkeeping that follows it are separate steps:    *)
(* the process can die between them.  A save can fail, and its error is    *)
(* ignored (`let _ = self.save()').                                        *)
(***************************************************************************)
EXTENDS GovernorRules, Sequences

CONSTANTS
  Caller,       \* tasks that may hold a request at the same time
  Image,        \* payloads
  Torn,         \* the panel after a transfer that died part-way
  Native,       \* the keyboard's own screen
  MaxLag,       \* longest time from a request's `now' to its completion
  MaxClock,     \* bound of the model: last instant
  MaxWear,      \* bound of the model: transfers
  MaxFaults     \* bound of the model: failed saves and deaths mid-transfer

Time == 0..MaxClock

Request == [lane : Lane, img : Image, at : Time]

Progress == [by : Caller, ok : BOOLEAN]

ASSUME GovernorAssumption ==
  /\ MaxLag \in Nat
  /\ MaxClock \in Nat
  /\ MaxWear \in Nat
  /\ MaxFaults \in Nat
  /\ None \notin Image
  /\ Torn \notin Image
  /\ Native \notin Image
  /\ None \notin Request
  /\ None \notin Progress

VARIABLES
  clock,    \* real time
  call,     \* call[c]: the request of task c, or None
  active,   \* the transfer in progress under the mutex, or None
  state,    \* Governor::state, in memory
  file,     \* wear.json
  panel,    \* what the screen shows
  log,      \* history: every transfer that touched the flash, in order
  faults    \* history: failed saves and deaths mid-transfer so far

vars == <<clock, call, active, state, file, panel, log, faults>>

Wear == Len(log)

Init ==
  /\ clock = 0
  /\ call = [c \in Caller |-> None]
  /\ active = None
  /\ state = NewWear
  /\ file = NewWear
  /\ panel = Native
  /\ log = <<>>
  /\ faults = 0

---------------------------------------------------------------------------
(* Time passes, but no request is served later than MaxLag after its `now'. *)
Tick ==
  /\ clock < MaxClock
  /\ \A c \in Caller : call[c] # None => clock < call[c].at + MaxLag
  /\ clock' = clock + 1
  /\ UNCHANGED <<call, active, state, file, panel, log, faults>>

(* A request arrives and reads the clock; the mutex comes later. *)
Arrive(c, lane, img) ==
  /\ call[c] = None
  /\ call' = [call EXCEPT ![c] = [lane |-> lane, img |-> img, at |-> clock]]
  /\ UNCHANGED <<clock, active, state, file, panel, log, faults>>

DecisionFor(c) == Decide(state, call[c].img, call[c].lane, call[c].at)

(* The mutex is free, and c takes it. *)
Serves(c) == active = None /\ call[c] # None

Done(c) == call' = [call EXCEPT ![c] = None]

(* The decision is not Upload: return without touching anything. *)
Refuse(c) ==
  /\ Serves(c)
  /\ DecisionFor(c) # "upload"
  /\ Done(c)
  /\ UNCHANGED <<clock, active, state, file, panel, log, faults>>

(* Device::open failed: `?' returns before anything is recorded. *)
OpenFails(c) ==
  /\ Serves(c)
  /\ DecisionFor(c) = "upload"
  /\ Done(c)
  /\ UNCHANGED <<clock, active, state, file, panel, log, faults>>

(* upload_container runs: all of it, or up to a missing or bad              *)
(* acknowledgement, which may be that of any report.                        *)
Transfer(c, ok, shown) ==
  /\ Serves(c)
  /\ DecisionFor(c) = "upload"
  /\ Wear < MaxWear
  /\ shown \in IF ok THEN {call[c].img} ELSE {panel, Torn, call[c].img}
  /\ panel' = shown
  /\ log' = Append(log, [lane |-> call[c].lane, at |-> call[c].at,
                         done |-> clock])
  /\ active' = [by |-> c, ok |-> ok]
  /\ UNCHANGED <<clock, call, state, file, faults>>

(* The state after the transfer in progress has been recorded. *)
Recorded ==
  LET r == call[active.by]
  IN IF active.ok THEN RecordUpload(state, r.img, r.lane, r.at, Wear)
                  ELSE RecordFailedUpload(state, r.img, r.lane, r.at, Wear)

(* record_upload or record_failed_upload, then save, then the mutex is free. *)
Record(saved) ==
  /\ active # None
  /\ saved \/ faults < MaxFaults
  /\ state' = Recorded
  /\ file' = IF saved THEN Recorded ELSE file
  /\ faults' = IF saved THEN faults ELSE faults + 1
  /\ Done(active.by)
  /\ active' = None
  /\ UNCHANGED <<clock, panel, log>>

(* check_reconnect believes the panel was power-cycled. *)
Invalidate ==
  /\ active = None
  /\ state.lastHash # None
  /\ state' = InvalidateDisplayed(state)
  /\ UNCHANGED <<clock, call, active, file, panel, log, faults>>

(* Mutant: the transfer in progress survives the process. *)
RestartKeepsActive ==
  /\ active # None => faults < MaxFaults
  /\ state' = file
  /\ call' = [c \in Caller |-> None]
  /\ faults' = IF active = None THEN faults ELSE faults + 1
  /\ UNCHANGED <<clock, active, file, panel, log>>

(* The process dies and is started again: Governor::load reads wear.json. *)
Restart ==
  /\ active # None => faults < MaxFaults
  /\ state' = file
  /\ call' = [c \in Caller |-> None]
  /\ active' = None
  /\ faults' = IF active = None THEN faults ELSE faults + 1
  /\ UNCHANGED <<clock, file, panel, log>>

Next ==
  \/ Tick
  \/ \E c \in Caller, lane \in Lane, img \in Image : Arrive(c, lane, img)
  \/ \E c \in Caller : Refuse(c)
  \/ \E c \in Caller : OpenFails(c)
  \/ \E c \in Caller, ok \in BOOLEAN, shown \in Image \cup {Torn, Native} :
       Transfer(c, ok, shown)
  \/ \E saved \in BOOLEAN : Record(saved)
  \/ Invalidate
  \/ Restart

Spec == Init /\ [][Next]_vars

---------------------------------------------------------------------------
Entry == [n : Nat, at : Time]

WearState ==
  [total    : Nat,
   lastAt   : Time \cup {None},
   lastHash : Image \cup {None},
   recent   : SUBSET Entry,
   byLane   : [LaneKey -> Nat]]

(* Every variable has its type; the in-progress transfer is that of a task  *)
(* that is still waiting for its answer.                                    *)
TypeOK ==
  /\ clock \in Time
  /\ call \in [Caller -> Request \cup {None}]
  /\ active \in Progress \cup {None}
  /\ active # None => call[active.by] # None
  /\ state \in WearState
  /\ file \in WearState
  /\ panel \in Image \cup {Torn, Native}
  /\ log \in Seq([lane : Lane, at : Time, done : Time])
  /\ faults \in Nat

---------------------------------------------------------------------------
(* Odometer.  "An odometer that only counts successes drifts low over time, *)
(* and drifting low is the dangerous direction" (record_failed_upload).     *)
(* The count is never high, and it is low by at most the transfer in        *)
(* progress, the saves that failed and the deaths in mid-transfer: neither  *)
(* a failed transfer nor a restart loses a write.                           *)
InProgress == IF active = None THEN 0 ELSE 1

OdometerHonest ==
  \A s \in {state, file} :
    /\ s.total <= Wear
    /\ Wear <= s.total + faults + InProgress
    /\ s.total = s.byLane["scheduled"] + s.byLane["interactive"]
                   + s.byLane["recovery"]
    /\ s.byLane["failed"] <= s.total

(* When nothing is being written, and no write was forgotten, the hash that *)
(* SkipUnchanged compares with is that of the image on the panel.           *)
DisplayedKnown ==
  faults = 0 /\ active = None => state.lastHash \in {None, panel}

(* What the refusal a caller is given is worth.  It was decided with the    *)
(* clock of the request, which may be older than the last write's.  It      *)
(* rests on transfers that happened: one with a clock less than an interval *)
(* before the request's, or as many interactive ones with clocks less than  *)
(* an hour before it as are allowed; neither failed saves nor restarts make *)
(* the governor refuse for nothing.  And retry_after_secs tells when to     *)
(* come back, if nothing else is written meanwhile.  A second less after    *)
(* the request's own clock is always too early.  The scheduled lane lets    *)
(* the caller through if it comes back that long after its answer, the      *)
(* interactive one a second later still, as the wait is truncated there.    *)
(* (An allowance of no interactive writes at all lets none through,         *)
(* whatever retry_after_secs says.)                                         *)
RefusalHonest ==
  \A c \in Caller : Serves(c) =>
    LET now == call[c].at
        since(t) == {i \in 1..Wear : log[i].at > t}
    IN /\ DecisionFor(c) = "rate_limited" =>
            LET r == ScheduledRetry(state, now)
            IN /\ since(now - EffectiveInterval * Sec) # {}
               /\ LaneAllows(state, "scheduled", clock + r * Sec)
               /\ ~LaneAllows(state, "scheduled", now + (r - 1) * Sec)
       /\ DecisionFor(c) = "burst_exhausted" =>
            LET r == BurstRetry(state, now)
            IN /\ InteractivePerHour <= Cardinality({i \in since(now - Hour) :
                                                       log[i].lane = "interactive"})
               /\ InteractivePerHour > 0 =>
                    LaneAllows(state, "interactive", clock + (r + 1) * Sec)
               /\ ~LaneAllows(state, "interactive", now + (r - 1) * Sec)

---------------------------------------------------------------------------
Budget == INSTANCE WriteBudget
  WITH Interval <- EffectiveInterval * Sec, HourTicks <- Hour,
       Allowance <- InteractivePerHour, Lag <- MaxLag

(* The governor implements the budget: with a persisted state that one      *)
(* field at a time stands for the history, with requests that are decided   *)
(* late and out of the order of their clocks, and with a process that is    *)
(* replaced, it never lets through a transfer that the history itself would *)
(* not permit.                                                              *)
KeepsBudget == Budget!BudgetSpec
=============================================================================
