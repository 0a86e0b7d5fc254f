--------------------------- MODULE GovernorRules ---------------------------
(***************************************************************************)
(* The write governor of catbus99-device, src/governor.rs, as functions of *)
(* its persisted WearState: what may be written to the panel's flash now,  *)
(* and what is remembered afterwards.  Nothing here is a state machine:    *)
(* Governor and PanelDaemon use these operators.                           *)
(*                                                                         *)
(* Times are numbers of ticks, Sec of them to a second, so that the        *)
(* truncation of chrono's num_seconds is visible when Sec > 1.             *)
(* A payload is its image: SHA-256 is taken to be injective.               *)
(* total_bytes and uploads_by_day only feed reports and are left out.      *)
(***************************************************************************)
EXTENDS Integers, FiniteSets

CONSTANTS
  Sec,                  \* ticks in a second
  Hour,                 \* ticks in the rolling hour
  WriteInterval,        \* GovernorConfig::write_interval_secs
  MinWriteInterval,     \* wear::MIN_WRITE_INTERVAL_SECS, the hard floor
  InteractivePerHour,   \* GovernorConfig::interactive_per_hour
  None                  \* Option::None, for last_upload_at and last_hash

ASSUME RulesAssumption ==
  /\ Sec \in Nat \ {0}
  /\ Hour \in Nat \ {0}
  /\ WriteInterval \in Nat
  /\ MinWriteInterval \in Nat
  /\ InteractivePerHour \in Nat
  /\ None \notin Int

Lane == {"scheduled", "interactive", "recovery"}

(* The keys of uploads_by_lane; "failed" is counted beside the lane. *)
LaneKey == Lane \cup {"failed"}

AtLeast(low, x) == IF x < low THEN low ELSE x

(* TimeDelta::num_seconds: whole seconds, truncated toward zero. *)
NumSeconds(d) == IF d >= 0 THEN d \div Sec ELSE -((-d) \div Sec)

EffectiveInterval == AtLeast(MinWriteInterval, WriteInterval)

---------------------------------------------------------------------------
(* WearState.  interactive_recent is a vector of timestamps; here it is a  *)
(* set of entries, and n keeps two writes with one timestamp apart.        *)
NewWear ==
  [total    |-> 0,
   lastAt   |-> None,
   lastHash |-> None,
   recent   |-> {},
   byLane   |-> [k \in LaneKey |-> 0]]

InteractiveWithinHour(recent, now) == {e \in recent : e.at > now - Hour}

(* Mutant: one interactive write more than the allowance. *)
LaneAllowsOneMore(s, lane, now) ==
  \/ lane = "recovery"
  \/ /\ lane = "scheduled"
     /\ \/ s.lastAt = None
        \/ NumSeconds(now - s.lastAt) >= EffectiveInterval
  \/ /\ lane = "interactive"
     /\ Cardinality(InteractiveWithinHour(s.recent, now)) <= InteractivePerHour

(* What the lane alone says, once the payload is known to differ. *)
LaneAllows(s, lane, now) ==
  \/ lane = "recovery"
  \/ /\ lane = "scheduled"
     /\ \/ s.lastAt = None
        \/ NumSeconds(now - s.lastAt) >= EffectiveInterval
  \/ /\ lane = "interactive"
     /\ Cardinality(InteractiveWithinHour(s.recent, now)) < InteractivePerHour

Decide(s, img, lane, now) ==
  IF s.lastHash = img THEN "unchanged"
  ELSE IF LaneAllows(s, lane, now) THEN "upload"
  ELSE IF lane = "scheduled" THEN "rate_limited" ELSE "burst_exhausted"

(* retry_after_secs of a RateLimited decision. *)
ScheduledRetry(s, now) ==
  AtLeast(1, EffectiveInterval - NumSeconds(now - s.lastAt))

(* Mutant: the window is taken to end with its newest write. *)
OldestIsNewest(entries, now) ==
  IF entries = {} THEN now
  ELSE CHOOSE t \in {e.at : e \in entries} : \A e \in entries : e.at <= t

Oldest(entries, now) ==
  IF entries = {} THEN now
  ELSE CHOOSE t \in {e.at : e \in entries} : \A e \in entries : t <= e.at

(* retry_after_secs of a BurstExhausted decision. *)
BurstRetry(s, now) ==
  AtLeast(1, NumSeconds(Oldest(InteractiveWithinHour(s.recent, now), now) + Hour - now))

---------------------------------------------------------------------------
Count(byLane, keys) ==
  [k \in LaneKey |-> IF k \in keys THEN byLane[k] + 1 ELSE byLane[k]]

(* Only an interactive write draws on the hourly allowance. *)
Pushed(recent, lane, now, n) ==
  IF lane = "interactive" THEN recent \cup {[n |-> n, at |-> now]} ELSE recent

(* record_upload, the final prune of the rolling window included. *)
RecordUpload(s, img, lane, now, n) ==
  [total    |-> s.total + 1,
   lastAt   |-> now,
   lastHash |-> img,
   recent   |-> InteractiveWithinHour(Pushed(s.recent, lane, now, n), now),
   byLane   |-> Count(s.byLane, {lane})]

(* Mutant: the last write is forgotten along with its image. *)
InvalidateForgetsWrite(s) == [s EXCEPT !.lastHash = None, !.lastAt = None]

(* invalidate_displayed: in memory only, nothing is saved. *)
InvalidateDisplayed(s) == [s EXCEPT !.lastHash = None]

(* Mutant: only a completed transfer is counted. *)
RecordFailedUncounted(s, img, lane, now, n) == InvalidateDisplayed(s)

(* Mutant: the hash of the image that failed to arrive is kept. *)
RecordFailedKeepsHash(s, img, lane, now, n) ==
  [RecordUpload(s, img, lane, now, n) EXCEPT !.byLane = Count(@, {"failed"})]

(* record_failed_upload: the wear is counted, the image is not trusted. *)
RecordFailedUpload(s, img, lane, now, n) ==
  [InvalidateDisplayed(RecordUpload(s, img, lane, now, n))
     EXCEPT !.byLane = Count(@, {"failed"})]
============================================================================
