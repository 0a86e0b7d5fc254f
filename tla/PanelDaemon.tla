---------------------------- MODULE PanelDaemon ----------------------------
(***************************************************************************)
(* The daemon and the panel on its cable: client requests, the scheduler's *)
(* loop and its reconnect check, power cycles, bus faults and restarts.    *)
(*                                                                         *)
(* Time is relative: the present is instant 0, and a tick makes every      *)
(* remembered instant one older, down to Horizon, beyond which nothing     *)
(* depends on it.  So the model has no last instant and can be asked what  *)
(* eventually happens.                                                     *)
(*                                                                         *)
(* A request is served in one step with the present as its `now'; requests *)
(* whose clock is late are Governor's subject.  A scheduler's `now' is the *)
(* start of its iteration.                                                 *)
(*                                                                         *)
(* A save may fail, and its error is dropped; and the daemon may die with  *)
(* a transfer under way or not yet saved.  Either way wear.json is as it   *)
(* was before.  A write of it that is cut short, after which no daemon     *)
(* starts, is WearOwnership's subject.                                     *)
(***************************************************************************)
EXTENDS GovernorRules

CONSTANTS
  Image,            \* what a layout and its data, or a picture, render to
  Torn,             \* the panel after a transfer that died part-way
  Native,           \* the keyboard's own screen
  ReconnectCheck,   \* RECONNECT_CHECK_SECS
  MaxLag,           \* longest iteration of the scheduler, in ticks
  FaultyBus,        \* opens, probes and transfers may fail on a present panel
  QuickReplug,      \* the panel may return before its absence was noticed
  MayRestart,       \* the daemon may be restarted
  MayForget         \* saves may fail, and the daemon die in an upload

ASSUME DaemonAssumption ==
  /\ None \notin Image /\ Torn \notin Image /\ Native \notin Image
  /\ ReconnectCheck \in Nat \ {0}
  /\ MaxLag \in Nat
  /\ {FaultyBus, QuickReplug, MayRestart, MayForget} \subseteq BOOLEAN

VARIABLES
  panel,        \* [present, shows]
  state,        \* Daemon::governor.state
  file,         \* wear.json
  layout,       \* what compose_payload renders from the layout and the data
  wasPresent,   \* Daemon::device_was_present
  sched,        \* scheduler_loop: where it is, and its `now'
  lastCheck,    \* scheduler_loop: last_reconnect_check
  last,         \* history: the transfer of the latest step, or None
  lastAuto,     \* history: last automatic transfer since the panel came back,
                \* and last recovery transfer, each until it is old enough
  lastRecovery, \* for the next one
  faulted,      \* history: the bus has failed since the last whole transfer
  recorded,     \* history: where the last transfer is known of, see below
  calm          \* nobody disturbs the system any more

dvars == <<state, file, wasPresent>>
history == <<last, lastAuto, lastRecovery, faulted, recorded>>
vars == <<panel, dvars, layout, sched, lastCheck, history, calm>>

Horizon == AtLeast(ReconnectCheck * Sec, AtLeast(Hour, EffectiveInterval * Sec)) + MaxLag

Older(t) == IF t = None THEN None ELSE AtLeast(-Horizon, t - 1)

Instant == -Horizon..0

(* A past transfer that is not yet that old, or None. *)
Within(age, t) == IF t # None /\ -t < age THEN t ELSE None

(* What automatic transfers, and recovery ones among them, are promised to  *)
(* keep between them: less the lag, as a scheduler's `now' may be late.     *)
AutomaticAge == MinWriteInterval * Sec - MaxLag
RecoveryAge == ReconnectCheck * Sec - MaxLag

(* The counters of WearState are Governor's subject; here they stay 0. *)
Uncounted(s) == [s EXCEPT !.total = 0, !.byLane = NewWear.byLane]

Unused(s, now) ==
  CHOOSE n \in 0..InteractivePerHour :
    \A e \in InteractiveWithinHour(s.recent, now) : e.n # n

(* Between two iterations the scheduler has no `now'. *)
Asleep == [pc |-> "sleep", at |-> 0]

Init ==
  /\ panel \in [present : BOOLEAN, shows : {Native}]
  /\ state = NewWear
  /\ file = NewWear
  /\ layout \in Image
  /\ wasPresent = panel.present
  /\ sched = Asleep
  /\ lastCheck = 0
  /\ last = None
  /\ lastAuto = None
  /\ lastRecovery = None
  /\ faulted = FALSE
  /\ recorded = "file"
  /\ calm = FALSE

---------------------------------------------------------------------------
(* Daemon::upload.  s is the governor's state when it is called. *)

Faulty == FaultyBus /\ ~calm

NoTransfer(fault) ==
  /\ last' = None
  /\ faulted' = (faulted \/ fault)
  /\ UNCHANGED <<lastAuto, lastRecovery, recorded>>

Transfer(img, lane) ==
  /\ last' = [lane |-> lane, again |-> panel.shows = img,
              excused |-> faulted \/ recorded = "nowhere",
              sinceAuto |-> lastAuto, sinceRecovery |-> lastRecovery]
  /\ lastAuto' = IF lane = "interactive" THEN lastAuto ELSE 0
  /\ lastRecovery' = IF lane = "recovery" THEN 0 ELSE lastRecovery

(* What a transfer that did not arrive leaves on the panel. *)
Shown(img) == {panel.shows, Torn, img}

(* `let _ = self.save()': where it fails, the file keeps what it has. *)
Save(saved) ==
  /\ saved \/ MayForget
  /\ file' = IF saved THEN state' ELSE file
  /\ recorded' = IF saved THEN "file" ELSE "memory"

Refused(s, img, lane, now) ==
  /\ Decide(s, img, lane, now) # "upload"
  /\ state' = s
  /\ NoTransfer(FALSE)
  /\ UNCHANGED <<panel, file, wasPresent>>

(* Device::open failed: the panel is taken to be gone. *)
OpenFails(s, img, lane, now) ==
  /\ Decide(s, img, lane, now) = "upload"
  /\ ~panel.present \/ Faulty
  /\ state' = s
  /\ wasPresent' = FALSE
  /\ NoTransfer(panel.present)
  /\ UNCHANGED <<panel, file>>

Sent(s, img, lane, now) ==
  /\ Decide(s, img, lane, now) = "upload"
  /\ panel.present
  /\ state' = Uncounted(RecordUpload(s, img, lane, now, Unused(s, now)))
  /\ \E saved \in BOOLEAN : Save(saved)
  /\ panel' = [panel EXCEPT !.shows = img]
  /\ wasPresent' = TRUE
  /\ faulted' = FALSE
  /\ Transfer(img, lane)

(* The transfer died part-way: recorded as failed, and the panel taken to   *)
(* be gone as well.                                                         *)
SendFails(s, img, lane, now) ==
  /\ Decide(s, img, lane, now) = "upload"
  /\ panel.present
  /\ Faulty
  /\ \E shown \in Shown(img) : panel' = [panel EXCEPT !.shows = shown]
  /\ state' = Uncounted(RecordFailedUpload(s, img, lane, now, Unused(s, now)))
  /\ \E saved \in BOOLEAN : Save(saved)
  /\ wasPresent' = FALSE
  /\ faulted' = TRUE
  /\ Transfer(img, lane)

Upload(s, img, lane, now) ==
  \/ Refused(s, img, lane, now)
  \/ OpenFails(s, img, lane, now)
  \/ Sent(s, img, lane, now)
  \/ SendFails(s, img, lane, now)

---------------------------------------------------------------------------
(* Client requests. *)

(* SetLayout, SetWidget or PushDataPoint without rendering. *)
ChangeLayout(img) ==
  /\ ~calm
  /\ layout' = img
  /\ NoTransfer(FALSE)
  /\ UNCHANGED <<panel, dvars, sched, lastCheck, calm>>

(* SetLayout or SetWidget with `render', or a Render after PushDataPoint;   *)
(* the client names the lane.                                               *)
RenderRequest(img, lane) ==
  /\ ~calm
  /\ layout' = img
  /\ Upload(state, img, lane, 0)
  /\ UNCHANGED <<sched, lastCheck, calm>>

(* ShowImage: a picture, which the layout knows nothing about. *)
ShowImage(img, lane) ==
  /\ ~calm
  /\ Upload(state, img, lane, 0)
  /\ UNCHANGED <<layout, sched, lastCheck, calm>>

---------------------------------------------------------------------------
(* The scheduler's loop. *)

(* A tick of its interval, at once after a long iteration; the due sources  *)
(* have run, and anyRan says that one of them succeeded.  Its readings may  *)
(* change the rendering.                                                    *)
RunSources(anyRan, img) ==
  /\ sched.pc = "sleep"
  /\ sched' = [pc |-> IF anyRan THEN "render" ELSE "check", at |-> 0]
  /\ layout' = IF anyRan /\ ~calm THEN img ELSE layout
  /\ NoTransfer(FALSE)
  /\ UNCHANGED <<panel, dvars, lastCheck, calm>>

ScheduledRender ==
  /\ sched.pc = "render"
  /\ Upload(state, layout, "scheduled", sched.at)
  /\ sched' = [sched EXCEPT !.pc = "check"]
  /\ UNCHANGED <<layout, lastCheck, calm>>

CheckDue == NumSeconds(sched.at - lastCheck) >= ReconnectCheck

SkipCheck ==
  /\ sched.pc = "check"
  /\ ~CheckDue
  /\ sched' = Asleep
  /\ NoTransfer(FALSE)
  /\ UNCHANGED <<panel, dvars, layout, lastCheck, calm>>

(* What probe() finds; an error counts as absent. *)
Probe(present) == present = panel.present \/ (Faulty /\ ~present)

(* Mutant: the reappearance is noticed, the displayed hash is kept. *)
CheckReconnectKeepsHash(present) ==
  IF present /\ ~wasPresent
  THEN \/ Refused(state, layout, "recovery", sched.at)
       \/ OpenFails(state, layout, "recovery", sched.at)
       \/ Sent(state, layout, "recovery", sched.at)
       \/ SendFails(state, layout, "recovery", sched.at)
  ELSE wasPresent' = present /\ NoTransfer(present # panel.present) /\ UNCHANGED <<panel, state, file>>

(* Mutant: any sight of the panel is a reappearance. *)
CheckReconnectAlways(present) ==
  IF present
  THEN Upload(InvalidateDisplayed(state), layout, "recovery", sched.at)
  ELSE wasPresent' = present /\ NoTransfer(present # panel.present) /\ UNCHANGED <<panel, state, file>>

(* check_reconnect.  After invalidating, the decision is always to upload,  *)
(* and each outcome of the upload sets device_was_present again.            *)
CheckReconnect(present) ==
  IF present /\ ~wasPresent
  THEN Upload(InvalidateDisplayed(state), layout, "recovery", sched.at)
  ELSE wasPresent' = present /\ NoTransfer(present # panel.present) /\ UNCHANGED <<panel, state, file>>

(* Mutant: the time of the check is not remembered. *)
DoCheckForgets ==
  /\ sched.pc = "check"
  /\ CheckDue
  /\ \E present \in BOOLEAN : Probe(present) /\ CheckReconnect(present)
  /\ sched' = Asleep
  /\ UNCHANGED <<layout, lastCheck, calm>>

DoCheck ==
  /\ sched.pc = "check"
  /\ CheckDue
  /\ \E present \in BOOLEAN : Probe(present) /\ CheckReconnect(present)
  /\ lastCheck' = sched.at
  /\ sched' = Asleep
  /\ UNCHANGED <<layout, calm>>

(* The process is replaced: wear.json is read and the panel probed.  The    *)
(* layout comes from its file, which no request writes.                     *)
Reload(present, img) ==
  /\ MayRestart /\ ~calm
  /\ Probe(present)
  /\ state' = file
  /\ wasPresent' = present
  /\ layout' = img
  /\ sched' = Asleep
  /\ lastCheck' = 0
  /\ faulted' = (faulted \/ present # panel.present)
  /\ UNCHANGED <<file, calm>>

Restart(present, img) ==
  /\ Reload(present, img)
  /\ last' = None
  /\ recorded' = IF recorded = "file" THEN "file" ELSE "nowhere"
  /\ UNCHANGED <<panel, lastAuto, lastRecovery>>

(* The daemon dies in an upload, between its first report and the save of   *)
(* its record.                                                              *)
Interrupted(s, img, lane, now) ==
  /\ MayForget
  /\ Decide(s, img, lane, now) = "upload"
  /\ panel.present
  /\ \E shown \in Shown(img) : panel' = [panel EXCEPT !.shows = shown]
  /\ recorded' = "nowhere"
  /\ Transfer(img, lane)

(* In whosever upload it dies. *)
DiesInUpload(present, img) ==
  /\ Reload(present, img)
  /\ \/ \E asked \in Image, lane \in {"interactive", "scheduled"} :
          Interrupted(state, asked, lane, 0)
     \/ /\ sched.pc = "render"
        /\ Interrupted(state, layout, "scheduled", sched.at)
     \/ /\ sched.pc = "check" /\ CheckDue /\ ~wasPresent
        /\ Interrupted(InvalidateDisplayed(state), layout, "recovery", sched.at)

---------------------------------------------------------------------------
(* The environment. *)

Unplug ==
  /\ ~calm
  /\ panel.present
  /\ panel' = [panel EXCEPT !.present = FALSE]
  /\ NoTransfer(FALSE)
  /\ UNCHANGED <<dvars, layout, sched, lastCheck, calm>>

(* Power returns, and with it the native screen. *)
Plug ==
  /\ ~panel.present
  /\ QuickReplug \/ ~wasPresent
  /\ panel' = [present |-> TRUE, shows |-> Native]
  /\ last' = None
  /\ lastAuto' = None
  /\ UNCHANGED <<dvars, layout, sched, lastCheck, lastRecovery, faulted, recorded, calm>>

Settle ==
  /\ ~calm
  /\ calm' = TRUE
  /\ NoTransfer(FALSE)
  /\ UNCHANGED <<panel, dvars, layout, sched, lastCheck>>

(* Interactive requests count back from the present: an entry that is out of *)
(* their hour is as good as pruned.                                          *)
Countable(recent) == InteractiveWithinHour(recent, 0)

OlderState(s) ==
  [s EXCEPT !.lastAt = Older(@),
            !.recent = Countable({[e EXCEPT !.at = Older(@)] : e \in @})]

Tick ==
  /\ sched.pc # "sleep" => sched.at > -MaxLag
  /\ state' = OlderState(state)
  /\ file' = OlderState(file)
  /\ sched' = IF sched = Asleep THEN Asleep ELSE [sched EXCEPT !.at = Older(@)]
  /\ lastCheck' = AtLeast(-(ReconnectCheck * Sec + MaxLag), Older(lastCheck))
  /\ lastAuto' = Within(AutomaticAge, Older(lastAuto))
  /\ lastRecovery' = Within(RecoveryAge, Older(lastRecovery))
  /\ last' = None
  /\ UNCHANGED <<panel, wasPresent, layout, faulted, recorded, calm>>

Next ==
  \/ \E img \in Image : ChangeLayout(img)
  \/ \E img \in Image, lane \in {"interactive", "scheduled"} : RenderRequest(img, lane)
  \/ \E img \in Image, lane \in {"interactive", "scheduled"} : ShowImage(img, lane)
  \/ \E anyRan \in BOOLEAN, img \in Image : RunSources(anyRan, img)
  \/ ScheduledRender
  \/ SkipCheck
  \/ DoCheck
  \/ \E present \in BOOLEAN, img \in Image : Restart(present, img)
  \/ \E present \in BOOLEAN, img \in Image : DiesInUpload(present, img)
  \/ Unplug
  \/ Plug
  \/ Settle
  \/ Tick

(* Time passes; tokio runs the scheduler's task, and the mutex is fair; a   *)
(* source is registered that keeps being due and keeps succeeding.          *)
Fairness ==
  /\ WF_vars(Tick)
  /\ WF_vars(ScheduledRender)
  /\ WF_vars(SkipCheck)
  /\ WF_vars(DoCheck)
  /\ SF_vars(\E img \in Image : RunSources(TRUE, img))

Spec == Init /\ [][Next]_vars

FairSpec == Spec /\ Fairness

---------------------------------------------------------------------------
WearState ==
  [total    : {0},
   lastAt   : Instant \cup {None},
   lastHash : Image \cup {None},
   recent   : SUBSET [n : 0..InteractivePerHour, at : Instant],
   byLane   : {NewWear.byLane}]

Screen == Image \cup {Torn, Native}

(* Every variable has its type, and memory and file differ in nothing but   *)
(* the displayed hash, which an invalidation clears in memory only, except  *)
(* between a save that failed and the next one or the next start.           *)
TypeOK ==
  /\ panel \in [present : BOOLEAN, shows : Screen]
  /\ state \in WearState
  /\ file \in WearState
  /\ recorded \in {"file", "memory", "nowhere"}
  /\ recorded # "memory" => state \in {file, [file EXCEPT !.lastHash = None]}
  /\ layout \in Image
  /\ wasPresent \in BOOLEAN
  /\ sched \in [pc : {"sleep", "render", "check"}, at : Instant]
  /\ lastCheck \in Instant
  /\ last = None \/ last.lane \in Lane
  /\ {lastAuto, lastRecovery} \subseteq Instant \cup {None}
  /\ {faulted, calm} \subseteq BOOLEAN

---------------------------------------------------------------------------
(* Where the last transfer is known of: in memory and on file ("file"), in  *)
(* memory only, as its save failed ("memory"), or nowhere, as the daemon    *)
(* died before it was saved, or was replaced after its save had failed.     *)
(* The next transfer is known of again.                                     *)

(* The displayed hash is never wrong but for a panel that lost power, in    *)
(* memory as long as the last transfer is known of, and on file as long as  *)
(* it was saved: neither torn transfers nor restarts, nor reconnect checks, *)
(* nor saves that failed before that one make it name an image that         *)
(* something else has replaced.                                             *)
HashTrueWhereRecorded ==
  LET namesShown(s) == s.lastHash # None => panel.shows \in {s.lastHash, Native}
  IN /\ recorded # "nowhere" => namesShown(state)
     /\ recorded = "file" => namesShown(file)

(* Once nobody disturbs the system, a panel that is there shows an image    *)
(* again: a torn picture or a native screen whose absence was noticed does  *)
(* not stay ("or the screen stays broken forever", tests/governor.rs).      *)
ScreenRecovers == calm /\ panel.present ~> panel.shows \in Image

(* The image that should be there is taken to be there.  Either the panel   *)
(* lost its power and nothing tells: it was not missed while it was gone (a *)
(* poll every 20 seconds, none without a daemon).  Or the transfer that     *)
(* tore the image is known of nowhere.                                      *)
Mistaken ==
  /\ panel.shows = Native \/ recorded = "nowhere"
  /\ wasPresent
  /\ state.lastHash = layout

(* The same with everything the environment can do, replugging between two  *)
(* polls and replacing the daemon included: nothing but a power cycle that  *)
(* nobody noticed, or a torn transfer that nobody remembers, keeps          *)
(* check_reconnect and the scheduler from putting an image back.            *)
RecoversUnlessMistaken ==
  calm /\ panel.present ~> panel.shows \in Image \/ Mistaken

(* Unless the bus has failed since the last whole transfer, or the last     *)
(* transfer is known of nowhere, no transfer writes the image that is       *)
(* already on the panel: neither restarts nor power cycles, nor a late      *)
(* scheduler, nor a failed save alone make the governor spend flash on it.  *)
ResendsOnlyAfterFault ==
  last # None /\ ~last.excused => ~last.again

(* Whatever the bus and the saves do, recovery uploads, the one lane that   *)
(* no limit holds, come no faster than the reconnect check; and two         *)
(* automatic transfers (scheduled or recovery) keep wear.rs's "hard floor   *)
(* for automatic writes" between them unless the panel was power-cycled or  *)
(* the bus failed in between, or the last transfer is known of nowhere.     *)
AutomaticSpaced ==
  last # None /\ last.lane # "interactive" =>
    /\ last.lane = "recovery" => Within(RecoveryAge, last.sinceRecovery) = None
    /\ ~last.excused => Within(AutomaticAge, last.sinceAuto) = None
============================================================================
