# Verification of catbus99

catbus99 drives the small screen of a CX99 keyboard over USB HID. Every image
that reaches the panel is a write to its SPI flash, so most of the program's
logic is about *not* writing: a governor that spaces writes and counts them, a
daemon that owns it, a scheduler that refreshes the picture, and a recovery
path that puts the picture back after a power cycle. This directory holds TLA+
models of that logic, the TLC runs that check them and the TLAPS proofs of what
holds for every value of the parameters.

Paths below are relative to `src/crates/`.

## The system

| Component | Code | State | Operations | What is hard about it |
|---|---|---|---|---|
| write governor | `catbus99-device/src/governor.rs` | `WearState`: total, last_upload_at, last_hash, recent_interactive, uploads_by_lane; `wear.json` | decide, record_upload, record_failed_upload, invalidate_displayed, save, load, upload_to_panel | failed saves, deaths between transfer and save, late clocks, whole-second arithmetic |
| hidapi handle | `catbus99-device/src/transport.rs` | `OnceLock<Mutex<HidApi>>`, an init lock, a thread that is parked for good | with_api, api_lock | racing initialisers, failing initialisation, poisoned mutexes |
| USB transport | `catbus99-device/src/transport.rs` | an open handle, requests and replies on the wire | open, probe, upload_container, read_keymap, write_keymap, set_clock, status | missing and late acknowledgements, partial transfers |
| daemon core | `catbus99-daemon/src/lib.rs` | governor, layout, store, device_was_present, source history | handle (one arm per request), upload, render, check_reconnect | what is believed of the panel against what it shows |
| control server | `catbus99-daemon/src/server.rs` | the socket, `Arc<Mutex<Daemon>>`, a shutdown `Notify` | run, handle_connection, dispatch | two daemons, programs that hang, a shutdown that one task hears and another does not, lines that cannot be read |
| scheduler and sources | `catbus99-daemon/src/server.rs`, `sources.rs` | last_checked, last_reconnect_check; per-source cron state | scheduler_loop, is_due, run_source | missed and repeated occurrences, slow subprocesses |
| command line | `catbus99/src/main.rs` | none of its own | upload_governed, wear --seed, daemon | direct writes next to a daemon |
| data model | `catbus99-model/src/lib.rs` | layout, readings | insert, freshness, quantise, clip, lint | staleness against quantisation |
| codecs | `catbus99-proto/src/` | none | containers, reports, keymap pages, clock, OTA names | counts, padding, offsets |
| rendering | `catbus99-render/src/` | none | plan_timing, compose, text, colours | fitting an animation into sixteen frames and one byte |
| paths | `catbus99-device/src/paths.rs` | the files of earlier versions | default_state_path, migrate_legacy_file | everybody migrates at once, deaths half-way |
| MCP server | `catbus99-mcp/src/lib.rs` | none | one tool per request | clear_screen reads and writes in two requests |

How they interact: the command line, the MCP server and the scheduler are
tasks that take the daemon's one `tokio::sync::Mutex`. Under it the daemon
calls the governor, which decides, opens the device, transfers, records and
saves. `now` is read *before* the mutex is taken. Without a daemon the command
line does the same as a direct writer, in its own process, on the same
`wear.json`; the control socket is the only thing that keeps them apart. All
transport calls of one process go through the one hidapi handle.

## Modules

### GovernorRules, Governor, WriteBudget, Governor_proofs

`GovernorRules` translates the pure part of `governor.rs`: `Decide`,
`RecordUpload`, `RecordFailedUpload`, `InvalidateDisplayed`, the effective
interval and the two retry figures. Time is in ticks, `Sec` of them to a second,
and `NumSeconds` is chrono's `num_seconds`: it truncates toward zero, for
negative differences too. A payload is its image, because SHA-256 is taken to be
injective. `total_bytes` and `uploads_by_day` only feed reports and are left out.

`Governor` is one process: tasks whose request took its clock when it arrived
(`Arrive`) and that get the mutex up to `MaxLag` later; `Refuse`, `OpenFails`,
`Transfer` (whole or torn) and `Record` (with a save that may fail silently, as
in `let _ = self.save()`) are the steps of `upload_to_panel`; `Restart` is a
death at any point followed by `Governor::load`. History variables: `log`, every
transfer with its lane, its request's clock and its real time, and `faults`, the
failed saves and deaths between transfer and save.

* `OdometerHonest`: never high, low by at most the faults and the transfer in
  progress, and equal to the sum of the lanes.
* `DisplayedKnown`: without faults, the hash that SkipUnchanged compares with is
  the picture on the panel.
* `RefusalHonest`: the refusal that a caller is given, decided with the clock of its
  request, rests on transfers that happened: one with a clock less than an interval
  before, or as many as are allowed with clocks less than an hour before. When the
  request's clock is late, those writes may carry clocks *later* than it; see "Kept as comments".
  `retry_after_secs` after the answer, the scheduled lane lets the caller through, and the
  interactive one a second later; a second less after the request's own clock is
  always too early (with an allowance of no interactive write at all, it rests on
  nothing and no advice can help).
* `KeepsBudget`: `Governor` implements `WriteBudget`.

`WriteBudget` is what the governor promises the flash: a history of transfers and
which transfer may join it, in *real* time up to the lag, with no `wear.json`, no
`last_upload_at`, no pruned window and no waiting request. The mapping is the
identity on `clock`, `log` and `faults`; what is to be shown is that the summary the
program keeps never permits what the history forbids, although decisions are
made with late clocks served out of order, saves fail and the process is replaced.

### PanelDaemon, PanelDaemon_proofs

The daemon and the panel on its cable. `Upload` is `Daemon::upload` with its four
outcomes; around it are the client requests that change the screen, the
scheduler's iteration in the order of the code (sources, render, reconnect
check, each with the iteration's own clock), `check_reconnect`, restarts,
unplugging, plugging back and bus faults. Time is relative (the present is 0
and remembered instants age down to `Horizon`, below which no comparison in the
code can tell them apart), so behaviours are infinite and liveness is meaningful.
A request is served in one step, with the present as its clock; late clocks are
`Governor`'s subject. The end of an upload is as in the code: `Save` is
`let _ = self.save()`, which may fail without anybody knowing, after a whole transfer as
after one that died; and in `DiesInUpload` the process is killed with a transfer under
way or done but not saved, whosever it was, and started again. `Reload` then reads what
the file has. `MayForget` switches these on. A save that leaves a file which does not
parse, so that no daemon starts, is `WearOwnership`'s subject.

History: `last` (the transfer of the latest step), the last automatic and recovery
transfers, `faulted` (the bus has failed since the last whole transfer), and `recorded`:
whether the last transfer is known of on file, in memory only, since its save failed,
or nowhere, since a daemon died before it was saved or was replaced after a failed save.

* `HashTrueWhereRecorded`: the displayed hash is wrong only because the panel lost power
  unnoticed (presence is polled every 20 seconds, so a quick replug is invisible): in
  memory as long as the last transfer is known of, on file as long as it was saved. One
  transfer that is recorded repairs what earlier ones have left.
* `ResendsOnlyAfterFault`: when flash is spent on a picture that is already shown: after a
  bus fault, or when the last transfer is known of nowhere. A failed save alone does
  not, as long as the daemon lives.
* `AutomaticSpaced`: the recovery lane, which no limit holds, is no faster than the
  reconnect check, restarts and failed saves included; and the hard floor holds across
  all automatic lanes up to bus faults and transfers that are known of nowhere; with
  them it fails (see Findings).
* `RecoversUnlessMistaken`: once nobody disturbs the system, a panel that is present
  shows an image again, unless the daemon takes the image for shown (`Mistaken`):
  because the panel was power-cycled and nothing told, or because the transfer that
  tore the image is known of nowhere. `ScreenRecovers`, the same without the exception, is
  what a comment promises; see Findings.

### WearOwnership, WearOwnership_proofs

Several processes on one `wear.json`: daemons that load it (in `Daemon::new`),
`Exists`, `Probe`, `RemoveStale` and `Bind` (in `Server::run`), serve, stop and
exit; direct writers that `Check` and then load, count and save; `wear`, which
asks nobody, with and without `--seed`. A save is two steps, because
`std::fs::write` truncates and then writes, and two saves at once may leave a mixture
that does not parse.

Before it loads, each of them moves the file of an earlier version if there is no
`wear.json` (`paths.rs`): `Look`, then `Rename`, or, between file systems,
`OpenLegacy`, a copy made like a save, and `RemoveLegacy`. One legacy directory
stands for the three that are tried in turn. `Joins` notes when two processes hold
or move the odometer at the same time.

* `NeverHigh`: no race and no death makes the odometer read high. It may read low: what
  two owners lose that overlap is lost, and this property does not see it.
* `SoleOwnerExact`: as long as no two processes hold or move the odometer at once and
  none dies, no write is lost, nor anything that the earlier version counted. Losses by
  overlap are what its precondition excludes; it shows that there are no others.
* `CleanExitLeavesNothing`: daemons that exit leave no dead socket, even when
  they have stolen the path from each other.

### Server, Server_proofs

The tasks of one daemon process, `Server::run`, a task per connection and the
scheduler, around the mutex, which is a queue because tokio's is FIFO. Each critical
section is synchronous, an upload with its record and save included, so it is one
step: a task stops at an `await` or not at all, and a runtime that is dropped lets it
come to one. (A process that is *killed* in an upload is `Governor`'s and
`PanelDaemon`'s subject.) A task gives up the mutex before each `await` on a source's
program: `Lookup` comes before it, `Absorb` after it. `Notify` is `notify_waiters`: it
reaches whoever waits at that moment, and `select!` makes a new `Notified` each time
round. A line that is not UTF-8 is an error of `next_line`, which ends the connection:
neither it nor what follows it is answered.

* `AnswersInOrder`: one answer to each line, in order, none for a blank one or one that
  cannot be read.
* `StoppedTogether`: one notification stops two tasks; the scheduler does not end and leave
  a server behind that answers but never runs a source again, unless `run` missed it.
* `NobodyBlocked`: a program that hangs blocks neither another client nor the
  scheduler; what is sent is answered, up to a line that cannot be read.
* `StopsUnlessMissed`: a shutdown stops the process, unless `run` was between two
  `select!`s or took a connection that was ready at the same moment.

### HidApi, HidApi_proofs

`with_api`, `api_lock` and the thread `catbus99-hid`, one action per step: the
fast path, the init lock, the second look, the spawn, the thread's
initialisation and announcement, the `recv`, and the handle's own mutex with
users that panic. `InitOnce`; `HandleThere` (the `expect` cannot fire, and the
thread behind the handle never exits, or macOS aborts); `NobodyLockedOut`
(liveness: whoever has the init lock gives it back, whatever fails, and when some
wait for a built handle one of them gets it, poison or not). That the thread answers is
assumed by fairness: if its initialisation never returned, `recv` would wait for ever
with the init lock held.

### Scheduler, Scheduler_proofs

`scheduler_loop`, one action per step: wake every `TICK`, look at the registry,
ask `is_due` for one source after the other, run its program without the daemon's
lock, absorb its readings or its failure, render, check the reconnect. Beside it a
client's `RunSource` takes the same steps. The wall clock that the schedules are
about and the monotonic time that the waits are about are two variables, and the
wall clock may be set in both directions. A cron schedule is the set of its
occurrences.

* `EachOccurrenceOnce`: no occurrence is run for twice or passed over, however slow
  an iteration is, however the clock is set.
* `OverwriteBounded`, `FreshHonest`: an older reading can only overwrite a newer one
  by as much as programs take, and data that is called fresh is.
* `EveryOccurrenceRuns`: each occurrence is answered within the time that the
  other sources' time limits allow.

### Transport, Transport_proofs

One interface of the keyboard: an upload, a keymap read or restore, or a clock sync
sends requests and waits for one reply to each. The keyboard answers in order; it
may lose a reply, spoil it, echo a page it does not store, and answer after the
time limit, when another command is waiting. A reply says which command it
answers and nothing else: acknowledgements carry no number and the offset in a
keymap reply is not compared, so a late reply shifts all that follow. `late`
remembers that a command began with something left over.

* `VerifiedIsStored`: a restore that is reported as written and verified is stored,
  late replies or not.
* `AnswerIsTrue`: so is what was read, and what was acknowledged, if nothing was left
  over. Late replies and acknowledgements of an upload that gave up are excluded: the
  code does take them for its own (see Findings).
* `CommandEnds`: a lost reply never blocks.

### Animation, Render_proofs

From the durations of an image's frames to the reports on the wire, with the real
sizes: `plan_timing` (one action per branch, `Trim` once per round of its loop),
`frames_to_container`, `build_container` against `parse_container`, `build_reports`
against `validate_reports`. Pixels are one value per source frame.

* `WholeLoopShown`, `LoopLengthKept`: what the comment on `plan_timing` promises
  (which frames, in which proportion, for how long), with the slack that rounding
  and the delay byte leave.
* `ContainerArrives`: what is built is read back as the same frames and delays, and
  a report that is missing, repeated or out of place is noticed.

### Screen, Render_proofs

The layout and the readings, the image composed from them and the panel that keeps
it. `SetLayout`, `SetWidget`, `PushDataPoint`, `RenderRequest` and `ShowImage` are
the arms of `Daemon::handle`; `RunSources` and `ScheduledRender` are what
`scheduler_loop` does with the sources of one iteration; `ClearReads` and
`ClearWrites` are the two requests of the MCP server's `clear_screen`, with anything
in between. `Compose` is `compose.rs` by cells: each slot is clipped, each widget is a
sequence of strokes, and each stroke says which cells it may reach, what it shows and
whether it is dimmed. All of the widgets are there, each with all that it draws: a bar its
label and its percentage, a timer its label and what is left until a deadline in whole
steps, an image that cannot be loaded a frame and a note.

Whatever is text goes through `text.rs` and has the box of its line: `Scale` is
`fit_scale`, which takes the largest size that is not *wider* than the slot and does not
look at its height; `Centred` and `TextCells` put the box where `draw_centered_in` and
`draw_aligned` put it, and it is cut off at the edges of the panel, not at those of the
slot. That goes for labels, clocks, percentages, notes and timers alike. A gauge in
a slot with a side below `GaugeSide` (8 pixels, as the least radius is 3) may leave
it as well. How wide a text is at which minute or for which value is part of the
layout (`TextWidth`, `wide`), so a clock may fit at one time of the hour and not at
another.

A reading may have no time to live. `Lint` is `Layout::lint`, with u32 sums. Time is
relative (readings have an age, the clock is a minute of the hour), so behaviours are
infinite. A clock with a step of one minute or none returns the time with its seconds
(`model/src/lib.rs:515`), so one whose format has `%S` also changes within the minute,
which a model in minutes does not show. The governor is its verdict only. Strokes are painted in
order by a recursive function, the last one on a cell being the one that is seen, and
a step of zero minutes counts as one, as in `quantise`.

* `StaleMarked`: a reading past its time to live does not stay on the panel looking
  current.
* `AnswersTrue`: a client that reads `uploaded` finds what it asked for on the panel,
  nothing reaches the panel without it or a device error, and a clear that goes
  through leaves nothing.
* `StableBetweenSteps`: time alone changes an image only at a clock's or a timer's step
  or when a reading turns stale; this is what keeps the flash alive.
* `LintedIsShown`: a layout in which lint finds nothing is shown as declared, if its texts
  have room: each that a widget may come to draw, in the size that is taken for it, is
  within its slot (`TextsFit`). Lint looks for none of this, and without it the
  property fails.

## Runs

| Run | Shows | Bounds and why they are enough |
|---|---|---|
| `governor_faults` | odometer and displayed hash under faults | two tasks and two images make every pair of requests; three transfers and two faults allow a fault before and after a good write; one tick of clock, since these properties do not depend on time |
| `governor_time` | the budget, refusals, retry advice | refusals are those given, so their clocks may be one tick older than the last write's; half-second ticks show truncation; four ticks of clock are a whole "hour", and with the lag a request can be older; floor 2 s over an interval of 1 s makes the floor bite; burst of 2, three transfers exceed it |
| `daemon` | displayed hash, recovery, resends, floor, and that the screen recovers | hour, floor and check period of 1, 2 and 2 ticks, lag 1: each limit expires before the horizon and not all at once; saves may fail and the daemon die in an upload any number of times; no symmetry, for the liveness |
| `ownership` | odometer across processes, migration included | two daemons contend for one path or are on two, one writer, one seeder; an earlier file on the same file system, on another, or none; two writes show a lost one and one after it. The `VIEW` hides what a process remembers once it has ended or before it has loaded: `Load` and `OpenLegacy` overwrite it, and no property looks at it |
| `hid_api` | initialisation and the handle | three callers: one builds, one waits for it, one comes late; two failures |
| `scheduler` | occurrences, freshness, no starvation | three sources would repeat what two show: one before and one behind the slow one; a client's run beside them; the clock is set once, forwards or back |
| `server` | answers, stops, and who can block whom | one client whose program may hang sends two lines, one that may leave sends one; any of them may not be readable; both may ask for a stop, so a second shutdown can meet the first |
| `transport` | what commands report against what is stored; they end | two pages make a first and a later one; two contents tell an old page from a new one; one reply left over already shifts a whole session; two faults spoil a write and hide it. With three pages' worth and more left over the claim about restores fails (see Proofs) |
| `animation` | timing, container and reports | frames up to 5 with budgets 1 to 8 put the source below, at and above the budget; durations 0 (`--hold-first 0`), 30 and 45 (a divisor of 15), 300 and 4000 (over a byte, and so that the shares must be trimmed) |
| `screen` | what is shown, and what clients are told | two by five cells with a line of two rows make a neighbour, an overlap, an edge, a second line with a row to spare, slots lower than a line and a text of twice the size; six layouts hold every widget between them: two that fit, one that lint passes and that does not fit, and three with one problem each; an hour of three minutes under a step of two ends in a short step; a time to live of 1 passes through fresh, last fresh minute and stale; a deadline two minutes ahead passes through a step and into the past |
| `daemon_reboot`, `screen_stale` | the findings below | the smallest instance that shows each; `daemon_reboot` without bus faults, failed saves or deaths in an upload |

Fairness is assumed only where a run checks liveness. `PanelDaemon`: time passes;
the scheduler's steps are weakly fair because tokio polls a ready task and the
tokio mutex queues its waiters; a source that succeeds again and again is assumed
(strong fairness of `RunSources(TRUE, _)`), as without one the scheduler never
renders. `calm` ends the disturbances without saying when. `HidApi`: each thread's own step
is weakly fair, that is, the operating system runs every thread; nothing is
assumed about which waiter a `std` mutex wakes, so no property promises that a
given caller gets a lock that others keep taking. `Scheduler`: the loop's own
steps, within the bound `Limit` on how long each may take. `Transport`: only the
program is fair; nothing is assumed of the keyboard. `Screen`: time passes; a
scheduled render, tried again after each success, is not refused or lost every time
(the interval expires, the panel is there); and for `screen`, not for
`screen_stale`, some source succeeds again and again. `Server`: tokio runs every task
that can run and its mutex serves in order; `accept` does not fail for ever (strong
fairness, as another branch of the `select!` may be taken first); a program ends at
its timeout, except those of `Hung`, of which nothing is assumed; clients need do
nothing. Deadlock is checked in every run but `animation`, where a plan that is built
is the end, and `server`, where the process ends.

## Proofs

All hold for every number of tasks, images, processes, callers and clients, every
set of layouts and every value of the limits, under the named assumptions on constants
only. Every safety invariant and every action property that a run checks is a theorem.

* `Governor_proofs`. The properties are not inductive: `IInv` ties the memory, the
  file and the transfer in progress to the log. Both copies of the wear state count
  what the log holds up to `faults`; without faults, `lastAt` is no
  older than any logged transfer's clock, and the rolling window contains every
  logged interactive transfer that is recent for any clock still in use.
  `TypeCorrect`, `Inductive`, `Displayed`, `Spaced`, `Bounded` and `Odometer` follow.
  `ImplementsBudget`: every step of `Governor` is one of `WriteBudget` or a stutter;
  for a scheduled transfer because `lastAt` stands for the whole log, for an
  interactive one because the window maps one-to-one into what the rules count.
  `RefusalsTrue` reads the same figures the other way round, for the clock of the request
  that is refused: `Backed` finds a logged transfer behind `lastAt` and behind each entry
  of the window, also after a restart has brought back an older file, and
  `RoomForActive` that the window never holds more than are allowed; the rest is arithmetic of
  whole seconds (`TruncatedSeconds`), in both directions, for the difference is negative
  where a later clock was served first, and the retry figure truncates what `Decide` compares.
* `PanelDaemon_proofs`. What a step spends depends on what is remembered, so the
  invariant says how far memory can be from the history (`InstantsKnown`): `lastAt` and
  the last reconnect check are no further back, up to the lag, than the last automatic
  and the last recovery transfer, and the file's `lastAt` neither where the last transfer was
  saved. `Trusted`: as long as the bus has not failed since the last
  whole transfer, a panel that is present shows its own screen or the image that memory
  names, if it knows of the last transfer, and the file, if that was saved; and one whose
  presence has not been noticed has just been powered. A save that fails or a death takes
  away one of these premises, and the next transfer that is recorded restores it. The
  windows, in memory and on file, never hold more than the allowance, so each entry finds
  its place. `TypeCorrect`, `HashesTrue`,
  `NeverResent` and `WritesSpaced` follow.
* `Server_proofs`. `Mutex`: nobody stands in the queue twice, and those who do are the
  tasks in a section. `Conversations`: each answer so far is in its place, and as long as
  the client is there no line but the one in hand is owed one. `TypeCorrect` and `InOrder`
  follow. `Together` follows a notification from when it is given until the scheduler
  has stopped: all that time `run` has it too, has left its loop, or has missed it.
  `NeverHalf` follows.
* `WearOwnership_proofs`, two invariants. `NeverTooHigh` needs only that every copy, live
  or dead, both files and what is being copied are at most what is due. For the rest
  `SInv` says what one owner sees: `Sole(p)` ties the file, `p`'s copy and the legacy
  file to where `p` is, and is kept for every `p` that is the only owner (`Only`), so
  that it can be handed to whoever starts next; `Bound` says that a path leads to a
  daemon only while that daemon serves, which is why an exit finds nothing to leave
  behind. `TypeCorrect`, `CleanExits` and `Exactness` follow.
* `HidApi_proofs`. The invariant says which lock each program counter holds and that
  an unfinished initialisation belongs to exactly one caller. `TypeCorrect`,
  `BuiltOnce` and `AlwaysThere` follow.
* `Scheduler_proofs`. The invariant says that what is covered lies before the last
  firing and everything before it is covered, for the sources behind the loop's
  index up to the iteration's clock. `TypeCorrect` and `FiresOnce` follow. `Timely`, as
  long as the wall clock has not been set: each place of the loop and of a request is
  reached and left within what the sources before it may take (`Before`), and a reading is
  stamped before its program began.
  `OverwritesBounded` and `FreshIsHonest` follow.
* `Render_proofs`, on `Screen`. Painting is a recursive function, so the module first proves that such
  functions exist and what they return: induction over a set of numbers, from the
  well-foundedness of the natural numbers (the library's own induction theorem takes an
  operator and cannot be used), then that a cell shows the last stroke that covers it.
  `TypeCorrect` is then not trivial: whatever the layout, every widget's strokes are
  strokes and every image an image. `Stable` is arithmetic of the clock and of deadlines: between two
  steps a quotient does not change, and what does not change paints the same.
  `Told` goes through the arms of `handle` one by one, with what lies between the two
  requests of a clear.
  `LintedShown` is geometry: two slots that `lint` does not call overlapping share no cell, and
  every box of every widget stays in its slot, so each cell of a widget shows that widget.
  For a text that is a lemma on `fit_scale` (`ScaleFits`: what it takes is not wider than the
  slot, if the smallest size is not) and on where half of what is left goes
  (`CentredWithin`). Its hypotheses are those of the property: `lint` finds nothing, the
  u32 sums do not wrap, texts have room.
* `Render_proofs`, on `Animation`. Sums, Euclid's algorithm, its fold over the durations
  and the concatenation of the slots are recursive functions too: the same induction
  shows that they exist, that a sum is bounded by the bounds of its terms, and that the
  fold divides every duration and is the greatest number that does. `PlanInv`
  says of each branch of `plan_timing` what it has planned; only the trimming loop needs
  more, and `Shared` is what a round keeps: every frame has a slot, and no shorter frame
  has more repeats than a longer one, but for one. `LoopShown` then follows from the
  floors of `Decimate`'s indices, whose differences are never more than the gap;
  `LengthKept` from the remainders that a tick leaves in each slot; `Arrives` from the
  places where frames, delays and terminator are written and read. Of the sizes it
  assumes what the real ones satisfy: 250 frames fit a container and its reports, and
  a container of one frame needs more than one report. Without the latter a lost
  report leaves an empty stream, which `validate_reports` accepts.
* `Transport_proofs`. None of the claims is inductive. `OldFirst`: while a restore
  reads, replies left over come before its own. As fewer are left over than a
  layer has pages (`FewLeftOver`), all that is outstanding when it starts to write
  answers a read (`FirstPage`), and a write accepts no such reply; so when the first
  page is acknowledged the wire holds nothing but this command's own requests
  (`InStep`), and what it reads back is stored (`SoFar`, `AtTheEnd`). `TypeCorrect`,
  `Verified` and `Answered` follow. `FewLeftOver` is needed: with one page,
  three contents and four replies left over, TLC finds a restore that takes the
  leftovers of two earlier ones for its own and is overwritten afterwards. With
  the real eight pages that takes more than 24 commands that give up in a row.

Only model-checked: what must eventually happen (`RecoversUnlessMistaken`,
`NobodyLockedOut`, `EveryOccurrenceRuns`, `NobodyBlocked`, `StopsUnlessMissed`,
`CommandEnds`, `StaleMarked`), since liveness under fairness and `ENABLED` are out of the
prover's reach.

## Findings

Places where the repository says one thing and the code does another, each shown
by a run that finds the property violated:

1. `ScreenRecovers` with restarts (`daemon_reboot`): a daemon started after the power
   cycle takes the native screen for its last image and never restores it.
2. `StaleMarked` without a source that succeeds (`screen_stale`): the scheduler renders
   only after a success (`server.rs:229`), so when every source fails nothing dims the
   last numbers, and a clock widget stops too. `docs/SOURCES.md:67`, `README.md:162`
   and `docs/DESIGN.md:94` promise the opposite for just this case.

Seen while modelling, without a run of their own:

* `daemon/src/lib.rs:146`: one failed open makes the daemon take the panel for
  power-cycled and re-send, on the unlimited recovery lane, the very image it is
  showing, although `governor.rs:7` says that "a container byte-identical to the last
  upload is never sent". `ResendsOnlyAfterFault` is what holds.
* `governor.rs:427` and `439` drop the error of a save, and a daemon that is killed in a
  transfer saves nothing. After a restart the hash is the one from before: if it names
  the image to be shown, a torn picture is skipped as unchanged for ever, although the
  comment at `governor.rs:434` says that the hash is cleared so as not to "leave a torn
  image on screen"; else a picture that is shown may be sent again, and the floor is
  forgotten. `recorded` marks these cases in `PanelDaemon`.
* `server.rs:68`: two daemons that meet the same stale socket both end up serving,
  although `docs/DESIGN.md:53` says "a second daemon refuses to take over a live
  socket". `WearOwnership` has these behaviours; `NeverHigh` and
  `CleanExitLeavesNothing` hold in them, and `SoleOwnerExact` excludes the overlap.
* `server.rs:174`: a shutdown is answered "ok" and lost if `notify_waiters` finds `run`
  between two `select!`s, or if `select!` takes a connection that was ready at the
  same moment, although `protocol.rs` calls the request "Stop the daemon.";
  `StopsUnlessMissed` says what holds. The scheduler may hear the same notification, and a
  server is left that answers and never runs a source again (`StoppedTogether`).
* `paths.rs:63`: of three processes that start at once after an update, one that has seen
  no `wear.json` may copy the legacy file over one that a second has moved and a third
  has counted on, although `paths.rs:59` says that the migration is there so as not to
  under-report; `SoleOwnerExact` excludes the overlap, `NeverHigh` holds. A death in
  mid-copy leaves a `wear.json` that does not parse next to an intact legacy file.
* `compose.rs:440`: what is left on a timer is rounded down to its step, so it shows "now"
  while up to a step is left.
* `compose.rs:345`: an inline image never loads, although `model/src/lib.rs:394` says that
  it is for pushing one over MCP.
* `compose.rs:287`: a labelled timer draws its time below its label, in a slot of one line
  below its slot (`LintedIsShown` asks for room).
* `text.rs:149`: `fit_scale` looks at the width only, so a short text of a larger size is
  drawn above or below a low slot.
* `compose.rs:361`: the radius of a gauge is at least 3, so its arc leaves a slot with a
  side below 8 pixels.
* `compose.rs:168`: a bar or gauge bound to a timestamp shows zero or its minimum,
  undimmed.
* `model/src/lib.rs:358`: the text of a stale reading is dimmed but keeps its value,
  although `docs/SOURCES.md:67` and `README.md:162` say that it becomes `--`, and
  the comment on `resolve` that a stale point returns `None`.
* `compose.rs:168`: a bar without its reading shows "0%", undimmed, although
  `docs/DESIGN.md:94` says that a missing binding does not fall back to zero.
* `text.rs:108`: text that is wider than its slot, of a label, clock, percentage, timer or
  note, is drawn over its neighbours, although `compose.rs:4` says that "every draw is
  clipped to both the slot and the panel"; `LintedIsShown` asks that texts have room.
* `model/src/lib.rs:595`: the sums of `lint` wrap in a release build (a debug build
  panics), so a slot far outside the panel can pass; `LintedIsShown` excludes it.
* `model/src/lib.rs:528`: `writes_per_day` counts 1440/q, but a clock whose step does
  not divide the hour also changes on the hour.
* `mcp/src/lib.rs:288`: what is set between the two requests of `clear_screen` is
  lost.
* `governor.rs:298`: an interactive write delays the next scheduled one by a whole
  interval, although `tests/governor.rs:144` calls the allowances independent.
* `main.rs:544`: a daemon can start between a direct writer's check and its write,
  although `main.rs:829` says "one owner or the other, never both".
* `transport.rs:427`: a late reply shifts a keymap read by a page, so a backup need not
  be what the keyboard has (`AnswerIsTrue` excludes it by `late`).
* `render/src/lib.rs:230`: a divisor above 255 is cut to 255 and rounded, although a
  smaller divisor may reproduce the timing exactly (`LoopLengthKept` says what
  holds).
* `docs/PROTOCOL.md:49` gives the clock's declared length as 0x18, `clock.rs` sends
  0x38; `PROTOCOL.md:129` calls the keymap restore not implemented.

Kept as comments on properties that hold in a weaker form:

* An interactive caller that comes back after exactly `retry_after_secs` can be refused
  once more, because the figure truncates (`RefusalHonest` allows the second).
* A request whose clock is late can be refused because of a write whose clock is later
  than its own, and truncation makes a difference of less than a second in either
  direction zero. So `retry_after_secs` is a promise counted from the answer; counted from
  the request's own clock it is exact only to a second (`RefusalHonest`). TLC's instance has
  differences of one tick, or half a second, in that direction; the proof is for all.
* `wear.rs` calls the minimum interval a hard floor for automatic writes, and after a bus
  fault or a transfer that is known of nowhere it is gone below (`AutomaticSpaced`
  excludes them).
* `wear --seed` next to a running daemon is overwritten by its next save
  (`SoleOwnerExact` excludes overlap). What it adds has a lane of its own
  ("pre-odometer"), which `Governor`, where nobody seeds, does not have: with it the sum
  of `OdometerHonest` has one more term.

## Not modelled

* Pixels, glyphs, dithering and colours, number and date formats, the `scale` of a
  binding: pure functions of their arguments, with nothing to interleave. In all modules but `Screen` a layout with its
  data is what it renders to.
* `wear.rs`'s budget report and the storage timing classifier: floating-point figures that
  nothing acts on. OTA names: a table.
* `paths.rs`'s environment variables and directory names: which directory is tried does
  not depend on any state, and one stands for all.
* The source registry's reload and the run history, which reports show and nothing
  reads back; two sources of one id; cron's calendar, which an external crate computes
  (a schedule is the set of its occurrences).
* Of the command line and the MCP server, what only forwards one request or prints an
  answer. A request's effect is modelled where it is handled.
* Keymap bindings and their names, captures, and JSON schemas: tables and formatting.

## Plan

A second refinement: the outcomes of an upload that `PanelDaemon` uses,
implemented by `Transport`.
