----------------------------- MODULE Scheduler -----------------------------
(***************************************************************************)
(* The data-source scheduler (server.rs, scheduler_loop and is_due), the   *)
(* RunSource request that runs the same programs beside it, and the        *)
(* readings they leave in the store.                                       *)
(*                                                                         *)
(* Two clocks.  `real' is the monotonic clock that tokio's timeouts use;   *)
(* `wall' is Utc::now(), which may be set back or forward.  The scheduler  *)
(* reads the wall clock once per iteration, a request once on arrival, and *)
(* both stamp every reading with it, however long the program then takes.  *)
(*                                                                         *)
(* A source has one key; the run history, which only ListSources reads, is *)
(* left out.  The reconnect check that ends an iteration is PanelDaemon's; *)
(* here it can only make the loop late.  Registries with two sources of the same id, of which `fired' *)
(* hides the second, are not modelled.  Everything here is in memory: a    *)
(* restarted daemon is in Init.                                            *)
(***************************************************************************)
EXTENDS Integers, Sequences

CONSTANTS
  Registry,   \* the sources, in the order of sources.toml
  Due,        \* Due[s]: the occurrences of its cron schedule, wall clock
  Timeout,    \* timeout_ms
  Ttl,        \* ttl_secs
  MaxLag,     \* longest wait for the daemon's mutex
  Poll,       \* TICK
  None,       \* Option::None
  Asked,      \* bound of the model: sources that a client may run
  MaxReal,    \* bound of the model: last instant
  SetTo,      \* bound of the model: what the wall clock may be set to
  MaxSteps    \* bound of the model: times the wall clock is set

Source == {Registry[i] : i \in DOMAIN Registry}

ASSUME SchedulerAssumption ==
  /\ Registry \in Seq(Source)
  /\ \A i, j \in DOMAIN Registry : Registry[i] = Registry[j] => i = j
  /\ Due \in [Source -> SUBSET Int]
  /\ {Timeout, Ttl, MaxLag, Poll, MaxReal, MaxSteps} \subseteq Nat
  /\ SetTo \subseteq Int
  /\ None \notin Int
  /\ Asked \subseteq Source

VARIABLES
  real,     \* the monotonic clock
  wall,     \* the wall clock
  sched,    \* the loop: [pc, i, now, since, ran]
  last,     \* last_checked
  fired,    \* fired: HashMap<id, now>
  reading,  \* the store: per source, its reading or None
  client,   \* a RunSource request: [pc, src, at, since]
  covered,  \* history: occurrences that a run of the scheduler was for
  repeated, \* history: a run was for an occurrence that had had its run
  newest,   \* history: latest observed_at ever stored
  steps     \* history: times the wall clock was set

vars == <<real, wall, sched, last, fired, reading, client,
          covered, repeated, newest, steps>>

history == <<covered, repeated, newest, steps>>

Later(a, b) == IF a >= b THEN a ELSE b

Init ==
  /\ real = 0
  /\ wall = 0
  /\ sched = [pc |-> "sleep", i |-> 1, now |-> 0, since |-> 0, ran |-> FALSE]
  /\ last = wall
  /\ fired = [s \in Source |-> None]
  /\ reading = [s \in Source |-> None]
  /\ client = None
  /\ covered = [s \in Source |-> {}]
  /\ repeated = FALSE
  /\ newest = [s \in Source |-> None]
  /\ steps = 0

---------------------------------------------------------------------------
(* is_due: an occurrence in (after, now] that comes after the last firing.  *)

Since(s) == IF fired[s] = None THEN last ELSE Later(fired[s], last)

Occurrences(s) == {o \in Due[s] : Since(s) < o /\ o <= sched.now}

IsDue(s) == Occurrences(s) # {}

---------------------------------------------------------------------------
(* What a run leaves behind. *)

(* Mutant: stamped when the program is done. *)
AbsorbStampsLate(s, at, began, printed) ==
  /\ reading' = IF printed THEN [reading EXCEPT ![s] = [at |-> wall, began |-> began]]
                ELSE reading
  /\ newest' = IF ~printed THEN newest
               ELSE [newest EXCEPT ![s] = IF @ = None THEN wall ELSE Later(@, wall)]

(* absorb: the readings replace the stored ones, whatever their age; a      *)
(* source may also print none.                                              *)
Absorb(s, at, began, printed) ==
  /\ reading' = IF printed THEN [reading EXCEPT ![s] = [at |-> at, began |-> began]]
                ELSE reading
  /\ newest' = IF ~printed THEN newest
               ELSE [newest EXCEPT ![s] = IF @ = None THEN at ELSE Later(@, at)]

(* record_source_failure: the previous readings stay. *)
Fail == UNCHANGED <<reading, newest>>

(* run_source, begun at `began', ends by itself, well or badly. *)
Ends(ok, s, at, began) ==
  IF ok THEN \E printed \in BOOLEAN : Absorb(s, at, began, printed) ELSE Fail

(* Mutant: nothing stops a program that hangs. *)
NeverTimesOut(began) == FALSE /\ Fail

(* It is killed when its time is up. *)
TimesOut(began) == real >= began + Timeout /\ Fail

---------------------------------------------------------------------------
(* The scheduler's loop. *)

Source_i == Registry[sched.i]

(* The interval ticks; ticks missed in a long iteration come at once. *)
Wake ==
  /\ sched.pc = "sleep"
  /\ sched' = [pc |-> "specs", i |-> 1, now |-> wall, since |-> real, ran |-> FALSE]
  /\ UNCHANGED <<real, wall, last, fired, reading, client, history>>

(* The registry is copied under the mutex. *)
Specs ==
  /\ sched.pc = "specs"
  /\ sched' = [sched EXCEPT !.pc = "sources"]
  /\ UNCHANGED <<real, wall, last, fired, reading, client, history>>

NotDue ==
  /\ sched.pc = "sources"
  /\ sched.i <= Len(Registry)
  /\ ~IsDue(Source_i)
  /\ sched' = [sched EXCEPT !.i = @ + 1]
  /\ UNCHANGED <<real, wall, last, fired, reading, client, history>>

(* Mutant: the firing is not remembered. *)
FireForgets ==
  /\ sched.pc = "sources"
  /\ sched.i <= Len(Registry)
  /\ IsDue(Source_i)
  /\ sched' = [sched EXCEPT !.pc = "running", !.since = real]
  /\ repeated' = (repeated \/ Occurrences(Source_i) \cap covered[Source_i] # {})
  /\ covered' = [covered EXCEPT ![Source_i] = @ \cup Occurrences(Source_i)]
  /\ UNCHANGED <<real, wall, last, fired, reading, client, newest, steps>>

Fire ==
  /\ sched.pc = "sources"
  /\ sched.i <= Len(Registry)
  /\ IsDue(Source_i)
  /\ fired' = [fired EXCEPT ![Source_i] = sched.now]
  /\ sched' = [sched EXCEPT !.pc = "running", !.since = real]
  /\ repeated' = (repeated \/ Occurrences(Source_i) \cap covered[Source_i] # {})
  /\ covered' = [covered EXCEPT ![Source_i] = @ \cup Occurrences(Source_i)]
  /\ UNCHANGED <<real, wall, last, reading, client, newest, steps>>

(* The run is over; a failure does not count as `any_ran'. *)
RunOver(ok) ==
  /\ sched.pc = "running"
  /\ sched' = [sched EXCEPT !.pc = "sources", !.i = @ + 1, !.ran = @ \/ ok]
  /\ UNCHANGED <<real, wall, last, fired, client, covered, repeated, steps>>

RunEnds(ok) == RunOver(ok) /\ Ends(ok, Source_i, sched.now, sched.since)

RunTimesOut == RunOver(FALSE) /\ TimesOut(sched.since)

(* Mutant: last_checked is read at the end of the iteration. *)
AllRunLate ==
  /\ sched.pc = "sources"
  /\ sched.i > Len(Registry)
  /\ last' = wall
  /\ sched' = [sched EXCEPT !.pc = IF sched.ran THEN "render" ELSE "sleep",
                            !.since = real]
  /\ UNCHANGED <<real, wall, fired, reading, client, history>>

AllRun ==
  /\ sched.pc = "sources"
  /\ sched.i > Len(Registry)
  /\ last' = sched.now
  /\ sched' = [sched EXCEPT !.pc = IF sched.ran THEN "render" ELSE "sleep",
                            !.since = real]
  /\ UNCHANGED <<real, wall, fired, reading, client, history>>

(* The layout is rendered with the iteration's clock. *)
Render ==
  /\ sched.pc = "render"
  /\ sched' = [sched EXCEPT !.pc = "sleep", !.since = real]
  /\ UNCHANGED <<real, wall, last, fired, reading, client, history>>

---------------------------------------------------------------------------
(* A RunSource request: its clock is read, its source is looked up under    *)
(* the mutex, and the program runs without it.                              *)

Ask(s) ==
  /\ client = None
  /\ client' = [pc |-> "asked", src |-> s, at |-> wall, since |-> real]
  /\ UNCHANGED <<real, wall, sched, last, fired, reading, history>>

ClientRuns ==
  /\ client # None
  /\ client.pc = "asked"
  /\ client' = [client EXCEPT !.pc = "running", !.since = real]
  /\ UNCHANGED <<real, wall, sched, last, fired, reading, history>>

ClientOver ==
  /\ client # None
  /\ client.pc = "running"
  /\ client' = None
  /\ UNCHANGED <<real, wall, sched, last, fired, covered, repeated, steps>>

ClientEnds(ok) == ClientOver /\ Ends(ok, client.src, client.at, client.since)

ClientTimesOut == ClientOver /\ TimesOut(client.since)

---------------------------------------------------------------------------
(* The clocks. *)

(* Mutant: a run has no time limit. *)
LimitNoTimeout(pc) ==
  IF pc \in {"specs", "asked", "render"} THEN MaxLag
  ELSE IF pc = "running" THEN MaxReal
  ELSE IF pc = "sleep" THEN MaxLag + Poll ELSE 0

(* How long each place can last: a wait for the mutex, a run until its      *)
(* timeout and then for the mutex, the reconnect check and then until the   *)
(* interval ticks, or no time.                                              *)
Limit(pc) ==
  CASE pc \in {"specs", "asked", "render"} -> MaxLag
    [] pc = "running" -> Timeout + MaxLag
    [] pc = "sleep" -> MaxLag + Poll
    [] OTHER -> 0

Tick ==
  /\ real < MaxReal
  /\ real < sched.since + Limit(sched.pc)
  /\ client # None => real < client.since + Limit(client.pc)
  /\ real' = real + 1
  /\ wall' = wall + 1
  /\ UNCHANGED <<sched, last, fired, reading, client, history>>

(* NTP or the user sets the wall clock. *)
SetClock(t) ==
  /\ steps < MaxSteps
  /\ wall' = t
  /\ steps' = steps + 1
  /\ UNCHANGED <<real, sched, last, fired, reading, client,
                 covered, repeated, newest>>

Next ==
  \/ Wake \/ Specs \/ NotDue \/ Fire \/ RunTimesOut \/ AllRun \/ Render
  \/ \E ok \in BOOLEAN : RunEnds(ok)
  \/ \E s \in Asked : Ask(s)
  \/ ClientRuns \/ ClientTimesOut
  \/ \E ok \in BOOLEAN : ClientEnds(ok)
  \/ Tick
  \/ \E t \in SetTo : SetClock(t)

(* tokio runs a ready task, and its timers go off; a program may never end. *)
(* Time passes: SF, as a client that asks again and again in no time would  *)
(* keep Tick from being enabled all the time.                               *)
Fairness ==
  /\ WF_vars(Wake \/ Specs \/ NotDue \/ Fire \/ RunTimesOut \/ AllRun \/ Render)
  /\ WF_vars(ClientRuns \/ ClientTimesOut)
  /\ SF_vars(Tick)

Spec == Init /\ [][Next]_vars

FairSpec == Spec /\ Fairness

---------------------------------------------------------------------------
Place == {"sleep", "specs", "sources", "running", "render"}

Reading == [at : Int, began : Int]

(* Every variable has its type, a run belongs to a source of the registry,  *)
(* and the scheduler is never in the middle of a source that has not fired. *)
TypeOK ==
  /\ real \in Nat
  /\ wall \in Int
  /\ sched \in [pc : Place, i : 1..(Len(Registry) + 1), now : Int, since : Int, ran : BOOLEAN]
  /\ sched.pc = "running" => /\ sched.i <= Len(Registry)
                              /\ fired[Source_i] = sched.now
  /\ last \in Int
  /\ fired \in [Source -> Int \cup {None}]
  /\ reading \in [Source -> Reading \cup {None}]
  /\ client \in [pc : {"asked", "running"}, src : Source, at : Int, since : Int] \cup {None}
  /\ covered \in [Source -> SUBSET Int]
  /\ repeated \in BOOLEAN
  /\ newest \in [Source -> Int \cup {None}]
  /\ steps \in Nat

---------------------------------------------------------------------------
(* The windows that is_due looks at: none holds an occurrence again, and    *)
(* those up to last_checked have all been looked at.                        *)
OccurrenceOnce == ~repeated

NoneSkipped ==
  \A s \in Source : \A o \in Due[s] : 0 < o /\ o <= last => o \in covered[s]

(* "Never fire twice for the same occurrence", and pass over none since the *)
(* start: however long iterations take, and however often the wall clock is *)
(* set, forwards or back over an occurrence.                                *)
EachOccurrenceOnce == OccurrenceOnce /\ NoneSkipped

(* The longest iteration, from its `now' to its render. *)
IterationMax == MaxLag + Len(Registry) * (Timeout + MaxLag) + MaxLag

(* A RunSource request and the scheduler, or a slow source and a request,   *)
(* may store their readings in the other order than their stamps.  How old  *)
(* a reading can replace a newer one is bounded, as the timeouts bound how  *)
(* long one can be on its way.                                              *)
OverwriteBounded ==
  steps = 0 =>
    \A s \in Source :
      reading[s] # None => newest[s] - reading[s].at <= IterationMax

(* DataPoint::is_stale, for the render in progress. *)
Fresh(s) == reading[s] # None /\ sched.now - reading[s].at <= Ttl

(* What the scheduler renders as fresh was looked at no longer ago than its *)
(* time to live and one iteration: the stamp is never later than the look.  *)
FreshHonest ==
  steps = 0 /\ sched.pc = "render" =>
    \A s \in Source : Fresh(s) => real - reading[s].began <= Ttl + IterationMax

(* "A slow or hung source cannot block every other client" nor the others'  *)
(* schedules: every occurrence has its run some time, unless the clock is   *)
(* set or the model ends first.                                             *)
EveryOccurrenceRuns ==
  \A s \in Source : \A o \in Due[s] :
    0 < o /\ o + MaxLag + Poll + 2 * IterationMax <= MaxReal =>
      (steps = 0 /\ wall >= o ~> o \in covered[s] \/ steps > 0)
============================================================================
