-------------------------- MODULE Scheduler_proofs --------------------------
(***************************************************************************)
(* That no occurrence of a schedule is run twice or passed over, that an   *)
(* older reading overwrites a newer one by no more than an iteration, and  *)
(* that what is called fresh is: for every registry, every schedule, every *)
(* timeout and every way of setting the wall clock.                        *)
(***************************************************************************)
EXTENDS Scheduler, TLAPS

(* What has been covered lies before the last firing, and everything before *)
(* the last firing has been covered.                                        *)
CoveredIsFired ==
  \A s \in Source :
    /\ fired[s] = None => covered[s] = {}
    /\ fired[s] # None =>
         /\ \A o \in covered[s] : o <= fired[s]
         /\ \A o \in Due[s] : 0 < o /\ o <= fired[s] => o \in covered[s]

(* In the middle of an iteration, the sources behind the loop's index, and  *)
(* the one that is running, have nothing due any more.                      *)
BehindIsCovered ==
  \A j \in 1..Len(Registry) :
    \/ sched.pc \in {"specs", "sources"} /\ j < sched.i
    \/ sched.pc = "running" /\ j <= sched.i
    => \A o \in Due[Registry[j]] : 0 < o /\ o <= sched.now => o \in covered[Registry[j]]

IInv ==
  /\ TypeOK
  /\ CoveredIsFired
  /\ BehindIsCovered
  /\ OccurrenceOnce
  /\ NoneSkipped

LEMMA RegistryInSource == \A j \in 1..Len(Registry) : Registry[j] \in Source
<1>1. Registry \in Seq(Source)
  BY SchedulerAssumption DEF SchedulerAssumption
<1> QED
  BY <1>1 DEF Source

LEMMA LengthNat == Len(Registry) \in Nat /\ DOMAIN Registry = 1..Len(Registry)
<1>1. Registry \in Seq(Source)
  BY SchedulerAssumption DEF SchedulerAssumption
<1> QED
  BY <1>1

LEMMA SourceIsListed ==
  ASSUME NEW s \in Source PROVE \E j \in 1..Len(Registry) : s = Registry[j]
BY LengthNat DEF Source

(* is_due looks no further back than the last firing and the last check. *)
LEMMA SinceBounds ==
  ASSUME TypeOK, NEW s \in Source
  PROVE  /\ Since(s) \in Int
         /\ last <= Since(s)
         /\ fired[s] # None => fired[s] <= Since(s)
         /\ Since(s) = last \/ (fired[s] # None /\ Since(s) = fired[s])
<1>1. last \in Int /\ (fired[s] \in Int \/ fired[s] = None)
  BY DEF TypeOK
<1> QED
  BY <1>1 DEF Since, Later

LEMMA Bounds == Asked \subseteq Source /\ SetTo \subseteq Int
BY SchedulerAssumption DEF SchedulerAssumption

LEMMA DueInt == \A s \in Source : Due[s] \subseteq Int
BY SchedulerAssumption DEF SchedulerAssumption

LEMMA InitIInv == Init => IInv
<1> SUFFICES ASSUME Init PROVE IInv
  OBVIOUS
<1>1. TypeOK
  <2>1. sched \in [pc : Place, i : 1..(Len(Registry) + 1), now : Int, since : Int, ran : BOOLEAN]
    BY LengthNat DEF Init, Place
  <2> QED
    BY <2>1 DEF Init, TypeOK
<1>2. CoveredIsFired /\ OccurrenceOnce
  BY DEF Init, CoveredIsFired, OccurrenceOnce
<1>3. BehindIsCovered
  BY DEF Init, BehindIsCovered
<1>4. NoneSkipped
  <2> SUFFICES ASSUME NEW s \in Source, NEW o \in Due[s], 0 < o, o <= last PROVE FALSE
    BY DEF NoneSkipped
  <2> QED
    BY DueInt DEF Init
<1> QED
  BY <1>1, <1>2, <1>3, <1>4 DEF IInv

---------------------------------------------------------------------------
(* Types. *)

LEMMA OutcomeType ==
  ASSUME TypeOK, NEW s \in Source, NEW at \in Int, NEW began \in Int,
         \/ \E ok \in BOOLEAN : Ends(ok, s, at, began)
         \/ TimesOut(began)
  PROVE  /\ reading' \in [Source -> Reading \cup {None}]
         /\ newest' \in [Source -> Int \cup {None}]
<1>1. CASE UNCHANGED <<reading, newest>>
  BY <1>1 DEF TypeOK
<1>2. CASE \E printed \in BOOLEAN : Absorb(s, at, began, printed)
  <2> PICK printed \in BOOLEAN : Absorb(s, at, began, printed)
    BY <1>2
  <2>1. reading' \in [Source -> Reading \cup {None}]
    BY DEF Absorb, TypeOK, Reading
  <2>2. newest' \in [Source -> Int \cup {None}]
    BY DEF Absorb, TypeOK, Later
  <2> QED
    BY <2>1, <2>2
<1> QED
  BY <1>1, <1>2 DEF Ends, TimesOut, Fail

Loop == [pc : Place, i : 1..(Len(Registry) + 1), now : Int, since : Int, ran : BOOLEAN]

LEMMA TypeStep == TypeOK /\ [Next]_vars => TypeOK'
<1> SUFFICES ASSUME TypeOK, [Next]_vars PROVE TypeOK'
  OBVIOUS
<1> USE LengthNat, RegistryInSource, Bounds
<1>0. sched \in Loop /\ real \in Int /\ wall \in Int /\ sched.i \in 1..(Len(Registry) + 1)
  BY DEF TypeOK, Loop
<1>1. CASE Wake
  <2>1. sched' \in Loop /\ sched'.pc = "specs"
    BY <1>0, <1>1 DEF Wake, Loop, Place
  <2> QED
    BY <1>1, <2>1 DEF TypeOK, Loop, Wake, history
<1>2. CASE Specs
  <2>1. sched' \in Loop /\ sched'.pc = "sources"
    BY <1>0, <1>2 DEF Specs, Loop, Place
  <2> QED
    BY <1>2, <2>1 DEF TypeOK, Loop, Specs, history
<1>3. CASE NotDue
  <2>1. sched' \in Loop /\ sched'.pc = "sources"
    BY <1>0, <1>3 DEF NotDue, Loop, Place
  <2> QED
    BY <1>3, <2>1 DEF TypeOK, Loop, NotDue, history
<1>4. CASE Fire
  <2>1. Source_i \in Source
    BY <1>0, <1>4 DEF Fire, Source_i
  <2>2. Occurrences(Source_i) \in SUBSET Int
    BY <2>1, DueInt DEF Occurrences
  <2>3. covered' \in [Source -> SUBSET Int]
    BY <1>4, <2>1, <2>2 DEF Fire, TypeOK
  <2>4. fired' \in [Source -> Int \cup {None}] /\ fired'[Source_i] = sched.now
    BY <1>0, <1>4, <2>1 DEF Fire, TypeOK, Loop
  <2>5. sched' \in Loop /\ sched'.i = sched.i /\ sched'.now = sched.now
    BY <1>0, <1>4 DEF Fire, Loop, Place
  <2>6. repeated' \in BOOLEAN
    BY <1>4 DEF Fire, TypeOK
  <2>7. fired'[Source_i'] = sched'.now
    BY <2>4, <2>5 DEF Source_i
  <2> QED
    BY <1>4, <2>3, <2>4, <2>5, <2>6, <2>7 DEF Fire, TypeOK, Loop
<1>5. CASE AllRun
  <2>1. sched' \in Loop /\ sched'.pc # "running"
    BY <1>0, <1>5 DEF AllRun, Loop, Place
  <2> QED
    BY <1>0, <1>5, <2>1 DEF TypeOK, Loop, AllRun, history
<1>6. CASE Render
  <2>1. sched' \in Loop /\ sched'.pc = "sleep"
    BY <1>0, <1>6 DEF Render, Loop, Place
  <2> QED
    BY <1>6, <2>1 DEF TypeOK, Loop, Render, history
<1>7. CASE RunTimesOut \/ \E ok \in BOOLEAN : RunEnds(ok)
  <2>1. PICK ok \in BOOLEAN : RunOver(ok)
    BY <1>7 DEF RunTimesOut, RunEnds
  <2>2. sched.i \in 1..Len(Registry)
    BY <1>0, <2>1 DEF RunOver, TypeOK
  <2>3. Source_i \in Source /\ sched.now \in Int /\ sched.since \in Int
    BY <1>0, <2>2 DEF Source_i, Loop
  <2>4. /\ reading' \in [Source -> Reading \cup {None}]
        /\ newest' \in [Source -> Int \cup {None}]
    BY <1>7, <2>3, OutcomeType DEF RunTimesOut, RunEnds
  <2>5. sched' \in Loop /\ sched'.pc = "sources"
    <3>1. PICK anyRan \in BOOLEAN :
            sched' = [sched EXCEPT !.pc = "sources", !.i = sched.i + 1, !.ran = anyRan]
      BY <1>0, <2>1 DEF RunOver, Loop
    <3>2. PICK next \in 1..(Len(Registry) + 1) : next = sched.i + 1
      BY <2>2
    <3>3. sched' = [sched EXCEPT !.pc = "sources", !.i = next, !.ran = anyRan]
      BY <3>1, <3>2
    <3> QED
      BY <1>0, <3>3, Zenon DEF Loop, Place
  <2> QED
    BY <2>1, <2>4, <2>5 DEF RunOver, TypeOK, Loop
<1>8. CASE ClientTimesOut \/ \E ok \in BOOLEAN : ClientEnds(ok)
  <2>1. ClientOver
    BY <1>8 DEF ClientTimesOut, ClientEnds
  <2>2. client.src \in Source /\ client.at \in Int /\ client.since \in Int
    BY <2>1 DEF ClientOver, TypeOK
  <2>3. /\ reading' \in [Source -> Reading \cup {None}]
        /\ newest' \in [Source -> Int \cup {None}]
    BY <1>8, <2>2, OutcomeType DEF ClientTimesOut, ClientEnds
  <2> QED
    BY <2>1, <2>3 DEF ClientOver, TypeOK, Source_i
<1>9. CASE \E s \in Asked : Ask(s)
  BY <1>0, <1>9 DEF TypeOK, Ask, Source_i, history
<1>10. CASE ClientRuns
  <2>1. client' \in [pc : {"asked", "running"}, src : Source, at : Int, since : Int]
    BY <1>0, <1>10 DEF ClientRuns, TypeOK
  <2> QED
    BY <1>10, <2>1 DEF TypeOK, ClientRuns, Source_i, history
<1>11. CASE Tick
  <2>1. real' \in Nat /\ wall' \in Int
    BY <1>11 DEF Tick, TypeOK
  <2> QED
    BY <1>11, <2>1 DEF TypeOK, Tick, Source_i, history
<1>12. CASE \E t \in SetTo : SetClock(t)
  <2>1. wall' \in Int /\ steps' \in Nat
    BY <1>12 DEF SetClock, TypeOK
  <2> QED
    BY <1>12, <2>1 DEF TypeOK, SetClock, Source_i
<1>13. CASE UNCHANGED vars
  BY <1>13 DEF TypeOK, vars, Source_i, history
<1> QED
  BY <1>1, <1>2, <1>3, <1>4, <1>5, <1>6, <1>7, <1>8, <1>9, <1>10, <1>11, <1>12, <1>13
     DEF Next

---------------------------------------------------------------------------
(* The history: one step per action that touches it. *)

LEMMA FireStep ==
  ASSUME IInv, Fire
  PROVE  CoveredIsFired' /\ BehindIsCovered' /\ OccurrenceOnce' /\ NoneSkipped'
<1> DEFINE f == Source_i
           new == Occurrences(f)
<1> USE LengthNat, RegistryInSource, DueInt
<1>1. /\ TypeOK /\ sched \in Loop
      /\ sched.i \in 1..Len(Registry) /\ sched.now \in Int
      /\ f \in Source /\ last \in Int
  BY DEF IInv, TypeOK, Loop, Fire, Source_i
<1>2. /\ Since(f) \in Int /\ last <= Since(f)
      /\ fired[f] # None => fired[f] <= Since(f)
      /\ Since(f) = last \/ (fired[f] # None /\ Since(f) = fired[f])
  BY <1>1, SinceBounds
<1>3. new = {o \in Due[f] : Since(f) < o /\ o <= sched.now} /\ new # {}
  BY DEF Fire, IsDue, Occurrences
<1>4. Since(f) < sched.now
  BY <1>1, <1>2, <1>3
<1>5. \A o \in covered[f] : o \in Int /\ o <= Since(f)
  BY <1>1, <1>2 DEF IInv, TypeOK, CoveredIsFired
<1>6. new \cap covered[f] = {}
  BY <1>1, <1>2, <1>3, <1>5
<1>7. /\ fired' = [fired EXCEPT ![f] = sched.now]
      /\ covered' = [covered EXCEPT ![f] = @ \cup new]
      /\ fired \in [Source -> Int \cup {None}]
      /\ covered \in [Source -> SUBSET Int]
      /\ sched'.pc = "running" /\ sched'.i = sched.i /\ sched'.now = sched.now
      /\ last' = last
  BY <1>1 DEF Fire, TypeOK, Loop
<1>8. \A o \in Due[f] : 0 < o /\ o <= Since(f) => o \in covered[f]
  BY <1>1, <1>2 DEF IInv, CoveredIsFired, NoneSkipped
<1>9. \A o \in Due[f] : 0 < o /\ o <= sched.now => o \in covered'[f]
  <2> TAKE o \in Due[f]
  <2> HAVE 0 < o /\ o <= sched.now
  <2>1. CASE o <= Since(f)
    BY <1>1, <1>7, <1>8, <2>1
  <2>2. CASE Since(f) < o
    BY <1>1, <1>3, <1>7, <2>2
  <2> QED
    BY <1>1, <1>2, <2>1, <2>2
<1>10. \A s \in Source : covered[s] \subseteq covered'[s]
  BY <1>1, <1>7
<1> HIDE DEF f, new
<1>11. CoveredIsFired'
  <2> SUFFICES ASSUME NEW s \in Source
               PROVE  /\ fired'[s] = None => covered'[s] = {}
                      /\ fired'[s] # None =>
                           /\ \A o \in covered'[s] : o <= fired'[s]
                           /\ \A o \in Due[s] : 0 < o /\ o <= fired'[s] => o \in covered'[s]
    BY DEF CoveredIsFired
  <2>1. CASE s = f
    <3>1. fired'[s] = sched.now /\ covered'[s] = covered[s] \cup new
      BY <1>1, <1>7, <2>1
    <3>2. \A o \in covered'[s] : o <= sched.now
      BY <1>1, <1>2, <1>3, <1>4, <1>5, <2>1, <3>1
    <3>3. sched.now # None
      BY <1>1, SchedulerAssumption DEF SchedulerAssumption
    <3> QED
      BY <1>9, <2>1, <3>1, <3>2, <3>3
  <2>2. CASE s # f
    BY <1>7, <2>2 DEF IInv, CoveredIsFired
  <2> QED
    BY <2>1, <2>2
<1>12. BehindIsCovered'
  <2> SUFFICES ASSUME NEW j \in 1..Len(Registry), j <= sched.i,
                      NEW o \in Due[Registry[j]], 0 < o, o <= sched.now
               PROVE  o \in covered'[Registry[j]]
    BY <1>7 DEF BehindIsCovered
  <2>1. CASE j = sched.i
    BY <1>9, <2>1 DEF f, Source_i
  <2>2. CASE j < sched.i
    BY <1>10, <2>2 DEF IInv, BehindIsCovered, Fire
  <2> QED
    BY <1>1, <2>1, <2>2
<1>13. OccurrenceOnce'
  BY <1>6 DEF IInv, OccurrenceOnce, Fire, f, new
<1>14. NoneSkipped'
  BY <1>7, <1>10 DEF IInv, NoneSkipped
<1> QED
  BY <1>11, <1>12, <1>13, <1>14

LEMMA NotDueStep ==
  ASSUME IInv, NotDue
  PROVE  BehindIsCovered'
<1> DEFINE f == Source_i
<1> USE LengthNat, RegistryInSource, DueInt
<1>1. /\ TypeOK /\ sched \in Loop
      /\ sched.i \in 1..Len(Registry) /\ sched.now \in Int
      /\ f \in Source /\ last \in Int
  BY DEF IInv, TypeOK, Loop, NotDue, Source_i
<1>2. /\ Since(f) \in Int
      /\ Since(f) = last \/ (fired[f] # None /\ Since(f) = fired[f])
  BY <1>1, SinceBounds
<1>3. \A o \in Due[f] : 0 < o /\ o <= sched.now => o \in covered[f]
  <2> TAKE o \in Due[f]
  <2> HAVE 0 < o /\ o <= sched.now
  <2>1. o <= Since(f)
    BY <1>1, <1>2 DEF NotDue, IsDue, Occurrences
  <2> QED
    BY <1>1, <1>2, <2>1 DEF IInv, CoveredIsFired, NoneSkipped
<1>4. sched'.pc = "sources" /\ sched'.i = sched.i + 1 /\ sched'.now = sched.now
      /\ covered' = covered
  BY <1>1 DEF NotDue, Loop, history
<1> SUFFICES ASSUME NEW j \in 1..Len(Registry), j < sched.i + 1,
                    NEW o \in Due[Registry[j]], 0 < o, o <= sched.now
             PROVE  o \in covered[Registry[j]]
  BY <1>4 DEF BehindIsCovered
<1>5. CASE j = sched.i
  BY <1>3, <1>5 DEF Source_i
<1>6. CASE j < sched.i
  BY <1>6 DEF IInv, BehindIsCovered, NotDue
<1> QED
  BY <1>1, <1>5, <1>6

LEMMA AllRunStep ==
  ASSUME IInv, AllRun
  PROVE  NoneSkipped' /\ BehindIsCovered'
<1> USE LengthNat, RegistryInSource
<1>1. sched \in Loop /\ sched.i > Len(Registry) /\ sched.pc = "sources"
      /\ last' = sched.now /\ covered' = covered /\ sched'.pc \in {"render", "sleep"}
  BY DEF IInv, TypeOK, Loop, AllRun, history
<1>2. NoneSkipped'
  <2> SUFFICES ASSUME NEW s \in Source, NEW o \in Due[s], 0 < o, o <= sched.now
               PROVE  o \in covered[s]
    BY <1>1 DEF NoneSkipped
  <2>1. PICK j \in 1..Len(Registry) : s = Registry[j]
    BY SourceIsListed
  <2>2. j < sched.i
    BY <1>1, <2>1 DEF Loop
  <2> QED
    BY <1>1, <2>1, <2>2 DEF IInv, BehindIsCovered
<1>3. BehindIsCovered'
  BY <1>1 DEF BehindIsCovered
<1> QED
  BY <1>2, <1>3

(* No other action touches the history, the firings or last_checked, and    *)
(* none but these moves the loop's index but past a run that is over.       *)
LEMMA OtherStep ==
  ASSUME IInv, UNCHANGED <<last, fired, covered, repeated>>,
         \/ sched' = sched
         \/ sched'.pc = "sleep"
         \/ sched'.pc = "specs" /\ sched'.i = 1
         \/ /\ sched.pc = "specs" /\ sched'.pc = "sources"
            /\ sched'.i = sched.i /\ sched'.now = sched.now
         \/ /\ sched.pc = "running" /\ sched'.pc = "sources"
            /\ sched'.i = sched.i + 1 /\ sched'.now = sched.now
  PROVE  CoveredIsFired' /\ BehindIsCovered' /\ OccurrenceOnce' /\ NoneSkipped'
<1> USE LengthNat
<1>1. CoveredIsFired' /\ OccurrenceOnce' /\ NoneSkipped'
  BY DEF IInv, CoveredIsFired, OccurrenceOnce, NoneSkipped
<1>2. sched.i \in 1..(Len(Registry) + 1)
  BY DEF IInv, TypeOK
<1>3. BehindIsCovered'
  BY <1>2 DEF IInv, BehindIsCovered
<1> QED
  BY <1>1, <1>3

LEMMA StepIInv == IInv /\ [Next]_vars => IInv'
<1> SUFFICES ASSUME IInv, [Next]_vars PROVE IInv'
  OBVIOUS
<1>0. TypeOK /\ TypeOK' /\ sched \in Loop
  BY TypeStep DEF IInv, TypeOK, Loop
<1> SUFFICES CoveredIsFired' /\ BehindIsCovered' /\ OccurrenceOnce' /\ NoneSkipped'
  BY <1>0 DEF IInv
<1>1. CASE Fire
  BY <1>1, FireStep
<1>2. CASE NotDue
  <2>1. BehindIsCovered'
    BY <1>2, NotDueStep
  <2>2. CoveredIsFired' /\ OccurrenceOnce' /\ NoneSkipped'
    BY <1>2 DEF NotDue, history, IInv, CoveredIsFired, OccurrenceOnce, NoneSkipped
  <2> QED
    BY <2>1, <2>2
<1>3. CASE AllRun
  <2>1. NoneSkipped' /\ BehindIsCovered'
    BY <1>3, AllRunStep
  <2>2. CoveredIsFired' /\ OccurrenceOnce'
    BY <1>3 DEF AllRun, history, IInv, CoveredIsFired, OccurrenceOnce
  <2> QED
    BY <2>1, <2>2
<1>4. CASE Wake
  BY <1>4, OtherStep DEF Wake, history
<1>5. CASE Specs
  BY <1>0, <1>5, OtherStep DEF Specs, history, Loop
<1>6. CASE Render
  BY <1>0, <1>6, OtherStep DEF Render, history, Loop
<1>7. CASE RunTimesOut \/ \E ok \in BOOLEAN : RunEnds(ok)
  <2>1. PICK ok \in BOOLEAN : RunOver(ok)
    BY <1>7 DEF RunTimesOut, RunEnds
  <2>2. sched'.pc = "sources" /\ sched'.i = sched.i + 1 /\ sched'.now = sched.now
    BY <1>0, <2>1 DEF RunOver, Loop
  <2> QED
    BY <2>1, <2>2, OtherStep DEF RunOver
<1>8. CASE \/ ClientRuns \/ ClientTimesOut \/ Tick
           \/ \E ok \in BOOLEAN : ClientEnds(ok)
           \/ \E s \in Asked : Ask(s)
           \/ \E t \in SetTo : SetClock(t)
           \/ UNCHANGED vars
  <2>1. UNCHANGED <<sched, last, fired, covered, repeated>>
    BY <1>8 DEF ClientRuns, ClientTimesOut, ClientEnds, ClientOver, Ask, SetClock,
                Tick, vars, history
  <2> QED
    BY <2>1, OtherStep
<1> QED
  BY <1>1, <1>2, <1>3, <1>4, <1>5, <1>6, <1>7, <1>8 DEF Next

LEMMA Inductive == Spec => []IInv
BY InitIInv, StepIInv, PTL DEF Spec

(* Every variable keeps its type, and only a source of the registry that    *)
(* has been marked as fired is ever run by the loop (scheduler_loop).       *)
THEOREM TypeCorrect == Spec => []TypeOK
<1>1. IInv => TypeOK
  BY DEF IInv
<1> QED
  BY Inductive, <1>1, PTL

(* is_due never lets the same occurrence fire twice, however the wall clock *)
(* is set between and within iterations, and the windows that the loop      *)
(* passes to it leave no gap between the start and last_checked.            *)
THEOREM FiresOnce == Spec => []EachOccurrenceOnce
<1>1. IInv => EachOccurrenceOnce
  BY DEF IInv, EachOccurrenceOnce
<1> QED
  BY Inductive, <1>1, PTL

---------------------------------------------------------------------------
(* Time. *)
(* How late an iteration may be before it comes to source i. *)
Before(i) == MaxLag + (i - 1) * (Timeout + MaxLag)

(* As long as the wall clock has not been set, every place of the loop and  *)
(* of a request is reached and left in time.                                *)
LoopTimely ==
  /\ sched.now <= sched.since /\ sched.since <= real
  /\ sched.pc = "specs" => sched.since = sched.now /\ real - sched.since <= MaxLag
  /\ sched.pc = "sources" => real - sched.now <= Before(sched.i)
  /\ sched.pc = "running" => /\ sched.since - sched.now <= Before(sched.i)
                             /\ real - sched.since <= Timeout + MaxLag
  /\ sched.pc = "render" => /\ sched.since - sched.now <= Before(Len(Registry) + 1)
                            /\ real - sched.since <= MaxLag

RequestTimely ==
  client # None =>
    /\ client.at <= client.since /\ client.since <= real
    /\ client.pc = "asked" => client.since = client.at /\ real - client.since <= MaxLag
    /\ client.pc = "running" => /\ client.since - client.at <= MaxLag
                                /\ real - client.since <= Timeout + MaxLag

(* A reading is stamped before its program began, and no stamp is from the  *)
(* future.                                                                  *)
Stamped ==
  \A s \in Source :
    /\ newest[s] # None => newest[s] <= real
    /\ reading[s] # None => /\ newest[s] # None
                            /\ reading[s].at <= reading[s].began
                            /\ newest[s] - reading[s].at <= IterationMax

Timely == steps = 0 => wall = real /\ LoopTimely /\ RequestTimely /\ Stamped

LEMMA Durations ==
  Timeout \in Nat /\ Ttl \in Nat /\ MaxLag \in Nat /\ Poll \in Nat /\ None \notin Int
BY SchedulerAssumption DEF SchedulerAssumption

LEMMA Delays ==
  /\ Before(1) = MaxLag
  /\ \A i \in 1..(Len(Registry) + 1) :
       Before(i) \in Nat /\ MaxLag <= Before(i) /\ Before(i) <= Before(Len(Registry) + 1)
  /\ \A i \in 1..Len(Registry) : Before(i + 1) = Before(i) + Timeout + MaxLag
  /\ IterationMax \in Nat /\ IterationMax = Before(Len(Registry) + 1) + MaxLag
  /\ Source # {} => Timeout + MaxLag + MaxLag <= IterationMax
<1> DEFINE d == Timeout + MaxLag
           n == Len(Registry)
<1>1. d \in Nat /\ MaxLag \in Nat /\ n \in Nat /\ d = Timeout + MaxLag /\ Timeout \in Nat
  BY Durations, LengthNat
<1>2. \A i : Before(i) = MaxLag + (i - 1) * d
  BY DEF Before
<1>3. IterationMax = MaxLag + n * d + MaxLag
  BY DEF IterationMax
<1>4. Source # {} => n >= 1
  BY SourceIsListed, LengthNat
<1> HIDE DEF d, n
<1>5. Before(1) = MaxLag
  BY <1>1, <1>2
<1>6. \A i \in 1..(n + 1) : (i - 1) * d \in Nat /\ (i - 1) * d <= n * d
  BY <1>1, SMT
<1>7. n * d \in Nat /\ Before(n + 1) = MaxLag + n * d
  BY <1>1, <1>2, SMT
<1>8. \A i \in 1..(n + 1) :
        Before(i) \in Nat /\ MaxLag <= Before(i) /\ Before(i) <= Before(n + 1)
  <2> TAKE i \in 1..(n + 1)
  <2> DEFINE x == (i - 1) * d
             y == n * d
  <2>1. x \in Nat /\ y \in Nat /\ x <= y /\ Before(i) = MaxLag + x /\ Before(n + 1) = MaxLag + y
    BY <1>2, <1>6, <1>7
  <2> HIDE DEF x, y
  <2> QED
    BY <1>1, <2>1
<1>9. \A i \in 1..n : Before(i + 1) = Before(i) + d
  <2> TAKE i \in 1..n
  <2>1. (i + 1 - 1) * d = (i - 1) * d + d /\ (i - 1) * d \in Int
    BY <1>1, SMT
  <2> QED
    BY <1>1, <1>2, <2>1
<1>10. n >= 1 => d <= n * d
  BY <1>1, SMT
<1>11. /\ IterationMax = Before(n + 1) + MaxLag /\ IterationMax \in Nat
       /\ n >= 1 => d + MaxLag <= IterationMax
  <2> DEFINE y == n * d
  <2>1. y \in Nat /\ IterationMax = MaxLag + y + MaxLag /\ Before(n + 1) = MaxLag + y
        /\ (n >= 1 => d <= y)
    BY <1>3, <1>7, <1>10
  <2> HIDE DEF y
  <2> QED
    BY <1>1, <2>1
<1>12. \A i \in 1..n : Before(i + 1) = Before(i) + Timeout + MaxLag
  <2> TAKE i \in 1..n
  <2>1. Before(i) \in Nat
    BY <1>1, <1>8
  <2> QED
    BY <1>1, <1>9, <2>1
<1> QED
  BY <1>1, <1>4, <1>5, <1>8, <1>11, <1>12 DEF n

(* A reading that is stored is stamped before its program began, and no     *)
(* longer ago than the longest iteration.                                   *)
LEMMA StoredInTime ==
  ASSUME TypeOK, Stamped, NEW s \in Source, NEW at \in Int, NEW began \in Int,
         at <= began, at <= real, real - at <= IterationMax, real' = real,
         \/ \E ok \in BOOLEAN : Ends(ok, s, at, began)
         \/ TimesOut(began)
  PROVE  Stamped'
<1>1. CASE UNCHANGED <<reading, newest>>
  BY <1>1 DEF Stamped
<1>2. CASE \E printed \in BOOLEAN : Absorb(s, at, began, printed)
  <2> PICK printed \in BOOLEAN : Absorb(s, at, began, printed)
    BY <1>2
  <2>1. CASE ~printed
    BY <1>1, <2>1 DEF Absorb
  <2>2. CASE printed
    <3> DEFINE r == [at |-> at, began |-> began]
               n == IF newest[s] = None THEN at ELSE Later(newest[s], at)
    <3>1. /\ reading' = [reading EXCEPT ![s] = r] /\ newest' = [newest EXCEPT ![s] = n]
          /\ newest \in [Source -> Int \cup {None}] /\ reading \in [Source -> Reading \cup {None}]
          /\ real \in Int
      BY <2>2 DEF Absorb, TypeOK
    <3>2. newest[s] # None => newest[s] \in Int /\ newest[s] <= real
      BY <3>1 DEF Stamped
    <3>3. n \in Int /\ n <= real
      BY <3>1, <3>2 DEF Later
    <3>4. n # None /\ n - at <= IterationMax
      BY <3>1, <3>3, Durations, Delays
    <3>5. r.at = at /\ r.began = began
      OBVIOUS
    <3> HIDE DEF r, n
    <3>6. ASSUME NEW u \in Source
          PROVE  /\ newest'[u] # None => newest'[u] <= real
                 /\ reading'[u] # None => /\ newest'[u] # None
                                          /\ reading'[u].at <= reading'[u].began
                                          /\ newest'[u] - reading'[u].at <= IterationMax
      <4>1. CASE u = s
        BY <3>1, <3>3, <3>4, <3>5, <4>1
      <4>2. CASE u # s
        BY <3>1, <4>2 DEF Stamped
      <4> QED
        BY <4>1, <4>2
    <3> QED
      BY <3>6 DEF Stamped
  <2> QED
    BY <2>1, <2>2
<1> QED
  BY <1>1, <1>2 DEF Ends, TimesOut, Fail

(* The steps of the loop.  Each place begins where the one before was left, *)
(* and a tick that would make it last longer than it may is not enabled.    *)
LEMMA LoopInTime ==
  ASSUME TypeOK, steps = 0, wall = real, LoopTimely, Stamped,
         \/ Wake \/ Specs \/ NotDue \/ Fire \/ RunTimesOut \/ AllRun \/ Render
         \/ \E ok \in BOOLEAN : RunEnds(ok)
  PROVE  LoopTimely' /\ Stamped'
<1> USE LengthNat
<1>1. /\ sched \in Loop /\ real \in Int /\ sched.now \in Int /\ sched.since \in Int
      /\ sched.i \in 1..(Len(Registry) + 1) /\ MaxLag \in Nat /\ Timeout \in Nat
      /\ Before(sched.i) \in Nat /\ Before(sched.i) <= Before(Len(Registry) + 1)
      /\ Before(Len(Registry) + 1) \in Nat
  BY Durations, Delays DEF TypeOK, Loop
<1>2. real' = real
  BY DEF Wake, Specs, NotDue, Fire, RunTimesOut, RunEnds, RunOver, AllRun, Render
<1>3. CASE Wake
  <2>1. /\ sched'.now = real /\ sched'.since = real /\ sched'.pc = "specs"
        /\ UNCHANGED <<reading, newest>>
    BY <1>3 DEF Wake, history
  <2> QED
    BY <1>1, <1>2, <2>1 DEF LoopTimely, Stamped
<1>4. CASE Specs
  <2>1. /\ sched'.now = sched.now /\ sched'.since = sched.since /\ sched'.pc = "sources"
        /\ sched.pc = "specs" /\ sched'.i = sched.i /\ UNCHANGED <<reading, newest>>
    BY <1>1, <1>4 DEF Specs, Loop, history
  <2>2. Before(sched.i) >= MaxLag
    BY <1>1, Delays
  <2> QED
    BY <1>1, <1>2, <2>1, <2>2 DEF LoopTimely, Stamped
<1>5. CASE NotDue
  <2>1. /\ sched'.now = sched.now /\ sched'.since = sched.since /\ sched'.pc = "sources"
        /\ sched.pc = "sources" /\ sched'.i = sched.i + 1 /\ sched.i \in 1..Len(Registry)
        /\ UNCHANGED <<reading, newest>>
    BY <1>1, <1>5 DEF NotDue, Loop, history
  <2>2. Before(sched'.i) = Before(sched.i) + Timeout + MaxLag
    BY <2>1, Delays
  <2> QED
    BY <1>1, <1>2, <2>1, <2>2 DEF LoopTimely, Stamped
<1>6. CASE Fire
  <2>1. /\ sched'.now = sched.now /\ sched'.since = real /\ sched'.pc = "running"
        /\ sched.pc = "sources" /\ sched'.i = sched.i /\ UNCHANGED <<reading, newest>>
    BY <1>1, <1>6 DEF Fire, Loop
  <2> QED
    BY <1>1, <1>2, <2>1 DEF LoopTimely, Stamped
<1>7. CASE RunTimesOut \/ \E ok \in BOOLEAN : RunEnds(ok)
  <2>1. PICK ok \in BOOLEAN : RunOver(ok)
    BY <1>7 DEF RunTimesOut, RunEnds
  <2>2. /\ sched'.now = sched.now /\ sched'.since = sched.since /\ sched'.pc = "sources"
        /\ sched.pc = "running" /\ sched'.i = sched.i + 1 /\ sched.i \in 1..Len(Registry)
    BY <1>1, <2>1 DEF RunOver, Loop, TypeOK
  <2>3. /\ Before(sched'.i) = Before(sched.i) + Timeout + MaxLag
        /\ Before(sched'.i) <= Before(Len(Registry) + 1) /\ Before(sched'.i) \in Nat
    BY <2>2, Delays
  <2>4. /\ sched.since - sched.now <= Before(sched.i) /\ real - sched.since <= Timeout + MaxLag
        /\ sched.now <= sched.since /\ sched.since <= real
    BY <2>2 DEF LoopTimely
  <2>5. real - sched.now <= Before(sched'.i) /\ sched.now <= real
    <3>1. /\ real - sched.now <= Before(sched.i) + Timeout + MaxLag
          /\ sched.now <= real
      <4> DEFINE b == Before(sched.i)
                 now == sched.now
                 since == sched.since
      <4>1. /\ b \in Int /\ now \in Int /\ since \in Int /\ real \in Int
            /\ Timeout \in Int /\ MaxLag \in Int
        BY <1>1
      <4>2. since - now <= b /\ real - since <= Timeout + MaxLag /\ now <= since /\ since <= real
        BY <2>4
      <4> HIDE DEF b, now, since
      <4>3. real - now <= b + Timeout + MaxLag /\ now <= real
        BY <4>1, <4>2
      <4>4. QED
        BY <4>3 DEF b, now, since
    <3> QED
      BY <2>3, <3>1
  <2>6. real - sched.now <= IterationMax
    BY <1>1, <2>3, <2>5, Delays
  <2>7. Source_i \in Source
    BY <2>2, RegistryInSource DEF Source_i
  <2>8. Stamped'
    BY <1>1, <1>2, <1>7, <2>4, <2>5, <2>6, <2>7, StoredInTime DEF RunTimesOut, RunEnds
  <2> QED
    BY <1>2, <2>2, <2>4, <2>5, <2>8 DEF LoopTimely
<1>8. CASE AllRun
  <2>1. /\ sched'.now = sched.now /\ sched'.since = real /\ sched'.pc \in {"render", "sleep"}
        /\ sched.pc = "sources" /\ sched.i = Len(Registry) + 1 /\ UNCHANGED <<reading, newest>>
    BY <1>1, <1>8 DEF AllRun, Loop, history
  <2> QED
    BY <1>1, <1>2, <2>1 DEF LoopTimely, Stamped
<1>9. CASE Render
  <2>1. /\ sched'.now = sched.now /\ sched'.since = real /\ sched'.pc = "sleep"
        /\ UNCHANGED <<reading, newest>>
    BY <1>1, <1>9 DEF Render, Loop, history
  <2> QED
    BY <1>1, <1>2, <2>1 DEF LoopTimely, Stamped
<1> QED
  BY <1>3, <1>4, <1>5, <1>6, <1>7, <1>8, <1>9

(* The steps of a request. *)
LEMMA RequestInTime ==
  ASSUME TypeOK, steps = 0, wall = real, RequestTimely, Stamped,
         \/ \E s \in Asked : Ask(s)
         \/ ClientRuns \/ ClientTimesOut
         \/ \E ok \in BOOLEAN : ClientEnds(ok)
  PROVE  RequestTimely' /\ Stamped'
<1>1. /\ real \in Int /\ MaxLag \in Nat /\ Timeout \in Nat
      /\ client # None => client.at \in Int /\ client.since \in Int /\ client.src \in Source
      /\ client \in [pc : {"asked", "running"}, src : Source, at : Int, since : Int] \cup {None}
  BY Durations DEF TypeOK
<1>2. CASE \E s \in Asked : Ask(s)
  <2>1. PICK s : client' = [pc |-> "asked", src |-> s, at |-> wall, since |-> real]
    BY <1>2 DEF Ask
  <2>2. real' = real /\ UNCHANGED <<reading, newest>>
    BY <1>2 DEF Ask, history
  <2> QED
    BY <1>1, <2>1, <2>2 DEF RequestTimely, Stamped
<1>3. CASE ClientRuns
  <2>1. /\ client'.at = client.at /\ client'.since = real /\ client'.pc = "running"
        /\ client # None /\ client.pc = "asked" /\ real' = real /\ UNCHANGED <<reading, newest>>
    BY <1>1, <1>3 DEF ClientRuns, history
  <2> QED
    BY <1>1, <2>1 DEF RequestTimely, Stamped
<1>4. CASE ClientTimesOut \/ \E ok \in BOOLEAN : ClientEnds(ok)
  <2>1. client' = None /\ client # None /\ client.pc = "running" /\ real' = real
    BY <1>4 DEF ClientTimesOut, ClientEnds, ClientOver
  <2>2. /\ client.at <= client.since /\ client.since <= real
        /\ client.since - client.at <= MaxLag /\ real - client.since <= Timeout + MaxLag
    BY <2>1 DEF RequestTimely
  <2>3. client.at <= real /\ real - client.at <= Timeout + MaxLag + MaxLag
    BY <1>1, <2>1, <2>2
  <2>4. real - client.at <= IterationMax
    BY <1>1, <2>1, <2>3, Delays
  <2>5. Stamped'
    BY <1>1, <1>4, <2>1, <2>2, <2>3, <2>4, StoredInTime DEF ClientTimesOut, ClientEnds
  <2> QED
    BY <2>1, <2>5 DEF RequestTimely
<1> QED
  BY <1>2, <1>3, <1>4

LEMMA TickInTime ==
  ASSUME TypeOK, steps = 0, Timely, Tick
  PROVE  wall' = real' /\ LoopTimely' /\ RequestTimely' /\ Stamped'
<1>1. /\ real \in Int /\ real' = real + 1 /\ wall' = wall + 1 /\ wall = real
      /\ real < sched.since + Limit(sched.pc)
      /\ client # None => real < client.since + Limit(client.pc)
      /\ UNCHANGED <<sched, reading, client, newest>>
      /\ LoopTimely /\ RequestTimely /\ Stamped
  BY DEF Tick, TypeOK, Timely, history
<1>2. /\ sched.now \in Int /\ sched.since \in Int /\ sched.pc \in Place
      /\ MaxLag \in Nat /\ Timeout \in Nat
      /\ client # None => client.at \in Int /\ client.since \in Int
  BY Durations DEF TypeOK
<1>3. LoopTimely'
  <2>1. sched.pc # "sources"
    BY <1>1, <1>2 DEF Limit, LoopTimely
  <2> QED
    BY <1>1, <1>2, <2>1 DEF Limit, LoopTimely
<1>4. RequestTimely'
  BY <1>1, <1>2 DEF Limit, RequestTimely
<1>5. Stamped'
  <2>1. newest \in [Source -> Int \cup {None}]
    BY DEF TypeOK
  <2> QED
    BY <1>1, <2>1 DEF Stamped
<1> QED
  BY <1>1, <1>3, <1>4, <1>5

LEMMA TimelyStep == TypeOK /\ Timely /\ [Next]_vars => Timely'
<1> SUFFICES ASSUME TypeOK, Timely, [Next]_vars, steps' = 0
             PROVE  wall' = real' /\ LoopTimely' /\ RequestTimely' /\ Stamped'
  BY DEF Timely
<1>1. CASE \E t \in SetTo : SetClock(t)
  <2>1. steps' = steps + 1 /\ steps \in Nat
    BY <1>1 DEF SetClock, TypeOK
  <2> QED
    BY <2>1
<1>2. CASE UNCHANGED vars
  <2>1. /\ UNCHANGED <<real, wall, sched, reading, client, newest, steps>>
    BY <1>2 DEF vars
  <2> QED
    BY <2>1 DEF Timely, LoopTimely, RequestTimely, Stamped
<1>3. CASE Tick
  <2>1. steps = 0
    BY <1>3 DEF Tick, history
  <2> QED
    BY <1>3, <2>1, TickInTime
<1>4. CASE \/ Wake \/ Specs \/ NotDue \/ Fire \/ RunTimesOut \/ AllRun \/ Render
           \/ \E ok \in BOOLEAN : RunEnds(ok)
  <2>1. steps = 0 /\ UNCHANGED <<real, wall, client>>
    BY <1>4 DEF Wake, Specs, NotDue, Fire, RunTimesOut, RunEnds, RunOver, AllRun, Render, history
  <2>2. LoopTimely' /\ Stamped'
    BY <1>4, <2>1, LoopInTime DEF Timely
  <2> QED
    BY <2>1, <2>2 DEF Timely, RequestTimely
<1>5. CASE \/ \E s \in Asked : Ask(s)
           \/ ClientRuns \/ ClientTimesOut
           \/ \E ok \in BOOLEAN : ClientEnds(ok)
  <2>1. steps = 0 /\ UNCHANGED <<real, wall, sched>>
    BY <1>5 DEF Ask, ClientRuns, ClientTimesOut, ClientEnds, ClientOver, history
  <2>2. RequestTimely' /\ Stamped'
    BY <1>5, <2>1, RequestInTime DEF Timely
  <2> QED
    BY <2>1, <2>2 DEF Timely, LoopTimely
<1> QED
  BY <1>1, <1>2, <1>3, <1>4, <1>5 DEF Next

LEMMA AlwaysTimely == Spec => [](TypeOK /\ Timely)
<1>1. Init => TypeOK /\ Timely
  <2>1. Init => TypeOK
    BY InitIInv DEF IInv
  <2>2. Init => Timely
    BY DEF Init, Timely, LoopTimely, RequestTimely, Stamped
  <2> QED
    BY <2>1, <2>2
<1>2. (TypeOK /\ Timely) /\ [Next]_vars => (TypeOK /\ Timely)'
  BY TypeStep, TimelyStep
<1> QED
  BY <1>1, <1>2, PTL DEF Spec

(* absorb replaces the stored readings whatever their age; but whichever    *)
(* way the loop and requests race, as long as the wall clock is not set the *)
(* reading that stays is no older than the newest by more than the longest  *)
(* iteration, for every registry, timeout and wait for the mutex.           *)
THEOREM OverwritesBounded == Spec => []OverwriteBounded
<1>1. Timely => OverwriteBounded
  BY DEF Timely, Stamped, OverwriteBounded
<1> QED
  BY <1>1, AlwaysTimely, PTL

(* is_stale, asked with the iteration's clock of readings stamped before    *)
(* their programs ran, never lets through what was looked at longer ago     *)
(* than its time to live and one iteration.                                 *)
THEOREM FreshIsHonest == Spec => []FreshHonest
<1>1. TypeOK /\ Timely => FreshHonest
  <2> SUFFICES ASSUME TypeOK, Timely, steps = 0, sched.pc = "render",
                      NEW s \in Source, Fresh(s)
               PROVE  real - reading[s].began <= Ttl + IterationMax
    BY DEF FreshHonest
  <2>1. /\ reading[s].at \in Int /\ reading[s].began \in Int /\ reading[s].at <= reading[s].began
        /\ sched.now - reading[s].at <= Ttl
    BY DEF Fresh, TypeOK, Timely, Stamped, Reading
  <2>2. /\ real \in Int /\ sched.now \in Int /\ sched.since \in Int
        /\ sched.since - sched.now <= Before(Len(Registry) + 1) /\ real - sched.since <= MaxLag
    BY DEF TypeOK, Timely, LoopTimely
  <2>3. real - sched.now <= IterationMax
    <3>1. /\ Before(Len(Registry) + 1) \in Nat /\ MaxLag \in Nat
          /\ IterationMax = Before(Len(Registry) + 1) + MaxLag
      BY Durations, Delays, LengthNat
    <3> QED
      BY <2>2, <3>1
  <2>4. IterationMax \in Nat /\ Ttl \in Nat
    BY Durations, Delays
  <2> QED
    BY <2>1, <2>2, <2>3, <2>4, SMTT(30)
<1> QED
  BY <1>1, AlwaysTimely, PTL
=============================================================================
