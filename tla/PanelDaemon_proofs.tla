------------------------ MODULE PanelDaemon_proofs ------------------------
(***************************************************************************)
(* Proofs about PanelDaemon, for every set of images, every limit and lag, *)
(* and whatever the bus, the cable, the saves and restarts may do.         *)
(***************************************************************************)
EXTENDS PanelDaemon, FiniteSetTheorems, TLAPS

---------------------------------------------------------------------------
(* Instants. *)

LEMMA Sizes ==
  /\ Sec \in Nat \ {0} /\ Hour \in Nat \ {0} /\ MaxLag \in Nat /\ ReconnectCheck \in Nat \ {0}
  /\ EffectiveInterval \in Nat /\ MinWriteInterval \in Nat
  /\ MinWriteInterval <= EffectiveInterval
  /\ Horizon \in Nat /\ MaxLag <= Horizon
BY RulesAssumption, DaemonAssumption, SMT DEF EffectiveInterval, AtLeast, Horizon

LEMMA NoInstant == None \notin Instant /\ Instant \subseteq Int
BY Sizes, RulesAssumption DEF Instant

LEMMA Ageing ==
  ASSUME NEW t \in Instant
  PROVE  /\ Older(t) \in Instant
         /\ Older(t) = AtLeast(-Horizon, t - 1)
         /\ Older(t) <= t
BY NoInstant, Sizes DEF Older, AtLeast, Instant

LEMMA Chain ==
  ASSUME NEW a \in Int, NEW b \in Int, NEW c \in Int, NEW lag \in Nat, a <= b + lag, b <= c
  PROVE  a <= c + lag
OBVIOUS

(* Ageing keeps two instants within the lag of each other. *)
LEMMA AgeingTogether ==
  ASSUME NEW t \in Instant, NEW u \in Instant, t <= u + MaxLag
  PROVE  Older(t) <= Older(u) + MaxLag
BY Ageing, Sizes DEF AtLeast, Instant

(* num_seconds is at least k only if so many seconds have passed. *)
LEMMA WholeSeconds ==
  ASSUME NEW d \in Int, NEW k \in Nat \ {0}, NumSeconds(d) >= k
  PROVE  d >= k * Sec
<1> Sec \in Nat \ {0}
  BY Sizes
<1>1. d >= 0
  <2> SUFFICES ASSUME d < 0 PROVE FALSE
    OBVIOUS
  <2>1. (-d) \div Sec \in Nat
    BY SMT
  <2> QED
    BY <2>1 DEF NumSeconds
<1> DEFINE q == d \div Sec
<1>2. q \in Int /\ q >= k /\ q * Sec <= d
  BY <1>1, SMT DEF NumSeconds
<1>3. q * Sec >= k * Sec
  BY <1>2, SMT
<1>4. k * Sec \in Int /\ q * Sec \in Int
  BY <1>2, SMT
<1> HIDE DEF q
<1> QED
  BY <1>2, <1>3, <1>4, SMT

---------------------------------------------------------------------------
(* The rolling window never holds more than the allowance, so that there is *)
(* always a number for the next entry.                                      *)
Window(recent) ==
  /\ recent \in SUBSET [n : 0..InteractivePerHour, at : Instant]
  /\ IsFiniteSet(recent)
  /\ Cardinality(recent) <= InteractivePerHour

LEMMA WindowPart ==
  ASSUME NEW recent, Window(recent), NEW part \in SUBSET recent
  PROVE  Window(part)
<1>1. IsFiniteSet(part) /\ Cardinality(part) <= Cardinality(recent)
  BY FS_Subset DEF Window
<1>2. Cardinality(part) \in Nat /\ Cardinality(recent) \in Nat /\ InteractivePerHour \in Nat
  BY <1>1, FS_CardinalityType, RulesAssumption DEF Window
<1> QED
  BY <1>1, <1>2 DEF Window

LEMMA WindowRoom ==
  ASSUME NEW s, Window(s.recent), NEW now
  PROVE  Unused(s, now) \in 0..InteractivePerHour
<1> DEFINE N == 0..InteractivePerHour
           recent == InteractiveWithinHour(s.recent, now)
           ns == {e.n : e \in recent}
           f == [e \in recent |-> e.n]
<1>0. Window(recent)
  <2>1. recent \in SUBSET s.recent
    BY DEF InteractiveWithinHour
  <2> QED
    BY <2>1, WindowPart
<1> HIDE DEF recent
<1>1. InteractivePerHour \in Nat
  BY RulesAssumption
<1>2. f \in Surjection(recent, ns)
  BY DEF Surjection
<1>3. IsFiniteSet(ns) /\ Cardinality(ns) <= Cardinality(recent)
  BY <1>0, <1>2, FS_Surjection DEF Window
<1>4. IsFiniteSet(N) /\ Cardinality(N) = InteractivePerHour + 1
  BY <1>1, FS_Interval
<1>5. Cardinality(recent) \in Nat /\ Cardinality(ns) \in Nat
  BY <1>0, <1>3, FS_CardinalityType DEF Window
<1>6. Cardinality(recent) <= InteractivePerHour
  BY <1>0 DEF Window
<1>7. Cardinality(N) # Cardinality(ns)
  <2> HIDE DEF N, ns
  <2> QED
    BY <1>1, <1>3, <1>4, <1>5, <1>6
<1>8. PICK n \in N : n \notin ns
  <2>1. ns \subseteq N
    BY <1>0 DEF Window
  <2> QED
    BY <1>7, <2>1
<1>9. \A e \in recent : e.n # n
  BY <1>8
<1> QED
  BY <1>9 DEF recent, Unused

(* Pruning keeps the window, and so does an interactive entry where the     *)
(* rules allow one.                                                         *)
LEMMA WindowPushed ==
  ASSUME NEW recent, Window(recent), NEW lane \in Lane, NEW now \in Instant,
         NEW n \in 0..InteractivePerHour,
         lane = "interactive" =>
           Cardinality(InteractiveWithinHour(recent, now)) < InteractivePerHour
  PROVE  Window(InteractiveWithinHour(Pushed(recent, lane, now, n), now))
<1> DEFINE kept == InteractiveWithinHour(recent, now)
           new == InteractiveWithinHour(Pushed(recent, lane, now, n), now)
           e == [n |-> n, at |-> now]
<1>1. kept \subseteq recent /\ IsFiniteSet(kept) /\ Cardinality(kept) <= Cardinality(recent)
  <2>1. kept \in SUBSET recent
    BY DEF InteractiveWithinHour
  <2> QED
    BY <2>1, FS_Subset DEF Window
<1>2. Cardinality(kept) \in Nat /\ Cardinality(recent) \in Nat /\ InteractivePerHour \in Nat
  BY <1>1, FS_CardinalityType, RulesAssumption DEF Window
<1> HIDE DEF e
<1>3. CASE lane # "interactive"
  <2>1. new = kept
    BY <1>3 DEF Pushed, InteractiveWithinHour
  <2> QED
    BY <1>1, <1>2, <2>1 DEF Window
<1>4. CASE lane = "interactive"
  <2>1. new \in SUBSET (kept \cup {e})
    BY <1>4 DEF Pushed, InteractiveWithinHour, e
  <2>2. IsFiniteSet(kept \cup {e}) /\ Cardinality(kept \cup {e}) <= Cardinality(kept) + 1
    <3> HIDE DEF kept, new
    <3>1. IsFiniteSet(kept)
      BY <1>1
    <3>2. Cardinality(kept \cup {e}) = IF e \in kept THEN Cardinality(kept) ELSE Cardinality(kept) + 1
      BY <3>1, FS_AddElement
    <3> QED
      BY <1>2, <3>1, <3>2, FS_AddElement
  <2>3. IsFiniteSet(new) /\ Cardinality(new) <= Cardinality(kept \cup {e})
    BY <2>1, <2>2, FS_Subset
  <2>4. Cardinality(new) \in Nat /\ Cardinality(kept \cup {e}) \in Nat
    BY <2>2, <2>3, FS_CardinalityType
  <2>5. Cardinality(new) <= InteractivePerHour
    <3>1. Cardinality(kept) < InteractivePerHour
      BY <1>4
    <3> HIDE DEF kept, new
    <3> QED
      BY <1>2, <2>2, <2>3, <2>4, <3>1
  <2>6. e \in [n : 0..InteractivePerHour, at : Instant]
    BY DEF e
  <2>7. new \in SUBSET [n : 0..InteractivePerHour, at : Instant]
    BY <1>1, <2>1, <2>6 DEF Window
  <2> QED
    BY <2>3, <2>5, <2>7 DEF Window
<1> QED
  BY <1>3, <1>4

---------------------------------------------------------------------------
(* What a record leaves behind. *)
LEMMA UncountedRecord ==
  ASSUME NEW a, NEW at, NEW hash, NEW recent, NEW b
  PROVE  Uncounted([total |-> a, lastAt |-> at, lastHash |-> hash, recent |-> recent, byLane |-> b]) =
           [total |-> 0, lastAt |-> at, lastHash |-> hash, recent |-> recent,
            byLane |-> NewWear.byLane]
<1> DEFINE zero == NewWear.byLane
           r == [total |-> a, lastAt |-> at, lastHash |-> hash, recent |-> recent, byLane |-> b]
<1>1. Uncounted(r) = [r EXCEPT !.total = 0, !.byLane = zero]
  BY DEF Uncounted
<1> HIDE DEF zero
<1>2. [r EXCEPT !.total = 0, !.byLane = zero] = [[r EXCEPT !.total = 0] EXCEPT !.byLane = zero]
  OBVIOUS
<1>3. [r EXCEPT !.total = 0] =
        [total |-> 0, lastAt |-> at, lastHash |-> hash, recent |-> recent, byLane |-> b]
  OBVIOUS
<1>4. [[total |-> 0, lastAt |-> at, lastHash |-> hash, recent |-> recent, byLane |-> b]
         EXCEPT !.byLane = zero] =
        [total |-> 0, lastAt |-> at, lastHash |-> hash, recent |-> recent, byLane |-> zero]
  OBVIOUS
<1> QED
  BY <1>1, <1>2, <1>3, <1>4 DEF zero

LEMMA FailedRecord ==
  ASSUME NEW s, NEW img, NEW lane, NEW now, NEW n
  PROVE  \E b : RecordFailedUpload(s, img, lane, now, n) =
           [total |-> s.total + 1, lastAt |-> now, lastHash |-> None,
            recent |-> InteractiveWithinHour(Pushed(s.recent, lane, now, n), now), byLane |-> b]
<1> DEFINE total == s.total + 1
           recent == InteractiveWithinHour(Pushed(s.recent, lane, now, n), now)
           byLane == Count(s.byLane, {lane})
           u == [total |-> total, lastAt |-> now, lastHash |-> None, recent |-> recent,
                 byLane |-> byLane]
<1>1. RecordUpload(s, img, lane, now, n) =
        [total |-> total, lastAt |-> now, lastHash |-> img, recent |-> recent, byLane |-> byLane]
  BY DEF RecordUpload
<1> HIDE DEF total, recent, byLane
<1>2. InvalidateDisplayed(RecordUpload(s, img, lane, now, n)) = u
  BY <1>1 DEF InvalidateDisplayed
<1>3. RecordFailedUpload(s, img, lane, now, n) = [u EXCEPT !.byLane = Count(@, {"failed"})]
  BY <1>2 DEF RecordFailedUpload
<1>4. [u EXCEPT !.byLane = Count(@, {"failed"})] =
        [total |-> total, lastAt |-> now, lastHash |-> None, recent |-> recent,
         byLane |-> Count(byLane, {"failed"})]
  OBVIOUS
<1> QED
  BY <1>3, <1>4 DEF total, recent

LEMMA Recorded ==
  ASSUME NEW s \in WearState, Window(s.recent), NEW img \in Image, NEW lane \in Lane,
         NEW now \in Instant, Decide(s, img, lane, now) = "upload"
  PROVE  LET ok == Uncounted(RecordUpload(s, img, lane, now, Unused(s, now)))
             failed == Uncounted(RecordFailedUpload(s, img, lane, now, Unused(s, now)))
         IN  /\ ok \in WearState /\ failed \in WearState
             /\ Window(ok.recent) /\ Window(failed.recent)
             /\ ok.lastAt = now /\ failed.lastAt = now
             /\ ok.lastHash = img /\ failed.lastHash = None
<1> DEFINE n == Unused(s, now)
           r == InteractiveWithinHour(Pushed(s.recent, lane, now, n), now)
<1>1. n \in 0..InteractivePerHour
  BY WindowRoom
<1>2. lane = "interactive" =>
        Cardinality(InteractiveWithinHour(s.recent, now)) < InteractivePerHour
  BY DEF Decide, LaneAllows
<1>3. Window(r)
  BY <1>1, <1>2, WindowPushed
<1> HIDE DEF n, r
<1>4. Uncounted(RecordUpload(s, img, lane, now, n)) =
        [total |-> 0, lastAt |-> now, lastHash |-> img, recent |-> r, byLane |-> NewWear.byLane]
  BY UncountedRecord DEF RecordUpload, r
<1>5. Uncounted(RecordFailedUpload(s, img, lane, now, n)) =
        [total |-> 0, lastAt |-> now, lastHash |-> None, recent |-> r, byLane |-> NewWear.byLane]
  <2>1. PICK b : RecordFailedUpload(s, img, lane, now, n) =
          [total |-> s.total + 1, lastAt |-> now, lastHash |-> None, recent |-> r, byLane |-> b]
    BY FailedRecord DEF r
  <2> QED
    BY <2>1, UncountedRecord
<1> QED
  BY <1>3, <1>4, <1>5 DEF n, WearState, Window

(* The inductive invariant.  Whatever happens, the instants that the code   *)
(* remembers are no further back than those of the history, up to the lag,  *)
(* as long as the last transfer is known of.                                *)
LastAutoKnown ==
  lastAuto # None /\ recorded # "nowhere" =>
    state.lastAt # None /\ lastAuto <= state.lastAt + MaxLag

InstantsKnown ==
  /\ sched.pc # "sleep" => sched.at >= -MaxLag
  /\ LastAutoKnown
  /\ lastRecovery # None => lastRecovery <= lastCheck + MaxLag

(* Unless the bus has failed since the last whole transfer, the panel shows *)
(* its own screen or what memory names if it knows of the last transfer,    *)
(* and the file if it was saved; and one that is present and not known to   *)
(* be has just been powered.                                                *)
Trusted ==
  ~faulted /\ panel.present =>
    /\ \/ panel.shows = Native
       \/ /\ recorded # "nowhere" => state.lastHash = panel.shows
          /\ recorded = "file" => file.lastHash = panel.shows
    /\ wasPresent \/ (panel.shows = Native /\ lastAuto = None)

IInv ==
  /\ TypeOK
  /\ Window(state.recent)
  /\ Window(file.recent)
  /\ InstantsKnown
  /\ Trusted
  /\ HashTrueWhereRecorded
  /\ ResendsOnlyAfterFault
  /\ AutomaticSpaced

LEMMA Start == Init => IInv
<1> SUFFICES ASSUME Init PROVE IInv
  OBVIOUS
<1>1. NewWear \in WearState /\ Window(NewWear.recent)
  BY FS_EmptySet, RulesAssumption DEF NewWear, WearState, Window
<1>2. 0 \in Instant
  BY Sizes DEF Instant
<1>3. TypeOK
  BY <1>1, <1>2 DEF Init, TypeOK, Screen, Asleep
<1>4. state.lastHash = None /\ file.lastHash = None
  BY DEF Init, NewWear
<1>5. InstantsKnown
  <2>1. sched.pc = "sleep"
    BY DEF Init, Asleep
  <2> QED
    BY <2>1 DEF Init, InstantsKnown, LastAutoKnown
<1>6. Trusted
  BY DEF Init, Trusted
<1>7. HashTrueWhereRecorded
  BY <1>4 DEF HashTrueWhereRecorded
<1>8. ResendsOnlyAfterFault /\ AutomaticSpaced
  BY DEF Init, ResendsOnlyAfterFault, AutomaticSpaced
<1>9. Window(state.recent) /\ Window(file.recent)
  BY <1>1 DEF Init
<1> QED
  BY <1>3, <1>5, <1>6, <1>7, <1>8, <1>9 DEF IInv
---------------------------------------------------------------------------
(* Uploads.  An upload is called with the governor's state or, by a         *)
(* recovery, with that state once its displayed hash is forgotten.          *)
LEMMA Invalidated ==
  ASSUME NEW f \in WearState, NEW s \in WearState, s \in {f, [f EXCEPT !.lastHash = None]}
  PROVE  LET d == InvalidateDisplayed(s)
         IN  /\ d \in WearState
             /\ d \in {f, [f EXCEPT !.lastHash = None]}
             /\ d.lastHash = None /\ d.lastAt = s.lastAt /\ d.recent = s.recent
<1> DEFINE d == InvalidateDisplayed(s)
<1>1. d = [s EXCEPT !.lastHash = None]
  BY DEF InvalidateDisplayed
<1>2. d \in WearState /\ d.lastHash = None /\ d.lastAt = s.lastAt /\ d.recent = s.recent
  BY <1>1 DEF WearState
<1>3. [[f EXCEPT !.lastHash = None] EXCEPT !.lastHash = None] = [f EXCEPT !.lastHash = None]
  BY DEF WearState
<1> QED
  BY <1>1, <1>2, <1>3

Called(s, lane) ==
  \/ /\ lane # "recovery"
     /\ s = state
  \/ /\ lane = "recovery"
     /\ s = InvalidateDisplayed(state)
     /\ ~wasPresent
     /\ lastRecovery # None => -lastRecovery >= RecoveryAge

LEMMA Given ==
  ASSUME IInv, NEW s, NEW lane, Called(s, lane)
  PROVE  /\ s \in WearState
         /\ recorded # "memory" => s \in {file, [file EXCEPT !.lastHash = None]}
         /\ s.lastAt = state.lastAt /\ s.recent = state.recent /\ Window(s.recent)
         /\ s.lastHash \in {state.lastHash, None}
<1>1. /\ state \in WearState /\ file \in WearState
      /\ recorded # "memory" => state \in {file, [file EXCEPT !.lastHash = None]}
      /\ Window(state.recent)
  BY DEF IInv, TypeOK
<1>2. CASE s = state
  BY <1>1, <1>2
<1>3. CASE s = InvalidateDisplayed(state)
  <2>1. state \in {state, [state EXCEPT !.lastHash = None]}
    OBVIOUS
  <2>2. s \in WearState /\ s.lastHash = None /\ s.lastAt = state.lastAt /\ s.recent = state.recent
    BY <1>1, <1>3, <2>1, Invalidated
  <2>3. recorded # "memory" => s \in {file, [file EXCEPT !.lastHash = None]}
    BY <1>1, <1>3, Invalidated
  <2> QED
    BY <1>1, <2>2, <2>3
<1> QED
  BY <1>2, <1>3 DEF Called

(* The governor lets a scheduled write through only when the last recorded  *)
(* one, which no automatic transfer is younger than by more than the lag,   *)
(* is the interval old; and a panel that is there but was missed has just   *)
(* been powered, so that no automatic transfer has reached it yet.          *)
LEMMA AutomaticOld ==
  ASSUME IInv, NEW s, NEW img \in Image, NEW lane \in Lane, NEW now \in Instant,
         Called(s, lane), Decide(s, img, lane, now) = "upload",
         panel.present, ~faulted, recorded # "nowhere", lane # "interactive"
  PROVE  Within(AutomaticAge, lastAuto) = None
<1>1. CASE lane = "recovery"
  <2>1. lastAuto = None
    BY <1>1 DEF IInv, Trusted, Called
  <2> QED
    BY <2>1 DEF Within
<1>2. CASE lane = "scheduled"
  <2>1. SUFFICES ASSUME lastAuto # None
                 PROVE  -lastAuto >= AutomaticAge
    <3>1. lastAuto \in Instant \cup {None}
      BY DEF IInv, TypeOK
    <3>2. AutomaticAge \in Int
      BY Sizes DEF AutomaticAge
    <3> QED
      BY <3>1, <3>2, Sizes DEF Within, Instant
  <2>2. /\ state.lastAt # None /\ lastAuto <= state.lastAt + MaxLag
        /\ lastAuto \in Instant /\ state.lastAt \in Instant
    BY <2>1 DEF IInv, InstantsKnown, LastAutoKnown, TypeOK, WearState
  <2>3. s.lastAt = state.lastAt
    BY Given
  <2>4. NumSeconds(now - state.lastAt) >= EffectiveInterval
    BY <1>2, <2>2, <2>3 DEF Decide, LaneAllows
  <2>5. now - state.lastAt \in Int /\ now <= 0 /\ now \in Int /\ state.lastAt \in Int
        /\ lastAuto \in Int /\ lastAuto <= 0
    BY <2>2, Sizes DEF Instant
  <2>6. CASE EffectiveInterval = 0
    <3>1. MinWriteInterval * Sec = 0
      BY <2>6, Sizes
    <3> QED
      BY <2>5, <3>1, Sizes DEF AutomaticAge
  <2>7. CASE EffectiveInterval # 0
    <3> DEFINE e == EffectiveInterval * Sec
               m == MinWriteInterval * Sec
    <3>1. now - state.lastAt >= e
      BY <2>4, <2>5, <2>7, WholeSeconds, Sizes
    <3>2. e \in Int /\ m \in Int /\ m <= e
      BY Sizes, SMT
    <3> HIDE DEF e, m
    <3>3. -lastAuto >= m - MaxLag
      BY <2>2, <2>5, <3>1, <3>2, Sizes
    <3> QED
      BY <3>3 DEF AutomaticAge, m
  <2> QED
    BY <2>6, <2>7
<1> QED
  BY <1>1, <1>2 DEF Lane

(* What a transfer, whole or not, leaves in the history. *)
LEMMA Transferred ==
  ASSUME IInv, NEW s, NEW img \in Image, NEW lane \in Lane, NEW now \in Instant,
         Called(s, lane), Decide(s, img, lane, now) = "upload",
         panel.present, Transfer(img, lane)
  PROVE  /\ last'.lane \in Lane
         /\ ResendsOnlyAfterFault' /\ AutomaticSpaced'
<1> DEFINE excused == faulted \/ recorded = "nowhere"
<1>1. /\ last'.lane = lane /\ last'.again = (panel.shows = img) /\ last'.excused = excused
      /\ last'.sinceAuto = lastAuto /\ last'.sinceRecovery = lastRecovery
  BY DEF Transfer
<1>2. ResendsOnlyAfterFault'
  <2>1. SUFFICES ASSUME ~excused PROVE panel.shows # img
    BY <1>1 DEF ResendsOnlyAfterFault
  <2>2. Native # img
    BY DaemonAssumption
  <2>3. CASE lane = "recovery"
    BY <2>1, <2>2, <2>3 DEF IInv, Trusted, Called
  <2>4. CASE lane # "recovery"
    <3>1. state.lastHash # img
      BY <2>4 DEF Called, Decide
    <3> QED
      BY <2>1, <2>2, <3>1 DEF IInv, Trusted
  <2> QED
    BY <2>3, <2>4
<1>3. AutomaticSpaced'
  <2>1. SUFFICES ASSUME lane # "interactive"
                 PROVE  /\ lane = "recovery" => Within(RecoveryAge, lastRecovery) = None
                        /\ ~excused => Within(AutomaticAge, lastAuto) = None
    BY <1>1 DEF AutomaticSpaced
  <2>2. lane = "recovery" => Within(RecoveryAge, lastRecovery) = None
    <3>1. lastRecovery \in Instant \cup {None} /\ RecoveryAge \in Int
      BY Sizes DEF IInv, TypeOK, RecoveryAge
    <3> QED
      BY <3>1, NoInstant DEF Called, Within
  <2> QED
    BY <2>1, <2>2, AutomaticOld
<1> QED
  BY <1>1, <1>2, <1>3

(* The variables that an upload may change have their types afterwards, the *)
(* instants are known, and every part of the invariant about them holds.    *)
Instants ==
  /\ LastAutoKnown
  /\ {lastAuto, lastRecovery} \subseteq Instant \cup {None}

UploadTypes ==
  /\ panel \in [present : BOOLEAN, shows : Screen]
  /\ state \in WearState /\ file \in WearState
  /\ recorded \in {"file", "memory", "nowhere"}
  /\ recorded # "memory" => state \in {file, [file EXCEPT !.lastHash = None]}
  /\ wasPresent \in BOOLEAN /\ faulted \in BOOLEAN
  /\ last = None \/ last.lane \in Lane

Windows == Window(state.recent) /\ Window(file.recent)

UploadInv ==
  /\ UploadTypes
  /\ Instants
  /\ Windows
  /\ Trusted
  /\ HashTrueWhereRecorded
  /\ ResendsOnlyAfterFault
  /\ AutomaticSpaced

LEMMA UploadInvHolds == IInv => UploadInv
BY DEF IInv, TypeOK, InstantsKnown, UploadInv, UploadTypes, Instants, Windows

(* A step without a transfer asks nothing of the history. *)
LEMMA NothingSent ==
  ASSUME last' = None
  PROVE  ResendsOnlyAfterFault' /\ AutomaticSpaced'
BY DEF ResendsOnlyAfterFault, AutomaticSpaced

(* The instants after a transfer that was recorded, or that nobody knows of. *)
LEMMA TransferInstants ==
  ASSUME IInv, NEW img, NEW lane, NEW now \in Instant, now >= -MaxLag,
         Transfer(img, lane), state'.lastAt = now \/ recorded' = "nowhere"
  PROVE  Instants'
<1>1. 0 \in Instant /\ now # None /\ now \in Int
  BY Sizes, NoInstant DEF Instant
<1>2. {lastAuto, lastRecovery} \subseteq Instant \cup {None}
  BY DEF IInv, TypeOK
<1>3. {lastAuto', lastRecovery'} \subseteq Instant \cup {None}
  BY <1>1, <1>2 DEF Transfer
<1>4. lastAuto' # None => lastAuto' <= now + MaxLag
  BY <1>1, <1>3, Sizes DEF Instant
<1> QED
  BY <1>1, <1>3, <1>4 DEF Instants, LastAutoKnown

(* A save leaves the record on file, or in memory only. *)
LEMMA SaveKeeps ==
  ASSUME IInv, NEW saved \in BOOLEAN, Save(saved), state' \in WearState, Window(state'.recent)
  PROVE  /\ file' \in WearState /\ recorded' \in {"file", "memory"}
         /\ recorded' = "file" => file' = state'
         /\ Windows'
BY DEF IInv, TypeOK, Save, Windows

LEMMA UploadKeeps ==
  ASSUME IInv, NEW s, NEW img \in Image, NEW lane \in Lane, NEW now \in Instant,
         now >= -MaxLag, Called(s, lane), Upload(s, img, lane, now)
  PROVE  UploadInv'
<1> USE DEF UploadInv
<1>1. /\ s \in WearState
      /\ recorded # "memory" => s \in {file, [file EXCEPT !.lastHash = None]}
      /\ s.lastAt = state.lastAt /\ s.recent = state.recent /\ Window(s.recent)
      /\ s.lastHash \in {state.lastHash, None}
  BY Given
<1>2. UploadInv
  BY UploadInvHolds
<1>3. CASE Refused(s, img, lane, now)
  <2>1. s = state
    <3>1. SUFFICES ASSUME lane = "recovery" PROVE FALSE
      BY DEF Called
    <3>2. s.lastHash = None
      BY <3>1, Invalidated DEF Called, IInv, TypeOK
    <3> QED
      BY <1>3, <3>1, <3>2, DaemonAssumption DEF Refused, Decide, LaneAllows
  <2>2. /\ UNCHANGED <<panel, state, file, wasPresent, lastAuto, lastRecovery, recorded>>
        /\ last' = None /\ faulted' = faulted
    BY <1>2, <1>3, <2>1 DEF Refused, NoTransfer, UploadTypes
  <2>3. UploadTypes' /\ Instants' /\ Windows' /\ Trusted' /\ HashTrueWhereRecorded'
    BY <1>2, <2>2
    DEF UploadTypes, Instants, LastAutoKnown, Windows, Trusted, HashTrueWhereRecorded
  <2> QED
    BY <2>2, <2>3, NothingSent
<1>4. CASE OpenFails(s, img, lane, now)
  <2>1. /\ UNCHANGED <<panel, file, lastAuto, lastRecovery, recorded>>
        /\ state' = s /\ wasPresent' = FALSE
        /\ last' = None /\ faulted' = (faulted \/ panel.present)
    BY <1>4 DEF OpenFails, NoTransfer
  <2>2. UploadTypes'
    BY <1>1, <1>2, <2>1 DEF UploadTypes
  <2>3. Instants' /\ Windows'
    BY <1>1, <1>2, <2>1 DEF Instants, LastAutoKnown, Windows
  <2>4. Trusted'
    BY <2>1 DEF Trusted
  <2>5. HashTrueWhereRecorded'
    BY <1>1, <1>2, <2>1 DEF HashTrueWhereRecorded
  <2> QED
    BY <2>1, <2>2, <2>3, <2>4, <2>5, NothingSent
<1>5. CASE Sent(s, img, lane, now)
  <2>1. Decide(s, img, lane, now) = "upload" /\ panel.present /\ Transfer(img, lane)
    BY <1>5 DEF Sent
  <2>2. /\ state' \in WearState /\ Window(state'.recent)
        /\ state'.lastAt = now /\ state'.lastHash = img
    BY <1>1, <1>5, <2>1, Recorded DEF Sent
  <2>3. /\ file' \in WearState /\ recorded' \in {"file", "memory"}
        /\ recorded' = "file" => file' = state'
        /\ Windows'
    BY <1>5, <2>2, SaveKeeps DEF Sent
  <2>4. panel' = [panel EXCEPT !.shows = img] /\ wasPresent' = TRUE /\ faulted' = FALSE
    BY <1>5 DEF Sent
  <2>5. panel' \in [present : BOOLEAN, shows : Screen] /\ panel'.shows = img
    BY <1>2, <2>4 DEF UploadTypes, Screen
  <2>6. last'.lane \in Lane /\ ResendsOnlyAfterFault' /\ AutomaticSpaced'
    BY <2>1, Transferred
  <2>7. UploadTypes'
    BY <2>2, <2>3, <2>4, <2>5, <2>6 DEF UploadTypes
  <2>8. Instants'
    BY <2>1, <2>2, TransferInstants
  <2>9. Trusted' /\ HashTrueWhereRecorded'
    BY <2>2, <2>3, <2>4, <2>5 DEF Trusted, HashTrueWhereRecorded
  <2> QED
    BY <2>3, <2>6, <2>7, <2>8, <2>9
<1>6. CASE SendFails(s, img, lane, now)
  <2>1. Decide(s, img, lane, now) = "upload" /\ panel.present /\ Transfer(img, lane)
    BY <1>6 DEF SendFails
  <2>2. /\ state' \in WearState /\ Window(state'.recent)
        /\ state'.lastAt = now /\ state'.lastHash = None
    BY <1>1, <1>6, <2>1, Recorded DEF SendFails
  <2>3. /\ file' \in WearState /\ recorded' \in {"file", "memory"}
        /\ recorded' = "file" => file' = state'
        /\ Windows'
    BY <1>6, <2>2, SaveKeeps DEF SendFails
  <2>4. PICK shown \in Shown(img) : panel' = [panel EXCEPT !.shows = shown]
    BY <1>6 DEF SendFails
  <2>5. panel' \in [present : BOOLEAN, shows : Screen]
    BY <1>2, <2>4 DEF UploadTypes, Screen, Shown
  <2>6. last'.lane \in Lane /\ ResendsOnlyAfterFault' /\ AutomaticSpaced'
    BY <2>1, Transferred
  <2>7. wasPresent' = FALSE /\ faulted' = TRUE
    BY <1>6 DEF SendFails
  <2>8. UploadTypes'
    BY <2>2, <2>3, <2>5, <2>6, <2>7 DEF UploadTypes
  <2>9. Instants'
    BY <2>1, <2>2, TransferInstants
  <2>10. Trusted' /\ HashTrueWhereRecorded'
    BY <2>2, <2>3, <2>7 DEF Trusted, HashTrueWhereRecorded
  <2> QED
    BY <2>3, <2>6, <2>8, <2>9, <2>10
<1> QED
  BY <1>3, <1>4, <1>5, <1>6 DEF Upload
---------------------------------------------------------------------------
(* The rest of the invariant: what requests and the scheduler's loop keep. *)
LoopInv ==
  /\ layout \in Image
  /\ sched \in [pc : {"sleep", "render", "check"}, at : Instant]
  /\ lastCheck \in Instant
  /\ calm \in BOOLEAN
  /\ sched.pc # "sleep" => sched.at >= -MaxLag
  /\ lastRecovery # None => lastRecovery <= lastCheck + MaxLag

LEMMA TwoParts == IInv <=> UploadInv /\ LoopInv
BY DEF IInv, TypeOK, InstantsKnown, UploadInv, UploadTypes, Instants, Windows, LoopInv

LEMMA TwoPartsAfter == UploadInv' /\ LoopInv' => IInv'
BY DEF IInv, TypeOK, InstantsKnown, UploadInv, UploadTypes, Instants, Windows, LoopInv

(* A step that transfers nothing and touches no state of the daemon's. *)
LEMMA Untouched ==
  ASSUME UploadInv, UNCHANGED <<panel, dvars>>, NEW fault \in BOOLEAN, NoTransfer(fault)
  PROVE  UploadInv'
<1>1. /\ UNCHANGED <<panel, state, file, wasPresent, lastAuto, lastRecovery, recorded>>
      /\ last' = None /\ faulted' = (faulted \/ fault)
  BY DEF NoTransfer, dvars
<1>2. UploadTypes' /\ Instants' /\ Windows' /\ Trusted' /\ HashTrueWhereRecorded'
  BY <1>1
  DEF UploadInv, UploadTypes, Instants, LastAutoKnown, Windows, Trusted, HashTrueWhereRecorded
<1> QED
  BY <1>1, <1>2, NothingSent DEF UploadInv

LEMMA ClientSteps ==
  ASSUME IInv, NEW img \in Image, NEW lane \in {"interactive", "scheduled"},
         ChangeLayout(img) \/ RenderRequest(img, lane) \/ ShowImage(img, lane)
  PROVE  IInv'
<1>1. UploadInv /\ LoopInv
  BY TwoParts
<1>2. UNCHANGED <<sched, lastCheck, calm>> /\ layout' \in {img, layout}
  BY DEF ChangeLayout, RenderRequest, ShowImage
<1>3. CASE ChangeLayout(img)
  <2>1. UploadInv'
    BY <1>1, <1>3, Untouched DEF ChangeLayout
  <2>2. lastRecovery' = lastRecovery
    BY <1>3 DEF ChangeLayout, NoTransfer
  <2>3. LoopInv'
    BY <1>1, <1>2, <2>2 DEF LoopInv
  <2> QED
    BY <2>1, <2>3, TwoPartsAfter
<1>4. CASE Upload(state, img, lane, 0)
  <2>1. 0 \in Instant /\ 0 >= -MaxLag
    BY Sizes DEF Instant
  <2>2. Called(state, lane) /\ lane \in Lane /\ lane # "recovery"
    BY DEF Called, Lane
  <2>3. UploadInv'
    BY <1>4, <2>1, <2>2, UploadKeeps
  <2>4. lastRecovery' = lastRecovery
    BY <1>4, <2>2 DEF Upload, Refused, OpenFails, Sent, SendFails, NoTransfer, Transfer
  <2>5. LoopInv'
    BY <1>1, <1>2, <2>4 DEF LoopInv
  <2> QED
    BY <2>3, <2>5, TwoPartsAfter
<1> QED
  BY <1>3, <1>4 DEF RenderRequest, ShowImage

LEMMA AsleepTyped ==
  Asleep \in [pc : {"sleep", "render", "check"}, at : Instant] /\ Asleep.pc = "sleep"
<1>1. 0 \in Instant
  BY Sizes DEF Instant
<1> QED
  BY <1>1 DEF Asleep

LEMMA SchedulerSteps ==
  ASSUME IInv,
         \/ \E anyRan \in BOOLEAN, img \in Image : RunSources(anyRan, img)
         \/ ScheduledRender
         \/ SkipCheck
  PROVE  IInv'
<1>1. UploadInv /\ LoopInv
  BY TwoParts
<1>2. ASSUME NEW anyRan \in BOOLEAN, NEW img \in Image, RunSources(anyRan, img)
      PROVE  IInv'
  <2>1. UploadInv'
    BY <1>1, <1>2, Untouched DEF RunSources
  <2>2. 0 \in Instant /\ 0 >= -MaxLag
    BY Sizes DEF Instant
  <2>3. /\ sched' = [pc |-> IF anyRan THEN "render" ELSE "check", at |-> 0]
        /\ layout' \in {img, layout}
        /\ UNCHANGED <<lastCheck, calm, lastRecovery>>
    BY <1>2 DEF RunSources, NoTransfer
  <2>4. LoopInv'
    BY <1>1, <2>2, <2>3 DEF LoopInv
  <2> QED
    BY <2>1, <2>4, TwoPartsAfter
<1>3. CASE ScheduledRender
  <2>1. sched.at \in Instant /\ sched.at >= -MaxLag
    BY <1>1, <1>3 DEF LoopInv, ScheduledRender
  <2>2. Called(state, "scheduled") /\ "scheduled" \in Lane /\ layout \in Image
    BY <1>1 DEF Called, Lane, LoopInv
  <2>3. Upload(state, layout, "scheduled", sched.at)
    BY <1>3 DEF ScheduledRender
  <2>4. UploadInv'
    BY <2>1, <2>2, <2>3, UploadKeeps
  <2>5. lastRecovery' = lastRecovery
    BY <2>3 DEF Upload, Refused, OpenFails, Sent, SendFails, NoTransfer, Transfer
  <2>6. sched' = [sched EXCEPT !.pc = "check"] /\ UNCHANGED <<layout, lastCheck, calm>>
    BY <1>3 DEF ScheduledRender
  <2>7. LoopInv'
    BY <1>1, <2>1, <2>5, <2>6 DEF LoopInv
  <2> QED
    BY <2>4, <2>7, TwoPartsAfter
<1>4. CASE SkipCheck
  <2>1. UploadInv'
    BY <1>1, <1>4, Untouched DEF SkipCheck
  <2>2. sched' = Asleep /\ UNCHANGED <<layout, lastCheck, calm, lastRecovery>>
    BY <1>4 DEF SkipCheck, NoTransfer
  <2>3. LoopInv'
    BY <1>1, <2>2, AsleepTyped DEF LoopInv
  <2> QED
    BY <2>1, <2>3, TwoPartsAfter
<1> QED
  BY <1>2, <1>3, <1>4

(* A check comes no sooner than its period after the one before, from which *)
(* the latest recovery is at most the lag away.                             *)
LEMMA CheckAge ==
  ASSUME IInv, sched.pc = "check", CheckDue
  PROVE  /\ sched.at \in Instant /\ sched.at >= -MaxLag /\ lastCheck \in Instant
         /\ sched.at - lastCheck >= ReconnectCheck * Sec
         /\ lastRecovery # None => -lastRecovery >= RecoveryAge
<1>1. UploadInv /\ LoopInv
  BY TwoParts
<1>2. sched.at \in Instant /\ sched.at >= -MaxLag /\ lastCheck \in Instant
  BY <1>1 DEF LoopInv
<1>3. sched.at - lastCheck >= ReconnectCheck * Sec
  <2>1. sched.at \in Int /\ lastCheck \in Int
    BY <1>2, NoInstant
  <2>2. sched.at - lastCheck \in Int
    BY <2>1
  <2> QED
    BY <2>2, WholeSeconds, Sizes DEF CheckDue
<1>4. lastRecovery # None => -lastRecovery >= RecoveryAge
  <2> DEFINE r == ReconnectCheck * Sec
  <2>1. r \in Int /\ sched.at - lastCheck >= r
    BY <1>3, Sizes, SMT
  <2>2. sched.at \in Int /\ sched.at <= 0 /\ lastCheck \in Int
    BY <1>2, NoInstant DEF Instant
  <2>3. lastRecovery # None => lastRecovery \in Int /\ lastRecovery <= lastCheck + MaxLag
    BY <1>1, NoInstant DEF LoopInv, UploadInv, Instants
  <2> HIDE DEF r
  <2>4. lastRecovery # None => -lastRecovery >= r - MaxLag
    BY <2>1, <2>2, <2>3, Sizes
  <2> QED
    BY <2>4 DEF r, RecoveryAge
<1> QED
  BY <1>2, <1>3, <1>4

LEMMA CheckStep ==
  ASSUME IInv, DoCheck
  PROVE  IInv'
<1>1. UploadInv /\ LoopInv
  BY TwoParts
<1>2. layout \in Image /\ "recovery" \in Lane
  BY <1>1 DEF LoopInv, Lane
<1>3. /\ sched.at \in Instant /\ sched.at >= -MaxLag /\ lastCheck \in Instant
      /\ sched.at - lastCheck >= ReconnectCheck * Sec
      /\ lastRecovery # None => -lastRecovery >= RecoveryAge
  BY CheckAge DEF DoCheck
<1>5. PICK present \in BOOLEAN : CheckReconnect(present)
  BY DEF DoCheck
<1>6. UploadInv' /\ lastRecovery' \in {lastRecovery, 0}
  <2>1. CASE present /\ ~wasPresent
    <3>1. Upload(InvalidateDisplayed(state), layout, "recovery", sched.at)
      BY <1>5, <2>1 DEF CheckReconnect
    <3>2. Called(InvalidateDisplayed(state), "recovery")
      BY <1>3, <2>1 DEF Called
    <3>3. UploadInv'
      BY <1>2, <1>3, <3>1, <3>2, UploadKeeps
    <3>4. lastRecovery' \in {lastRecovery, 0}
      BY <3>1 DEF Upload, Refused, OpenFails, Sent, SendFails, NoTransfer, Transfer
    <3> QED
      BY <3>3, <3>4
  <2>2. CASE ~(present /\ ~wasPresent)
    <3>1. /\ wasPresent' = present
          /\ NoTransfer(present # panel.present)
          /\ UNCHANGED <<panel, state, file>>
      BY <1>5, <2>2 DEF CheckReconnect
    <3>2. /\ UNCHANGED <<lastAuto, lastRecovery, recorded>> /\ last' = None
          /\ faulted' = (faulted \/ present # panel.present)
      BY <3>1 DEF NoTransfer
    <3>3. UploadTypes' /\ Instants' /\ Windows' /\ HashTrueWhereRecorded'
      BY <1>1, <3>1, <3>2
      DEF UploadInv, UploadTypes, Instants, LastAutoKnown, Windows, HashTrueWhereRecorded
    <3>4. Trusted'
      BY <1>1, <3>1, <3>2 DEF UploadInv, Trusted
    <3> QED
      BY <3>2, <3>3, <3>4, NothingSent DEF UploadInv
  <2> QED
    BY <2>1, <2>2
<1>7. lastCheck' = sched.at /\ sched' = Asleep /\ UNCHANGED <<layout, calm>>
  BY DEF DoCheck
<1>8. LoopInv'
  <2>1. lastRecovery' # None => lastRecovery' <= lastCheck' + MaxLag
    <3>1. CASE lastRecovery' = 0
      <4>1. sched.at \in Int /\ sched.at >= -MaxLag /\ MaxLag \in Nat
        BY <1>3, NoInstant, Sizes
      <4>2. 0 <= sched.at + MaxLag
        BY <4>1
      <4> QED
        BY <1>7, <3>1, <4>2
    <3>2. CASE lastRecovery' = lastRecovery /\ lastRecovery # None
      <4> DEFINE r == ReconnectCheck * Sec
      <4>1. r \in Int /\ r >= 0 /\ sched.at - lastCheck >= r
        BY <1>3, Sizes, SMT
      <4>2. sched.at \in Int /\ lastCheck \in Int
        BY <1>3, NoInstant
      <4>3. lastRecovery \in Int /\ lastRecovery <= lastCheck + MaxLag
        BY <1>1, <3>2, NoInstant DEF LoopInv, UploadInv, Instants
      <4> HIDE DEF r
      <4> QED
        BY <1>7, <3>2, <4>1, <4>2, <4>3, Sizes
    <3> QED
      BY <1>6, <3>1, <3>2
  <2> QED
    BY <1>1, <1>3, <1>7, <2>1, AsleepTyped DEF LoopInv
<1> QED
  BY <1>6, <1>8, TwoPartsAfter
---------------------------------------------------------------------------
(* The environment. *)

(* A new daemon's loop starts afresh. *)
LEMMA ReloadLoop ==
  ASSUME NEW present \in BOOLEAN, NEW img \in Image, Reload(present, img),
         calm \in BOOLEAN, lastRecovery' \in Instant \cup {None}
  PROVE  LoopInv'
<1>1. sched' = Asleep /\ lastCheck' = 0 /\ layout' = img /\ calm' = calm
  BY DEF Reload
<1>2. 0 \in Instant
  BY Sizes DEF Instant
<1>3. lastRecovery' # None => lastRecovery' <= lastCheck' + MaxLag
  BY <1>1, Sizes DEF Instant
<1> QED
  BY <1>1, <1>2, <1>3, AsleepTyped DEF LoopInv

(* A new daemon reads the file, which differs from what the old one had in  *)
(* memory in nothing but a displayed hash that is there again, unless the   *)
(* last save had failed: then nobody knows of the last transfer any more.   *)
LEMMA RestartStep ==
  ASSUME IInv, NEW present \in BOOLEAN, NEW img \in Image, Restart(present, img)
  PROVE  IInv'
<1>1. UploadInv /\ LoopInv
  BY TwoParts
<1>2. /\ state' = file /\ file' = file /\ panel' = panel /\ wasPresent' = present
      /\ last' = None /\ UNCHANGED <<lastAuto, lastRecovery>>
      /\ faulted' = (faulted \/ present # panel.present)
      /\ recorded' = IF recorded = "file" THEN "file" ELSE "nowhere"
  BY DEF Restart, Reload
<1>3. recorded = "file" => file.lastAt = state.lastAt
  BY <1>1 DEF UploadInv, UploadTypes, WearState
<1>4. UploadTypes' /\ Windows'
  BY <1>1, <1>2 DEF UploadInv, UploadTypes, Windows
<1>5. Instants'
  BY <1>1, <1>2, <1>3 DEF UploadInv, Instants, LastAutoKnown
<1>6. Trusted' /\ HashTrueWhereRecorded'
  BY <1>1, <1>2 DEF UploadInv, Trusted, HashTrueWhereRecorded
<1>7. UploadInv'
  BY <1>2, <1>4, <1>5, <1>6, NothingSent DEF UploadInv
<1>8. LoopInv'
  BY <1>1, <1>2, ReloadLoop DEF UploadInv, Instants, LoopInv, Restart
<1> QED
  BY <1>7, <1>8, TwoPartsAfter

(* A daemon that dies in an upload leaves the file of before, from which    *)
(* nothing is claimed of what the panel shows or of when it was written.    *)
LEMMA InterruptedStep ==
  ASSUME IInv, NEW present \in BOOLEAN, NEW img \in Image, Reload(present, img),
         NEW s, NEW asked \in Image, NEW lane \in Lane, NEW now \in Instant,
         now >= -MaxLag, Called(s, lane), Interrupted(s, asked, lane, now)
  PROVE  IInv'
<1>1. UploadInv /\ LoopInv
  BY TwoParts
<1>2. /\ state' = file /\ file' = file /\ wasPresent' = present
      /\ faulted' = (faulted \/ present # panel.present)
  BY DEF Reload
<1>3. /\ Decide(s, asked, lane, now) = "upload" /\ panel.present /\ recorded' = "nowhere"
      /\ Transfer(asked, lane)
  BY DEF Interrupted
<1>4. PICK shown \in Shown(asked) : panel' = [panel EXCEPT !.shows = shown]
  BY DEF Interrupted
<1>5. panel' \in [present : BOOLEAN, shows : Screen] /\ panel'.present = panel.present
  BY <1>1, <1>4 DEF UploadInv, UploadTypes, Screen, Shown
<1>6. last'.lane \in Lane /\ ResendsOnlyAfterFault' /\ AutomaticSpaced'
  BY <1>3, Transferred
<1>7. UploadTypes' /\ Windows'
  BY <1>1, <1>2, <1>3, <1>5, <1>6 DEF UploadInv, UploadTypes, Windows
<1>8. Instants'
  BY <1>3, TransferInstants
<1>9. Trusted' /\ HashTrueWhereRecorded'
  BY <1>2, <1>3, <1>5 DEF Trusted, HashTrueWhereRecorded
<1>10. LoopInv'
  BY <1>1, <1>8, ReloadLoop DEF Instants, LoopInv
<1> QED
  BY <1>6, <1>7, <1>8, <1>9, <1>10, TwoPartsAfter DEF UploadInv

LEMMA DeathStep ==
  ASSUME IInv, NEW present \in BOOLEAN, NEW img \in Image, DiesInUpload(present, img)
  PROVE  IInv'
<1>1. UploadInv /\ LoopInv
  BY TwoParts
<1>2. Reload(present, img) /\ layout \in Image
  BY <1>1 DEF DiesInUpload, LoopInv
<1>3. ASSUME NEW asked \in Image, NEW lane \in {"interactive", "scheduled"},
             Interrupted(state, asked, lane, 0)
      PROVE  IInv'
  <2>1. 0 \in Instant /\ 0 >= -MaxLag
    BY Sizes DEF Instant
  <2>2. Called(state, lane) /\ lane \in Lane
    BY DEF Called, Lane
  <2> QED
    BY <1>2, <1>3, <2>1, <2>2, InterruptedStep
<1>4. CASE sched.pc = "render" /\ Interrupted(state, layout, "scheduled", sched.at)
  <2>1. sched.at \in Instant /\ sched.at >= -MaxLag
    BY <1>1, <1>4 DEF LoopInv
  <2>2. Called(state, "scheduled") /\ "scheduled" \in Lane
    BY DEF Called, Lane
  <2> QED
    BY <1>2, <1>4, <2>1, <2>2, InterruptedStep
<1>5. CASE /\ sched.pc = "check" /\ CheckDue /\ ~wasPresent
           /\ Interrupted(InvalidateDisplayed(state), layout, "recovery", sched.at)
  <2>1. /\ sched.at \in Instant /\ sched.at >= -MaxLag
        /\ lastRecovery # None => -lastRecovery >= RecoveryAge
    BY <1>5, CheckAge
  <2>2. Called(InvalidateDisplayed(state), "recovery") /\ "recovery" \in Lane
    BY <1>5, <2>1 DEF Called, Lane
  <2> QED
    BY <1>2, <1>5, <2>1, <2>2, InterruptedStep
<1> QED
  BY <1>3, <1>4, <1>5 DEF DiesInUpload

LEMMA CableSteps ==
  ASSUME IInv, Unplug \/ Plug \/ Settle
  PROVE  IInv'
<1>1. UploadInv /\ LoopInv
  BY TwoParts
<1>2. CASE Unplug
  <2>1. /\ panel' = [panel EXCEPT !.present = FALSE] /\ UNCHANGED <<state, file, wasPresent>>
        /\ last' = None /\ UNCHANGED <<lastAuto, lastRecovery, recorded>>
        /\ faulted' = (faulted \/ FALSE)
        /\ UNCHANGED <<layout, sched, lastCheck, calm>>
    BY <1>2 DEF Unplug, NoTransfer, dvars
  <2>2. /\ panel' \in [present : BOOLEAN, shows : Screen]
        /\ ~panel'.present /\ panel'.shows = panel.shows
    BY <1>1, <2>1 DEF UploadInv, UploadTypes
  <2>3. UploadTypes' /\ Instants' /\ Windows' /\ Trusted' /\ HashTrueWhereRecorded'
    BY <1>1, <2>1, <2>2
    DEF UploadInv, UploadTypes, Instants, LastAutoKnown, Windows, Trusted, HashTrueWhereRecorded
  <2>4. LoopInv'
    BY <1>1, <2>1 DEF LoopInv
  <2> QED
    BY <2>1, <2>3, <2>4, NothingSent, TwoPartsAfter DEF UploadInv
<1>3. CASE Plug
  <2>1. /\ panel' = [present |-> TRUE, shows |-> Native] /\ UNCHANGED <<state, file, wasPresent>>
        /\ last' = None /\ lastAuto' = None
        /\ UNCHANGED <<lastRecovery, faulted, recorded, layout, sched, lastCheck, calm>>
    BY <1>3 DEF Plug, dvars
  <2>2. UploadTypes' /\ Instants' /\ Windows'
    BY <1>1, <2>1 DEF UploadInv, UploadTypes, Instants, LastAutoKnown, Windows, Screen
  <2>3. Trusted' /\ HashTrueWhereRecorded'
    BY <2>1 DEF Trusted, HashTrueWhereRecorded
  <2>4. LoopInv'
    BY <1>1, <2>1 DEF LoopInv
  <2> QED
    BY <2>1, <2>2, <2>3, <2>4, NothingSent, TwoPartsAfter DEF UploadInv
<1>4. CASE Settle
  <2>1. UploadInv'
    BY <1>1, <1>4, Untouched DEF Settle
  <2>2. calm' = TRUE /\ UNCHANGED <<layout, sched, lastCheck, lastRecovery>>
    BY <1>4 DEF Settle, NoTransfer
  <2>3. LoopInv'
    BY <1>1, <2>2 DEF LoopInv
  <2> QED
    BY <2>1, <2>3, TwoPartsAfter
<1> QED
  BY <1>2, <1>3, <1>4

---------------------------------------------------------------------------
(* The passing of time. *)
LEMMA OlderWear ==
  ASSUME NEW s \in WearState
  PROVE  LET recent == Countable({[e EXCEPT !.at = Older(@)] : e \in s.recent})
         IN  /\ OlderState(s) = [total |-> 0, lastAt |-> Older(s.lastAt), lastHash |-> s.lastHash,
                                 recent |-> recent, byLane |-> NewWear.byLane]
             /\ OlderState(s) \in WearState
<1> DEFINE aged == {[e EXCEPT !.at = Older(@)] : e \in s.recent}
           recent == Countable(aged)
           at == Older(s.lastAt)
           zero == NewWear.byLane
           t == [s EXCEPT !.lastAt = at]
<1>1. OlderState(s) = [s EXCEPT !.lastAt = at, !.recent = recent]
  BY DEF OlderState
<1>2. s.lastAt \in Instant \cup {None} /\ s.recent \in SUBSET [n : 0..InteractivePerHour, at : Instant]
  BY DEF WearState
<1>3. at \in Instant \cup {None}
  BY <1>2, Ageing DEF Older
<1>4. recent \in SUBSET [n : 0..InteractivePerHour, at : Instant]
  <2>1. SUFFICES ASSUME NEW e \in s.recent
                 PROVE  [e EXCEPT !.at = Older(@)] \in [n : 0..InteractivePerHour, at : Instant]
    BY DEF Countable, InteractiveWithinHour
  <2>2. e \in [n : 0..InteractivePerHour, at : Instant]
    BY <1>2
  <2>3. Older(e.at) \in Instant
    BY <2>2, Ageing
  <2> QED
    BY <2>2, <2>3
<1>5. s = [total |-> 0, lastAt |-> s.lastAt, lastHash |-> s.lastHash, recent |-> s.recent,
           byLane |-> zero]
  BY DEF WearState
<1> HIDE DEF recent, at, zero
<1>6. t = [total |-> 0, lastAt |-> at, lastHash |-> s.lastHash, recent |-> s.recent,
           byLane |-> zero]
  BY <1>5
<1>7. [s EXCEPT !.lastAt = at, !.recent = recent] = [t EXCEPT !.recent = recent]
  BY <1>5
<1> HIDE DEF t
<1>8. [t EXCEPT !.recent = recent] =
        [total |-> 0, lastAt |-> at, lastHash |-> s.lastHash, recent |-> recent, byLane |-> zero]
  BY <1>6
<1>9. OlderState(s) =
        [total |-> 0, lastAt |-> at, lastHash |-> s.lastHash, recent |-> recent, byLane |-> zero]
  BY <1>1, <1>7, <1>8 DEF t
<1>10. s.lastHash \in Image \cup {None}
  BY DEF WearState
<1>11. OlderState(s) \in WearState
  BY <1>3, <1>4, <1>9, <1>10 DEF WearState, zero
<1> QED
  BY <1>9, <1>11 DEF recent, at, zero

LEMMA OlderParts ==
  ASSUME NEW s \in WearState
  PROVE  /\ OlderState(s) \in WearState
         /\ OlderState(s).lastHash = s.lastHash
         /\ OlderState(s).lastAt = Older(s.lastAt)
<1> DEFINE recent == Countable({[e EXCEPT !.at = Older(@)] : e \in s.recent})
           zero == NewWear.byLane
<1>1. /\ OlderState(s) = [total |-> 0, lastAt |-> Older(s.lastAt), lastHash |-> s.lastHash,
                          recent |-> recent, byLane |-> zero]
      /\ OlderState(s) \in WearState
  BY OlderWear
<1> HIDE DEF recent, zero
<1> QED
  BY <1>1

LEMMA OlderWindow ==
  ASSUME NEW s \in WearState, Window(s.recent)
  PROVE  Window(OlderState(s).recent)
<1> DEFINE aged == {[e EXCEPT !.at = Older(@)] : e \in s.recent}
           recent == Countable(aged)
           f == [e \in s.recent |-> [e EXCEPT !.at = Older(@)]]
<1>1. OlderState(s).recent = recent /\ recent \in SUBSET [n : 0..InteractivePerHour, at : Instant]
  BY OlderWear DEF WearState
<1>2. f \in Surjection(s.recent, aged)
  BY DEF Surjection
<1>3. IsFiniteSet(recent) /\ Cardinality(recent) <= Cardinality(s.recent)
  <2>1. IsFiniteSet(aged) /\ Cardinality(aged) <= Cardinality(s.recent)
    BY <1>2, FS_Surjection DEF Window
  <2>2. recent \in SUBSET aged
    BY DEF Countable, InteractiveWithinHour
  <2> HIDE DEF aged, recent
  <2>3. IsFiniteSet(recent) /\ Cardinality(recent) <= Cardinality(aged)
    BY <2>1, <2>2, FS_Subset
  <2>4. Cardinality(recent) \in Nat /\ Cardinality(aged) \in Nat /\ Cardinality(s.recent) \in Nat
    BY <2>1, <2>3, FS_CardinalityType DEF Window
  <2> QED
    BY <2>1, <2>3, <2>4
<1>4. Cardinality(recent) \in Nat /\ Cardinality(s.recent) \in Nat /\ InteractivePerHour \in Nat
  BY <1>3, FS_CardinalityType, RulesAssumption DEF Window
<1>5. Cardinality(s.recent) <= InteractivePerHour
  BY DEF Window
<1> HIDE DEF recent
<1> QED
  BY <1>1, <1>3, <1>4, <1>5 DEF Window

LEMMA TickStep ==
  ASSUME IInv, Tick
  PROVE  IInv'
<1>1. UploadInv /\ LoopInv
  BY TwoParts
<1>2. /\ state' = OlderState(state) /\ file' = OlderState(file)
      /\ sched' = (IF sched = Asleep THEN Asleep ELSE [sched EXCEPT !.at = Older(@)])
      /\ lastCheck' = AtLeast(-(ReconnectCheck * Sec + MaxLag), Older(lastCheck))
      /\ lastAuto' = Within(AutomaticAge, Older(lastAuto))
      /\ lastRecovery' = Within(RecoveryAge, Older(lastRecovery))
      /\ last' = None /\ UNCHANGED <<panel, wasPresent, layout, faulted, recorded, calm>>
  BY DEF Tick
<1>3. /\ state \in WearState /\ file \in WearState
      /\ state' \in WearState /\ file' \in WearState
      /\ state'.lastHash = state.lastHash /\ file'.lastHash = file.lastHash
      /\ state'.lastAt = Older(state.lastAt)
  <2>1. state \in WearState /\ file \in WearState
    BY <1>1 DEF UploadInv, UploadTypes
  <2>2. state' = OlderState(state) /\ file' = OlderState(file)
    BY <1>2
  <2> QED
    BY <2>1, <2>2, OlderParts
<1>4. recorded' # "memory" => state' \in {file', [file' EXCEPT !.lastHash = None]}
  <2>1. CASE state = file
    BY <1>2, <2>1
  <2>2. CASE state = [file EXCEPT !.lastHash = None]
    <3> DEFINE r == Countable({[e EXCEPT !.at = Older(@)] : e \in file.recent})
               at == Older(file.lastAt)
               zero == NewWear.byLane
    <3>1. state.lastHash = None /\ state.lastAt = file.lastAt /\ state.recent = file.recent
      BY <1>3, <2>2 DEF WearState
    <3>2. file' = [total |-> 0, lastAt |-> at, lastHash |-> file.lastHash, recent |-> r,
                   byLane |-> zero]
      BY <1>2, <1>3, OlderWear
    <3>3. state' = [total |-> 0, lastAt |-> at, lastHash |-> None, recent |-> r, byLane |-> zero]
      BY <1>2, <1>3, <3>1, OlderWear
    <3> HIDE DEF r, at, zero
    <3>4. [file' EXCEPT !.lastHash = None] =
            [total |-> 0, lastAt |-> at, lastHash |-> None, recent |-> r, byLane |-> zero]
      BY <3>2
    <3> QED
      BY <3>3, <3>4
  <2> QED
    BY <1>1, <1>2, <2>1, <2>2 DEF UploadInv, UploadTypes
<1>5. {lastAuto, lastRecovery} \subseteq Instant \cup {None} /\ lastCheck \in Instant
  BY <1>1 DEF UploadInv, Instants, LoopInv
<1>6. \A t \in Instant \cup {None} : \A age : Within(age, Older(t)) \in {None, Older(t)}
  BY DEF Within
<1>7. Older(None) = None
  BY DEF Older
<1>8. {lastAuto', lastRecovery'} \subseteq Instant \cup {None}
  BY <1>2, <1>5, <1>6, <1>7, Ageing
<1>9. Instants'
  <2>1. SUFFICES ASSUME lastAuto' # None, recorded' # "nowhere"
                 PROVE  state'.lastAt # None /\ lastAuto' <= state'.lastAt + MaxLag
    BY <1>8 DEF Instants, LastAutoKnown
  <2>2. lastAuto' = Older(lastAuto) /\ lastAuto # None
    BY <1>2, <1>5, <1>6, <1>7, <2>1
  <2>3. /\ lastAuto \in Instant /\ state.lastAt \in Instant
        /\ lastAuto <= state.lastAt + MaxLag
    BY <1>1, <1>2, <1>3, <1>5, <2>1, <2>2 DEF UploadInv, Instants, LastAutoKnown, WearState
  <2>4. Older(lastAuto) <= Older(state.lastAt) + MaxLag /\ Older(state.lastAt) \in Instant
    BY <2>3, Ageing, AgeingTogether
  <2> QED
    BY <1>3, <2>2, <2>4, NoInstant
<1>10. Trusted' /\ HashTrueWhereRecorded'
  <2>1. lastAuto = None => lastAuto' = None
    BY <1>2, <1>7 DEF Within
  <2>2. HashTrueWhereRecorded'
    BY <1>1, <1>2, <1>3 DEF UploadInv, HashTrueWhereRecorded
  <2>3. Trusted'
    BY <1>1, <1>2, <1>3, <2>1 DEF UploadInv, Trusted
  <2> QED
    BY <2>2, <2>3
<1>11. UploadInv'
  <2>1. UploadTypes'
    BY <1>1, <1>2, <1>3, <1>4 DEF UploadInv, UploadTypes
  <2>2. Windows'
    BY <1>1, <1>2, <1>3, OlderWindow DEF UploadInv, Windows
  <2> QED
    BY <1>2, <1>9, <1>10, <2>1, <2>2, NothingSent DEF UploadInv
<1>12. LoopInv'
  <2>1. /\ sched \in [pc : {"sleep", "render", "check"}, at : Instant]
        /\ layout \in Image /\ calm \in BOOLEAN
    BY <1>1 DEF LoopInv
  <2>2. Older(sched.at) \in Instant /\ Older(lastCheck) \in Instant
    BY <1>5, <2>1, Ageing
  <2>3. lastCheck' \in Instant /\ Older(lastCheck) <= lastCheck'
    <3> DEFINE r == ReconnectCheck * Sec
    <3>1. r \in Nat /\ r + MaxLag <= Horizon
      <4>1. r \in Nat /\ Hour \in Nat /\ EffectiveInterval * Sec \in Nat
        BY Sizes, SMT
      <4> QED
        BY <4>1, Sizes DEF Horizon, AtLeast
    <3>2. lastCheck' = AtLeast(-(r + MaxLag), Older(lastCheck))
      BY <1>2
    <3> HIDE DEF r
    <3>3. -(r + MaxLag) \in Instant
      BY <3>1, Sizes DEF Instant
    <3>4. -(r + MaxLag) \in Int /\ Older(lastCheck) \in Int
      BY <2>2, <3>3, NoInstant
    <3>5. CASE Older(lastCheck) < -(r + MaxLag)
      BY <3>2, <3>3, <3>4, <3>5 DEF AtLeast
    <3>6. CASE ~(Older(lastCheck) < -(r + MaxLag))
      <4>1. lastCheck' = Older(lastCheck)
        BY <3>2, <3>6 DEF AtLeast
      <4> QED
        BY <2>2, <3>4, <4>1
    <3> QED
      BY <3>5, <3>6
  <2>4. /\ sched' \in [pc : {"sleep", "render", "check"}, at : Instant]
        /\ sched'.pc # "sleep" => sched'.at >= -MaxLag
    <3>1. CASE sched = Asleep
      BY <1>2, <3>1, AsleepTyped
    <3>2. CASE sched # Asleep
      <4>1. sched' = [sched EXCEPT !.at = Older(@)]
        BY <1>2, <3>2
      <4>2. sched.pc # "sleep" => Older(sched.at) >= -MaxLag
        <5>1. SUFFICES ASSUME sched.pc # "sleep" PROVE Older(sched.at) >= -MaxLag
          OBVIOUS
        <5>2. sched.at > -MaxLag /\ sched.at \in Int
          BY <2>1, <5>1, NoInstant DEF Tick
        <5>3. Older(sched.at) = AtLeast(-Horizon, sched.at - 1)
          BY <2>1, Ageing
        <5> QED
          BY <5>2, <5>3, Sizes DEF AtLeast
      <4> QED
        BY <2>1, <2>2, <4>1, <4>2
    <3> QED
      BY <3>1, <3>2
  <2>5. lastRecovery' # None => lastRecovery' <= lastCheck' + MaxLag
    <3>1. SUFFICES ASSUME lastRecovery' # None
                   PROVE  lastRecovery' <= lastCheck' + MaxLag
      OBVIOUS
    <3>2. lastRecovery' = Older(lastRecovery) /\ lastRecovery # None
      BY <1>2, <1>5, <1>6, <1>7, <3>1
    <3>3. lastRecovery \in Instant /\ lastRecovery <= lastCheck + MaxLag
      BY <1>1, <1>5, <3>2 DEF LoopInv
    <3>4. Older(lastRecovery) <= Older(lastCheck) + MaxLag /\ Older(lastRecovery) \in Instant
      BY <1>5, <3>3, Ageing, AgeingTogether
    <3>5. /\ lastRecovery' \in Int /\ lastCheck' \in Int /\ Older(lastCheck) \in Int
          /\ lastRecovery' <= Older(lastCheck) + MaxLag
      BY <2>2, <2>3, <3>2, <3>4, NoInstant
    <3>6. MaxLag \in Nat /\ Older(lastCheck) <= lastCheck'
      BY <2>3, Sizes
    <3> QED
      BY <3>5, <3>6, Chain
  <2> QED
    BY <1>2, <2>1, <2>3, <2>4, <2>5 DEF LoopInv
<1> QED
  BY <1>11, <1>12, TwoPartsAfter

---------------------------------------------------------------------------
LEMMA EveryStep == IInv /\ [Next]_vars => IInv'
<1> SUFFICES ASSUME IInv, [Next]_vars PROVE IInv'
  OBVIOUS
<1>1. CASE Next
  <2>1. "interactive" \in {"interactive", "scheduled"}
    OBVIOUS
  <2> QED
    BY <1>1, <2>1, ClientSteps, SchedulerSteps, CheckStep, RestartStep, DeathStep,
       CableSteps, TickStep
    DEF Next
<1>2. CASE UNCHANGED vars
  <2>1. /\ UNCHANGED <<panel, state, file, wasPresent>>
        /\ UNCHANGED <<last, lastAuto, lastRecovery, faulted, recorded>>
        /\ UNCHANGED <<layout, sched, lastCheck, calm>>
    BY <1>2 DEF vars, dvars, history
  <2>2. UploadInv /\ LoopInv
    BY TwoParts
  <2>3. UploadTypes' /\ Instants' /\ Windows' /\ Trusted' /\ HashTrueWhereRecorded'
    BY <2>1, <2>2
    DEF UploadInv, UploadTypes, Instants, LastAutoKnown, Windows, Trusted, HashTrueWhereRecorded
  <2>4. ResendsOnlyAfterFault' /\ AutomaticSpaced'
    BY <2>1, <2>2 DEF UploadInv, ResendsOnlyAfterFault, AutomaticSpaced
  <2>5. LoopInv'
    BY <2>1, <2>2 DEF LoopInv
  <2> QED
    BY <2>3, <2>4, <2>5, TwoPartsAfter DEF UploadInv
<1> QED
  BY <1>1, <1>2

LEMMA Invariance == Spec => []IInv
BY Start, EveryStep, PTL DEF Spec

(* TypeOK is an invariant: every variable of the daemon, the panel and the  *)
(* scheduler's loop keeps its type, the rolling window never runs out of    *)
(* numbers, and memory and wear.json differ in nothing but a displayed hash *)
(* that was invalidated in memory, unless the latest save failed and that   *)
(* daemon still runs (Governor::record_upload drops the error).             *)
THEOREM TypeCorrect == Spec => []TypeOK
<1>1. IInv => TypeOK
  BY DEF IInv
<1> QED
  BY <1>1, Invariance, PTL

(* record_upload, record_failed_upload and invalidate_displayed together    *)
(* keep the displayed hash true but for a power cycle, in memory and, once  *)
(* saved, on file: whatever fails on the bus and in earlier saves, and      *)
(* whenever the daemon was replaced or died, a hash names no image that     *)
(* another or a torn one has replaced on the panel, from the first transfer *)
(* on that was recorded again.                                              *)
THEOREM HashesTrue == Spec => []HashTrueWhereRecorded
<1>1. IInv => HashTrueWhereRecorded
  BY DEF IInv
<1> QED
  BY <1>1, Invariance, PTL

(* Governor::decide's Unchanged does its duty across restarts, recoveries,  *)
(* late iterations and failed saves: unless the bus has failed since the    *)
(* last whole transfer, or the last transfer is known of nowhere, none      *)
(* writes the image that the panel already shows.                           *)
THEOREM NeverResent == Spec => []ResendsOnlyAfterFault
<1>1. IInv => ResendsOnlyAfterFault
  BY DEF IInv
<1> QED
  BY <1>1, Invariance, PTL

(* The hard floor of automatic writes and the period of check_reconnect     *)
(* reach the panel, for every interval, period and lag: whatever fails,     *)
(* recoveries keep the period between them, deaths in one included; and     *)
(* automatic transfers keep the floor unless the bus or the power failed in *)
(* between, or the last transfer is known of nowhere.  Each is less the lag *)
(* of a late iteration.                                                     *)
THEOREM WritesSpaced == Spec => []AutomaticSpaced
<1>1. IInv => AutomaticSpaced
  BY DEF IInv
<1> QED
  BY <1>1, Invariance, PTL
===========================================================================
