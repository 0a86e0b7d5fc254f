------------------------- MODULE Governor_proofs -------------------------
(***************************************************************************)
(* Proofs about Governor, for every set of tasks and images, every limit   *)
(* and every bound.                                                        *)
(***************************************************************************)
EXTENDS Governor, TLAPS, FiniteSetTheorems

---------------------------------------------------------------------------
(* Types of the rules. *)

(* record_upload, record_failed_upload and invalidate_displayed map a wear  *)
(* state to a wear state.                                                   *)
LEMMA RulesType ==
  ASSUME NEW s \in WearState, NEW img \in Image, NEW lane \in Lane,
         NEW now \in Time, NEW n \in Nat
  PROVE  /\ InvalidateDisplayed(s) \in WearState
         /\ RecordUpload(s, img, lane, now, n) \in WearState
         /\ RecordFailedUpload(s, img, lane, now, n) \in WearState
<1>1. ASSUME NEW t \in WearState PROVE InvalidateDisplayed(t) \in WearState
  BY <1>1 DEF InvalidateDisplayed, WearState
<1>2. ASSUME NEW b \in [LaneKey -> Nat], NEW K
      PROVE  Count(b, K) \in [LaneKey -> Nat]
  BY <1>2 DEF Count
<1>3. RecordUpload(s, img, lane, now, n) \in WearState
  <2>1. [n |-> n, at |-> now] \in Entry
    BY DEF Entry
  <2>2. Count(s.byLane, {lane}) \in [LaneKey -> Nat]
    BY <1>2 DEF WearState
  <2>3. InteractiveWithinHour(Pushed(s.recent, lane, now, n), now) \in SUBSET Entry
    BY <2>1 DEF InteractiveWithinHour, Pushed, WearState
  <2>4. s.total + 1 \in Nat
    BY DEF WearState
  <2>5. QED
    BY <2>2, <2>3, <2>4 DEF RecordUpload, WearState
<1>4. RecordFailedUpload(s, img, lane, now, n) \in WearState
  <2> DEFINE t == InvalidateDisplayed(RecordUpload(s, img, lane, now, n))
  <2>1. t \in WearState
    BY <1>1, <1>3
  <2>2. Count(t.byLane, {"failed"}) \in [LaneKey -> Nat]
    BY <1>2, <2>1 DEF WearState
  <2>3. [t EXCEPT !.byLane = Count(@, {"failed"})] \in WearState
    BY <2>1, <2>2 DEF WearState
  <2>4. QED
    BY <2>3 DEF RecordFailedUpload
<1>5. QED
  BY <1>1, <1>3, <1>4

LEMMA NewWearType == NewWear \in WearState
BY DEF NewWear, WearState, Entry

---------------------------------------------------------------------------
(* Every variable keeps its type, and the transfer in progress is always    *)
(* that of a task whose request is still there.                             *)
THEOREM TypeCorrect == Spec => []TypeOK
<1>1. Init => TypeOK
  BY NewWearType, GovernorAssumption DEF Init, TypeOK, Time
<1>2. TypeOK /\ [Next]_vars => TypeOK'
  <2> SUFFICES ASSUME TypeOK, [Next]_vars PROVE TypeOK'
    OBVIOUS
  <2> USE DEF TypeOK
  <2>1. CASE Tick
    BY <2>1, GovernorAssumption DEF Tick, Time
  <2>2. ASSUME NEW c \in Caller, NEW lane \in Lane, NEW img \in Image,
               Arrive(c, lane, img)
        PROVE  TypeOK'
    <3>1. [lane |-> lane, img |-> img, at |-> clock] \in Request
      BY DEF Request
    <3>2. QED
      BY <2>2, <3>1 DEF Arrive
  <2>3. ASSUME NEW c \in Caller, Refuse(c) \/ OpenFails(c) PROVE TypeOK'
    BY <2>3 DEF Refuse, OpenFails, Serves, Done
  <2>4. ASSUME NEW c \in Caller, NEW ok \in BOOLEAN,
               NEW shown \in Image \cup {Torn, Native}, Transfer(c, ok, shown)
        PROVE  TypeOK'
    <3>1. call[c] \in Request
      BY <2>4 DEF Transfer, Serves
    <3>2. [lane |-> call[c].lane, at |-> call[c].at, done |-> clock]
            \in [lane : Lane, at : Time, done : Time]
      BY <3>1 DEF Request
    <3>3. active' \in Progress /\ active'.by = c
      BY <2>4 DEF Transfer, Progress
    <3>4. log' \in Seq([lane : Lane, at : Time, done : Time])
      BY <2>4, <3>2 DEF Transfer
    <3>5. QED
      BY <2>4, <3>3, <3>4 DEF Transfer, Serves
  <2>5. ASSUME NEW saved \in BOOLEAN, Record(saved) PROVE TypeOK'
    <3>1. active \in Progress /\ call[active.by] \in Request
      BY <2>5 DEF Record, Progress
    <3>2. Wear \in Nat
      BY DEF Wear
    <3>3. Recorded \in WearState
      BY <3>1, <3>2, RulesType DEF Recorded, Request, Progress
    <3>4. call' \in [Caller -> Request \cup {None}]
      BY <2>5, <3>1 DEF Record, Done, Progress
    <3>5. QED
      BY <2>5, <3>3, <3>4 DEF Record
  <2>6. CASE Invalidate
    <3>1. InvalidateDisplayed(state) \in WearState
      BY DEF InvalidateDisplayed, WearState
    <3>2. QED
      BY <2>6, <3>1 DEF Invalidate
  <2>7. CASE Restart
    BY <2>7 DEF Restart
  <2>8. CASE UNCHANGED vars
    BY <2>8 DEF vars
  <2>9. QED
    BY <2>1, <2>2, <2>3, <2>4, <2>5, <2>6, <2>7, <2>8 DEF Next
<1>3. QED
  BY <1>1, <1>2, PTL DEF Spec

---------------------------------------------------------------------------
(* The inductive invariant.  Each conjunct says what the later ones need.   *)

(* A waiting request's clock is past, and not older than MaxLag. *)
CallsFresh ==
  \A c \in Caller :
    call[c] # None => call[c].at <= clock /\ clock <= call[c].at + MaxLag

(* The history is in order, and each transfer was made within MaxLag of the *)
(* clock it is recorded with.                                               *)
LogOrdered ==
  \A i \in 1..Wear :
    /\ log[i].at <= log[i].done
    /\ log[i].done <= log[i].at + MaxLag
    /\ log[i].done <= clock
    /\ \A j \in i..Wear : log[i].done <= log[j].done

(* The transfer in progress is the last one of the history. *)
ActiveIsLast ==
  active # None =>
    /\ Wear > 0
    /\ log[Wear].lane = call[active.by].lane
    /\ log[Wear].at = call[active.by].at
    /\ active.ok => panel = call[active.by].img

(* The transfers whose bookkeeping is done. *)
Booked == IF active = None THEN Wear ELSE Wear - 1

(* Without faults the file is the memory, but for the displayed hash ... *)
FileCurrent ==
  faults = 0 => /\ file.lastAt = state.lastAt
                /\ file.recent = state.recent

(* ... the last write is remembered ... *)
LastKept == faults = 0 /\ Booked > 0 => state.lastAt = log[Booked].at

(* ... and so is every interactive write of the last hour. *)
RecentKept ==
  faults = 0 =>
    \A i \in 1..Booked :
      log[i].lane = "interactive" /\ log[i].at > clock - Hour
        => [n |-> i, at |-> log[i].at] \in state.recent

RecentFinite == IsFiniteSet(state.recent) /\ IsFiniteSet(file.recent)

(* The hash in memory or on file is that of the panel, or none, whenever no *)
(* transfer is in progress.                                                 *)
HashesKnown ==
  faults = 0 /\ active = None =>
    /\ state.lastHash \in {None, panel}
    /\ file.lastHash \in {None, panel}

IInv ==
  /\ TypeOK
  /\ CallsFresh
  /\ LogOrdered
  /\ ActiveIsLast
  /\ FileCurrent
  /\ LastKept
  /\ RecentKept
  /\ RecentFinite
  /\ HashesKnown

LEMMA InitIInv == Init => IInv
<1> SUFFICES ASSUME Init PROVE IInv
  OBVIOUS
<1>1. TypeOK
  BY NewWearType, GovernorAssumption DEF Init, TypeOK, Time
<1>2. IsFiniteSet({})
  BY FS_EmptySet
<1>3. Len(log) = 0
  BY DEF Init
<1>4. QED
  BY <1>1, <1>2, <1>3
     DEF Init, IInv, CallsFresh, LogOrdered, ActiveIsLast, FileCurrent, LastKept,
         RecentKept, RecentFinite, HashesKnown, Wear, Booked, NewWear

---------------------------------------------------------------------------
(* What the steps do to the history, in one place. *)

(* The numbers in a well-typed state are natural numbers. *)
LEMMA Numbers ==
  ASSUME TypeOK
  PROVE  /\ clock \in Nat /\ MaxLag \in Nat /\ Hour \in Nat /\ faults \in Nat
         /\ Wear \in Nat
         /\ \A i \in 1..Wear : log[i].at \in Nat /\ log[i].done \in Nat
<1>1. Time \subseteq Nat
  BY GovernorAssumption DEF Time
<1>2. clock \in Nat /\ MaxLag \in Nat /\ Hour \in Nat /\ faults \in Nat
  BY <1>1, GovernorAssumption, RulesAssumption DEF TypeOK
<1>3. Wear \in Nat
  BY DEF TypeOK, Wear
<1> DEFINE E == [lane : Lane, at : Time, done : Time]
<1>4. \A i \in 1..Wear : log[i].at \in Time /\ log[i].done \in Time
  <2>1. log \in Seq(E)
    BY DEF TypeOK
  <2>2. \A e \in E : e.at \in Time /\ e.done \in Time
    OBVIOUS
  <2> HIDE DEF E
  <2>3. QED
    BY <2>1, <2>2 DEF Wear
<1>5. QED
  BY <1>1, <1>2, <1>3, <1>4

(* A transfer appends one entry, and nothing else touches the history. *)
LEMMA TransferLog ==
  ASSUME TypeOK, NEW c \in Caller, NEW ok \in BOOLEAN,
         NEW shown \in Image \cup {Torn, Native}, Transfer(c, ok, shown)
  PROVE  /\ call[c] \in Request
         /\ Wear' = Wear + 1
         /\ \A i \in 1..Wear : log'[i] = log[i]
         /\ log'[Wear + 1].lane = call[c].lane
         /\ log'[Wear + 1].at = call[c].at
         /\ log'[Wear + 1].done = clock
         /\ active' \in Progress /\ active' # None
         /\ active' = [by |-> c, ok |-> ok]
         /\ Booked = Wear /\ Booked' = Wear
<1>1. call[c] \in Request
  BY DEF Transfer, Serves, TypeOK
<1>2. active' = [by |-> c, ok |-> ok] /\ active' \in Progress
  BY DEF Transfer, Progress
<1>3. active' # None
  BY <1>2, GovernorAssumption
<1>4. /\ Wear' = Wear + 1
      /\ \A i \in 1..Wear : log'[i] = log[i]
      /\ log'[Wear + 1] =
           [lane |-> call[c].lane, at |-> call[c].at, done |-> clock]
  <2> DEFINE e == [lane |-> call[c].lane, at |-> call[c].at, done |-> clock]
  <2>1. e \in [lane : Lane, at : Time, done : Time]
    BY <1>1 DEF TypeOK, Request
  <2> HIDE DEF e
  <2>2. log' = Append(log, e)
    BY DEF Transfer, e
  <2>3. log \in Seq([lane : Lane, at : Time, done : Time])
    BY DEF TypeOK
  <2>4. /\ Len(log') = Len(log) + 1
        /\ \A i \in 1..Len(log) : log'[i] = log[i]
        /\ log'[Len(log) + 1] = e
    BY <2>1, <2>2, <2>3
  <2>5. QED
    BY <2>4 DEF Wear, e
<1>5. Booked = Wear /\ Booked' = Wear
  BY <1>3, <1>4 DEF Booked, Transfer, Serves, Wear, TypeOK
<1>6. QED
  BY <1>1, <1>2, <1>3, <1>4, <1>5

(* The steps other than a transfer leave the history alone. *)
LEMMA OtherLog ==
  ASSUME TypeOK, [Next]_vars,
         ~ \E c \in Caller, ok \in BOOLEAN, shown \in Image \cup {Torn, Native} :
             Transfer(c, ok, shown)
  PROVE  log' = log /\ Wear' = Wear
BY DEF Next, vars, Tick, Arrive, Refuse, OpenFails, Record, Invalidate, Restart, Wear

(* A booked transfer leaves the entry it names in memory. *)
LEMMA RecordState ==
  ASSUME TypeOK, NEW saved \in BOOLEAN, Record(saved)
  PROVE  LET r == call[active.by]
         IN /\ r \in Request
            /\ state'.lastAt = r.at
            /\ state'.recent =
                 InteractiveWithinHour(Pushed(state.recent, r.lane, r.at, Wear), r.at)
            /\ state'.lastHash = IF active.ok THEN r.img ELSE None
            /\ file' = IF saved THEN state' ELSE file
            /\ active' = None
            /\ call'[active.by] = None
<1>1. active \in Progress /\ call[active.by] \in Request
  BY DEF Record, TypeOK, Progress
<1>2. active.by \in Caller /\ call \in [Caller -> Request \cup {None}]
  BY <1>1 DEF Progress, TypeOK
<1>3. QED
  BY <1>1, <1>2
     DEF Record, Recorded, RecordUpload, RecordFailedUpload, InvalidateDisplayed, Done

---------------------------------------------------------------------------
(* Each conjunct is preserved. *)

LEMMA StepCallsFresh == IInv /\ [Next]_vars => CallsFresh'
<1> SUFFICES ASSUME IInv, [Next]_vars PROVE CallsFresh'
  OBVIOUS
<1> USE DEF IInv, CallsFresh
<1>0. clock \in Nat /\ MaxLag \in Nat
  BY GovernorAssumption DEF TypeOK, Time
<1>1. CASE Tick
  <2> SUFFICES ASSUME NEW c \in Caller, call[c] # None
               PROVE  call[c].at <= clock + 1 /\ clock + 1 <= call[c].at + MaxLag
    BY <1>1 DEF Tick
  <2>1. call[c].at \in Nat
    BY DEF TypeOK, Request, Time
  <2>2. QED
    BY <1>0, <1>1, <2>1 DEF Tick
<1>2. ASSUME NEW c \in Caller, NEW lane \in Lane, NEW img \in Image,
             Arrive(c, lane, img)
      PROVE  CallsFresh'
  <2>1. call'[c].at = clock
    BY <1>2 DEF Arrive, TypeOK
  <2>2. \A d \in Caller \ {c} : call'[d] = call[d]
    BY <1>2 DEF Arrive, TypeOK
  <2>3. QED
    BY <1>0, <1>2, <2>1, <2>2 DEF Arrive
<1>3. ASSUME NEW c \in Caller, Done(c), clock' = clock PROVE CallsFresh'
  BY <1>3 DEF Done, TypeOK
<1>4. ASSUME NEW c \in Caller, NEW ok \in BOOLEAN,
             NEW shown \in Image \cup {Torn, Native}, Transfer(c, ok, shown)
      PROVE  CallsFresh'
  BY <1>4 DEF Transfer
<1>5. ASSUME NEW saved \in BOOLEAN, Record(saved) PROVE CallsFresh'
  <2>1. active.by \in Caller
    BY <1>5 DEF Record, TypeOK, Progress
  <2>2. QED
    BY <1>3, <1>5, <2>1 DEF Record
<1>6. CASE Invalidate
  BY <1>6 DEF Invalidate
<1>7. CASE Restart
  BY <1>7 DEF Restart
<1>8. CASE UNCHANGED vars
  BY <1>8 DEF vars
<1>9. QED
  BY <1>1, <1>2, <1>3, <1>4, <1>5, <1>6, <1>7, <1>8 DEF Next, Refuse, OpenFails

LEMMA StepLogOrdered == IInv /\ [Next]_vars => LogOrdered'
<1> SUFFICES ASSUME IInv, [Next]_vars PROVE LogOrdered'
  OBVIOUS
<1> USE DEF IInv
<1>0. /\ clock \in Nat /\ MaxLag \in Nat /\ Wear \in Nat
      /\ \A i \in 1..Wear : log[i].at \in Nat /\ log[i].done \in Nat
  BY Numbers
<1>1. ASSUME NEW c \in Caller, NEW ok \in BOOLEAN,
             NEW shown \in Image \cup {Torn, Native}, Transfer(c, ok, shown)
      PROVE  LogOrdered'
  <2>1. call[c].at \in Nat /\ call[c].at <= clock /\ clock <= call[c].at + MaxLag
    BY <1>1, TransferLog DEF CallsFresh, Request, Time, Transfer, Serves
  <2>2. clock' = clock
    BY <1>1 DEF Transfer
  <2> DEFINE n == Wear + 1
  <2>3. /\ Wear' = n
        /\ \A i \in 1..Wear : log'[i] = log[i]
        /\ log'[n].at = call[c].at /\ log'[n].done = clock
    BY <1>1, TransferLog
  <2>4. \A i \in 1..n : i \in 1..Wear \/ i = n
    BY <1>0
  <2> HIDE DEF n
  <2>5. \A i \in 1..n : /\ log'[i].at <= log'[i].done
                        /\ log'[i].done <= log'[i].at + MaxLag
                        /\ log'[i].done <= clock
    BY <1>0, <2>1, <2>3, <2>4 DEF LogOrdered
  <2>6. \A i \in 1..n : \A j \in i..n : log'[i].done <= log'[j].done
    <3> SUFFICES ASSUME NEW i \in 1..n, NEW j \in i..n
                 PROVE  log'[i].done <= log'[j].done
      OBVIOUS
    <3>1. CASE j = n
      BY <2>3, <2>5, <3>1
    <3>2. CASE j # n
      <4>1. i \in 1..Wear /\ j \in i..Wear
        BY <1>0, <3>2 DEF n
      <4>2. QED
        BY <2>3, <4>1, <1>0 DEF LogOrdered
    <3>3. QED
      BY <3>1, <3>2
  <2>7. QED
    BY <2>2, <2>3, <2>5, <2>6 DEF LogOrdered
<1>2. CASE ~ \E c \in Caller, ok \in BOOLEAN, shown \in Image \cup {Torn, Native} :
                Transfer(c, ok, shown)
  <2>1. log' = log /\ Wear' = Wear
    BY <1>2, OtherLog
  <2>2. clock' \in Nat /\ clock <= clock'
    BY <1>0, <1>2 DEF Next, vars, Tick, Arrive, Refuse, OpenFails, Record, Invalidate,
                      Restart
  <2>3. QED
    BY <1>0, <2>1, <2>2 DEF LogOrdered
<1>3. QED
  BY <1>1, <1>2

LEMMA StepActiveIsLast == IInv /\ [Next]_vars => ActiveIsLast'
<1> SUFFICES ASSUME IInv, [Next]_vars PROVE ActiveIsLast'
  OBVIOUS
<1> USE DEF IInv
<1>1. ASSUME NEW c \in Caller, NEW ok \in BOOLEAN,
             NEW shown \in Image \cup {Torn, Native}, Transfer(c, ok, shown)
      PROVE  ActiveIsLast'
  <2>1. active'.by = c /\ active'.ok = ok
    BY <1>1, TransferLog
  <2>2. call' = call /\ (ok => panel' = call[c].img)
    BY <1>1 DEF Transfer
  <2>3. QED
    BY <1>1, <2>1, <2>2, TransferLog, Numbers DEF ActiveIsLast
<1>2. CASE ~ \E c \in Caller, ok \in BOOLEAN, shown \in Image \cup {Torn, Native} :
                Transfer(c, ok, shown)
  <2>1. log' = log /\ Wear' = Wear
    BY <1>2, OtherLog
  <2>2. CASE active' = active /\ call' = call /\ panel' = panel
    BY <2>1, <2>2 DEF ActiveIsLast
  <2>3. CASE active' = None
    BY <2>3 DEF ActiveIsLast
  <2>4. ASSUME NEW c \in Caller, NEW lane \in Lane, NEW img \in Image,
               Arrive(c, lane, img), active # None
        PROVE  ActiveIsLast'
    <3>1. active.by \in Caller /\ active.by # c
      BY <2>4 DEF Arrive, TypeOK, Progress
    <3>2. call'[active.by] = call[active.by]
      BY <2>4, <3>1 DEF Arrive, TypeOK
    <3>3. QED
      BY <2>1, <2>4, <3>2 DEF ActiveIsLast, Arrive
  <2>5. QED
    BY <1>2, <2>2, <2>3, <2>4
       DEF Next, vars, Tick, Arrive, Refuse, OpenFails, Serves, Record, Invalidate,
           Restart
<1>3. QED
  BY <1>1, <1>2

LEMMA StepFileCurrent == IInv /\ [Next]_vars => FileCurrent'
<1> SUFFICES ASSUME IInv, [Next]_vars PROVE FileCurrent'
  OBVIOUS
<1> USE DEF IInv, FileCurrent
<1>1. ASSUME NEW saved \in BOOLEAN, Record(saved) PROVE FileCurrent'
  <2>1. CASE saved
    BY <1>1, <2>1, RecordState
  <2>2. CASE ~saved
    BY <1>1, <2>2, Numbers DEF Record
  <2>3. QED
    BY <2>1, <2>2
<1>2. CASE Invalidate
  <2>1. state'.lastAt = state.lastAt /\ state'.recent = state.recent
    BY <1>2 DEF Invalidate, InvalidateDisplayed, TypeOK, WearState
  <2>2. QED
    BY <1>2, <2>1 DEF Invalidate
<1>3. CASE Restart
  BY <1>3 DEF Restart
<1>4. CASE UNCHANGED <<state, file, faults>>
  BY <1>4
<1>5. QED
  BY <1>1, <1>2, <1>3, <1>4
     DEF Next, vars, Tick, Arrive, Refuse, OpenFails, Transfer

(* The bookkeeping of a transfer makes it a booked one. *)
LEMMA BookedAfter ==
  ASSUME TypeOK, ActiveIsLast, NEW saved \in BOOLEAN, Record(saved)
  PROVE  Booked' = Wear /\ Wear' = Wear /\ Booked = Wear - 1 /\ log' = log
BY DEF Record, Booked, Wear

LEMMA StepLastKept == IInv /\ [Next]_vars => LastKept'
<1> SUFFICES ASSUME IInv, [Next]_vars PROVE LastKept'
  OBVIOUS
<1> USE DEF IInv, LastKept
<1>1. ASSUME NEW saved \in BOOLEAN, Record(saved) PROVE LastKept'
  <2>1. state'.lastAt = call[active.by].at /\ active # None
    BY <1>1, RecordState DEF Record
  <2>2. QED
    BY <1>1, <2>1, BookedAfter DEF ActiveIsLast
<1>2. ASSUME NEW c \in Caller, NEW ok \in BOOLEAN,
             NEW shown \in Image \cup {Torn, Native}, Transfer(c, ok, shown)
      PROVE  LastKept'
  <2>1. state' = state /\ faults' = faults
    BY <1>2 DEF Transfer
  <2>2. Booked = Wear /\ Booked' = Wear /\ \A i \in 1..Wear : log'[i] = log[i]
    BY <1>2, TransferLog
  <2>3. Wear > 0 => log'[Wear] = log[Wear]
    BY <2>2, Numbers
  <2>4. QED
    BY <2>1, <2>2, <2>3
<1>3. CASE Invalidate
  <2>1. state'.lastAt = state.lastAt
    BY <1>3 DEF Invalidate, InvalidateDisplayed, TypeOK, WearState
  <2>2. QED
    BY <1>3, <2>1 DEF Invalidate, Booked, Wear
<1>4. CASE Restart
  <2>1. SUFFICES ASSUME active = None, faults = 0 PROVE LastKept'
    BY <1>4, Numbers DEF Restart
  <2>2. QED
    BY <1>4, <2>1 DEF Restart, FileCurrent, Booked, Wear
<1>5. CASE UNCHANGED <<state, active, log, faults>>
  BY <1>5 DEF Booked, Wear
<1>6. QED
  BY <1>1, <1>2, <1>3, <1>4, <1>5
     DEF Next, vars, Tick, Arrive, Refuse, OpenFails

LEMMA StepRecentKept == IInv /\ [Next]_vars => RecentKept'
<1> SUFFICES ASSUME IInv, [Next]_vars PROVE RecentKept'
  OBVIOUS
<1> USE DEF IInv
<1>1. ASSUME NEW saved \in BOOLEAN, Record(saved) PROVE RecentKept'
  <2> SUFFICES ASSUME faults' = 0, NEW i \in 1..Wear,
                      log[i].lane = "interactive", log[i].at > clock - Hour
               PROVE  [n |-> i, at |-> log[i].at] \in state'.recent
    BY <1>1, BookedAfter DEF RecentKept, Record
  <2> DEFINE r == call[active.by]
             e == [n |-> i, at |-> log[i].at]
  <2>1. faults = 0
    BY <1>1, Numbers DEF Record
  <2>2. r \in Request /\ active # None
    BY <1>1, RecordState DEF Record
  <2>3. r.at \in Nat /\ r.at <= clock
    <3>1. active.by \in Caller /\ r # None
      BY <1>1 DEF Record, TypeOK, Progress
    <3>2. QED
      BY <2>2, <3>1, GovernorAssumption DEF CallsFresh, Request, Time
  <2>4. log[i].at > r.at - Hour
    BY <2>3, Numbers
  <2>5. e \in Pushed(state.recent, r.lane, r.at, Wear)
    <3>1. CASE i = Wear
      BY <2>2, <3>1 DEF ActiveIsLast, Pushed
    <3>2. CASE i # Wear
      <4>1. i \in 1..Booked
        BY <1>1, <3>2, Numbers, BookedAfter
      <4>2. e \in state.recent
        BY <2>1, <4>1 DEF RecentKept
      <4>3. QED
        BY <4>2 DEF Pushed
    <3>3. QED
      BY <3>1, <3>2
  <2>6. QED
    BY <1>1, <2>4, <2>5, RecordState DEF InteractiveWithinHour
<1>2. ASSUME NEW c \in Caller, NEW ok \in BOOLEAN,
             NEW shown \in Image \cup {Torn, Native}, Transfer(c, ok, shown)
      PROVE  RecentKept'
  <2>1. state' = state /\ faults' = faults /\ clock' = clock
    BY <1>2 DEF Transfer
  <2>2. QED
    BY <1>2, <2>1, TransferLog DEF RecentKept
<1>3. CASE Tick
  <2>1. /\ log' = log /\ state' = state /\ faults' = faults /\ Booked' = Booked
        /\ clock' = clock + 1
    BY <1>3 DEF Tick, Booked, Wear
  <2>2. Booked <= Wear
    BY Numbers DEF Booked
  <2>3. QED
    BY <2>1, <2>2, Numbers DEF RecentKept, Booked
<1>4. CASE Invalidate
  <2>1. state'.recent = state.recent
    BY <1>4 DEF Invalidate, InvalidateDisplayed, TypeOK, WearState
  <2>2. QED
    BY <1>4, <2>1 DEF Invalidate, Booked, Wear, RecentKept
<1>5. CASE Restart
  <2>1. SUFFICES ASSUME active = None, faults = 0 PROVE RecentKept'
    BY <1>5, Numbers DEF Restart, RecentKept
  <2>2. QED
    BY <1>5, <2>1 DEF Restart, FileCurrent, Booked, Wear, RecentKept
<1>6. CASE UNCHANGED <<clock, state, active, log, faults>>
  BY <1>6 DEF Booked, Wear, RecentKept
<1>7. QED
  BY <1>1, <1>2, <1>3, <1>4, <1>5, <1>6
     DEF Next, vars, Arrive, Refuse, OpenFails

LEMMA StepRecentFinite == IInv /\ [Next]_vars => RecentFinite'
<1> SUFFICES ASSUME IInv, [Next]_vars PROVE RecentFinite'
  OBVIOUS
<1> USE DEF IInv, RecentFinite
<1>1. ASSUME NEW saved \in BOOLEAN, Record(saved) PROVE RecentFinite'
  <2> DEFINE r == call[active.by]
             P == Pushed(state.recent, r.lane, r.at, Wear)
  <2>1. IsFiniteSet(P)
    BY FS_AddElement DEF Pushed
  <2>2. InteractiveWithinHour(P, r.at) \subseteq P
    BY DEF InteractiveWithinHour
  <2> HIDE DEF P
  <2>3. IsFiniteSet(InteractiveWithinHour(P, r.at))
    BY <2>1, <2>2, FS_Subset
  <2>4. QED
    BY <1>1, <2>3, RecordState DEF P
<1>2. CASE Invalidate
  <2>1. state'.recent = state.recent
    BY <1>2 DEF Invalidate, InvalidateDisplayed, TypeOK, WearState
  <2>2. QED
    BY <1>2, <2>1 DEF Invalidate
<1>3. CASE Restart
  BY <1>3 DEF Restart
<1>4. CASE UNCHANGED <<state, file>>
  BY <1>4
<1>5. QED
  BY <1>1, <1>2, <1>3, <1>4
     DEF Next, vars, Tick, Arrive, Refuse, OpenFails, Transfer

LEMMA StepHashesKnown == IInv /\ [Next]_vars => HashesKnown'
<1> SUFFICES ASSUME IInv, [Next]_vars PROVE HashesKnown'
  OBVIOUS
<1> USE DEF IInv, HashesKnown
<1>1. ASSUME NEW saved \in BOOLEAN, Record(saved) PROVE HashesKnown'
  <2>1. faults' = 0 => saved
    BY <1>1, Numbers DEF Record
  <2>2. state'.lastHash \in {None, panel}
    BY <1>1, RecordState DEF Record, ActiveIsLast
  <2>3. QED
    BY <1>1, <2>1, <2>2, RecordState DEF Record
<1>2. ASSUME NEW c \in Caller, NEW ok \in BOOLEAN,
             NEW shown \in Image \cup {Torn, Native}, Transfer(c, ok, shown)
      PROVE  HashesKnown'
  BY <1>2, TransferLog
<1>3. CASE Invalidate
  <2>1. state'.lastHash = None
    BY <1>3 DEF Invalidate, InvalidateDisplayed, TypeOK, WearState
  <2>2. QED
    BY <1>3, <2>1 DEF Invalidate
<1>4. CASE Restart
  BY <1>4, Numbers DEF Restart
<1>5. CASE UNCHANGED <<state, file, active, panel, faults>>
  BY <1>5
<1>6. QED
  BY <1>1, <1>2, <1>3, <1>4, <1>5
     DEF Next, vars, Tick, Arrive, Refuse, OpenFails

(* The inductive invariant holds in every reachable state. *)
THEOREM Inductive == Spec => []IInv
<1>1. IInv /\ TypeOK' /\ [Next]_vars => IInv'
  BY StepCallsFresh, StepLogOrdered, StepActiveIsLast, StepFileCurrent, StepLastKept,
     StepRecentKept, StepRecentFinite, StepHashesKnown
     DEF IInv
<1>2. QED
  BY <1>1, InitIInv, TypeCorrect, PTL DEF Spec

(* SkipUnchanged is right: unless a write was forgotten, the remembered     *)
(* hash is that of the image on the panel whenever the mutex is free.       *)
THEOREM Displayed == Spec => []DisplayedKnown
<1>1. IInv => DisplayedKnown
  BY DEF IInv, HashesKnown, DisplayedKnown
<1>2. QED
  BY <1>1, Inductive, PTL

---------------------------------------------------------------------------
(* Spacing of scheduled transfers. *)

(* A truncated number of seconds that reaches k means at least k seconds.   *)
LEMMA WholeSeconds ==
  ASSUME NEW d \in Int, NEW k \in Nat, k > 0, NumSeconds(d) >= k
  PROVE  d >= k * Sec
<1>0. Sec \in Nat /\ Sec > 0
  BY RulesAssumption
<1>1. d >= 0
  <2> SUFFICES ASSUME d < 0 PROVE FALSE
    OBVIOUS
  <2>1. (-d) \div Sec >= 0
    BY <1>0
  <2>2. QED
    BY <1>0, <2>1 DEF NumSeconds
<1>2. d \div Sec >= k
  BY <1>1 DEF NumSeconds
<1> DEFINE q == d \div Sec
<1>3. d = Sec * q + (d % Sec) /\ d % Sec >= 0 /\ q \in Int
  BY <1>0
<1> HIDE DEF q
<1>4. (q - k) * Sec >= 0
  BY <1>0, <1>2, <1>3 DEF q
<1>5. Sec * q = (q - k) * Sec + k * Sec
  BY <1>0, <1>3
<1>6. QED
  BY <1>0, <1>3, <1>4, <1>5

(* The effective interval is at least the floor and at least the setting.   *)
LEMMA IntervalBounds ==
  /\ EffectiveInterval \in Nat
  /\ EffectiveInterval * Sec \in Nat
  /\ EffectiveInterval * Sec >= MinWriteInterval * Sec
  /\ EffectiveInterval * Sec >= WriteInterval * Sec
<1>1. /\ EffectiveInterval \in Nat /\ Sec \in Nat
      /\ MinWriteInterval \in Nat /\ WriteInterval \in Nat
      /\ EffectiveInterval >= MinWriteInterval /\ EffectiveInterval >= WriteInterval
  BY RulesAssumption DEF EffectiveInterval, AtLeast
<1>2. \A a, b, k \in Nat : a >= b => a * k >= b * k
  OBVIOUS
<1>3. \A a, k \in Nat : a * k \in Nat
  OBVIOUS
<1> HIDE DEF EffectiveInterval
<1>4. QED
  BY <1>1, <1>2, <1>3

(* No fault is forgotten. *)
LEMMA FaultsGrow ==
  ASSUME TypeOK, [Next]_vars, faults' = 0
  PROVE  faults = 0
<1>1. faults' = faults \/ faults' = faults + 1
  BY DEF Next, vars, Tick, Arrive, Refuse, OpenFails, Transfer, Record, Invalidate,
         Restart
<1>2. QED
  BY <1>1, Numbers

(* A scheduled transfer that the rules allow now comes the whole interval   *)
(* after every transfer of the history.                                     *)
LEMMA ScheduledLate ==
  ASSUME IInv, faults = 0, NEW c \in Caller, NEW ok \in BOOLEAN,
         NEW shown \in Image \cup {Torn, Native}, Transfer(c, ok, shown),
         call[c].lane = "scheduled", NEW i \in 1..Wear
  PROVE  clock - log[i].done + MaxLag >= EffectiveInterval * Sec
<1> USE DEF IInv
<1> DEFINE t == call[c].at
           d == t - log[Wear].at
<1>1. t \in Nat /\ t <= clock
  BY TransferLog, GovernorAssumption DEF CallsFresh, Request, Time, Transfer, Serves
<1>2. Wear > 0 /\ Wear \in 1..Wear /\ Booked = Wear
  BY Numbers, TransferLog
<1>3. state.lastAt = log[Wear].at
  BY <1>2 DEF LastKept
<1>4. state.lastAt # None
  BY <1>2, <1>3, Numbers, RulesAssumption
<1>5. NumSeconds(d) >= EffectiveInterval
  <2>1. DecisionFor(c) = "upload"
    BY DEF Transfer
  <2>2. LaneAllows(state, "scheduled", t)
    BY <2>1 DEF DecisionFor, Decide
  <2>3. QED
    BY <1>3, <1>4, <2>2 DEF LaneAllows
<1>6. log[i].done <= log[Wear].done /\ log[Wear].done <= log[Wear].at + MaxLag
  BY <1>2, Numbers DEF LogOrdered
<1>7. log[i].done <= clock
  BY DEF LogOrdered
<1>8. d \in Int
  BY <1>1, <1>2, Numbers
<1>9. CASE EffectiveInterval = 0
  BY <1>7, <1>9, Numbers, RulesAssumption
<1>10. CASE EffectiveInterval > 0
  <2>1. d >= EffectiveInterval * Sec
    BY <1>5, <1>8, <1>10, WholeSeconds, IntervalBounds
  <2>2. EffectiveInterval * Sec \in Nat
    BY IntervalBounds
  <2> HIDE DEF EffectiveInterval
  <2>3. QED
    BY <1>1, <1>2, <1>6, <2>1, <2>2, Numbers
<1>11. QED
  BY <1>9, <1>10, IntervalBounds

(* Every scheduled transfer comes at least the configured interval, and the *)
(* hard floor, after every earlier transfer of any lane, in real time, but  *)
(* for the lag of a request's clock and as long as no fault has made the    *)
(* governor forget a write.                                                 *)
ScheduledSpaced ==
  faults = 0 =>
    \A j \in 1..Wear : \A i \in 1..(j-1) :
      log[j].lane = "scheduled" =>
        LET spacing == log[j].done - log[i].done + MaxLag
        IN /\ spacing >= MinWriteInterval * Sec
           /\ spacing >= WriteInterval * Sec

(* In every reachable state the history is spaced. *)
THEOREM Spaced == Spec => []ScheduledSpaced
<1>1. Init => ScheduledSpaced
  BY DEF Init, ScheduledSpaced, Wear
<1>2. IInv /\ ScheduledSpaced /\ [Next]_vars => ScheduledSpaced'
  <2> SUFFICES ASSUME IInv, ScheduledSpaced, [Next]_vars, faults' = 0
               PROVE  ScheduledSpaced'
    BY DEF ScheduledSpaced
  <2>1. TypeOK /\ faults = 0
    BY FaultsGrow DEF IInv
  <2>2. ASSUME NEW c \in Caller, NEW ok \in BOOLEAN,
               NEW shown \in Image \cup {Torn, Native}, Transfer(c, ok, shown)
        PROVE  ScheduledSpaced'
    <3> SUFFICES ASSUME NEW j \in 1..(Wear + 1), NEW i \in 1..(j - 1),
                        log'[j].lane = "scheduled"
                 PROVE  LET spacing == log'[j].done - log'[i].done + MaxLag
                        IN /\ spacing >= MinWriteInterval * Sec
                           /\ spacing >= WriteInterval * Sec
      BY <2>1, <2>2, TransferLog DEF ScheduledSpaced
    <3>1. i \in 1..Wear /\ log'[i] = log[i]
      BY <2>1, <2>2, Numbers, TransferLog
    <3>2. CASE j \in 1..Wear
      <4>1. log'[j] = log[j]
        BY <2>1, <2>2, <3>2, TransferLog
      <4>2. QED
        BY <2>1, <3>1, <3>2, <4>1 DEF ScheduledSpaced
    <3>3. CASE j = Wear + 1
      <4>1. call[c].lane = "scheduled" /\ log'[j].done = clock
        BY <2>1, <2>2, <3>3, TransferLog
      <4>2. clock - log[i].done + MaxLag >= EffectiveInterval * Sec
        BY <2>1, <2>2, <3>1, <4>1, ScheduledLate
      <4>3. clock - log[i].done + MaxLag \in Int
        BY <2>1, <3>1, Numbers
      <4>4. MinWriteInterval * Sec \in Int /\ WriteInterval * Sec \in Int
        BY RulesAssumption
      <4>5. QED
        BY <3>1, <4>1, <4>2, <4>3, <4>4, IntervalBounds
    <3>4. QED
      BY <2>1, <3>2, <3>3, Numbers
  <2>3. CASE ~ \E c \in Caller, ok \in BOOLEAN,
                 shown \in Image \cup {Torn, Native} : Transfer(c, ok, shown)
    BY <2>1, <2>3, OtherLog DEF ScheduledSpaced
  <2>4. QED
    BY <2>2, <2>3
<1>3. QED
  BY <1>1, <1>2, Inductive, PTL DEF Spec

---------------------------------------------------------------------------
(* The rolling hour. *)

(* The interactive transfers of the last hour, less the lag, are never more *)
(* than the allowance, even though the window is pruned with the clocks of  *)
(* requests that are served late and out of order.                          *)
Window ==
  {i \in 1..Wear : /\ log[i].lane = "interactive"
                   /\ log[i].done > clock - (Hour - MaxLag)}

BurstBounded == faults = 0 => Cardinality(Window) <= InteractivePerHour

LEMMA WindowFinite ==
  ASSUME TypeOK
  PROVE  IsFiniteSet(Window) /\ Cardinality(Window) \in Nat
<1>1. IsFiniteSet(1..Wear)
  BY Numbers, FS_Interval
<1>2. Window \subseteq 1..Wear
  BY DEF Window
<1>3. QED
  BY <1>1, <1>2, FS_Subset, FS_CardinalityType

(* Every transfer of the window is still remembered by a request that is    *)
(* served now, however old its clock is.                                    *)
LEMMA WindowRemembered ==
  ASSUME IInv, faults = 0, active = None, NEW c \in Caller, call[c] # None
  PROVE  Cardinality(Window) <=
           Cardinality(InteractiveWithinHour(state.recent, call[c].at))
<1> USE DEF IInv
<1> DEFINE R == InteractiveWithinHour(state.recent, call[c].at)
           f == [i \in Window |-> [n |-> i, at |-> log[i].at]]
<1>1. IsFiniteSet(R)
  BY FS_Subset DEF InteractiveWithinHour, RecentFinite
<1>2. call[c].at \in Nat /\ call[c].at <= clock
  BY GovernorAssumption DEF CallsFresh, TypeOK, Request, Time
<1>3. ASSUME NEW i \in Window PROVE f[i] \in R
  <2>1. /\ i \in 1..Wear /\ log[i].lane = "interactive"
        /\ log[i].done > clock - (Hour - MaxLag)
    BY DEF Window
  <2>2. log[i].done <= log[i].at + MaxLag
    BY <2>1 DEF LogOrdered
  <2>3. log[i].at > clock - Hour
    BY <2>1, <2>2, Numbers
  <2>4. [n |-> i, at |-> log[i].at] \in state.recent
    BY <2>1, <2>3 DEF RecentKept, Booked
  <2>5. log[i].at > call[c].at - Hour
    BY <1>2, <2>1, <2>3, Numbers
  <2>6. QED
    BY <2>4, <2>5 DEF InteractiveWithinHour
<1>4. f \in Injection(Window, R)
  <2>1. f \in [Window -> R]
    BY <1>3
  <2>2. \A i, j \in Window : f[i] = f[j] => i = j
    OBVIOUS
  <2> HIDE DEF f, R
  <2>3. QED
    BY <2>1, <2>2 DEF Injection, IsInjective
<1> HIDE DEF f, R
<1>5. Cardinality(Window) <= Cardinality(R)
  BY <1>1, <1>4, FS_Injection
<1>6. QED
  BY <1>5 DEF R

(* In every reachable state the window of the last hour, less the lag,      *)
(* holds no more interactive transfers than are allowed.                    *)
THEOREM Bounded == Spec => []BurstBounded
<1>1. Init => BurstBounded
  <2> SUFFICES ASSUME Init PROVE Window = {}
    BY FS_EmptySet, RulesAssumption DEF BurstBounded
  <2>1. QED
    BY DEF Init, Window, Wear
<1>2. IInv /\ IInv' /\ BurstBounded /\ [Next]_vars => BurstBounded'
  <2> SUFFICES ASSUME IInv, TypeOK', BurstBounded, [Next]_vars, faults' = 0
               PROVE  Cardinality(Window') <= InteractivePerHour
    BY DEF BurstBounded, IInv
  <2>1. TypeOK /\ faults = 0 /\ InteractivePerHour \in Nat
    BY FaultsGrow, RulesAssumption DEF IInv
  <2>2. IsFiniteSet(Window) /\ Cardinality(Window) \in Nat
        /\ Cardinality(Window) <= InteractivePerHour
    BY <2>1, WindowFinite DEF BurstBounded
  <2>3. ASSUME Window' \subseteq Window
        PROVE  Cardinality(Window') <= InteractivePerHour
    <3>1. IsFiniteSet(Window') /\ Cardinality(Window') <= Cardinality(Window)
      BY <2>2, <2>3, FS_Subset
    <3>2. Cardinality(Window') \in Nat
      BY <3>1, FS_CardinalityType
    <3>3. QED
      BY <2>1, <2>2, <3>1, <3>2
  <2>4. ASSUME NEW c \in Caller, NEW ok \in BOOLEAN,
               NEW shown \in Image \cup {Torn, Native}, Transfer(c, ok, shown)
        PROVE  Cardinality(Window') <= InteractivePerHour
    <3> DEFINE n == Wear + 1
    <3>0. clock' = clock /\ active = None /\ call[c] # None
      BY <2>4 DEF Transfer, Serves
    <3>1. \A i \in Window' : i \in Window \/ (i = n /\ call[c].lane = "interactive")
      <4> SUFFICES ASSUME NEW i \in Window', i \notin Window
                   PROVE  i = n /\ call[c].lane = "interactive"
        OBVIOUS
      <4>1. /\ i \in 1..n /\ log'[i].lane = "interactive"
            /\ log'[i].done > clock - (Hour - MaxLag)
        BY <2>1, <2>4, <3>0, TransferLog DEF Window
      <4>2. i \notin 1..Wear
        <5> SUFFICES ASSUME i \in 1..Wear PROVE FALSE
          OBVIOUS
        <5>1. log'[i] = log[i]
          BY <2>1, <2>4, TransferLog
        <5>2. QED
          BY <4>1, <5>1 DEF Window
      <4>3. i = n
        BY <2>1, <4>1, <4>2, Numbers
      <4>4. QED
        BY <2>1, <2>4, <4>1, <4>3, TransferLog
    <3>2. CASE call[c].lane # "interactive"
      BY <2>3, <3>1, <3>2
    <3>3. CASE call[c].lane = "interactive"
      <4> DEFINE R == InteractiveWithinHour(state.recent, call[c].at)
      <4>1. Cardinality(R) < InteractivePerHour
        BY <2>4, <3>3 DEF Transfer, DecisionFor, Decide, LaneAllows
      <4>2. Cardinality(Window) <= Cardinality(R)
        BY <2>1, <3>0, WindowRemembered
      <4>3. Cardinality(R) \in Nat
        <5>1. R \in SUBSET state.recent /\ IsFiniteSet(state.recent)
          BY DEF InteractiveWithinHour, IInv, RecentFinite
        <5>2. QED
          BY <5>1, FS_Subset, FS_CardinalityType
      <4> HIDE DEF R
      <4>4. Window' \subseteq Window \cup {n}
        BY <3>1
      <4>5. IsFiniteSet(Window \cup {n}) /\ Cardinality(Window \cup {n}) \in Nat
            /\ Cardinality(Window \cup {n}) <= Cardinality(Window) + 1
        <5>1. /\ IsFiniteSet(Window \cup {n})
              /\ \/ Cardinality(Window \cup {n}) = Cardinality(Window)
                 \/ Cardinality(Window \cup {n}) = Cardinality(Window) + 1
          BY <2>2, FS_AddElement
        <5>2. QED
          BY <2>2, <5>1
      <4>6. IsFiniteSet(Window') /\ Cardinality(Window') <= Cardinality(Window \cup {n})
        BY <4>4, <4>5, FS_Subset
      <4>7. Cardinality(Window') \in Nat
        BY <4>6, FS_CardinalityType
      <4>8. QED
        BY <2>1, <2>2, <4>1, <4>2, <4>3, <4>5, <4>6, <4>7
    <3>4. QED
      BY <3>2, <3>3
  <2>5. CASE ~ \E c \in Caller, ok \in BOOLEAN,
                 shown \in Image \cup {Torn, Native} : Transfer(c, ok, shown)
    <3>1. log' = log /\ Wear' = Wear
      BY <2>1, <2>5, OtherLog
    <3>2. clock' = clock \/ clock' = clock + 1
      BY <2>5 DEF Next, vars, Tick, Arrive, Refuse, OpenFails, Record, Invalidate, Restart
    <3>3. Window' \subseteq Window
      BY <2>1, <3>1, <3>2, Numbers DEF Window
    <3>4. QED
      BY <2>3, <3>3
  <2>6. QED
    BY <2>4, <2>5
<1>3. QED
  BY <1>1, <1>2, Inductive, PTL DEF Spec

---------------------------------------------------------------------------
(* The refinement. *)

(* A transfer is one that the history permits: what the governor remembers  *)
(* is at least as strict as what happened.                                  *)
LEMMA TransferIsWrite ==
  ASSUME IInv, NEW c \in Caller, NEW ok \in BOOLEAN,
         NEW shown \in Image \cup {Torn, Native}, Transfer(c, ok, shown)
  PROVE  Budget!BudgetNext
<1> USE DEF IInv
<1> DEFINE r == call[c]
<1>1. r \in Request /\ r # None /\ active = None
  BY TransferLog DEF Transfer, Serves
<1>2. r.lane \in Lane /\ r.at \in Nat /\ r.at <= clock /\ clock <= r.at + MaxLag
  BY <1>1, GovernorAssumption DEF Request, Time, CallsFresh
<1>3. r.at \in (clock - MaxLag)..clock
  BY <1>2, Numbers
<1>4. log' = Append(log, [lane |-> r.lane, at |-> r.at, done |-> clock])
      /\ clock' = clock /\ faults' = faults
  BY DEF Transfer
<1>5. ASSUME faults = 0 PROVE Budget!Permitted(r.lane)
  <2>1. r.lane = "scheduled" =>
          \A i \in 1..Len(log) : clock - log[i].done + MaxLag >= EffectiveInterval * Sec
    BY <1>5, ScheduledLate DEF Wear
  <2>2. r.lane = "interactive" => Cardinality(Window) < InteractivePerHour
    <3> SUFFICES ASSUME r.lane = "interactive"
                 PROVE  Cardinality(Window) < InteractivePerHour
      OBVIOUS
    <3> DEFINE R == InteractiveWithinHour(state.recent, r.at)
    <3>1. Cardinality(R) < InteractivePerHour
      BY DEF Transfer, DecisionFor, Decide, LaneAllows
    <3>2. Cardinality(Window) <= Cardinality(R)
      BY <1>1, <1>5, WindowRemembered
    <3>3. Cardinality(R) \in Nat
      <4>1. R \in SUBSET state.recent /\ IsFiniteSet(state.recent)
        BY DEF InteractiveWithinHour, RecentFinite
      <4>2. QED
        BY <4>1, FS_Subset, FS_CardinalityType
    <3>4. Cardinality(Window) \in Nat /\ InteractivePerHour \in Nat
      BY WindowFinite, RulesAssumption
    <3> HIDE DEF R
    <3>5. QED
      BY <3>1, <3>2, <3>3, <3>4
  <2>3. Budget!Recent = Window
    BY DEF Budget!Recent, Window, Wear
  <2>4. Budget!Cardinality(Window) = Cardinality(Window)
    BY DEF Cardinality, Budget!Cardinality
  <2>5. QED
    BY <2>1, <2>2, <2>3, <2>4, Zenon DEF Budget!Permitted
<1>6. Budget!Write(r.lane, r.at)
  BY <1>4, <1>5 DEF Budget!Write
<1>7. QED
  BY <1>2, <1>3, <1>6 DEF Budget!BudgetNext, Lane

(* Governor implements WriteBudget: a decision that is upload is a Write,   *)
(* a save that fails and a death in mid-transfer are a Forget, and nothing  *)
(* else is seen of wear.json and of the requests that wait.                 *)
THEOREM ImplementsBudget == Spec => KeepsBudget
<1>1. Init => Budget!BudgetInit
  BY DEF Init, Budget!BudgetInit
<1>2. IInv /\ [Next]_vars => [Budget!BudgetNext]_(Budget!budget)
  <2> SUFFICES ASSUME IInv, [Next]_vars
               PROVE  Budget!BudgetNext \/ UNCHANGED <<clock, log, faults>>
    BY DEF Budget!budget
  <2>1. CASE Tick
    BY <2>1 DEF Tick, Budget!BudgetNext, Budget!Pass
  <2>2. ASSUME NEW c \in Caller, NEW ok \in BOOLEAN,
               NEW shown \in Image \cup {Torn, Native}, Transfer(c, ok, shown)
        PROVE  Budget!BudgetNext
    BY <2>2, TransferIsWrite
  <2>3. ASSUME NEW saved \in BOOLEAN, Record(saved)
        PROVE  Budget!BudgetNext \/ UNCHANGED <<clock, log, faults>>
    BY <2>3 DEF Record, Budget!BudgetNext, Budget!Forget
  <2>4. CASE Restart
    BY <2>4 DEF Restart, Budget!BudgetNext, Budget!Forget
  <2>5. CASE UNCHANGED <<clock, log, faults>>
    BY <2>5
  <2>6. QED
    BY <2>1, <2>2, <2>3, <2>4, <2>5
       DEF Next, vars, Arrive, Refuse, OpenFails, Invalidate
<1>3. QED
  BY <1>1, <1>2, Inductive, PTL DEF Spec, KeepsBudget, Budget!BudgetSpec

---------------------------------------------------------------------------
(* The odometer. *)

(* What is true of the odometer in memory and of the one on file, with one  *)
(* write of slack for the transfer in progress.                             *)
Honest(s) ==
  /\ s.total <= Wear - InProgress
  /\ Wear <= s.total + faults + InProgress
  /\ s.total = s.byLane["scheduled"] + s.byLane["interactive"] + s.byLane["recovery"]
  /\ s.byLane["failed"] <= s.total

(* Booking a transfer adds one to the total, to its lane, and to "failed"   *)
(* if it failed.                                                            *)
LEMMA BookCounts ==
  ASSUME TypeOK, NEW saved \in BOOLEAN, Record(saved)
  PROVE  LET lane == call[active.by].lane
             b == state.byLane
         IN /\ lane \in Lane
            /\ state'.total = state.total + 1
            /\ \A k \in Lane : state'.byLane[k] = IF k = lane THEN b[k] + 1 ELSE b[k]
            /\ state'.byLane["failed"] =
                 IF active.ok THEN b["failed"] ELSE b["failed"] + 1
<1>1. active \in Progress /\ call[active.by] \in Request
  BY DEF Record, TypeOK, Progress
<1>2. QED
  BY <1>1 DEF Record, Recorded, RecordUpload, RecordFailedUpload, InvalidateDisplayed,
              Count, LaneKey, Lane, Request

(* The odometer (uploads_total and its sum by lanes) is never high, and low *)
(* by the transfer in progress and the faults at most.                      *)
THEOREM Odometer == Spec => []OdometerHonest
<1>1. Init => Honest(state) /\ Honest(file)
  BY DEF Init, Honest, NewWear, LaneKey, Lane, Wear, InProgress
<1>2. TypeOK /\ IInv /\ Honest(state) /\ Honest(file) /\ [Next]_vars
        => Honest(state)' /\ Honest(file)'
  <2> SUFFICES ASSUME TypeOK, IInv, Honest(state), Honest(file), [Next]_vars
               PROVE  Honest(state)' /\ Honest(file)'
    OBVIOUS
  <2>0. /\ Wear \in Nat /\ faults \in Nat
        /\ \A s \in {state, file} :
             s.total \in Nat /\ \A k \in LaneKey : s.byLane[k] \in Nat
    BY Numbers DEF TypeOK, WearState
  <2>1. ASSUME NEW c \in Caller, NEW ok \in BOOLEAN,
               NEW shown \in Image \cup {Torn, Native}, Transfer(c, ok, shown)
        PROVE  Honest(state)' /\ Honest(file)'
    <3>1. state' = state /\ file' = file /\ faults' = faults /\ active = None
      BY <2>1 DEF Transfer, Serves
    <3>2. Wear' = Wear + 1 /\ active' # None
      BY <2>1, TransferLog
    <3>3. QED
      BY <2>0, <3>1, <3>2 DEF Honest, InProgress
  <2>2. ASSUME NEW saved \in BOOLEAN, Record(saved)
        PROVE  Honest(state)' /\ Honest(file)'
    <3>1. /\ Wear' = Wear /\ active # None /\ active' = None
          /\ file' = IF saved THEN state' ELSE file
          /\ faults' = IF saved THEN faults ELSE faults + 1
      BY <2>2, RecordState DEF Record, Wear
    <3>2. Honest(state)'
      BY <2>0, <2>2, <3>1, BookCounts DEF Honest, InProgress, Lane, LaneKey
    <3>3. CASE saved
      BY <3>1, <3>2, <3>3 DEF Honest
    <3>4. CASE ~saved
      <4>1. file' = file /\ faults' = faults + 1 /\ InProgress = 1 /\ InProgress' = 0
        BY <3>1, <3>4 DEF InProgress
      <4>2. Honest(file)'
        BY <2>0, <3>1, <4>1 DEF Honest
      <4>3. QED
        BY <3>2, <4>2
    <3>5. QED
      BY <3>2, <3>3, <3>4
  <2>3. CASE Invalidate
    <3>1. state'.total = state.total /\ state'.byLane = state.byLane
      BY <2>3 DEF Invalidate, InvalidateDisplayed, TypeOK, WearState
    <3>2. QED
      BY <2>3, <3>1 DEF Honest, Invalidate, InProgress, Wear
  <2>4. CASE Restart
    <3>1. /\ Wear' = Wear /\ state' = file /\ file' = file /\ InProgress' = 0
          /\ faults' + InProgress' = faults + InProgress
          /\ faults' \in Nat /\ InProgress \in {0, 1}
      BY <2>0, <2>4 DEF Restart, InProgress, Wear
    <3>2. Honest(file)'
      BY <2>0, <3>1 DEF Honest
    <3>3. Honest(state)'
      BY <3>1, <3>2 DEF Honest
    <3>4. QED
      BY <3>2, <3>3
  <2>5. CASE UNCHANGED <<state, file, active, log, faults>>
    BY <2>5 DEF Honest, InProgress, Wear
  <2>6. QED
    BY <2>1, <2>2, <2>3, <2>4, <2>5 DEF Next, vars, Tick, Arrive, Refuse, OpenFails
<1>3. TypeOK /\ Honest(state) /\ Honest(file) => OdometerHonest
  <2> SUFFICES ASSUME TypeOK, NEW s \in {state, file}, Honest(s)
               PROVE  s.total <= Wear
    BY DEF Honest, OdometerHonest
  <2>1. s.total \in Nat /\ Wear \in Nat /\ InProgress \in {0, 1}
    BY Numbers DEF TypeOK, WearState, InProgress
  <2>2. QED
    BY <2>1 DEF Honest
<1>4. QED
  BY <1>1, <1>2, <1>3, TypeCorrect, Inductive, PTL DEF Spec

---------------------------------------------------------------------------
(* What a refusal is worth. *)

(* An entry of the window is an interactive transfer of the history. *)
Interactive(e) ==
  /\ e.n \in 1..Wear
  /\ log[e.n].lane = "interactive"
  /\ log[e.n].at = e.at

(* What memory or file names has happened, and a window never holds more    *)
(* than the allowance: neither faults nor restarts put anything there.      *)
BackedState(s) ==
  /\ s.lastAt # None => \E i \in 1..Wear : log[i].at = s.lastAt
  /\ \A e \in s.recent : Interactive(e)
  /\ Cardinality(s.recent) <= InteractivePerHour

(* The interactive transfer in progress was allowed by the window to which  *)
(* it will be added.                                                        *)
RoomForActive ==
  active # None /\ call[active.by].lane = "interactive" =>
    Cardinality(InteractiveWithinHour(state.recent, call[active.by].at))
      < InteractivePerHour

Backed == BackedState(state) /\ BackedState(file) /\ RoomForActive

(* A history that only grows keeps what it backs. *)
LEMMA StillBacked ==
  ASSUME NEW s, BackedState(s), Wear \in Nat, Wear' \in Nat, Wear <= Wear',
         \A i \in 1..Wear : log'[i] = log[i],
         NEW t, t.lastAt = s.lastAt, t.recent = s.recent
  PROVE  /\ t.lastAt # None => \E i \in 1..Wear' : log'[i].at = t.lastAt
         /\ \A e \in t.recent : Interactive(e)'
         /\ Cardinality(t.recent) <= InteractivePerHour
<1>1. 1..Wear \subseteq 1..Wear'
  OBVIOUS
<1>2. ASSUME t.lastAt # None PROVE \E i \in 1..Wear' : log'[i].at = t.lastAt
  <2>1. PICK i \in 1..Wear : log[i].at = s.lastAt
    BY <1>2 DEF BackedState
  <2>2. i \in 1..Wear' /\ log'[i].at = t.lastAt
    BY <1>1, <2>1
  <2>3. QED
    BY <2>2
<1>3. ASSUME NEW e \in t.recent PROVE Interactive(e)'
  BY <1>1 DEF BackedState, Interactive
<1>4. QED
  BY <1>2, <1>3 DEF BackedState

(* Pruning keeps the size of a window, and an interactive entry is added    *)
(* where the rules have found room.                                         *)
LEMMA RoomKept ==
  ASSUME NEW recent, IsFiniteSet(recent), Cardinality(recent) <= InteractivePerHour,
         NEW lane, NEW now, NEW n,
         lane = "interactive" =>
           Cardinality(InteractiveWithinHour(recent, now)) < InteractivePerHour
  PROVE  Cardinality(InteractiveWithinHour(Pushed(recent, lane, now, n), now))
           <= InteractivePerHour
<1> DEFINE kept == InteractiveWithinHour(recent, now)
           new == InteractiveWithinHour(Pushed(recent, lane, now, n), now)
           e == [n |-> n, at |-> now]
<1>1. kept \in SUBSET recent
  BY DEF InteractiveWithinHour
<1>2. /\ IsFiniteSet(kept) /\ Cardinality(kept) \in Nat
      /\ Cardinality(kept) <= Cardinality(recent) /\ Cardinality(recent) \in Nat
      /\ InteractivePerHour \in Nat
  <2> HIDE DEF kept
  <2>1. IsFiniteSet(kept) /\ Cardinality(kept) <= Cardinality(recent)
    BY <1>1, FS_Subset
  <2>2. QED
    BY <2>1, FS_CardinalityType, RulesAssumption
<1>3. CASE lane # "interactive"
  <2>1. new = kept
    BY <1>3 DEF Pushed
  <2> HIDE DEF kept, new
  <2>2. QED
    BY <1>2, <2>1 DEF new
<1>4. CASE lane = "interactive"
  <2>1. new \in SUBSET (kept \cup {e})
    BY <1>4 DEF Pushed, InteractiveWithinHour
  <2>2. Cardinality(kept) < InteractivePerHour
    BY <1>4
  <2> HIDE DEF kept, new, e
  <2>3. /\ IsFiniteSet(kept \cup {e})
        /\ Cardinality(kept \cup {e}) =
             IF e \in kept THEN Cardinality(kept) ELSE Cardinality(kept) + 1
    BY <1>2, FS_AddElement
  <2>4. IsFiniteSet(new) /\ Cardinality(new) <= Cardinality(kept \cup {e})
    BY <2>1, <2>3, FS_Subset
  <2>5. Cardinality(new) \in Nat
    BY <2>4, FS_CardinalityType
  <2>6. Cardinality(new) <= InteractivePerHour
    BY <1>2, <2>2, <2>3, <2>4, <2>5
  <2>7. QED
    BY <2>6 DEF new
<1>5. QED
  BY <1>3, <1>4

LEMMA StepBacked == IInv /\ Backed /\ [Next]_vars => Backed'
<1> SUFFICES ASSUME IInv, Backed, [Next]_vars PROVE Backed'
  OBVIOUS
<1> USE DEF IInv, Backed
<1>0. Wear \in Nat
  BY Numbers
<1>1. ASSUME NEW c \in Caller, NEW ok \in BOOLEAN,
             NEW shown \in Image \cup {Torn, Native}, Transfer(c, ok, shown)
      PROVE  Backed'
  <2>1. Wear' = Wear + 1 /\ (\A i \in 1..Wear : log'[i] = log[i]) /\ active'.by = c
    BY <1>1, TransferLog
  <2>2. state' = state /\ file' = file /\ call' = call
    BY <1>1 DEF Transfer
  <2>3. BackedState(state)' /\ BackedState(file)'
    BY <1>0, <2>1, <2>2, StillBacked DEF BackedState
  <2>4. call[c].lane = "interactive" =>
          Cardinality(InteractiveWithinHour(state.recent, call[c].at)) < InteractivePerHour
    BY <1>1 DEF Transfer, DecisionFor, Decide, LaneAllows
  <2>5. QED
    BY <2>1, <2>2, <2>3, <2>4 DEF RoomForActive
<1>2. ASSUME NEW saved \in BOOLEAN, Record(saved) PROVE Backed'
  <2> DEFINE r == call[active.by]
             new == InteractiveWithinHour(Pushed(state.recent, r.lane, r.at, Wear), r.at)
  <2>1. /\ state'.lastAt = r.at /\ state'.recent = new
        /\ file' = IF saved THEN state' ELSE file
        /\ active' = None /\ active # None /\ log' = log /\ Wear' = Wear
    BY <1>2, RecordState DEF Record, Wear
  <2>2. Wear > 0 /\ log[Wear].lane = r.lane /\ log[Wear].at = r.at
    BY <2>1 DEF ActiveIsLast
  <2>3. Cardinality(new) <= InteractivePerHour
    BY <2>1, RoomKept DEF RecentFinite, BackedState, RoomForActive
  <2>4. ASSUME NEW e \in new PROVE Interactive(e)
    <3>1. e \in state.recent \/ (r.lane = "interactive" /\ e = [n |-> Wear, at |-> r.at])
      BY DEF InteractiveWithinHour, Pushed
    <3>2. QED
      BY <1>0, <2>2, <3>1 DEF BackedState, Interactive
  <2>5. \E i \in 1..Wear : log[i].at = r.at
    BY <1>0, <2>2
  <2> HIDE DEF new, r
  <2>6. BackedState(state)'
    BY <2>1, <2>3, <2>4, <2>5 DEF BackedState, Interactive
  <2>7. BackedState(file)'
    BY <2>1, <2>6 DEF BackedState, Interactive
  <2>8. QED
    BY <2>1, <2>6, <2>7 DEF RoomForActive
<1>3. CASE Invalidate
  <2>1. /\ state'.recent = state.recent /\ state'.lastAt = state.lastAt
        /\ file' = file /\ log' = log /\ Wear' = Wear /\ active' = None
    BY <1>3 DEF Invalidate, InvalidateDisplayed, TypeOK, WearState, Wear
  <2>2. QED
    BY <2>1 DEF BackedState, Interactive, RoomForActive
<1>4. CASE Restart
  <2>1. state' = file /\ file' = file /\ log' = log /\ Wear' = Wear /\ active' = None
    BY <1>4 DEF Restart, Wear
  <2>2. QED
    BY <2>1 DEF BackedState, Interactive, RoomForActive
<1>5. ASSUME NEW c \in Caller, NEW lane \in Lane, NEW img \in Image, Arrive(c, lane, img)
      PROVE  Backed'
  <2>1. /\ state' = state /\ file' = file /\ log' = log /\ Wear' = Wear /\ active' = active
    BY <1>5 DEF Arrive, Wear
  <2>2. active # None => call'[active.by] = call[active.by]
    BY <1>5 DEF Arrive, TypeOK, Progress
  <2>3. QED
    BY <2>1, <2>2 DEF BackedState, Interactive, RoomForActive
<1>6. ASSUME NEW c \in Caller, Refuse(c) \/ OpenFails(c) PROVE Backed'
  <2>1. state' = state /\ file' = file /\ log' = log /\ Wear' = Wear /\ active' = None
    BY <1>6 DEF Refuse, OpenFails, Serves, Wear
  <2>2. QED
    BY <2>1 DEF BackedState, Interactive, RoomForActive
<1>7. CASE Tick \/ UNCHANGED vars
  BY <1>7 DEF Tick, vars, BackedState, Interactive, RoomForActive, Wear
<1>8. QED
  BY <1>1, <1>2, <1>3, <1>4, <1>5, <1>6, <1>7 DEF Next

LEMMA AlwaysBacked == Spec => []Backed
<1>1. Init => Backed
  <2> SUFFICES ASSUME Init PROVE Backed
    OBVIOUS
  <2>1. /\ state = NewWear /\ file = NewWear /\ active = None
        /\ NewWear.lastAt = None /\ NewWear.recent = {}
    BY DEF Init, NewWear
  <2>2. Cardinality({}) <= InteractivePerHour
    BY FS_EmptySet, RulesAssumption
  <2>3. QED
    BY <2>1, <2>2 DEF Backed, BackedState, RoomForActive
<1>2. QED
  BY <1>1, StepBacked, Inductive, PTL DEF Spec

LEMMA NaturalSeconds ==
  ASSUME NEW d \in Nat
  PROVE  NumSeconds(d) \in Nat
BY RulesAssumption DEF NumSeconds

(* A truncated number of seconds below k means less than k seconds. *)
LEMMA FewerSeconds ==
  ASSUME NEW d \in Nat, NEW k \in Nat, NumSeconds(d) < k
  PROVE  d < k * Sec
<1> DEFINE q == d \div Sec
<1>1. Sec \in Nat /\ Sec > 0
  BY RulesAssumption
<1>2. d = Sec * q + (d % Sec) /\ d % Sec < Sec /\ q \in Nat
  BY <1>1
<1>3. q < k
  BY DEF NumSeconds
<1> HIDE DEF q
<1>4. (k - 1 - q) * Sec >= 0
  BY <1>1, <1>2, <1>3
<1>5. (k - 1 - q) * Sec = k * Sec - Sec - Sec * q
  BY <1>1, <1>2
<1>6. QED
  BY <1>1, <1>2, <1>4, <1>5

(* The oldest entry of a window that is not empty is one of its instants,   *)
(* and no other is before it.                                               *)
LEMMA OldestEntry ==
  ASSUME NEW W, W # {}, \A e \in W : e.at \in Nat, NEW now
  PROVE  /\ \E e \in W : e.at = Oldest(W, now)
         /\ \A e \in W : Oldest(W, now) <= e.at
<1> DEFINE T == {e.at : e \in W}
           R == OpToRel(<, Nat)
<1>1. T \subseteq Nat /\ T # {}
  OBVIOUS
<1>2. \E x \in T : \A y \in T : ~ (<<y, x>> \in R)
  <2> HIDE DEF T, R
  <2>1. IsWellFoundedOn(R, Nat)
    BY NatLessThanWellFounded DEF R
  <2>2. QED
    BY <1>1, <2>1, WFMin
<1>3. PICK x \in T : \A y \in T : ~ (<<y, x>> \in R)
  BY <1>2
<1>4. \A e \in W : x <= e.at
  <2>1. ASSUME NEW e \in W PROVE x <= e.at
    <3>1. e.at \in T /\ e.at \in Nat /\ x \in Nat
      BY <1>1
    <3>2. ~ (e.at < x)
      BY <1>3, <3>1 DEF OpToRel
    <3>3. QED
      BY <3>1, <3>2
  <2>2. QED
    BY <2>1
<1>5. Oldest(W, now) \in T /\ \A e \in W : Oldest(W, now) <= e.at
  BY <1>4 DEF Oldest
<1>6. QED
  BY <1>5

(* Whole seconds, truncated toward zero, differ from the duration by less   *)
(* than a second.                                                           *)
LEMMA TruncatedSeconds ==
  ASSUME NEW d \in Int
  PROVE  /\ NumSeconds(d) \in Int
         /\ d >= 0 => /\ NumSeconds(d) >= 0
                      /\ NumSeconds(d) * Sec <= d
                      /\ d < NumSeconds(d) * Sec + Sec
         /\ d < 0 => /\ NumSeconds(d) <= 0
                     /\ d <= NumSeconds(d) * Sec
                     /\ NumSeconds(d) * Sec < d + Sec
<1>1. Sec \in Nat /\ Sec > 0
  BY RulesAssumption
<1>2. ASSUME NEW x \in Nat
      PROVE  LET q == x \div Sec
             IN q \in Nat /\ q * Sec <= x /\ x < q * Sec + Sec
  <2> DEFINE q == x \div Sec
             m == x % Sec
  <2>1. q \in Nat /\ m \in Nat /\ m < Sec /\ x = Sec * q + m
    BY <1>1
  <2> HIDE DEF q, m
  <2>2. Sec * q = q * Sec /\ q * Sec \in Nat
    BY <1>1, <2>1
  <2>3. q * Sec <= x /\ x < q * Sec + Sec
    BY <1>1, <2>1, <2>2
  <2>4. QED
    BY <2>1, <2>3 DEF q
<1>3. CASE d >= 0
  BY <1>2, <1>3 DEF NumSeconds
<1>4. CASE d < 0
  <2> DEFINE x == -d
             q == x \div Sec
  <2>1. x \in Nat
    BY <1>4
  <2>2. q \in Nat /\ q * Sec <= x /\ x < q * Sec + Sec
    <3> HIDE DEF x
    <3>1. QED
      BY <1>2, <2>1
  <2>3. NumSeconds(d) = -q
    BY <1>4 DEF NumSeconds
  <2>4. x = -d
    OBVIOUS
  <2> HIDE DEF x, q
  <2>5. (-q) * Sec = -(q * Sec) /\ q * Sec \in Nat
    BY <1>1, <2>2
  <2>6. /\ -q \in Int /\ -q <= 0
        /\ d <= (-q) * Sec
        /\ (-q) * Sec < d + Sec
    BY <1>1, <2>2, <2>4, <2>5
  <2>7. QED
    BY <1>4, <2>3, <2>6
<1>5. QED
  BY <1>3, <1>4

(* A rate-limited scheduled request has a transfer less than an interval    *)
(* before its clock, or after it; it is let through retry_after_secs after  *)
(* its answer, and a second less after its clock it is not.                 *)
LEMMA ScheduledRefusal ==
  ASSUME IInv, Backed, NEW now \in Nat, now <= clock, NEW img,
         Decide(state, img, "scheduled", now) = "rate_limited"
  PROVE  LET r == ScheduledRetry(state, now)
         IN /\ {i \in 1..Wear : log[i].at > now - EffectiveInterval * Sec} # {}
            /\ LaneAllows(state, "scheduled", clock + r * Sec)
            /\ ~LaneAllows(state, "scheduled", now + (r - 1) * Sec)
<1> DEFINE E == EffectiveInterval
           last == state.lastAt
           d == now - last
           q == NumSeconds(d)
           r == ScheduledRetry(state, now)
<1>1. ~LaneAllows(state, "scheduled", now)
  BY DEF Decide
<1>2. last # None /\ ~ (q >= E)
  BY <1>1 DEF LaneAllows
<1>3. PICK i \in 1..Wear : log[i].at = last
  BY <1>2 DEF Backed, BackedState
<1>4. /\ clock \in Nat /\ last \in Nat /\ last <= clock /\ d \in Int
      /\ E \in Nat /\ E * Sec \in Nat /\ Sec \in Nat /\ Sec > 0
  <2>1. TypeOK /\ log[i].at <= log[i].done /\ log[i].done <= clock
    BY DEF IInv, LogOrdered
  <2>2. QED
    BY <1>3, <2>1, Numbers, IntervalBounds, RulesAssumption
<1>5. /\ q \in Int /\ q < E
      /\ d >= 0 => q >= 0 /\ q * Sec <= d /\ d < q * Sec + Sec
      /\ d < 0 => q <= 0 /\ d <= q * Sec
  <2> HIDE DEF d
  <2>1. /\ q \in Int
        /\ d >= 0 => q >= 0 /\ q * Sec <= d /\ d < q * Sec + Sec
        /\ d < 0 => q <= 0 /\ d <= q * Sec
    BY <1>4, TruncatedSeconds
  <2> HIDE DEF q, E
  <2>2. q < E
    BY <1>2, <1>4, <2>1
  <2>3. QED
    BY <2>1, <2>2
<1>6. r = E - q /\ r \in Nat /\ r >= 1
  <2>1. r = AtLeast(1, E - q)
    BY DEF ScheduledRetry
  <2> HIDE DEF q, r, E
  <2>2. QED
    BY <1>4, <1>5, <2>1 DEF AtLeast
<1>7. /\ d = now - last
      /\ r * Sec = E * Sec - q * Sec /\ (r - 1) * Sec = E * Sec - q * Sec - Sec
      /\ q * Sec \in Int
      /\ q <= 0 => q * Sec <= 0
      /\ E >= q + 1 => E * Sec >= q * Sec + Sec
  <2>1. d = now - last
    OBVIOUS
  <2> HIDE DEF d, q, r, E
  <2>2. q * Sec \in Int /\ (q <= 0 => q * Sec <= 0)
    BY <1>4, <1>5
  <2>3. /\ r * Sec = E * Sec - q * Sec
        /\ (r - 1) * Sec = E * Sec - q * Sec - Sec
    BY <1>4, <1>5, <1>6
  <2>4. r * Sec >= Sec
    BY <1>4, <1>6
  <2>5. E * Sec >= q * Sec + Sec
    BY <1>4, <2>2, <2>3, <2>4
  <2>6. QED
    BY <2>1, <2>2, <2>3, <2>5
<1>8. E \in Nat /\ E >= q + 1
  <2> HIDE DEF q, E
  <2>1. QED
    BY <1>4, <1>5
<1>9. ASSUME NEW t
      PROVE  LaneAllows(state, "scheduled", t) <=> NumSeconds(t - last) >= E
  BY <1>2 DEF LaneAllows
<1>10. i \in {j \in 1..Wear : log[j].at > now - E * Sec}
  <2> HIDE DEF d, q, r, E, last
  <2>1. d < E * Sec
    BY <1>4, <1>5, <1>7, <1>8
  <2>2. QED
    BY <1>3, <1>4, <1>7, <2>1
<1>11. LaneAllows(state, "scheduled", clock + r * Sec)
  <2> DEFINE y == (clock + r * Sec) - last
  <2>1. y \in Nat /\ y >= E * Sec
    <3> HIDE DEF d, q, r, E, last
    <3>1. QED
      BY <1>4, <1>5, <1>7
  <2>2. NumSeconds(y) >= E
    <3> HIDE DEF y, E
    <3>1. NumSeconds(y) \in Nat
      BY <2>1, NaturalSeconds
    <3>2. ~ (NumSeconds(y) < E)
      BY <1>4, <2>1, FewerSeconds
    <3>3. QED
      BY <1>4, <3>1, <3>2
  <2> HIDE DEF r, E, last
  <2>3. QED
    BY <1>9, <2>2
<1>12. ~LaneAllows(state, "scheduled", now + (r - 1) * Sec)
  <2> DEFINE x == (now + (r - 1) * Sec) - last
  <2>1. x \in Int /\ x < E * Sec /\ (E = 0 => x <= -Sec)
    <3> HIDE DEF d, q, r, E, last
    <3>1. QED
      BY <1>4, <1>5, <1>7, <1>8
  <2>2. ~ (NumSeconds(x) >= E)
    <3>1. CASE E > 0
      <4> HIDE DEF x, E
      <4>1. NumSeconds(x) >= E => x >= E * Sec
        BY <1>4, <2>1, <3>1, WholeSeconds
      <4>2. QED
        BY <1>4, <2>1, <4>1
    <3>2. CASE E = 0
      <4> HIDE DEF x, E
      <4>1. x < 0
        BY <1>4, <2>1, <3>2
      <4>2. NumSeconds(x) \in Int /\ NumSeconds(x) * Sec < x + Sec
        BY <2>1, <4>1, TruncatedSeconds
      <4> DEFINE n == NumSeconds(x)
      <4>3. n \in Int /\ n * Sec < 0
        <5>1. n * Sec \in Int
          <6> HIDE DEF n
          <6>1. n \in Int
            BY <4>2 DEF n
          <6>2. QED
            BY <1>4, <6>1
        <5>2. QED
          BY <1>4, <2>1, <3>2, <4>2, <5>1
      <4> HIDE DEF n
      <4>4. ~ (n >= 0)
        BY <1>4, <4>3
      <4>5. QED
        BY <3>2, <4>4 DEF n
    <3>3. QED
      <4> HIDE DEF x, E
      <4>1. QED
        BY <1>4, <3>1, <3>2
  <2> HIDE DEF r, E, last
  <2>3. QED
    BY <1>9, <2>2
<1>13. QED
  BY <1>10, <1>11, <1>12

(* A refused interactive request follows as many interactive transfers in   *)
(* the hour as are allowed.                                                 *)
LEMMA WindowHappened ==
  ASSUME IInv, Backed, NEW now \in Nat
  PROVE  LET W == InteractiveWithinHour(state.recent, now)
         IN Cardinality(W) <=
              Cardinality({i \in {i \in 1..Wear : log[i].at > now - Hour} :
                             log[i].lane = "interactive"})
<1> DEFINE W == InteractiveWithinHour(state.recent, now)
           H == {i \in {i \in 1..Wear : log[i].at > now - Hour} :
                   log[i].lane = "interactive"}
           f == [e \in W |-> e.n]
<1>1. IsFiniteSet(H)
  <2>1. IsFiniteSet(1..Wear) /\ H \in SUBSET (1..Wear)
    BY Numbers, FS_Interval DEF IInv
  <2> HIDE DEF H
  <2>2. QED
    BY <2>1, FS_Subset
<1>2. ASSUME NEW e \in W
      PROVE  /\ e \in Entry /\ e.n \in H
             /\ log[e.n].at = e.at
  <2>1. e \in state.recent /\ e.at > now - Hour
    BY DEF InteractiveWithinHour
  <2>2. QED
    BY <2>1 DEF Backed, BackedState, Interactive, IInv, TypeOK, WearState
<1>3. ASSUME NEW e \in W, NEW g \in W, e.n = g.n PROVE e = g
  <2>1. e.at = g.at /\ e \in Entry /\ g \in Entry
    BY <1>2, <1>3
  <2>2. QED
    BY <1>3, <2>1 DEF Entry
<1>4. f \in Injection(W, H)
  <2>1. f \in [W -> H] /\ \A e, g \in W : f[e] = f[g] => e = g
    BY <1>2, <1>3
  <2> HIDE DEF f, W, H
  <2>2. QED
    BY <2>1 DEF Injection, IsInjective
<1> HIDE DEF f, W, H
<1>5. Cardinality(W) <= Cardinality(H)
  BY <1>1, <1>4, FS_Injection
<1>6. QED
  BY <1>5 DEF W, H

(* An exhausted allowance has its next write at most a second after         *)
(* retry_after_secs, counted from the answer, and none a second before it,  *)
(* counted from the clock of the request.                                   *)
LEMMA InteractiveRefusal ==
  ASSUME IInv, Backed, NEW now \in Nat, now <= clock, NEW img,
         Decide(state, img, "interactive", now) = "burst_exhausted"
  PROVE  LET r == BurstRetry(state, now)
         IN /\ InteractivePerHour <=
                 Cardinality(InteractiveWithinHour(state.recent, now))
            /\ InteractivePerHour > 0 =>
                 LaneAllows(state, "interactive", clock + (r + 1) * Sec)
            /\ ~LaneAllows(state, "interactive", now + (r - 1) * Sec)
<1> DEFINE W == InteractiveWithinHour(state.recent, now)
           o == Oldest(W, now)
           D == o + Hour - now
           r == BurstRetry(state, now)
           In(t) == InteractiveWithinHour(state.recent, t)
<1>1. /\ clock \in Nat /\ Hour \in Nat /\ Hour > 0 /\ Sec \in Nat /\ Sec > 0
      /\ InteractivePerHour \in Nat /\ IsFiniteSet(state.recent)
      /\ \A e \in state.recent : e.at \in Nat
  BY Numbers, GovernorAssumption, RulesAssumption
     DEF IInv, RecentFinite, TypeOK, WearState, Entry, Time
<1>2. ASSUME NEW t
      PROVE  /\ In(t) \in SUBSET state.recent /\ IsFiniteSet(In(t))
             /\ Cardinality(In(t)) \in Nat
             /\ LaneAllows(state, "interactive", t)
                  <=> Cardinality(In(t)) < InteractivePerHour
  <2>1. In(t) \in SUBSET state.recent
    BY DEF InteractiveWithinHour
  <2>2. IsFiniteSet(In(t)) /\ Cardinality(In(t)) \in Nat
    <3> HIDE DEF In
    <3>1. QED
      BY <1>1, <2>1, FS_Subset, FS_CardinalityType
  <2>3. LaneAllows(state, "interactive", t) <=> Cardinality(In(t)) < InteractivePerHour
    BY DEF LaneAllows
  <2>4. QED
    BY <2>1, <2>2, <2>3
<1>3. InteractivePerHour <= Cardinality(W)
  <2>1. ~LaneAllows(state, "interactive", now)
    BY DEF Decide
  <2>2. ~ (Cardinality(In(now)) < InteractivePerHour) /\ Cardinality(In(now)) \in Nat
    BY <1>2, <2>1
  <2>3. W = In(now)
    OBVIOUS
  <2> HIDE DEF W, In
  <2>4. QED
    BY <1>1, <2>2, <2>3
<1>4. r = AtLeast(1, NumSeconds(D))
  BY DEF BurstRetry
<1>5. ASSUME W # {}
      PROVE  /\ \E e \in W : e.at = o
             /\ \A e \in W : o <= e.at
             /\ o \in Nat /\ o > now - Hour
  <2>1. \A e \in W : e.at \in Nat /\ e.at > now - Hour
    BY <1>1 DEF InteractiveWithinHour
  <2> HIDE DEF W
  <2>2. (\E e \in W : e.at = o) /\ (\A e \in W : o <= e.at)
    BY <1>5, <2>1, OldestEntry
  <2>3. QED
    BY <2>1, <2>2
<1>6. ASSUME InteractivePerHour > 0
      PROVE  LaneAllows(state, "interactive", clock + (r + 1) * Sec)
  <2> DEFINE t == clock + (r + 1) * Sec
  <2>1. W # {}
    <3>1. W = {} => Cardinality(W) = 0
      BY FS_EmptySet
    <3> HIDE DEF W
    <3>2. QED
      BY <1>1, <1>3, <1>6, <3>1
  <2>2. PICK e \in W : e.at = o
    BY <1>5, <2>1
  <2>3. o \in Nat /\ D \in Nat /\ D > 0
    <3>1. o \in Nat /\ o > now - Hour
      BY <1>5, <2>1
    <3> HIDE DEF o
    <3>2. QED
      BY <1>1, <3>1
  <2>4. NumSeconds(D) \in Nat /\ r \in Nat /\ r >= NumSeconds(D)
    <3>1. NumSeconds(D) \in Nat
      BY <2>3, NaturalSeconds
    <3> HIDE DEF r, D
    <3>2. QED
      BY <1>4, <3>1 DEF AtLeast
  <2>5. D < (r + 1) * Sec
    <3> HIDE DEF r, D
    <3>1. NumSeconds(D) < r + 1 /\ r + 1 \in Nat
      BY <2>4
    <3>2. QED
      BY <2>3, <3>1, FewerSeconds
  <2>6. ~ (e.at > t - Hour)
    <3> DEFINE x == (r + 1) * Sec
    <3>1. x \in Nat /\ o + Hour - now < x
      BY <1>1, <2>4, <2>5
    <3>2. e.at = o
      BY <2>2
    <3> HIDE DEF o, r, x
    <3>3. ~ (o > (clock + x) - Hour)
      BY <1>1, <2>3, <3>1
    <3>4. QED
      BY <3>2, <3>3 DEF x
  <2>7. e \in state.recent /\ e \notin In(t)
    BY <2>6 DEF InteractiveWithinHour
  <2>8. /\ Cardinality(In(t)) <= Cardinality(state.recent)
        /\ Cardinality(In(t)) # Cardinality(state.recent)
    <3>1. In(t) \in SUBSET state.recent
      BY <1>2
    <3> HIDE DEF In
    <3>2. QED
      BY <1>1, <2>7, <3>1, FS_Subset
  <2>9. Cardinality(state.recent) \in Nat /\ Cardinality(state.recent) <= InteractivePerHour
    BY <1>1, FS_CardinalityType DEF Backed, BackedState
  <2>10. Cardinality(In(t)) < InteractivePerHour
    <3>1. Cardinality(In(t)) \in Nat
      BY <1>2
    <3> HIDE DEF In, t
    <3>2. QED
      BY <1>1, <2>8, <2>9, <3>1
  <2>11. QED
    BY <1>2, <2>10
<1>7. ~LaneAllows(state, "interactive", now + (r - 1) * Sec)
  <2> DEFINE t == now + (r - 1) * Sec
  <2>1. W \in SUBSET In(t)
    <3> SUFFICES ASSUME NEW e \in W PROVE e.at > t - Hour
      BY DEF InteractiveWithinHour
    <3>1. o \in Nat /\ o > now - Hour /\ o <= e.at /\ e.at \in Nat
      BY <1>1, <1>5 DEF InteractiveWithinHour
    <3>2. D \in Nat
      <4> HIDE DEF o
      <4>1. QED
        BY <1>1, <3>1
    <3>3. D > 0 /\ NumSeconds(D) \in Nat
      <4>1. D > 0
        <5> HIDE DEF o
        <5>1. QED
          BY <1>1, <3>1
      <4>2. QED
        BY <3>2, <4>1, NaturalSeconds
    <3>4. r \in Nat /\ r >= 1 /\ (r > 1 => r = NumSeconds(D))
      <4> HIDE DEF r, D
      <4>1. QED
        BY <1>4, <3>3 DEF AtLeast
    <3>5. (r - 1) * Sec < D
      <4> HIDE DEF r, D
      <4>1. CASE r = 1
        BY <1>1, <3>2, <3>3, <4>1
      <4>2. CASE r > 1
        <5>1. r * Sec <= D
          BY <1>1, <3>2, <3>3, <3>4, <4>2, WholeSeconds
        <5>2. (r - 1) * Sec = r * Sec - Sec /\ r * Sec \in Nat
          BY <1>1, <3>4
        <5>3. QED
          BY <1>1, <3>2, <5>1, <5>2
      <4>3. QED
        BY <3>4, <4>1, <4>2
    <3> DEFINE x == (r - 1) * Sec
    <3>6. x \in Int /\ x < o + Hour - now
      BY <1>1, <3>4, <3>5
    <3> HIDE DEF o, r, x
    <3>7. e.at > (now + x) - Hour
      BY <1>1, <3>1, <3>6
    <3>8. QED
      BY <3>7 DEF x
  <2>2. IsFiniteSet(In(t)) /\ Cardinality(In(t)) \in Nat
    BY <1>2
  <2>3. Cardinality(W) <= Cardinality(In(t)) /\ Cardinality(W) \in Nat
    <3> HIDE DEF W, In
    <3>1. QED
      BY <2>1, <2>2, FS_Subset, FS_CardinalityType
  <2>4. ~ (Cardinality(In(t)) < InteractivePerHour)
    <3> HIDE DEF W, In, t
    <3>1. QED
      BY <1>1, <1>3, <2>2, <2>3
  <2>5. QED
    BY <1>2, <2>4
<1>8. QED
  BY <1>3, <1>6, <1>7

(* In every reachable state a refusal that is given rests on transfers that *)
(* happened, whichever clock the request has, and its retry_after_secs is   *)
(* when the governor will let the caller through: counted from the answer,  *)
(* and no second less from the clock of the request (for an interactive one *)
(* up to a second later).                                                   *)
THEOREM RefusalsTrue == Spec => []RefusalHonest
<1>1. IInv /\ Backed => RefusalHonest
  <2> SUFFICES ASSUME IInv, Backed, NEW c \in Caller, Serves(c)
               PROVE  LET now == call[c].at
                          since(t) == {i \in 1..Wear : log[i].at > t}
                      IN /\ DecisionFor(c) = "rate_limited" =>
                              LET r == ScheduledRetry(state, now)
                              IN /\ since(now - EffectiveInterval * Sec) # {}
                                 /\ LaneAllows(state, "scheduled", clock + r * Sec)
                                 /\ ~LaneAllows(state, "scheduled", now + (r - 1) * Sec)
                         /\ DecisionFor(c) = "burst_exhausted" =>
                              LET r == BurstRetry(state, now)
                              IN /\ InteractivePerHour <=
                                      Cardinality({i \in since(now - Hour) :
                                                     log[i].lane = "interactive"})
                                 /\ InteractivePerHour > 0 =>
                                      LaneAllows(state, "interactive", clock + (r + 1) * Sec)
                                 /\ ~LaneAllows(state, "interactive", now + (r - 1) * Sec)
    BY DEF RefusalHonest
  <2> DEFINE now == call[c].at
             r == BurstRetry(state, now)
             W == InteractiveWithinHour(state.recent, now)
             H == {i \in {i \in 1..Wear : log[i].at > now - Hour} :
                     log[i].lane = "interactive"}
  <2>1. now \in Nat /\ now <= clock
    BY DEF Serves, IInv, TypeOK, CallsFresh, Request, Time
  <2>2. ASSUME DecisionFor(c) = "rate_limited"
        PROVE  Decide(state, call[c].img, "scheduled", now) = "rate_limited"
    BY <2>2 DEF DecisionFor, Decide
  <2>3. ASSUME DecisionFor(c) = "burst_exhausted"
        PROVE  /\ InteractivePerHour <= Cardinality(H)
               /\ InteractivePerHour > 0 =>
                    LaneAllows(state, "interactive", clock + (r + 1) * Sec)
               /\ ~LaneAllows(state, "interactive", now + (r - 1) * Sec)
    <3>1. \/ Decide(state, call[c].img, "interactive", now) = "burst_exhausted"
          \/ call[c].lane = "recovery"
      BY <2>3 DEF DecisionFor, Decide, Serves, IInv, TypeOK, Request, Lane
    <3>2. Decide(state, call[c].img, "interactive", now) = "burst_exhausted"
      BY <2>3, <3>1 DEF DecisionFor, Decide, LaneAllows
    <3>3. /\ InteractivePerHour <= Cardinality(W)
          /\ InteractivePerHour > 0 =>
               LaneAllows(state, "interactive", clock + (r + 1) * Sec)
          /\ ~LaneAllows(state, "interactive", now + (r - 1) * Sec)
      <4> HIDE DEF now
      <4>1. QED
        BY <2>1, <3>2, InteractiveRefusal
    <3>4. Cardinality(W) <= Cardinality(H)
      <4> HIDE DEF now
      <4>1. QED
        BY <2>1, WindowHappened
    <3>5. IsFiniteSet(1..Wear) /\ H \in SUBSET (1..Wear)
      BY Numbers, FS_Interval DEF IInv
    <3>6. IsFiniteSet(W)
      BY FS_Subset DEF InteractiveWithinHour, IInv, RecentFinite
    <3> HIDE DEF W, H, now, r
    <3>7. IsFiniteSet(H)
      BY <3>5, FS_Subset
    <3>8. Cardinality(W) \in Nat /\ Cardinality(H) \in Nat /\ InteractivePerHour \in Nat
      BY <3>6, <3>7, FS_CardinalityType, RulesAssumption
    <3>9. QED
      BY <3>3, <3>4, <3>8
  <2>4. ASSUME DecisionFor(c) = "rate_limited"
        PROVE  LET q == ScheduledRetry(state, now)
               IN /\ {i \in 1..Wear : log[i].at > now - EffectiveInterval * Sec} # {}
                  /\ LaneAllows(state, "scheduled", clock + q * Sec)
                  /\ ~LaneAllows(state, "scheduled", now + (q - 1) * Sec)
    <3>1. Decide(state, call[c].img, "scheduled", now) = "rate_limited"
      BY <2>2, <2>4
    <3> HIDE DEF now
    <3>2. QED
      BY <2>1, <3>1, ScheduledRefusal
  <2>5. QED
    BY <2>3, <2>4, Zenon
<1>2. QED
  BY <1>1, AlwaysBacked, Inductive, PTL
============================================================================
