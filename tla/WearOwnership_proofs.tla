------------------------ MODULE WearOwnership_proofs ------------------------
(***************************************************************************)
(* For any number of daemons, direct writers and seeders, any assignment   *)
(* of sockets and any crashes: the odometer never reads high, and one      *)
(* owner at a time reads and leaves it exact.                              *)
(***************************************************************************)
EXTENDS WearOwnership, FiniteSetTheorems, TLAPS

(* Every copy there ever was is at most the wear; so are the file, which is *)
(* only ever written from a copy, and what an earlier version left.         *)
IInv ==
  /\ pc \in [Process -> Place]
  /\ mem \in [Process -> Nat]
  /\ file.total \in Nat
  /\ legacy \in LegacyFile
  /\ due \in Nat
  /\ file.total <= due
  /\ legacy.there => legacy.total <= due
  /\ \A p \in Process : mem[p] <= due

LEMMA Kinds == Daemon \subseteq Process /\ Writer \subseteq Process /\ Seeder \subseteq Process
BY DEF Process

LEMMA Start == Init => IInv
BY OwnershipAssumption DEF Init, IInv, Place, LegacyFile

(* The steps that daemons, direct writers and seeders share. *)
LEMMA Shared ==
  ASSUME NEW p \in Process, NEW from, NEW to \in Place, IInv,
         \/ Load(p, from) \/ LoadFails(p, from) \/ Count(p, from, to)
         \/ Truncate(p, from, to) \/ Fill(p, from, to) \/ Leave(p, from)
  PROVE  IInv'
<1> USE DEF IInv, Go, Place, LegacyFile
<1>1. CASE Load(p, from)
  BY <1>1 DEF Load
<1>2. CASE LoadFails(p, from) \/ Leave(p, from)
  BY <1>2 DEF LoadFails, Leave
<1>3. CASE Count(p, from, to)
  BY <1>3 DEF Count
<1>4. CASE Truncate(p, from, to)
  BY <1>4 DEF Truncate
<1>5. CASE Fill(p, from, to)
  BY <1>5 DEF Fill
<1> QED
  BY <1>1, <1>2, <1>3, <1>4, <1>5

(* The steps that only move a process or change a path. *)
LEMMA Elsewhere ==
  ASSUME IInv, pc' \in [Process -> Place], UNCHANGED <<mem, file, legacy, due>>
  PROVE  IInv'
BY DEF IInv

LEMMA Moves ==
  ASSUME NEW p \in Process, NEW from, NEW to \in Place, IInv, Go(p, from, to)
  PROVE  pc' \in [Process -> Place]
BY DEF IInv, Go

(* Looking for the file, moving it and loading it. *)
LEMMA Loading ==
  ASSUME NEW p \in Process, NEW from, IInv, LoadOdometer(p, from)
  PROVE  IInv'
<1> USE DEF IInv, Go, Place, LegacyFile
<1>1. CASE Look(p, from) \/ NothingLeft(p)
  BY <1>1 DEF Look, NothingLeft
<1>2. CASE Rename(p)
  BY <1>2 DEF Rename
<1>3. CASE OpenLegacy(p)
  BY <1>3 DEF OpenLegacy
<1>4. CASE RemoveLegacy(p)
  BY <1>4 DEF RemoveLegacy
<1>5. CASE Truncate(p, "copying", "pouring") \/ Fill(p, "pouring", "moved")
  BY <1>5, Shared
<1>6. CASE \E at \in {from, "located"} : Load(p, at) \/ LoadFails(p, at)
  BY <1>6, Shared
<1> QED
  BY <1>1, <1>2, <1>3, <1>4, <1>5, <1>6 DEF LoadOdometer

LEMMA DaemonSteps ==
  ASSUME NEW d \in Daemon, IInv, DaemonStep(d) PROVE IInv'
<1> d \in Process
  BY Kinds
<1> USE DEF Place
<1>1. CASE LoadOdometer(d, "off")
  BY <1>1, Loading
<1>2. CASE Exists(d)
  BY <1>2, Moves, Elsewhere DEF Exists
<1>3. CASE Probe(d)
  BY <1>3, Moves, Elsewhere DEF Probe
<1>4. CASE RemoveStale(d)
  BY <1>4, Moves, Elsewhere DEF RemoveStale
<1>5. CASE Bind(d)
  BY <1>5, Moves, Elsewhere DEF Bind
<1>6. CASE BindFails(d)
  BY <1>6, Moves, Elsewhere DEF BindFails, Leave
<1>7. CASE Upload(d)
  BY <1>7, Shared DEF Upload
<1>8. CASE Stop(d)
  BY <1>8, Moves, Elsewhere DEF Stop
<1>9. CASE Exit(d)
  BY <1>9, Moves, Elsewhere DEF Exit
<1> QED
  BY <1>1, <1>2, <1>3, <1>4, <1>5, <1>6, <1>7, <1>8, <1>9 DEF DaemonStep

LEMMA WriterSteps ==
  ASSUME NEW w \in Writer, IInv, WriterStep(w) PROVE IInv'
<1> w \in Process
  BY Kinds
<1> USE DEF Place
<1>1. CASE Check(w)
  BY <1>1, Moves, Elsewhere DEF Check
<1>2. CASE Decline(w)
  BY <1>2, Shared DEF Decline
<1> QED
  BY <1>1, <1>2, Shared, Loading DEF WriterStep

LEMMA SeederSteps ==
  ASSUME NEW e \in Seeder, IInv, SeederStep(e) PROVE IInv'
<1> e \in Process
  BY Kinds
<1> QED
  BY Shared, Loading DEF SeederStep, Place

LEMMA Step == IInv /\ [Next]_vars => IInv'
<1> SUFFICES ASSUME IInv, [Next]_vars PROVE IInv'
  OBVIOUS
<1>1. ASSUME NEW p \in Process, Crash(p) PROVE IInv'
  <2>1. pc' \in [Process -> Place]
    BY <1>1 DEF IInv, Crash, Place
  <2> QED
    BY <1>1, <2>1, Elsewhere DEF Crash
<1>2. CASE UNCHANGED vars
  BY <1>2 DEF vars, IInv
<1> QED
  BY <1>1, <1>2, DaemonSteps, WriterSteps, SeederSteps DEF Next

(* No race, crash or stolen socket makes the odometer read high. *)
THEOREM NeverTooHigh == Spec => []NeverHigh
<1>1. IInv => NeverHigh
  BY DEF IInv, NeverHigh, Owner
<1> QED
  BY <1>1, Start, Step, PTL DEF Spec

---------------------------------------------------------------------------
(* One owner at a time: types, sockets, and what the odometer reads. *)

Idle == {"off", "clear"}

Writing == {"pouring", "saving", "lastSaving"}

Unsaved == {"counted", "saving", "lastCounted", "lastSaving"}

Loaded == {"loaded", "probe", "unlink", "bind", "serving", "draining"} \cup Unsaved

Serving == {"serving", "counted", "saving"}

Alone == \A p, q \in Process : pc[p] \notin Idle /\ pc[q] \notin Idle => p = q

(* Nobody else is an owner. *)
Only(p) == \A q \in Process : q # p => pc[q] \in Idle

(* A path leads to a daemon only while that daemon serves it. *)
Bound ==
  \A s \in Socket : path[s] \in Daemon => s = socket[path[s]] /\ pc[path[s]] \in Serving

(* If p is the only owner, or there is none, the file is whole unless p is  *)
(* writing it, it reads one less than it should while a write has not been  *)
(* saved, and p has its copy from it.                                       *)
Sole(p) ==
  /\ file.whole <=> pc[p] \notin Writing
  /\ file.whole => Reading = IF pc[p] \in Unsaved THEN due - 1 ELSE due
  /\ pc[p] \in Loaded \cup {"copying", "pouring"} => mem[p] = due
  /\ pc[p] \in {"moving", "copying"} => ~file.there
  /\ pc[p] \in Loaded \cup {"located"} => file.there \/ ~legacy.there

Shape ==
  /\ IInv
  /\ socket \in [Daemon -> Socket]
  /\ path \in [Socket -> Daemon \cup {NoOne, Stale}]
  /\ file \in [there : BOOLEAN, whole : BOOLEAN, total : Nat]
  /\ ~file.there => file.whole /\ file.total = 0
  /\ \A p \in Process : pc[p] \in {"moved"} \cup Writing => file.there
  /\ unsaved \in [Process -> BOOLEAN]
  /\ \A p \in Process : unsaved[p] <=> pc[p] \in Unsaved
  /\ overlap \in BOOLEAN
  /\ crashed \in BOOLEAN

SInv ==
  /\ Shape
  /\ Bound
  /\ CleanExitLeavesNothing
  /\ ~overlap => Alone
  /\ ~overlap /\ ~crashed => \A p \in Process : Only(p) => Sole(p)

LEMMA OddStart == Init => SInv
<1> SUFFICES ASSUME Init PROVE SInv
  OBVIOUS
<1>1. Shape
  <2>1. socket \in [Daemon -> Socket] /\ legacy \in LegacyFile
    BY OwnershipAssumption DEF Init
  <2> QED
    BY <2>1, Start DEF Init, Shape, Unsaved, Writing
<1>2. Bound /\ CleanExitLeavesNothing
  BY OwnershipAssumption DEF Init, Bound, CleanExitLeavesNothing
<1>3. Alone
  BY DEF Init, Alone, Idle
<1>4. \A p \in Process : Sole(p)
  <2>1. Reading = due
    BY DEF Init, Reading
  <2> QED
    BY <2>1 DEF Init, Sole, Writing, Unsaved, Loaded
<1> QED
  BY <1>1, <1>2, <1>3, <1>4 DEF SInv

(* A step of r, seen by r only: what it does to the owners. *)
LEMMA OwnerSteps ==
  ASSUME SInv, NEW r \in Process, NEW from, NEW to \in Place, Go(r, from, to), Shape',
         Bound', CleanExitLeavesNothing',
         overlap => overlap', crashed' = crashed,
         ~overlap' => from \notin Idle \/ Only(r),
         Only(r) /\ Sole(r) => Sole(r)'
  PROVE  SInv'
<1> USE DEF Go
<1>a. pc' = [pc EXCEPT ![r] = to] /\ pc[r] = from /\ pc \in [Process -> Place]
  BY DEF SInv, Shape, IInv
<1>1. ASSUME ~overlap' PROVE Only(r)
  <2> CASE from \notin Idle
    BY <1>a, <1>1 DEF SInv, Alone, Only, Idle
  <2> QED
    BY <1>1
<1>2. ASSUME ~overlap' PROVE Alone'
  BY <1>a, <1>1, <1>2 DEF Alone, Only, Idle
<1>3. ASSUME ~overlap', ~crashed', NEW p \in Process, Only(p)' PROVE Sole(p)'
  <2>1. Sole(r)'
    BY <1>1, <1>3 DEF SInv
  <2>2. CASE p # r
    <3>1. pc'[r] \in Idle /\ pc'[p] \in Idle
      BY <1>a, <1>1, <1>3, <2>2 DEF Only
    <3> QED
      BY <2>1, <3>1 DEF Sole, Idle, Writing, Loaded, Unsaved
  <2> QED
    BY <2>1, <2>2
<1> QED
  BY <1>2, <1>3 DEF SInv

(* Bound and CleanExitLeavesNothing, where no path changes. *)
LEMMA PathsKept ==
  ASSUME SInv, NEW r \in Process, NEW from, NEW to \in Place, Go(r, from, to),
         r \in Daemon /\ from \in Serving => to \in Serving, UNCHANGED <<socket, path, crashed>>
  PROVE  Bound' /\ CleanExitLeavesNothing'
<1>1. pc' = [pc EXCEPT ![r] = to] /\ pc[r] = from /\ pc \in [Process -> Place]
  BY DEF Go, SInv, Shape, IInv
<1>2. Bound'
  BY <1>1, Kinds DEF SInv, Bound
<1> QED
  BY <1>2 DEF SInv, CleanExitLeavesNothing

LEMMA ShapeKept ==
  ASSUME SInv, IInv', NEW r \in Process, NEW from, NEW to \in Place, Go(r, from, to),
         from \in Unsaved <=> to \in Unsaved,
         to \in {"moved"} \cup Writing => file.there,
         overlap' \in BOOLEAN,
         UNCHANGED <<socket, path, file, unsaved, crashed>>
  PROVE  Shape'
BY DEF Go, SInv, Shape, IInv

LEMMA SoleKept ==
  ASSUME SInv, NEW r \in Process, NEW from, NEW to \in Place, Go(r, from, to),
         from \in Writing <=> to \in Writing,
         from \in Unsaved <=> to \in Unsaved,
         to \in Loaded \cup {"copying", "pouring"} => from \in Loaded \cup {"copying", "pouring"},
         to \in {"moving", "copying"} => from \in {"moving", "copying"},
         to \in Loaded \cup {"located"} => from \in Loaded \cup {"located"} \/ ~legacy.there,
         UNCHANGED <<mem, file, legacy, due>>
  PROVE  Sole(r) => Sole(r)'
<1>1. pc'[r] = to /\ pc[r] = from
  BY DEF Go, SInv, Shape, IInv
<1> QED
  BY <1>1 DEF Sole, Reading

(* p joins the owners: if there is no overlap, it is the only one. *)
LEMMA JoinsAlone ==
  ASSUME SInv, NEW p \in Process, Joins(p)
  PROVE  /\ overlap' \in BOOLEAN
         /\ overlap => overlap'
         /\ ~overlap' => Only(p)
BY DEF SInv, Shape, Joins, Owner, Only, Idle

(* The steps of a process that looks for the odometer. *)
LEMMA LookStep ==
  ASSUME SInv, IInv', UNCHANGED socket, NEW p \in Process, NEW from \in Idle, Look(p, from)
  PROVE  SInv'
<1>1. Go(p, from, "moving") /\ from \in Place /\ "moving" \in Place
  BY DEF Look, Idle, Place
<1>2. Shape'
  BY <1>1, ShapeKept, JoinsAlone DEF Look, Idle, Unsaved, Writing
<1>3. Bound' /\ CleanExitLeavesNothing'
  BY <1>1, PathsKept DEF Look, Idle, Serving
<1>4. Sole(p) => Sole(p)'
  <2> pc'[p] = "moving" /\ pc[p] = from
    BY <1>1 DEF Go, SInv, Shape, IInv
  <2> QED
    BY DEF Look, Sole, Reading, Idle, Writing, Unsaved, Loaded
<1> QED
  BY <1>1, <1>2, <1>3, <1>4, JoinsAlone, OwnerSteps DEF Look

LEMMA LoadStep ==
  ASSUME SInv, IInv', UNCHANGED socket, NEW p \in Process,
         NEW from \in Idle \cup {"located"}, Load(p, from)
  PROVE  SInv'
<1>1. Go(p, from, "loaded") /\ from \in Place /\ "loaded" \in Place
  BY DEF Load, Idle, Place
<1>2. Shape'
  BY <1>1, ShapeKept, JoinsAlone DEF Load, Idle, Unsaved, Writing
<1>3. Bound' /\ CleanExitLeavesNothing'
  BY <1>1, PathsKept DEF Load, Idle, Serving
<1>4. Sole(p) => Sole(p)'
  <2>1. pc'[p] = "loaded" /\ pc[p] = from /\ mem'[p] = file.total
    BY <1>1 DEF Go, Load, SInv, Shape, IInv
  <2> QED
    BY <2>1 DEF SInv, Shape, Load, Sole, Reading, Idle, Writing, Unsaved, Loaded
<1> QED
  BY <1>1, <1>2, <1>3, <1>4, JoinsAlone, OwnerSteps DEF Load

LEMMA RenameStep ==
  ASSUME SInv, IInv', UNCHANGED socket, NEW p \in Process, Rename(p)
  PROVE  SInv'
<1>1. Go(p, "moving", "located") /\ "moving" \in Place /\ "located" \in Place
  BY DEF Rename, Place
<1>2. Shape'
  BY <1>1 DEF Rename, Go, SInv, Shape, IInv, LegacyFile, Unsaved, Writing
<1>3. Bound' /\ CleanExitLeavesNothing'
  BY <1>1, PathsKept DEF Rename, Serving
<1>4. Sole(p) => Sole(p)'
  <2>1. pc'[p] = "located" /\ pc[p] = "moving"
    BY <1>1 DEF Go, SInv, Shape, IInv
  <2>2. legacy.there /\ file'.there /\ file'.whole /\ file'.total = legacy.total /\ due' = due
    BY DEF Rename
  <2> QED
    BY <2>1, <2>2 DEF SInv, Shape, Sole, Reading, Writing, Unsaved, Loaded
<1> QED
  BY <1>1, <1>2, <1>3, <1>4, OwnerSteps DEF Rename, Idle

LEMMA OpenLegacyStep ==
  ASSUME SInv, IInv', UNCHANGED socket, NEW p \in Process, OpenLegacy(p)
  PROVE  SInv'
<1>1. Go(p, "moving", "copying") /\ "moving" \in Place /\ "copying" \in Place
  BY DEF OpenLegacy, Place
<1>2. Shape'
  BY <1>1, ShapeKept DEF OpenLegacy, SInv, Shape, Unsaved, Writing
<1>3. Bound' /\ CleanExitLeavesNothing'
  BY <1>1, PathsKept DEF OpenLegacy, Serving
<1>4. Sole(p) => Sole(p)'
  <2>1. pc'[p] = "copying" /\ pc[p] = "moving" /\ mem'[p] = legacy.total
    BY <1>1 DEF OpenLegacy, Go, SInv, Shape, IInv
  <2> QED
    BY <2>1 DEF OpenLegacy, SInv, Shape, Sole, Reading, Writing, Unsaved, Loaded
<1> QED
  BY <1>1, <1>2, <1>3, <1>4, OwnerSteps DEF OpenLegacy, Idle

LEMMA RemoveLegacyStep ==
  ASSUME SInv, IInv', UNCHANGED socket, NEW p \in Process, RemoveLegacy(p)
  PROVE  SInv'
<1>1. Go(p, "moved", "located") /\ "moved" \in Place /\ "located" \in Place
  BY DEF RemoveLegacy, Place
<1>2. Shape'
  BY <1>1, ShapeKept DEF RemoveLegacy, SInv, Shape, Unsaved, Writing
<1>3. Bound' /\ CleanExitLeavesNothing'
  BY <1>1, PathsKept DEF RemoveLegacy, Serving
<1>4. Sole(p) => Sole(p)'
  <2>1. pc'[p] = "located" /\ pc[p] = "moved" /\ file.there
    BY <1>1 DEF Go, SInv, Shape, IInv
  <2> QED
    BY <2>1 DEF RemoveLegacy, Sole, Reading, Writing, Unsaved, Loaded
<1> QED
  BY <1>1, <1>2, <1>3, <1>4, OwnerSteps DEF RemoveLegacy, Idle

(* The steps of a process that has its copy. *)
LEMMA CountStep ==
  ASSUME SInv, IInv', UNCHANGED socket, NEW p \in Process,
         NEW from \in {"loaded", "serving", "draining"}, NEW to \in {"counted", "lastCounted"},
         from = "serving" => to = "counted", Count(p, from, to)
  PROVE  SInv'
<1>1. Go(p, from, to) /\ from \in Place /\ to \in Place
  BY DEF Count, Place
<1>2. Shape'
  BY <1>1 DEF Count, Go, SInv, Shape, IInv, Unsaved, Writing
<1>3. Bound' /\ CleanExitLeavesNothing'
  BY <1>1, PathsKept DEF Count, Serving
<1>4. Sole(p) => Sole(p)'
  <2>1. pc'[p] = to /\ pc[p] = from /\ mem'[p] = mem[p] + 1 /\ due' = due + 1 /\ due \in Nat
    BY <1>1 DEF Count, Go, SInv, Shape, IInv
  <2> QED
    BY <2>1 DEF Count, Sole, Reading, Writing, Unsaved, Loaded
<1> QED
  BY <1>1, <1>2, <1>3, <1>4, OwnerSteps DEF Count, Idle

LEMMA TruncateStep ==
  ASSUME SInv, IInv', UNCHANGED socket, NEW p \in Process, NEW from, NEW to \in Place,
         <<from, to>> \in {<<"copying", "pouring">>, <<"counted", "saving">>,
                          <<"lastCounted", "lastSaving">>},
         Truncate(p, from, to)
  PROVE  SInv'
<1>1. Go(p, from, to)
  BY DEF Truncate
<1>2. Shape'
  BY <1>1 DEF Truncate, Go, SInv, Shape, IInv, Unsaved, Writing
<1>3. Bound' /\ CleanExitLeavesNothing'
  BY <1>1, PathsKept DEF Truncate, Serving
<1>4. Sole(p) => Sole(p)'
  <2>1. pc'[p] = to /\ pc[p] = from /\ file'.there /\ ~file'.whole
    BY <1>1 DEF Truncate, Go, SInv, Shape, IInv
  <2> QED
    BY <2>1 DEF Truncate, Sole, Reading, Writing, Unsaved, Loaded
<1> QED
  BY <1>1, <1>2, <1>3, <1>4, OwnerSteps DEF Truncate, Idle

LEMMA FillStep ==
  ASSUME SInv, IInv', UNCHANGED socket, NEW p \in Process, NEW from, NEW to \in Place,
         <<from, to>> \in {<<"pouring", "moved">>, <<"saving", "serving">>, <<"saving", "off">>,
                          <<"lastSaving", "draining">>},
         to = "off" => p \notin Daemon, Fill(p, from, to)
  PROVE  SInv'
<1>1. Go(p, from, to)
  BY DEF Fill
<1>2. Shape'
  <2>1. file' \in [there : BOOLEAN, whole : BOOLEAN, total : Nat] /\ file.there /\ file'.there
    BY <1>1 DEF Fill, Go, SInv, Shape, IInv, Writing
  <2> QED
    BY <1>1, <2>1 DEF Fill, Go, SInv, Shape, IInv, Unsaved, Writing
<1>3. Bound' /\ CleanExitLeavesNothing'
  BY <1>1, PathsKept DEF Fill, Serving
<1>4. Sole(p) => Sole(p)'
  <2>1. pc'[p] = to /\ pc[p] = from /\ file'.total = mem[p] /\ file'.whole \in {TRUE, ~file.whole}
    BY <1>1 DEF Fill, Go, SInv, Shape, IInv
  <2>2. file.there /\ file'.there
    BY <1>1 DEF Fill, Go, SInv, Shape, IInv, Writing
  <2> QED
    BY <2>1, <2>2 DEF Fill, Sole, Reading, Writing, Unsaved, Loaded
<1> QED
  BY <1>1, <1>2, <1>3, <1>4, OwnerSteps DEF Fill, Idle

(* The steps that only move an owner. *)
LEMMA MoveStep ==
  ASSUME SInv, IInv', UNCHANGED socket, NEW p \in Process, NEW from, NEW to \in Place,
         Go(p, from, to),
         \/ <<from, to>> = <<"moving", "located">> /\ ~legacy.there
         \/ <<from, to>> = <<"located", "off">>
         \/ /\ from \in {"loaded", "probe", "bind"}
            /\ to \in {"off", "probe", "bind", "unlink"},
         UNCHANGED <<mem, path, file, legacy, due, unsaved, overlap, crashed>>
  PROVE  SInv'
<1>1. Shape'
  BY ShapeKept DEF SInv, Shape, Unsaved, Writing
<1>2. Bound' /\ CleanExitLeavesNothing'
  BY PathsKept DEF Serving
<1>3. Sole(p) => Sole(p)'
  BY SoleKept DEF Unsaved, Loaded, Writing
<1> QED
  BY <1>1, <1>2, <1>3, OwnerSteps DEF Idle

(* The steps of a process that is no owner, and does not become one. *)
LEMMA IdleStep ==
  ASSUME SInv, IInv', UNCHANGED socket, NEW p \in Process, NEW from \in Idle, NEW to \in Idle,
         Go(p, from, to),
         UNCHANGED <<mem, path, file, legacy, due, unsaved, overlap, crashed>>
  PROVE  SInv'
<1>1. pc' = [pc EXCEPT ![p] = to] /\ pc[p] = from /\ pc \in [Process -> Place] /\ to \in Place
  BY DEF Go, SInv, Shape, IInv, Idle, Place
<1>2. Shape'
  BY <1>1, ShapeKept DEF SInv, Shape, Idle, Unsaved, Writing
<1>3. Bound' /\ CleanExitLeavesNothing'
  BY <1>1, PathsKept DEF Idle, Serving
<1>4. ~overlap' => Alone'
  BY <1>1 DEF SInv, Alone, Idle
<1>5. ASSUME ~overlap', ~crashed', NEW q \in Process, Only(q)' PROVE Sole(q)'
  <2>1. Sole(q)
    BY <1>1, <1>5 DEF SInv, Only, Idle
  <2> QED
    BY <1>1, <2>1 DEF Sole, Reading, Idle, Writing, Unsaved, Loaded
<1> QED
  BY <1>2, <1>3, <1>4, <1>5 DEF SInv

(* The steps that change a path. *)
LEMMA PathStep ==
  ASSUME SInv, IInv', UNCHANGED socket, NEW d \in Daemon, NEW from, NEW to \in Place,
         Go(d, from, to),
         <<from, to>> \in {<<"unlink", "bind">>, <<"bind", "serving">>, <<"serving", "draining">>,
                          <<"counted", "lastCounted">>, <<"saving", "lastSaving">>,
                          <<"draining", "off">>},
         path' \in [Socket -> Daemon \cup {NoOne, Stale}], Bound', CleanExitLeavesNothing',
         UNCHANGED <<mem, file, legacy, due, unsaved, overlap, crashed>>
  PROVE  SInv'
<1>1. d \in Process
  BY Kinds
<1>2. Shape'
  BY <1>1 DEF Go, SInv, Shape, IInv, Unsaved, Writing
<1>3. Sole(d) => Sole(d)'
  BY <1>1, SoleKept DEF Unsaved, Loaded, Writing
<1> QED
  BY <1>1, <1>2, <1>3, OwnerSteps DEF Idle

LEMMA RemoveStaleStep ==
  ASSUME SInv, IInv', UNCHANGED socket, NEW d \in Daemon, RemoveStale(d)
  PROVE  SInv'
<1>1. Go(d, "unlink", "bind") /\ "bind" \in Place
  BY DEF RemoveStale, Place
<1>2. path' \in [Socket -> Daemon \cup {NoOne, Stale}]
  BY DEF RemoveStale, SInv, Shape
<1>3. Bound' /\ CleanExitLeavesNothing'
  BY <1>1, Kinds, OwnershipAssumption
  DEF RemoveStale, Go, SInv, Shape, IInv, Bound, CleanExitLeavesNothing, Serving
<1> QED
  BY <1>1, <1>2, <1>3, PathStep DEF RemoveStale

LEMMA BindStep ==
  ASSUME SInv, IInv', UNCHANGED socket, NEW d \in Daemon, Bind(d)
  PROVE  SInv'
<1>1. Go(d, "bind", "serving") /\ "serving" \in Place
  BY DEF Bind, Place
<1>2. path' \in [Socket -> Daemon \cup {NoOne, Stale}]
  BY DEF Bind, SInv, Shape
<1>3. Bound' /\ CleanExitLeavesNothing'
  BY <1>1, Kinds, OwnershipAssumption
  DEF Bind, Go, SInv, Shape, IInv, Bound, CleanExitLeavesNothing, Serving
<1> QED
  BY <1>1, <1>2, <1>3, PathStep DEF Bind

LEMMA StopStep ==
  ASSUME SInv, IInv', UNCHANGED socket, NEW d \in Daemon, Stop(d)
  PROVE  SInv'
<1>1. PICK from \in Serving, to \in {"draining", "lastCounted", "lastSaving"} :
        /\ Go(d, from, to)
        /\ <<from, to>> \in {<<"serving", "draining">>, <<"counted", "lastCounted">>,
                             <<"saving", "lastSaving">>}
  BY DEF Stop, Serving
<1>2. path' \in [Socket -> Daemon \cup {NoOne, Stale}]
  BY DEF Stop, SInv, Shape
<1>3. Bound' /\ CleanExitLeavesNothing'
  BY <1>1, Kinds, OwnershipAssumption
  DEF Stop, Go, SInv, Shape, IInv, Bound, CleanExitLeavesNothing, Serving
<1> QED
  BY <1>1, <1>2, <1>3, PathStep DEF Stop, Place

(* A daemon that drains has removed its path. *)
LEMMA ExitStep ==
  ASSUME SInv, IInv', UNCHANGED socket, NEW d \in Daemon, Exit(d)
  PROVE  SInv'
<1>1. Go(d, "draining", "off") /\ "off" \in Place
  BY DEF Exit, Place
<1>2. \A s \in Socket : path[s] # d
  BY <1>1 DEF Go, SInv, Bound, Serving
<1>3. path' = path
  BY <1>2 DEF Exit, SInv, Shape
<1>4. Bound' /\ CleanExitLeavesNothing'
  BY <1>1, <1>2, <1>3, Kinds
  DEF Exit, Go, SInv, Shape, IInv, Bound, CleanExitLeavesNothing, Serving
<1> QED
  BY <1>1, <1>3, <1>4, PathStep DEF Exit, SInv, Shape

LEMMA CrashStep ==
  ASSUME SInv, IInv', UNCHANGED socket, NEW p \in Process, Crash(p)
  PROVE  SInv'
<1>1. pc' = [pc EXCEPT ![p] = "off"] /\ pc \in [Process -> Place]
  BY DEF Crash, SInv, Shape, IInv
<1>2. Shape'
  BY <1>1 DEF Crash, SInv, Shape, IInv, Unsaved, Writing
<1>3. Bound'
  BY <1>1, Kinds, OwnershipAssumption DEF Crash, SInv, Shape, Bound
<1>4. ~overlap' => Alone'
  BY <1>1 DEF Crash, SInv, Alone, Idle
<1> QED
  BY <1>2, <1>3, <1>4 DEF Crash, SInv, CleanExitLeavesNothing

LEMMA LoadingStep ==
  ASSUME SInv, IInv', UNCHANGED socket, NEW p \in Process, NEW from \in Idle,
         LoadOdometer(p, from)
  PROVE  SInv'
<1>1. CASE Look(p, from)
  BY <1>1, LookStep
<1>2. CASE NothingLeft(p)
  BY <1>2, MoveStep DEF NothingLeft, Place
<1>3. CASE Rename(p)
  BY <1>3, RenameStep
<1>4. CASE OpenLegacy(p)
  BY <1>4, OpenLegacyStep
<1>5. CASE Truncate(p, "copying", "pouring")
  BY <1>5, TruncateStep DEF Place
<1>6. CASE Fill(p, "pouring", "moved")
  BY <1>6, FillStep DEF Place
<1>7. CASE RemoveLegacy(p)
  BY <1>7, RemoveLegacyStep
<1>8. ASSUME NEW at \in {from, "located"}, Load(p, at) PROVE SInv'
  BY <1>8, LoadStep
<1>9. ASSUME NEW at \in {from, "located"}, LoadFails(p, at) PROVE SInv'
  <2>1. CASE at = "located"
    BY <1>9, <2>1, MoveStep DEF LoadFails, Place
  <2>2. CASE at \in Idle
    BY <1>9, <2>2, IdleStep DEF LoadFails, Idle
  <2> QED
    BY <2>1, <2>2
<1> QED
  BY <1>1, <1>2, <1>3, <1>4, <1>5, <1>6, <1>7, <1>8, <1>9 DEF LoadOdometer

LEMMA DaemonKeeps ==
  ASSUME SInv, IInv', UNCHANGED socket, NEW d \in Daemon, DaemonStep(d)
  PROVE  SInv'
<1> d \in Process
  BY Kinds
<1>1. CASE LoadOdometer(d, "off")
  BY <1>1, LoadingStep DEF Idle
<1>2. CASE Exists(d)
  BY <1>2, MoveStep DEF Exists, Place
<1>3. CASE Probe(d)
  BY <1>3, MoveStep DEF Probe, Place
<1>4. CASE RemoveStale(d)
  BY <1>4, RemoveStaleStep
<1>5. CASE Bind(d)
  BY <1>5, BindStep
<1>6. CASE BindFails(d)
  BY <1>6, MoveStep DEF BindFails, Leave, Place
<1>7. CASE Upload(d)
  <2>1. CASE Count(d, "serving", "counted") \/ Count(d, "draining", "lastCounted")
    BY <2>1, CountStep
  <2>2. CASE Truncate(d, "counted", "saving") \/ Truncate(d, "lastCounted", "lastSaving")
    BY <2>2, TruncateStep DEF Place
  <2>3. CASE Fill(d, "saving", "serving") \/ Fill(d, "lastSaving", "draining")
    BY <2>3, FillStep DEF Place
  <2> QED
    BY <1>7, <2>1, <2>2, <2>3 DEF Upload
<1>8. CASE Stop(d)
  BY <1>8, StopStep
<1>9. CASE Exit(d)
  BY <1>9, ExitStep
<1> QED
  BY <1>1, <1>2, <1>3, <1>4, <1>5, <1>6, <1>7, <1>8, <1>9 DEF DaemonStep

(* What direct writers and seeders have in common. *)
LEMMA SingleKeeps ==
  ASSUME SInv, IInv', UNCHANGED socket, NEW p \in Process, p \notin Daemon,
         \/ Leave(p, "loaded")
         \/ Count(p, "loaded", "counted")
         \/ Truncate(p, "counted", "saving")
         \/ Fill(p, "saving", "off")
  PROVE  SInv'
<1>1. CASE Leave(p, "loaded")
  BY <1>1, MoveStep DEF Leave, Place
<1>2. CASE Count(p, "loaded", "counted")
  BY <1>2, CountStep
<1>3. CASE Truncate(p, "counted", "saving")
  BY <1>3, TruncateStep DEF Place
<1>4. CASE Fill(p, "saving", "off")
  BY <1>4, FillStep DEF Place
<1> QED
  BY <1>1, <1>2, <1>3, <1>4

LEMMA SStep == SInv /\ [Next]_vars => SInv'
<1> SUFFICES ASSUME SInv, [Next]_vars PROVE SInv'
  OBVIOUS
<1> IInv'
  BY Step DEF SInv, Shape
<1>1. ASSUME NEW d \in Daemon, DaemonStep(d), UNCHANGED socket PROVE SInv'
  BY <1>1, DaemonKeeps
<1>2. ASSUME NEW w \in Writer, WriterStep(w), UNCHANGED socket PROVE SInv'
  <2> w \in Process /\ w \notin Daemon
    BY Kinds, OwnershipAssumption
  <2>1. CASE Check(w)
    BY <1>2, <2>1, IdleStep DEF Check, Idle
  <2>2. CASE LoadOdometer(w, "clear")
    BY <1>2, <2>2, LoadingStep DEF Idle
  <2> QED
    BY <1>2, <2>1, <2>2, SingleKeeps DEF WriterStep, Decline
<1>3. ASSUME NEW e \in Seeder, SeederStep(e), UNCHANGED socket PROVE SInv'
  <2> e \in Process /\ e \notin Daemon
    BY Kinds, OwnershipAssumption
  <2>1. CASE LoadOdometer(e, "off")
    BY <1>3, <2>1, LoadingStep DEF Idle
  <2> QED
    BY <1>3, <2>1, SingleKeeps DEF SeederStep
<1>4. ASSUME NEW p \in Process, Crash(p), UNCHANGED socket PROVE SInv'
  BY <1>4, CrashStep
<1>5. CASE UNCHANGED vars
  BY <1>5 DEF vars, SInv, Shape, IInv, Bound, CleanExitLeavesNothing, Alone, Only, Sole, Reading
<1> QED
  BY <1>1, <1>2, <1>3, <1>4, <1>5 DEF Next

(* Without processes nothing ever happens to the file. *)
Untouched == Process = {} => file.whole /\ Reading = due

LEMMA Invariant == Spec => [](SInv /\ Untouched)
<1>1. Init => Untouched
  BY DEF Init, Untouched, Reading
<1>2. Untouched /\ [Next]_vars => Untouched'
  BY DEF Untouched, Next, Process, vars, Reading
<1> QED
  BY <1>1, <1>2, OddStart, SStep, PTL DEF Spec

(* Without an overlap, at most one process is an owner. *)
LEMMA OneOwner ==
  ASSUME SInv, ~overlap, ~crashed, Process # {}
  PROVE  \E p \in Process : Only(p) /\ Sole(p)
<1>1. \E p \in Process : Only(p)
  <2>1. CASE \E p \in Process : pc[p] \notin Idle
    BY <2>1 DEF SInv, Alone, Only
  <2>2. CASE \A p \in Process : pc[p] \in Idle
    BY <2>2 DEF Only
  <2> QED
    BY <2>1, <2>2
<1> QED
  BY <1>1 DEF SInv

(* The variables keep their types, and wear.json does not parse only while  *)
(* it is being written, after a death, or after two wrote at once.          *)
THEOREM TypeCorrect == Spec => []TypeOK
<1>1. SInv /\ Untouched => TypeOK
  <2> SUFFICES ASSUME SInv, Untouched PROVE TypeOK
    OBVIOUS
  <2>1. ASSUME ~file.whole, ~crashed, ~overlap PROVE Saving # {}
    BY <2>1, OneOwner DEF Untouched, Sole, Saving, Writing
  <2> QED
    BY <2>1 DEF SInv, Shape, IInv, TypeOK
<1> QED
  BY <1>1, Invariant, PTL

(* Daemons that stop leave no stale socket, however often they have taken   *)
(* the path from each other.                                                *)
THEOREM CleanExits == Spec => []CleanExitLeavesNothing
<1>1. SInv => CleanExitLeavesNothing
  BY DEF SInv
<1> QED
  BY <1>1, Invariant, PTL

(* One owner at a time loses nothing: the odometer reads the wear, less the *)
(* one write that is not saved yet, through any migration.                  *)
THEOREM Exactness == Spec => []SoleOwnerExact
<1>1. SInv /\ Untouched => SoleOwnerExact
  <2> SUFFICES ASSUME SInv, Untouched, ~overlap, ~crashed, file.whole
               PROVE  Reading = due - Cardinality({p \in Process : unsaved[p]})
    BY DEF SoleOwnerExact
  <2> due \in Nat
    BY DEF SInv, Shape, IInv
  <2>1. CASE Process = {}
    <3>1. {p \in Process : unsaved[p]} = {}
      BY <2>1
    <3> QED
      BY <2>1, <3>1, FS_EmptySet DEF Untouched
  <2>2. CASE Process # {}
    <3>1. PICK p \in Process : Only(p) /\ Sole(p)
      BY <2>2, OneOwner
    <3>2. \A q \in Process : q # p => ~unsaved[q]
      BY <3>1 DEF SInv, Shape, Only, Idle, Unsaved
    <3>3. unsaved[p] <=> pc[p] \in Unsaved
      BY DEF SInv, Shape
    <3>4. Reading = IF unsaved[p] THEN due - 1 ELSE due
      BY <3>1, <3>3 DEF Sole
    <3>5. CASE unsaved[p]
      <4>1. {q \in Process : unsaved[q]} = {p}
        BY <3>2, <3>5
      <4> QED
        BY <3>4, <3>5, <4>1, FS_Singleton
    <3>6. CASE ~unsaved[p]
      <4>1. {q \in Process : unsaved[q]} = {}
        BY <3>2, <3>6
      <4> QED
        BY <3>4, <3>6, <4>1, FS_EmptySet
    <3> QED
      BY <3>5, <3>6
  <2> QED
    BY <2>1, <2>2
<1> QED
  BY <1>1, Invariant, PTL

============================================================================
