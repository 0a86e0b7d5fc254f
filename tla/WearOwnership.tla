--------------------------- MODULE WearOwnership ---------------------------
(***************************************************************************)
(* Who owns wear.json and the panel: daemons that probe, unlink and bind   *)
(* their control sockets (server.rs, run), direct writers that ask whether *)
(* a daemon listens (main.rs, upload_governed), and `catbus99 wear --seed'.*)
(* Nothing but the sockets keeps them apart; wear.json has no lock.        *)
(*                                                                         *)
(* Every process loads the odometer once, counts in memory and writes the  *)
(* whole file: a save empties the file and then fills it (std::fs::write). *)
(* Before it loads, it moves a wear.json that an earlier version has left  *)
(* elsewhere (paths.rs), which everybody else may be doing as well.        *)
(*                                                                         *)
(* Only the total is modelled.  The governor's rules and saves that fail   *)
(* are Governor's subject: here any write may be declined, and every save  *)
(* succeeds.                                                               *)
(***************************************************************************)
EXTENDS Integers, FiniteSets

CONSTANTS
  Daemon,         \* processes running `catbus99 daemon'
  Writer,         \* processes that write directly: show, cat, text
  Seeder,         \* processes running `catbus99 wear --seed 1'
  Socket,         \* control socket paths
  DefaultSocket,  \* default_socket_path()
  NoOne,          \* a path that does not exist
  Stale,          \* a socket file whose listener is gone
  MayStop,        \* clients may ask a daemon to shut down
  MayCrash,       \* processes may die at any point
  Setups,         \* bound of the model: the --socket of each daemon, and what an
                  \* earlier version has left: [socket, legacy]
  MaxWrites       \* bound of the model: writes and seeds

(* Whether there is one, what it reads, and whether it is on another file   *)
(* system than wear.json.                                                   *)
LegacyFile == [there : BOOLEAN, total : Nat, apart : BOOLEAN]

ASSUME OwnershipAssumption ==
  /\ DefaultSocket \in Socket
  /\ Setups \subseteq [socket : [Daemon -> Socket], legacy : LegacyFile]
  /\ NoOne \notin Daemon /\ Stale \notin Daemon /\ NoOne # Stale
  /\ Daemon \cap Writer = {} /\ Daemon \cap Seeder = {} /\ Writer \cap Seeder = {}
  /\ {MayStop, MayCrash} \subseteq BOOLEAN
  /\ MaxWrites \in Nat

Process == Daemon \cup Writer \cup Seeder

VARIABLES
  socket,  \* the --socket of each daemon
  pc,      \* where each process is
  mem,     \* its copy of total_uploads, or of the file it is copying
  path,    \* what is at each socket path
  file,    \* wear.json: [there, whole, total]
  legacy,  \* wear.json in a legacy directory
  due,     \* history: what the odometer should read
  unsaved, \* history: p has written or seeded, and not saved it yet
  overlap, \* history: two processes have been owners at the same time
  crashed  \* history: some process has died

vars == <<socket, pc, mem, path, file, legacy, due, unsaved, overlap, crashed>>

Init ==
  /\ \E s \in Setups : socket = s.socket /\ legacy = s.legacy
  /\ pc = [p \in Process |-> "off"]
  /\ mem = [p \in Process |-> 0]
  /\ path = [s \in Socket |-> NoOne]
  /\ file = [there |-> FALSE, whole |-> TRUE, total |-> 0]
  /\ due = IF legacy.there THEN legacy.total ELSE 0
  /\ unsaved = [p \in Process |-> FALSE]
  /\ overlap = FALSE
  /\ crashed = FALSE

(* p goes from one place to another. *)
Go(p, from, to) == pc[p] = from /\ pc' = [pc EXCEPT ![p] = to]

(* Processes that have a copy of the odometer, or are moving it. *)
Owner == {p \in Process : pc[p] \notin {"off", "clear"}}

(* p becomes one of them. *)
Joins(p) == overlap' = (overlap \/ Owner \ {p} # {})

(* What a connect to path s meets. *)
Listening(s) == path[s] \in Daemon

---------------------------------------------------------------------------
(* default_state_path, migrate_legacy_file: wear.json is not there yet.  A   *)
(* file that is there stays there, so that seeing it and loading it is one  *)
(* step.                                                                    *)
Look(p, from) ==
  /\ ~file.there
  /\ Go(p, from, "moving")
  /\ Joins(p)
  /\ UNCHANGED <<mem, path, file, legacy, due, unsaved, crashed>>

NothingLeft(p) ==
  /\ ~legacy.there
  /\ Go(p, "moving", "located")
  /\ UNCHANGED <<mem, path, file, legacy, due, unsaved, overlap, crashed>>

(* The rename replaces whatever is there by now. *)
Rename(p) ==
  /\ legacy.there /\ ~legacy.apart
  /\ Go(p, "moving", "located")
  /\ file' = [there |-> TRUE, whole |-> TRUE, total |-> legacy.total]
  /\ legacy' = [legacy EXCEPT !.there = FALSE]
  /\ UNCHANGED <<mem, path, due, unsaved, overlap, crashed>>

(* There is no renaming between file systems: the file is opened ...        *)
OpenLegacy(p) ==
  /\ legacy.there /\ legacy.apart
  /\ Go(p, "moving", "copying")
  /\ mem' = [mem EXCEPT ![p] = legacy.total]
  /\ UNCHANGED <<path, file, legacy, due, unsaved, overlap, crashed>>

(* ... and removed, when it has been copied as a save is made.  Another     *)
(* process may have removed it already.                                     *)
RemoveLegacy(p) ==
  /\ Go(p, "moved", "located")
  /\ legacy' = [legacy EXCEPT !.there = FALSE]
  /\ UNCHANGED <<mem, path, file, due, unsaved, overlap, crashed>>

(* Mutant: the copy of an earlier load is kept. *)
LoadOnce(p, from) ==
  /\ from = "located" \/ file.there
  /\ Go(p, from, "loaded")
  /\ file.whole
  /\ Joins(p)
  /\ UNCHANGED <<mem, path, file, legacy, due, unsaved, crashed>>

(* Governor::load: afresh, from zero, if there is no file.  A file caught   *)
(* between the two halves of a save does not parse, and the process gives   *)
(* up.                                                                      *)
Load(p, from) ==
  /\ from = "located" \/ file.there
  /\ Go(p, from, "loaded")
  /\ file.whole
  /\ mem' = [mem EXCEPT ![p] = file.total]
  /\ Joins(p)
  /\ UNCHANGED <<path, file, legacy, due, unsaved, crashed>>

LoadFails(p, from) ==
  /\ Go(p, from, "off")
  /\ ~file.whole
  /\ UNCHANGED <<mem, path, file, legacy, due, unsaved, overlap, crashed>>

(* An upload is counted in memory once the panel has been written. *)
Count(p, from, to) ==
  /\ Go(p, from, to)
  /\ due < legacy.total + MaxWrites
  /\ due' = due + 1
  /\ mem' = [mem EXCEPT ![p] = @ + 1]
  /\ unsaved' = [unsaved EXCEPT ![p] = TRUE]
  /\ UNCHANGED <<path, file, legacy, overlap, crashed>>

(* Governor::save, or a copy: the file is opened and cut to nothing ... *)
Truncate(p, from, to) ==
  /\ Go(p, from, to)
  /\ file' = [file EXCEPT !.there = TRUE, !.whole = FALSE]
  /\ UNCHANGED <<mem, path, legacy, due, unsaved, overlap, crashed>>

(* Mutant: the file stays empty and nobody notices. *)
FillFails(p, from, to) ==
  /\ Go(p, from, to)
  /\ unsaved' = [unsaved EXCEPT ![p] = FALSE]
  /\ UNCHANGED <<mem, path, file, legacy, due, overlap, crashed>>

(* ... and then filled from memory. If another process has filled it in    *)
(* between, a shorter text leaves the end of the longer one behind it.      *)
Fill(p, from, to) ==
  /\ Go(p, from, to)
  /\ \E whole \in {TRUE, ~file.whole} : file' = [file EXCEPT !.whole = whole, !.total = mem[p]]
  /\ unsaved' = [unsaved EXCEPT ![p] = FALSE]
  /\ UNCHANGED <<mem, path, legacy, due, overlap, crashed>>

Leave(p, from) ==
  /\ Go(p, from, "off")
  /\ UNCHANGED <<mem, path, file, legacy, due, unsaved, overlap, crashed>>

(* From `from' until p has the odometer: look for the file, move it, load   *)
(* it.                                                                      *)
LoadOdometer(p, from) ==
  \/ Look(p, from)
  \/ NothingLeft(p) \/ Rename(p)
  \/ OpenLegacy(p)
  \/ Truncate(p, "copying", "pouring")
  \/ Fill(p, "pouring", "moved")
  \/ RemoveLegacy(p)
  \/ \E at \in {from, "located"} : Load(p, at) \/ LoadFails(p, at)

---------------------------------------------------------------------------
(* The daemon: Daemon::new loads, then Server::run sees to the socket. *)

(* The socket's path exists, or it does not. *)
Exists(d) ==
  /\ Go(d, "loaded", IF path[socket[d]] = NoOne THEN "bind" ELSE "probe")
  /\ UNCHANGED <<mem, path, file, legacy, due, unsaved, overlap, crashed>>

(* Somebody listens there: give up.  Nobody does: it is taken for stale. *)
Probe(d) ==
  /\ Go(d, "probe", IF Listening(socket[d]) THEN "off" ELSE "unlink")
  /\ UNCHANGED <<mem, path, file, legacy, due, unsaved, overlap, crashed>>

(* remove_file, whatever the path leads to by now. *)
RemoveStale(d) ==
  /\ Go(d, "unlink", "bind")
  /\ path' = [path EXCEPT ![socket[d]] = NoOne]
  /\ UNCHANGED <<mem, file, legacy, due, unsaved, overlap, crashed>>

Bind(d) ==
  /\ path[socket[d]] = NoOne
  /\ Go(d, "bind", "serving")
  /\ path' = [path EXCEPT ![socket[d]] = d]
  /\ UNCHANGED <<mem, file, legacy, due, unsaved, overlap, crashed>>

BindFails(d) ==
  /\ path[socket[d]] # NoOne
  /\ Leave(d, "bind")

(* Mutant: the path is left behind. *)
StopLeavesSocket(d) ==
  /\ MayStop
  /\ \/ Go(d, "serving", "draining")
     \/ Go(d, "counted", "lastCounted")
     \/ Go(d, "saving", "lastSaving")
  /\ UNCHANGED <<mem, path, file, legacy, due, unsaved, overlap, crashed>>

(* The accept loop ends and the path is removed, whoever is behind it; an   *)
(* upload may be on its way ...                                             *)
Stop(d) ==
  /\ MayStop
  /\ \/ Go(d, "serving", "draining")
     \/ Go(d, "counted", "lastCounted")
     \/ Go(d, "saving", "lastSaving")
  /\ path' = [path EXCEPT ![socket[d]] = NoOne]
  /\ UNCHANGED <<mem, file, legacy, due, unsaved, overlap, crashed>>

(* ... and the listener is dropped with the runtime, which waits for the    *)
(* request that a worker is in the middle of.                               *)
Exit(d) ==
  /\ Go(d, "draining", "off")
  /\ path' = [s \in Socket |-> IF path[s] = d THEN Stale ELSE path[s]]
  /\ UNCHANGED <<mem, file, legacy, due, unsaved, overlap, crashed>>

(* A client's or the scheduler's upload; connections are served until the   *)
(* runtime is gone.                                                         *)
Upload(d) ==
  \/ Count(d, "serving", "counted")
  \/ Truncate(d, "counted", "saving")
  \/ Fill(d, "saving", "serving")
  \/ Count(d, "draining", "lastCounted")
  \/ Truncate(d, "lastCounted", "lastSaving")
  \/ Fill(d, "lastSaving", "draining")

DaemonStep(d) ==
  \/ LoadOdometer(d, "off")
  \/ Exists(d) \/ Probe(d) \/ RemoveStale(d) \/ Bind(d) \/ BindFails(d)
  \/ Upload(d)
  \/ Stop(d) \/ Exit(d)

---------------------------------------------------------------------------
(* A direct writer: upload_governed. *)

(* daemon_is_running: nobody listens on the default socket. *)
Check(w) ==
  /\ ~Listening(DefaultSocket)
  /\ Go(w, "off", "clear")
  /\ UNCHANGED <<mem, path, file, legacy, due, unsaved, overlap, crashed>>

(* Mutant: counted, and saved, before the panel is opened. *)
DeclineCounted(w) ==
  /\ Go(w, "loaded", "off")
  /\ file' = [there |-> TRUE, whole |-> TRUE, total |-> mem[w] + 1]
  /\ UNCHANGED <<mem, path, legacy, due, unsaved, overlap, crashed>>

(* Refused by the governor, or the panel did not open. *)
Decline(w) == Leave(w, "loaded")

WriterStep(w) ==
  \/ Check(w)
  \/ LoadOdometer(w, "clear")
  \/ Decline(w)
  \/ Count(w, "loaded", "counted")
  \/ Truncate(w, "counted", "saving")
  \/ Fill(w, "saving", "off")

(* cmd_wear asks nobody; without --seed it only reports. *)
SeederStep(e) ==
  \/ LoadOdometer(e, "off")
  \/ Leave(e, "loaded")
  \/ Count(e, "loaded", "counted")
  \/ Truncate(e, "counted", "saving")
  \/ Fill(e, "saving", "off")

(* A killed process leaves its socket file behind. *)
Crash(p) ==
  /\ MayCrash
  /\ pc[p] # "off"
  /\ pc' = [pc EXCEPT ![p] = "off"]
  /\ path' = [s \in Socket |-> IF path[s] = p THEN Stale ELSE path[s]]
  /\ unsaved' = [unsaved EXCEPT ![p] = FALSE]
  /\ crashed' = TRUE
  /\ UNCHANGED <<mem, file, legacy, due, overlap>>

Next ==
  /\ \/ \E d \in Daemon : DaemonStep(d)
     \/ \E w \in Writer : WriterStep(w)
     \/ \E e \in Seeder : SeederStep(e)
     \/ \E p \in Process : Crash(p)
  /\ UNCHANGED socket

Spec == Init /\ [][Next]_vars

---------------------------------------------------------------------------
Place == {"off", "clear", "moving", "copying", "pouring", "moved", "located", "loaded", "probe", "unlink", "bind", "serving",
          "counted", "saving", "draining", "lastCounted", "lastSaving"}

(* Processes that have the file open and empty. *)
Saving == {p \in Process : pc[p] \in {"pouring", "saving", "lastSaving"}}

(* Every variable has its type, and a file that does not parse is being     *)
(* written, unless a process died or two wrote it at the same time.         *)
TypeOK ==
  /\ socket \in [Daemon -> Socket]
  /\ pc \in [Process -> Place]
  /\ mem \in [Process -> Nat]
  /\ path \in [Socket -> Daemon \cup {NoOne, Stale}]
  /\ file \in [there : BOOLEAN, whole : BOOLEAN, total : Nat]
  /\ legacy \in LegacyFile
  /\ ~file.whole => Saving # {} \/ crashed \/ overlap
  /\ due \in Nat
  /\ unsaved \in [Process -> BOOLEAN]
  /\ {overlap, crashed} \subseteq BOOLEAN

(* However many processes race for the file, and wherever they die, the     *)
(* odometer never reads higher than the wear.                               *)
NeverHigh ==
  /\ file.total <= due
  /\ \A p \in Owner : mem[p] <= due

(* What somebody who looked for the odometer now would read in it. *)
Reading == IF file.there THEN file.total ELSE IF legacy.there THEN legacy.total ELSE 0

(* As long as no two processes hold or move the odometer at the same time   *)
(* and none dies, no write is lost, nor is what an earlier version counted, *)
(* whatever it takes to move that: what is missing is not saved yet.        *)
SoleOwnerExact ==
  ~overlap /\ ~crashed /\ file.whole =>
    Reading = due - Cardinality({p \in Process : unsaved[p]})

(* A daemon that stops leaves no socket that leads nowhere, even when two   *)
(* daemons have taken the path from each other.                             *)
CleanExitLeavesNothing == ~crashed => \A s \in Socket : path[s] # Stale

============================================================================
