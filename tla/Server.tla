------------------------------ MODULE Server ------------------------------
(***************************************************************************)
(* The tasks of one daemon process and how it stops: the accept loop       *)
(* (server.rs, Server::run), one task per connection (handle_connection,   *)
(* dispatch), the scheduler's loop as a task, the mutex around the Daemon, *)
(* and the Notify that a shutdown request fires.                           *)
(*                                                                         *)
(* tokio::sync::Mutex is FIFO: `queue' is its holder and those who wait.   *)
(* Every critical section is synchronous, so it is one step.               *)
(*                                                                         *)
(* Notify::notify_waiters keeps no permit.  It reaches the Notified        *)
(* futures that exist, and each select! makes a new one.                   *)
(*                                                                         *)
(* What a request does is Screen's, PanelDaemon's and Governor's subject,  *)
(* and when a source is due Scheduler's.                                   *)
(***************************************************************************)
EXTENDS Integers, Sequences, FiniteSets

CONSTANTS
  Client,     \* connections, one after the other or side by side
  Run,        \* the task of Server::run
  Sched,      \* the task of scheduler_loop
  Hung,       \* tasks whose source programs may never end
  MaySend,    \* bound of the model: MaySend[c], the lines of client c, of which
  MaxLines,   \* it sends at most MaxLines[c]
  Leaver      \* bound of the model: clients that may leave without an answer

Task == Client \cup {Run, Sched}

(* What a line may be: nothing but blanks, no UTF-8, no request, RunSource, *)
(* Shutdown, or any other request.                                          *)
Line == {"blank", "garbled", "junk", "source", "shutdown", "other"}

ASSUME ServerAssumption ==
  /\ Run # Sched /\ Client \cap {Run, Sched} = {}
  /\ Hung \subseteq Task
  /\ MaySend \in [Client -> SUBSET Line]
  /\ MaxLines \in [Client -> Nat]
  /\ Leaver \subseteq Client

VARIABLES
  pc,         \* where each task is
  queue,      \* the mutex: its holder, then its waiters
  signalled,  \* tasks whose Notified has been notified
  requested,  \* Daemon::shutdown_requested
  backlog,    \* connections that wait for accept
  sent,       \* sent[c]: how many lines client c has written
  away,       \* clients that have closed their end
  lines,      \* lines[c]: those that the task of c has read
  replies,    \* replies[c]: the number of the line each answer to c is for
  missed      \* history: the last notification did not stop the server

tasks == <<pc, queue>>
clients == <<backlog, sent, away>>
vars == <<tasks, signalled, requested, clients, lines, replies, missed>>

Init ==
  /\ pc = [t \in Task |-> CASE t = Run -> "loop" [] t = Sched -> "select" [] OTHER -> "off"]
  /\ queue = <<>>
  /\ signalled = {}
  /\ requested = FALSE
  /\ backlog = <<>>
  /\ sent = [c \in Client |-> 0]
  /\ away = {}
  /\ lines = [c \in Client |-> <<>>]
  /\ replies = [c \in Client |-> <<>>]
  /\ missed = FALSE

(* The runtime is not being dropped yet. *)
Alive == pc[Run] \notin {"drop", "exited"}

(* Where a task needs the mutex, for which it asks when it comes there. *)
Section == {"lookup", "absorb", "handle", "specs", "render", "check"}

Asking(q, t, to) == IF to \in Section THEN Append(q, t) ELSE q

Go(t, from, to) ==
  /\ Alive
  /\ pc[t] = from
  /\ pc' = [pc EXCEPT ![t] = to]
  /\ queue' = Asking(queue, t, to)

Holds(t) == queue # <<>> /\ Head(queue) = t

(* t has the mutex, does at `from' what it came for, and lets go. *)
Leaves(t, from, to) ==
  /\ Alive
  /\ pc[t] = from /\ from \in Section
  /\ Holds(t)
  /\ pc' = [pc EXCEPT ![t] = to]
  /\ queue' = Asking(Tail(queue), t, to)

---------------------------------------------------------------------------
(* The clients.  One may connect at any time, and send before it is         *)
(* accepted; a client that goes away leaves its lines behind.               *)
Connect(c) ==
  /\ Go(c, "off", "backlog")
  /\ backlog' = Append(backlog, c)
  /\ UNCHANGED <<signalled, requested, sent, away, lines, replies, missed>>

Send(c) ==
  /\ Alive
  /\ pc[c] # "off" /\ c \notin away
  /\ sent[c] < MaxLines[c]
  /\ sent' = [sent EXCEPT ![c] = @ + 1]
  /\ UNCHANGED <<tasks, signalled, requested, backlog, away, lines, replies, missed>>

Leave(c) ==
  /\ Alive
  /\ pc[c] # "off" /\ c \notin away
  /\ c \in Leaver
  /\ away' = away \cup {c}
  /\ UNCHANGED <<tasks, signalled, requested, backlog, sent, lines, replies, missed>>

---------------------------------------------------------------------------
(* Server::run, and the two select!s.  A select! takes any of the branches  *)
(* that are ready; if it is not that of the Notified, that is dropped, with *)
(* the signal it may have got.                                              *)

(* A new Notified, which no earlier notification has reached. *)
Wait ==
  /\ Go(Run, "loop", "select")
  /\ UNCHANGED <<signalled, requested, clients, lines, replies, missed>>

Hears(t, to) ==
  /\ t \in signalled
  /\ Go(t, "select", to)
  /\ signalled' = signalled \ {t}
  /\ UNCHANGED <<requested, clients, lines, replies, missed>>

(* A connection is taken and its task spawned; or accept fails, and the     *)
(* connection waits on.                                                     *)
Accept(ok) ==
  /\ Alive
  /\ pc[Run] = "select"
  /\ backlog # <<>>
  /\ pc' = IF ok THEN [pc EXCEPT ![Run] = "loop", ![Head(backlog)] = "read"]
                 ELSE [pc EXCEPT ![Run] = "loop"]
  /\ backlog' = IF ok THEN Tail(backlog) ELSE backlog
  /\ signalled' = signalled \ {Run}
  /\ missed' = (missed \/ Run \in signalled)
  /\ UNCHANGED <<queue, requested, sent, away, lines, replies>>

(* run has left its loop, aborts the scheduler, removes the socket and      *)
(* returns; the runtime is dropped.                                         *)
Return ==
  /\ Go(Run, "stop", "drop")
  /\ UNCHANGED <<signalled, requested, clients, lines, replies, missed>>

(* Every task is dropped where it waits, with its subprocess (kill_on_drop).*)
Exit ==
  /\ pc[Run] = "drop"
  /\ pc' = [pc EXCEPT ![Run] = "exited"]
  /\ UNCHANGED <<queue, signalled, requested, clients, lines, replies, missed>>

---------------------------------------------------------------------------
(* One connection. *)

(* Mutant: a blank line is given to the parser. *)
AfterReadingBlanks(line) ==
  CASE line \in {"blank", "junk"} -> "reply"
    [] line = "garbled" -> "gone"
    [] line = "source" -> "lookup"
    [] OTHER -> "handle"

(* A blank line is skipped, one that is not UTF-8 is an error of the read,  *)
(* which ends the connection, and one that does not parse is answered at    *)
(* once.                                                                    *)
AfterReading(line) ==
  CASE line = "blank" -> "read"
    [] line = "garbled" -> "gone"
    [] line = "junk" -> "reply"
    [] line = "source" -> "lookup"
    [] OTHER -> "handle"

Read(c, line) ==
  /\ line \in MaySend[c]
  /\ Len(lines[c]) < sent[c]
  /\ Go(c, "read", AfterReading(line))
  /\ lines' = [lines EXCEPT ![c] = Append(@, line)]
  /\ UNCHANGED <<signalled, requested, clients, replies, missed>>

EndOfFile(c) ==
  /\ c \in away
  /\ Len(lines[c]) = sent[c]
  /\ Go(c, "read", "gone")
  /\ UNCHANGED <<signalled, requested, clients, lines, replies, missed>>

Current(c) == lines[c][Len(lines[c])]

(* Mutant: the guard of the lookup lives as long as the program runs. *)
LookupKeepsLock(c, found) ==
  /\ Alive
  /\ pc[c] = "lookup"
  /\ Holds(c)
  /\ pc' = [pc EXCEPT ![c] = IF found THEN "run" ELSE "reply"]
  /\ queue' = IF found THEN queue ELSE Tail(queue)
  /\ UNCHANGED <<signalled, requested, clients, lines, replies, missed>>

(* RunSource: the registry is read under the mutex, which is let go before  *)
(* the program runs.                                                        *)
Lookup(c, found) ==
  /\ Leaves(c, "lookup", IF found THEN "run" ELSE "reply")
  /\ UNCHANGED <<signalled, requested, clients, lines, replies, missed>>

(* run_source of a connection or of the scheduler: it succeeds, fails, or   *)
(* is killed at its timeout.                                                *)
SourceEnds(t) ==
  /\ Go(t, "run", "absorb")
  /\ UNCHANGED <<signalled, requested, clients, lines, replies, missed>>

(* absorb or record_source_failure. *)
Absorb(c) ==
  /\ Leaves(c, "absorb", "reply")
  /\ UNCHANGED <<signalled, requested, clients, lines, replies, missed>>

(* Daemon::handle; a shutdown only sets its flag there. *)
Handle(c) ==
  /\ Leaves(c, "handle", IF Current(c) = "shutdown" THEN "notify" ELSE "reply")
  /\ requested' = (requested \/ Current(c) = "shutdown")
  /\ UNCHANGED <<signalled, clients, lines, replies, missed>>

Waiting == {t \in {Run, Sched} : pc[t] = "select"}

(* Mutant: notify_one; the scheduler may be the one. *)
NotifyOne(c) ==
  /\ Go(c, "notify", "reply")
  /\ \E t \in IF Waiting = {} THEN {Run} ELSE Waiting : signalled' = signalled \cup {t}
  /\ missed' = (pc[Run] = "loop")
  /\ UNCHANGED <<requested, clients, lines, replies>>

(* notify_waiters, once the mutex is free again. *)
Notify(c) ==
  /\ Go(c, "notify", "reply")
  /\ signalled' = signalled \cup Waiting
  /\ missed' = (pc[Run] = "loop")
  /\ UNCHANGED <<requested, clients, lines, replies>>

(* The answer is written; to a client that has gone, that may fail. *)
Reply(c, ok) ==
  /\ ok \/ c \in away
  /\ Go(c, "reply", IF ok THEN "read" ELSE "gone")
  /\ replies' = IF c \in away THEN replies
                ELSE [replies EXCEPT ![c] = Append(@, Len(lines[c]))]
  /\ UNCHANGED <<signalled, requested, clients, lines, missed>>

---------------------------------------------------------------------------
(* The scheduler, with one source that may or may not be due. *)

(* ticker.tick() is ready. *)
Tick ==
  /\ Go(Sched, "select", "specs")
  /\ signalled' = signalled \ {Sched}
  /\ UNCHANGED <<requested, clients, lines, replies, missed>>

(* What comes after the specifications were copied, the source absorbed,    *)
(* the screen rendered, and the panel looked for.                           *)
Following(from) ==
  CASE from = "specs"  -> {"run", "check", "select"}
    [] from = "absorb" -> {"render", "check", "select"}
    [] from = "render" -> {"check", "select"}
    [] from = "check"  -> {"select"}

SchedSection(from, to) ==
  /\ to \in Following(from)
  /\ Leaves(Sched, from, to)
  /\ UNCHANGED <<signalled, requested, clients, lines, replies, missed>>

SchedStep ==
  \E from \in {"specs", "absorb", "render", "check"} : \E to \in Following(from) :
    SchedSection(from, to)

---------------------------------------------------------------------------
Next ==
  \/ \E c \in Client : Connect(c)
  \/ \E c \in Client : Send(c)
  \/ \E c \in Client : Leave(c)
  \/ Wait
  \/ Hears(Run, "stop")
  \/ Hears(Sched, "stopped")
  \/ \E ok \in BOOLEAN : Accept(ok)
  \/ Return
  \/ Exit
  \/ \E c \in Client, line \in Line : Read(c, line)
  \/ \E c \in Client : EndOfFile(c)
  \/ \E c \in Client, found \in BOOLEAN : Lookup(c, found)
  \/ \E t \in Task : SourceEnds(t)
  \/ \E c \in Client : Absorb(c)
  \/ \E c \in Client : Handle(c)
  \/ \E c \in Client : Notify(c)
  \/ \E c \in Client, ok \in BOOLEAN : Reply(c, ok)
  \/ Tick
  \/ SchedStep

Connection(c) ==
  \/ \E line \in Line : Read(c, line)
  \/ \E found \in BOOLEAN : Lookup(c, found)
  \/ Absorb(c) \/ Handle(c) \/ Notify(c) \/ Reply(c, TRUE)

(* tokio runs every task that can run, and gives the mutex in order; accept *)
(* does not fail for ever.  Nothing is assumed of the programs of Hung:     *)
(* those of the others end at their timeout.  Clients need do nothing.      *)
Fairness ==
  /\ WF_vars(Wait)
  /\ WF_vars(Hears(Run, "stop"))
  /\ SF_vars(Accept(TRUE))
  /\ WF_vars(Return)
  /\ WF_vars(Exit)
  /\ WF_vars(Hears(Sched, "stopped") \/ Tick)
  /\ WF_vars(SchedStep)
  /\ \A t \in Task \ Hung : WF_vars(SourceEnds(t))
  /\ \A c \in Client : WF_vars(Connection(c))

Spec == Init /\ [][Next]_vars

FairSpec == Spec /\ Fairness

---------------------------------------------------------------------------
Control(t) ==
  CASE t = Run   -> {"loop", "select", "stop", "drop", "exited"}
    [] t = Sched -> {"select", "specs", "run", "absorb", "render", "check", "stopped"}
    [] OTHER     -> {"off", "backlog", "read", "lookup", "run", "absorb", "handle", "notify",
                     "reply", "gone"}

(* Every variable has its type, the mutex is held and waited for by exactly *)
(* the tasks that are where it is needed, each once, and the backlog is     *)
(* that of the clients that no task serves yet.                             *)
TypeOK ==
  /\ \A t \in Task : pc[t] \in Control(t)
  /\ queue \in Seq(Task)
  /\ \A t \in Task : pc[t] \in Section <=> \E i \in DOMAIN queue : queue[i] = t
  /\ \A i, j \in DOMAIN queue : queue[i] = queue[j] => i = j
  /\ \A c \in Client : pc[c] = "backlog" <=> \E i \in DOMAIN backlog : backlog[i] = c
  /\ signalled \subseteq {Run, Sched}
  /\ sent \in [Client -> Nat]
  /\ away \subseteq Client
  /\ lines \in [Client -> Seq(Line)]
  /\ \A c \in Client : Len(lines[c]) <= sent[c]
  /\ {requested, missed} \subseteq BOOLEAN

(* The first n lines of c that its task has read and that are owed an answer. *)
Owed(c, n) == {i \in 1..n : lines[c][i] \notin {"blank", "garbled"}}

(* A client that sends several lines at once can tell the answers apart:    *)
(* they come in order, one to a line and none for a blank one or one that   *)
(* cannot be read, though some lines wait for a program and others do not.  *)
AnswersInOrder ==
  \A c \in Client : \A n \in DOMAIN replies[c] :
    /\ replies[c][n] \in Owed(c, Len(lines[c]))
    /\ Cardinality(Owed(c, replies[c][n])) = n

(* A stop takes the whole daemon: the scheduler does not end, and leave a   *)
(* server behind that answers but never runs a source again, unless the     *)
(* notification that ended it was missed by run.                            *)
StoppedTogether ==
  pc[Sched] = "stopped" => Run \in signalled \/ pc[Run] \in {"stop", "drop", "exited"} \/ missed

(* A read of c has failed, in its line n or before. *)
CutShort(c, n) == \E i \in 1..n : i \in DOMAIN lines[c] /\ lines[c][i] = "garbled"

(* The task of c has caught up with what c has sent. *)
Answered(c, n) ==
  Len(lines[c]) >= n /\ Len(replies[c]) >= Cardinality(Owed(c, n))

(* "so a slow or hung source cannot block every other client" (dispatch):   *)
(* every line that a client sends is answered, unless the client leaves,    *)
(* one of its lines up to that one cannot be read, the process ends, or a   *)
(* program of that same client hangs; and the scheduler comes back to its   *)
(* select!.                                                                 *)
NobodyBlocked ==
  /\ \A c \in Client \ Hung : \A n \in 1..MaxLines[c] :
       sent[c] >= n ~> Answered(c, n) \/ CutShort(c, n) \/ c \in away \/ ~Alive
  /\ TRUE ~> pc[Sched] \in {"select", "stopped"} \/ ~Alive

(* "Stop the daemon." (protocol.rs, Request::Shutdown).  A shutdown that    *)
(* was answered "ok" stops the process if the notification found run in its *)
(* select! and no connection that was ready at the same moment was taken    *)
(* instead; else it is lost, and the client does not learn of it.           *)
StopsUnlessMissed == requested ~> pc[Run] = "exited" \/ missed
=============================================================================
