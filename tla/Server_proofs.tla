--------------------------- MODULE Server_proofs ---------------------------
(***************************************************************************)
(* Proofs about Server, for every set of clients, whatever they send and   *)
(* whenever they leave, and whichever programs hang.                       *)
(***************************************************************************)
EXTENDS Server, FiniteSetTheorems, TLAPS

---------------------------------------------------------------------------
(* Sequences in which nobody stands twice. *)
Members(q) == {q[i] : i \in DOMAIN q}

Once(q) == \A i, j \in DOMAIN q : q[i] = q[j] => i = j

LEMMA AppendOnce ==
  ASSUME NEW S, NEW q \in Seq(S), Once(q), NEW x \in S, x \notin Members(q)
  PROVE  /\ Append(q, x) \in Seq(S) /\ Once(Append(q, x))
         /\ Members(Append(q, x)) = Members(q) \cup {x}
<1> DEFINE a == Append(q, x)
           n == Len(q) + 1
<1>1. /\ Len(q) \in Nat /\ DOMAIN q = 1..Len(q)
      /\ a \in Seq(S) /\ DOMAIN a = 1..n /\ a[n] = x
      /\ \A i \in DOMAIN q : a[i] = q[i]
  OBVIOUS
<1>2. DOMAIN a = DOMAIN q \cup {n} /\ n \notin DOMAIN q
  BY <1>1
<1>3. \A i \in DOMAIN q : q[i] # x
  BY DEF Members
<1> HIDE DEF a, n
<1>4. Once(a)
  BY <1>1, <1>2, <1>3 DEF Once
<1>5. Members(a) = Members(q) \cup {x}
  <2>1. \A i \in DOMAIN a : a[i] \in Members(q) \cup {x}
    BY <1>1, <1>2, Zenon DEF Members
  <2>2. \A y \in Members(q) \cup {x} : \E i \in DOMAIN a : a[i] = y
    BY <1>1, <1>2, Zenon DEF Members
  <2>3. QED
    BY <2>1, <2>2, Zenon DEF Members
<1> QED
  BY <1>1, <1>4, <1>5 DEF a

LEMMA TailOnce ==
  ASSUME NEW S, NEW q \in Seq(S), Once(q), q # <<>>
  PROVE  /\ Tail(q) \in Seq(S) /\ Once(Tail(q))
         /\ Members(Tail(q)) = Members(q) \ {Head(q)}
         /\ Head(q) \in Members(q) /\ Head(q) \in S
<1> DEFINE t == Tail(q)
<1>1. /\ Len(q) \in Nat \ {0} /\ DOMAIN q = 1..Len(q) /\ Head(q) = q[1] /\ q[1] \in S
      /\ t \in Seq(S) /\ DOMAIN t = 1..(Len(q) - 1)
      /\ \A i \in DOMAIN t : t[i] = q[i + 1]
  OBVIOUS
<1> HIDE DEF t
<1>2. Once(t)
  BY <1>1 DEF Once
<1>3. \A i \in DOMAIN t : i + 1 \in DOMAIN q /\ i + 1 # 1
  BY <1>1
<1>4. \A i \in DOMAIN q : i # 1 => i - 1 \in DOMAIN t /\ t[i - 1] = q[i]
  BY <1>1
<1>5. 1 \in DOMAIN q
  BY <1>1
<1>6. Members(t) \subseteq Members(q) \ {Head(q)}
  BY <1>1, <1>3, <1>5 DEF Members, Once
<1>7. Members(q) \ {Head(q)} \subseteq Members(t)
  BY <1>1, <1>4 DEF Members
<1> QED
  BY <1>1, <1>2, <1>5, <1>6, <1>7 DEF t, Members

---------------------------------------------------------------------------
(* The tasks and the mutex. *)
Place == {"loop", "select", "stop", "drop", "exited", "specs", "run", "absorb", "render", "check",
          "stopped", "off", "backlog", "read", "lookup", "handle", "notify", "reply", "gone"}

LEMMA Controls ==
  /\ Run \in Task /\ Sched \in Task /\ Run # Sched
  /\ Control(Run) = {"loop", "select", "stop", "drop", "exited"}
  /\ Control(Sched) = {"select", "specs", "run", "absorb", "render", "check", "stopped"}
  /\ \A c \in Client : /\ c \in Task /\ c # Run /\ c # Sched
                       /\ Control(c) = {"off", "backlog", "read", "lookup", "run", "absorb",
                                        "handle", "notify", "reply", "gone"}
  /\ \A t \in Task : Control(t) \subseteq Place
BY ServerAssumption DEF Task, Control, Place

Mutex ==
  /\ pc \in [Task -> Place]
  /\ \A t \in Task : pc[t] \in Control(t)
  /\ queue \in Seq(Task)
  /\ Once(queue)
  /\ \A t \in Task : pc[t] \in Section <=> t \in Members(queue)

(* A task that comes from no section asks for the mutex only if it goes to  *)
(* one.                                                                     *)
LEMMA GoKeeps ==
  ASSUME Mutex, NEW t \in Task, NEW from, from \notin Section, NEW to \in Control(t),
         Go(t, from, to)
  PROVE  Mutex'
<1>1. /\ pc' = [pc EXCEPT ![t] = to] /\ pc[t] = from
      /\ queue' = Asking(queue, t, to)
  BY DEF Go
<1>2. to \in Place /\ pc' \in [Task -> Place] /\ \A u \in Task : pc'[u] \in Control(u)
  BY <1>1, Controls DEF Mutex
<1>3. t \notin Members(queue)
  BY <1>1 DEF Mutex
<1>4. /\ queue' \in Seq(Task) /\ Once(queue')
      /\ Members(queue') = IF to \in Section THEN Members(queue) \cup {t} ELSE Members(queue)
  BY <1>1, <1>3, AppendOnce DEF Mutex, Asking
<1>5. \A u \in Task : pc'[u] \in Section <=> u \in Members(queue')
  BY <1>1, <1>3, <1>4 DEF Mutex
<1> QED
  BY <1>1, <1>2, <1>4, <1>5 DEF Mutex

(* The holder of the mutex leaves a section, for good or for the next one,  *)
(* for which it queues again.                                               *)
LEMMA LeavesKeeps ==
  ASSUME Mutex, NEW t \in Task, NEW from, NEW to \in Control(t), Leaves(t, from, to)
  PROVE  Mutex'
<1>1. /\ pc' = [pc EXCEPT ![t] = to] /\ pc[t] = from /\ from \in Section
      /\ queue # <<>> /\ Head(queue) = t
      /\ queue' = Asking(Tail(queue), t, to)
  BY DEF Leaves, Holds
<1>2. to \in Place /\ pc' \in [Task -> Place] /\ \A u \in Task : pc'[u] \in Control(u)
  BY <1>1, Controls DEF Mutex
<1>3. /\ Tail(queue) \in Seq(Task) /\ Once(Tail(queue))
      /\ Members(Tail(queue)) = Members(queue) \ {t}
  BY <1>1, TailOnce DEF Mutex
<1>4. t \notin Members(Tail(queue))
  BY <1>3
<1>5. /\ queue' \in Seq(Task) /\ Once(queue')
      /\ Members(queue') = IF to \in Section THEN Members(Tail(queue)) \cup {t}
                                              ELSE Members(Tail(queue))
  <2> DEFINE rest == Tail(queue)
  <2>1. queue' = Asking(rest, t, to) /\ rest \in Seq(Task) /\ Once(rest) /\ t \notin Members(rest)
    BY <1>1, <1>3, <1>4
  <2> HIDE DEF rest
  <2>2. CASE to \in Section
    <3>1. queue' = Append(rest, t)
      BY <2>1, <2>2 DEF Asking
    <3>2. /\ Append(rest, t) \in Seq(Task) /\ Once(Append(rest, t))
          /\ Members(Append(rest, t)) = Members(rest) \cup {t}
      BY <2>1, AppendOnce
    <3>3. QED
      BY <2>2, <3>1, <3>2, Zenon DEF rest
  <2>3. CASE to \notin Section
    <3>1. queue' = rest
      BY <2>1, <2>3 DEF Asking
    <3>2. QED
      BY <2>1, <2>3, <3>1, Zenon DEF rest
  <2> QED
    BY <2>2, <2>3
<1>6. \A u \in Task : pc'[u] \in Section <=> u \in Members(queue')
  BY <1>1, <1>3, <1>5 DEF Mutex
<1> QED
  BY <1>1, <1>2, <1>5, <1>6 DEF Mutex

---------------------------------------------------------------------------
(* The connections that wait to be accepted. *)
Backlog ==
  /\ backlog \in Seq(Client)
  /\ Once(backlog)
  /\ \A c \in Client : pc[c] = "backlog" <=> c \in Members(backlog)

(* A step of a task that neither joins nor leaves the backlog. *)
LEMMA BacklogKept ==
  ASSUME Mutex, Backlog, NEW t \in Task, NEW to, pc' = [pc EXCEPT ![t] = to],
         pc[t] # "backlog", to # "backlog", backlog' = backlog
  PROVE  Backlog'
BY Controls DEF Mutex, Backlog

---------------------------------------------------------------------------
(* A connection and what it owes. *)

(* The last line that the task of c has read is owed an answer. *)
Busy == {"lookup", "run", "absorb", "handle", "notify", "reply"}

Lines(c) == Owed(c, Len(lines[c]))

(* Every answer so far is in its place; and as long as the client is there, *)
(* no owed line but the current one is without its answer.                  *)
Conversation(c) ==
  /\ \A n \in DOMAIN replies[c] :
       replies[c][n] \in Lines(c) /\ Cardinality(Owed(c, replies[c][n])) = n
  /\ pc[c] \in Busy => Len(lines[c]) \in Lines(c)
  /\ c \notin away =>
       Len(replies[c]) + (IF pc[c] \in Busy THEN 1 ELSE 0) = Cardinality(Lines(c))

Conversations ==
  /\ sent \in [Client -> Nat]
  /\ away \subseteq Client
  /\ lines \in [Client -> Seq(Line)]
  /\ replies \in [Client -> Seq(Nat)]
  /\ \A c \in Client : Len(lines[c]) <= sent[c]
  /\ \A c \in Client : Conversation(c)

(* A step that reads no line and answers none, except to a client that has  *)
(* gone away.                                                               *)
LEMMA ConversationsKept ==
  ASSUME Mutex, Conversations, UNCHANGED <<lines, replies>>,
         sent' \in [Client -> Nat], \A c \in Client : sent[c] <= sent'[c],
         away' \subseteq Client, away \subseteq away',
         \A c \in Client : pc'[c] \in Busy => pc[c] \in Busy,
         \A c \in Client \ away' : pc[c] \in Busy => pc'[c] \in Busy
  PROVE  Conversations'
<1>1. ASSUME NEW c \in Client
      PROVE  Len(lines'[c]) <= sent'[c] /\ Conversation(c)'
  <2>1. \A n : Owed(c, n)' = Owed(c, n)
    BY DEF Owed
  <2>2. Lines(c)' = Lines(c)
    BY DEF Lines, Owed
  <2>3. Conversation(c)'
    BY <2>1, <2>2 DEF Conversations, Conversation
  <2>4. Len(lines[c]) \in Nat /\ Len(lines[c]) <= sent[c] /\ sent[c] \in Nat /\ sent'[c] \in Nat
    BY DEF Conversations
  <2> QED
    BY <2>3, <2>4
<1> QED
  BY <1>1 DEF Conversations

LEMMA OwedFinite ==
  ASSUME Conversations, NEW c \in Client, NEW n \in Nat
  PROVE  IsFiniteSet(Owed(c, n)) /\ Cardinality(Owed(c, n)) \in Nat /\ Owed(c, n) \subseteq 1..n
<1>1. IsFiniteSet(1..n) /\ Owed(c, n) \in SUBSET (1..n)
  BY FS_Interval DEF Owed
<1> QED
  BY <1>1, FS_Subset, FS_CardinalityType

Answerable(line) == line \notin {"blank", "garbled"}

(* Reading a line leaves what the earlier ones owe, and owes one answer     *)
(* more unless it is blank or cannot be read.                               *)
LEMMA OneLineMore ==
  ASSUME Conversations, NEW c \in Client, NEW line \in Line,
         lines' = [lines EXCEPT ![c] = Append(@, line)]
  PROVE  /\ lines' \in [Client -> Seq(Line)]
         /\ \A d \in Client \ {c} : lines'[d] = lines[d]
         /\ Len(lines'[c]) = Len(lines[c]) + 1
         /\ \A n \in 0..Len(lines[c]) : Owed(c, n)' = Owed(c, n)
         /\ ~Answerable(line) => Lines(c)' = Lines(c)
         /\ Answerable(line) => /\ Lines(c)' = Lines(c) \cup {Len(lines'[c])}
                                /\ Cardinality(Lines(c)') = Cardinality(Lines(c)) + 1
<1> DEFINE k == Len(lines[c])
           old == lines[c]
           new == Append(old, line)
<1>1. /\ old \in Seq(Line) /\ k \in Nat /\ k = Len(old) /\ k + 1 \notin 1..k
      /\ new \in Seq(Line) /\ Len(new) = k + 1 /\ new[k + 1] = line
      /\ \A i \in 1..k : new[i] = old[i]
  BY DEF Conversations
<1>2. /\ lines'[c] = new /\ lines' \in [Client -> Seq(Line)]
      /\ \A d \in Client \ {c} : lines'[d] = lines[d]
  BY <1>1 DEF Conversations
<1> HIDE DEF k, new
<1>3. \A n : Owed(c, n) = {i \in 1..n : Answerable(old[i])}
  BY DEF Owed, Answerable
<1>4. \A n : Owed(c, n)' = {i \in 1..n : Answerable(new[i])}
  BY <1>2 DEF Owed, Answerable
<1>5. Lines(c) = Owed(c, k) /\ Lines(c)' = {i \in 1..(k + 1) : Answerable(new[i])}
  BY <1>1, <1>2, <1>4 DEF Lines, k
<1> HIDE DEF old
<1>6. \A n \in 0..k : Owed(c, n)' = Owed(c, n)
  <2> TAKE n \in 0..k
  <2>1. \A i \in 1..n : new[i] = old[i]
    BY <1>1
  <2> QED
    BY <1>3, <1>4, <2>1
<1>7. 1..(k + 1) = (1..k) \cup {k + 1}
  BY <1>1
<1>8. Lines(c)' = IF Answerable(line) THEN Lines(c) \cup {k + 1} ELSE Lines(c)
  BY <1>1, <1>3, <1>5, <1>7
<1>9. k + 1 \notin Lines(c) /\ IsFiniteSet(Lines(c))
  BY <1>1, <1>5, OwedFinite
<1>10. Cardinality(Lines(c) \cup {k + 1}) = Cardinality(Lines(c)) + 1
  BY <1>9, FS_AddElement
<1> QED
  BY <1>1, <1>2, <1>6, <1>8, <1>10 DEF k

---------------------------------------------------------------------------
(* The inductive invariant. *)
IInv ==
  /\ Mutex
  /\ Backlog
  /\ Conversations
  /\ signalled \subseteq {Run, Sched}
  /\ {requested, missed} \subseteq BOOLEAN

(* A notification that has ended the scheduler, or is about to, has reached *)
(* run as well, or was missed by it.                                        *)
Together ==
  pc[Sched] = "stopped" \/ Sched \in signalled =>
    Run \in signalled \/ pc[Run] \in {"stop", "drop", "exited"} \/ missed

LEMMA Start == Init => IInv
<1> SUFFICES ASSUME Init PROVE IInv
  OBVIOUS
<1>1. Members(<<>>) = {} /\ Once(<<>>)
  BY DEF Members, Once
<1>2. \A t \in Task : pc[t] = CASE t = Run -> "loop" [] t = Sched -> "select" [] OTHER -> "off"
  BY DEF Init
<1>3. pc[Run] = "loop" /\ pc[Sched] = "select" /\ \A c \in Client : pc[c] = "off"
  BY <1>2, Controls
<1>4. \A t \in Task : pc[t] \in {"loop", "select", "off"} /\ pc[t] \in Control(t) /\ pc[t] \in Place
  BY <1>2, <1>3, Controls DEF Task, Place
<1>5. pc \in [Task -> Place]
  BY <1>4 DEF Init
<1>6. Mutex
  <2>1. queue \in Seq(Task) /\ Once(queue) /\ Members(queue) = {}
    BY <1>1 DEF Init
  <2>2. \A t \in Task : pc[t] \notin Section
    BY <1>4 DEF Section
  <2> QED
    BY <1>4, <1>5, <2>1, <2>2 DEF Mutex
<1>7. Backlog
  BY <1>1, <1>3 DEF Init, Backlog
<1>8. Conversations
  <2>1. ASSUME NEW c \in Client
        PROVE  Len(lines[c]) <= sent[c] /\ Conversation(c)
    <3>1. /\ lines[c] = <<>> /\ replies[c] = <<>> /\ sent[c] = 0
          /\ Len(<<>>) = 0 /\ DOMAIN replies[c] = {}
      BY DEF Init
    <3>2. Lines(c) = {}
      BY <3>1 DEF Lines, Owed
    <3>3. Cardinality(Lines(c)) = 0
      BY <3>2, FS_EmptySet
    <3> QED
      BY <1>3, <3>1, <3>3 DEF Conversation, Busy
  <2>2. /\ sent \in [Client -> Nat] /\ away \subseteq Client
        /\ lines \in [Client -> Seq(Line)] /\ replies \in [Client -> Seq(Nat)]
    BY DEF Init
  <2> QED
    BY <2>1, <2>2 DEF Conversations
<1> QED
  BY <1>6, <1>7, <1>8 DEF Init, IInv

(* What every step of a single task keeps, the server's and the scheduler's *)
(* and those of connections that neither read a line nor answer one.        *)
LEMMA TaskStep ==
  ASSUME IInv, NEW t \in Task, NEW from, NEW to \in Control(t),
         from # "backlog", to # "backlog",
         \/ from \notin Section /\ Go(t, from, to)
         \/ Leaves(t, from, to),
         t \in Client => /\ to \in Busy => from \in Busy
                         /\ t \notin away => (from \in Busy => to \in Busy),
         UNCHANGED <<clients, lines, replies>>,
         signalled' \subseteq {Run, Sched}, {requested', missed'} \subseteq BOOLEAN
  PROVE  IInv'
<1>1. Mutex'
  BY GoKeeps, LeavesKeeps DEF IInv
<1>2. pc' = [pc EXCEPT ![t] = to] /\ pc[t] = from
  BY DEF Go, Leaves
<1>3. UNCHANGED <<backlog, sent, away, lines, replies>>
  BY DEF clients
<1>4. Backlog'
  BY <1>2, <1>3, BacklogKept DEF IInv
<1>5. \A u \in Task : pc'[u] = IF u = t THEN to ELSE pc[u]
  BY <1>2 DEF IInv, Mutex
<1>6. Conversations'
  <2>1. sent' \in [Client -> Nat] /\ (\A c \in Client : sent[c] <= sent'[c]) /\ away' \subseteq Client
    BY <1>3 DEF IInv, Conversations
  <2>2. /\ \A c \in Client : pc'[c] \in Busy => pc[c] \in Busy
        /\ \A c \in Client \ away' : pc[c] \in Busy => pc'[c] \in Busy
    <3>1. ASSUME NEW c \in Client
          PROVE  /\ pc'[c] \in Busy => pc[c] \in Busy
                 /\ c \notin away /\ pc[c] \in Busy => pc'[c] \in Busy
      <4>1. c \in Task
        BY Controls
      <4>2. CASE c = t
        BY <1>2, <1>5, <4>1, <4>2
      <4>3. CASE c # t
        BY <1>5, <4>1, <4>3
      <4> QED
        BY <4>2, <4>3
    <3> QED
      BY <1>3, <3>1
  <2> QED
    BY <1>3, <2>1, <2>2, ConversationsKept DEF IInv
<1> QED
  BY <1>1, <1>4, <1>6 DEF IInv

---------------------------------------------------------------------------
(* The steps of the server and the scheduler. *)
LEMMA RunSteps ==
  ASSUME IInv, Wait \/ Hears(Run, "stop") \/ Return \/ Accept(FALSE)
  PROVE  IInv'
<1>1. /\ Run \in Task /\ Run \notin Client
      /\ {"select", "stop", "drop", "loop"} \subseteq Control(Run)
  BY Controls, ServerAssumption
<1>2. signalled \subseteq {Run, Sched} /\ {requested, missed} \subseteq BOOLEAN
  BY DEF IInv
<1>3. CASE Wait
  <2>1. /\ Go(Run, "loop", "select")
        /\ UNCHANGED <<clients, lines, replies>> /\ UNCHANGED <<signalled, requested, missed>>
    BY <1>3 DEF Wait
  <2> QED
    BY <1>1, <1>2, <2>1, TaskStep DEF Section
<1>4. CASE Hears(Run, "stop")
  <2>1. /\ Go(Run, "select", "stop")
        /\ UNCHANGED <<clients, lines, replies>> /\ UNCHANGED <<requested, missed>>
        /\ signalled' \subseteq signalled
    BY <1>4 DEF Hears
  <2> QED
    BY <1>1, <1>2, <2>1, TaskStep DEF Section
<1>5. CASE Return
  <2>1. /\ Go(Run, "stop", "drop")
        /\ UNCHANGED <<clients, lines, replies>> /\ UNCHANGED <<signalled, requested, missed>>
    BY <1>5 DEF Return
  <2> QED
    BY <1>1, <1>2, <2>1, TaskStep DEF Section
<1>6. CASE Accept(FALSE)
  <2>1. Go(Run, "select", "loop")
    BY <1>6 DEF Accept, Go, Asking, Section
  <2>2. /\ UNCHANGED <<clients, lines, replies>> /\ requested' = requested
        /\ missed' \in BOOLEAN /\ signalled' \subseteq signalled
    BY <1>2, <1>6 DEF Accept, clients
  <2> QED
    BY <1>1, <1>2, <2>1, <2>2, TaskStep DEF Section
<1> QED
  BY <1>3, <1>4, <1>5, <1>6

LEMMA SchedulerSteps ==
  ASSUME IInv, Hears(Sched, "stopped") \/ Tick \/ SchedStep
  PROVE  IInv'
<1>1. /\ Sched \in Task /\ Sched \notin Client
      /\ Control(Sched) = {"select", "specs", "run", "absorb", "render", "check", "stopped"}
  BY Controls, ServerAssumption
<1>2. signalled \subseteq {Run, Sched} /\ {requested, missed} \subseteq BOOLEAN
  BY DEF IInv
<1>3. CASE Hears(Sched, "stopped")
  <2>1. /\ Go(Sched, "select", "stopped")
        /\ UNCHANGED <<clients, lines, replies>> /\ UNCHANGED <<requested, missed>>
        /\ signalled' \subseteq signalled
    BY <1>3 DEF Hears
  <2> QED
    BY <1>1, <1>2, <2>1, TaskStep DEF Section
<1>4. CASE Tick
  <2>1. /\ Go(Sched, "select", "specs")
        /\ UNCHANGED <<clients, lines, replies>> /\ UNCHANGED <<requested, missed>>
        /\ signalled' \subseteq signalled
    BY <1>4 DEF Tick
  <2> QED
    BY <1>1, <1>2, <2>1, TaskStep DEF Section
<1>5. CASE SchedStep
  <2>1. PICK from \in {"specs", "absorb", "render", "check"} :
          \E to \in Following(from) : SchedSection(from, to)
    BY <1>5 DEF SchedStep
  <2> PICK to \in Following(from) : SchedSection(from, to)
    BY <2>1
  <2>2. to \in {"run", "render", "check", "select"}
    BY DEF Following
  <2>3. /\ Leaves(Sched, from, to)
        /\ UNCHANGED <<clients, lines, replies>> /\ UNCHANGED <<signalled, requested, missed>>
    BY DEF SchedSection
  <2> QED
    BY <1>1, <1>2, <2>2, <2>3, TaskStep
<1> QED
  BY <1>3, <1>4, <1>5

(* The programs of sources, of connections and of the scheduler. *)
LEMMA SourceStep ==
  ASSUME IInv, NEW t \in Task, SourceEnds(t)
  PROVE  IInv'
<1>1. /\ Go(t, "run", "absorb")
      /\ UNCHANGED <<clients, lines, replies>> /\ UNCHANGED <<signalled, requested, missed>>
  BY DEF SourceEnds
<1>2. pc[t] = "run" /\ pc[t] \in Control(t)
  BY <1>1 DEF Go, IInv, Mutex
<1>3. "absorb" \in Control(t)
  BY <1>2, Controls DEF Task
<1>4. "run" \notin Section /\ {"run", "absorb"} \subseteq Busy
  BY DEF Section, Busy
<1> QED
  BY <1>1, <1>3, <1>4, TaskStep DEF IInv

---------------------------------------------------------------------------
(* The steps of a connection that neither read a line nor answer one that   *)
(* anybody waits for.                                                       *)
LEMMA ConnectionSteps ==
  ASSUME IInv, NEW c \in Client,
         \/ EndOfFile(c)
         \/ \E found \in BOOLEAN : Lookup(c, found)
         \/ Absorb(c)
         \/ Handle(c)
         \/ Notify(c)
         \/ c \in away /\ \E ok \in BOOLEAN : Reply(c, ok)
  PROVE  IInv'
<1>1. /\ c \in Task
      /\ {"gone", "run", "reply", "notify", "read"} \subseteq Control(c)
  BY Controls
<1>2. signalled \subseteq {Run, Sched} /\ {requested, missed} \subseteq BOOLEAN
  BY DEF IInv
<1>3. CASE EndOfFile(c)
  <2>1. /\ Go(c, "read", "gone")
        /\ UNCHANGED <<clients, lines, replies>> /\ UNCHANGED <<signalled, requested, missed>>
    BY <1>3 DEF EndOfFile
  <2> QED
    BY <1>1, <1>2, <2>1, TaskStep DEF Section, Busy
<1>4. ASSUME NEW found \in BOOLEAN, Lookup(c, found)
      PROVE  IInv'
  <2>1. PICK to \in {"run", "reply"} : Leaves(c, "lookup", to)
    BY <1>4 DEF Lookup
  <2>2. UNCHANGED <<clients, lines, replies>> /\ UNCHANGED <<signalled, requested, missed>>
    BY <1>4 DEF Lookup
  <2> QED
    BY <1>1, <1>2, <2>1, <2>2, TaskStep DEF Busy
<1>5. CASE Absorb(c)
  <2>1. /\ Leaves(c, "absorb", "reply")
        /\ UNCHANGED <<clients, lines, replies>> /\ UNCHANGED <<signalled, requested, missed>>
    BY <1>5 DEF Absorb
  <2> QED
    BY <1>1, <1>2, <2>1, TaskStep DEF Busy
<1>6. CASE Handle(c)
  <2>1. PICK to \in {"notify", "reply"} : Leaves(c, "handle", to)
    BY <1>6 DEF Handle
  <2>2. /\ UNCHANGED <<clients, lines, replies>> /\ UNCHANGED <<signalled, missed>>
        /\ requested' \in BOOLEAN
    BY <1>2, <1>6 DEF Handle
  <2> QED
    BY <1>1, <1>2, <2>1, <2>2, TaskStep DEF Busy
<1>7. CASE Notify(c)
  <2>1. /\ Go(c, "notify", "reply")
        /\ UNCHANGED <<clients, lines, replies>> /\ requested' = requested
        /\ missed' \in BOOLEAN /\ signalled' \subseteq {Run, Sched}
    BY <1>2, <1>7 DEF Notify, Waiting
  <2> QED
    BY <1>1, <1>2, <2>1, TaskStep DEF Section, Busy
<1>8. ASSUME NEW ok \in BOOLEAN, c \in away, Reply(c, ok)
      PROVE  IInv'
  <2>1. PICK to \in {"read", "gone"} : Go(c, "reply", to)
    BY <1>8 DEF Reply
  <2>2. UNCHANGED <<clients, lines, replies>> /\ UNCHANGED <<signalled, requested, missed>>
    BY <1>8 DEF Reply
  <2> QED
    BY <1>1, <1>2, <1>8, <2>1, <2>2, TaskStep DEF Section, Busy
<1> QED
  BY <1>3, <1>4, <1>5, <1>6, <1>7, <1>8

---------------------------------------------------------------------------
(* Clients, and the steps that several parts of the state take part in. *)

(* No task moves. *)
LEMMA NobodyMoves ==
  ASSUME IInv, UNCHANGED <<pc, queue, backlog, lines, replies>>,
         sent' \in [Client -> Nat], \A c \in Client : sent[c] <= sent'[c],
         away' \subseteq Client, away \subseteq away',
         UNCHANGED <<signalled, requested, missed>>
  PROVE  IInv'
<1>1. Mutex' /\ Backlog'
  BY DEF IInv, Mutex, Backlog
<1>2. Conversations'
  BY ConversationsKept DEF IInv
<1> QED
  BY <1>1, <1>2 DEF IInv

LEMMA Onlookers ==
  ASSUME IInv, \E c \in Client : Send(c) \/ Leave(c)
  PROVE  IInv'
<1>1. /\ sent \in [Client -> Nat] /\ away \subseteq Client
      /\ \A c \in Client : sent[c] <= sent[c]
  BY DEF IInv, Conversations
<1>2. ASSUME NEW c \in Client, Send(c)
      PROVE  IInv'
  <2>1. /\ sent' = [sent EXCEPT ![c] = @ + 1]
        /\ UNCHANGED <<pc, queue, backlog, away, lines, replies>>
        /\ UNCHANGED <<signalled, requested, missed>>
    BY <1>2 DEF Send, tasks
  <2>2. sent' \in [Client -> Nat] /\ \A d \in Client : sent[d] <= sent'[d]
    BY <1>1, <2>1
  <2> QED
    BY <1>1, <2>1, <2>2, NobodyMoves
<1>3. ASSUME NEW c \in Client, Leave(c)
      PROVE  IInv'
  <2>1. /\ away' = away \cup {c}
        /\ UNCHANGED <<pc, queue, backlog, sent, lines, replies>>
        /\ UNCHANGED <<signalled, requested, missed>>
    BY <1>3 DEF Leave, tasks
  <2> QED
    BY <1>1, <2>1, NobodyMoves
<1> QED
  BY <1>2, <1>3

LEMMA ConnectStep ==
  ASSUME IInv, NEW c \in Client, Connect(c)
  PROVE  IInv'
<1>1. /\ Go(c, "off", "backlog") /\ backlog' = Append(backlog, c)
      /\ UNCHANGED <<sent, away, lines, replies, signalled, requested, missed>>
  BY DEF Connect
<1>2. pc[c] = "off" /\ pc' = [pc EXCEPT ![c] = "backlog"]
  BY <1>1 DEF Go
<1>3. \A d \in Client : pc'[d] = IF d = c THEN "backlog" ELSE pc[d]
  BY <1>2, Controls DEF IInv, Mutex
<1>4. Mutex'
  BY <1>1, Controls, GoKeeps DEF IInv, Section
<1>5. Backlog'
  <2>1. c \notin Members(backlog) /\ backlog \in Seq(Client) /\ Once(backlog)
    BY <1>2 DEF IInv, Backlog
  <2>2. /\ backlog' \in Seq(Client) /\ Once(backlog')
        /\ Members(backlog') = Members(backlog) \cup {c}
    BY <1>1, <2>1, AppendOnce
  <2> QED
    BY <1>3, <2>2 DEF IInv, Backlog
<1>6. Conversations'
  <2>1. \A d \in Client : pc'[d] \in Busy <=> pc[d] \in Busy
    BY <1>2, <1>3 DEF Busy
  <2>2. /\ sent' \in [Client -> Nat] /\ away' \subseteq Client
        /\ \A d \in Client : sent[d] <= sent'[d]
    BY <1>1 DEF IInv, Conversations
  <2> QED
    BY <1>1, <2>1, <2>2, ConversationsKept DEF IInv
<1> QED
  BY <1>1, <1>4, <1>5, <1>6 DEF IInv

(* A step of Run, with or without one of a client from the backlog, that    *)
(* has nothing to do with the mutex.                                        *)
LEMMA MutexKept ==
  ASSUME Mutex, queue' = queue,
         pc' \in [Task -> Place], \A t \in Task : pc'[t] \in Control(t),
         \A t \in Task : pc'[t] = pc[t] \/ {pc[t], pc'[t]} \cap Section = {}
  PROVE  Mutex'
<1>1. \A t \in Task : pc'[t] \in Section <=> t \in Members(queue)
  BY DEF Mutex
<1> QED
  BY <1>1 DEF Mutex

LEMMA ExitStep ==
  ASSUME IInv, Exit
  PROVE  IInv'
<1>1. /\ pc[Run] = "drop" /\ pc' = [pc EXCEPT ![Run] = "exited"]
      /\ UNCHANGED <<queue, backlog, sent, away, lines, replies>>
      /\ UNCHANGED <<signalled, requested, missed>>
  BY DEF Exit, clients
<1>2. /\ pc' \in [Task -> Place] /\ \A t \in Task : pc'[t] \in Control(t)
      /\ \A t \in Task : pc'[t] = pc[t] \/ {pc[t], pc'[t]} \cap Section = {}
  BY <1>1, Controls DEF IInv, Mutex, Place, Section
<1>3. Mutex'
  BY <1>1, <1>2, MutexKept DEF IInv
<1>4. Backlog'
  BY <1>1, Controls, BacklogKept DEF IInv
<1>5. \A c \in Client : pc'[c] = pc[c]
  BY <1>1, Controls DEF IInv, Mutex
<1>6. Conversations'
  <2>1. /\ sent' \in [Client -> Nat] /\ away' \subseteq Client
        /\ \A d \in Client : sent[d] <= sent'[d]
    BY <1>1 DEF IInv, Conversations
  <2> QED
    BY <1>1, <1>5, <2>1, ConversationsKept DEF IInv
<1> QED
  BY <1>1, <1>3, <1>4, <1>6 DEF IInv

LEMMA AcceptStep ==
  ASSUME IInv, Accept(TRUE)
  PROVE  IInv'
<1> DEFINE c == Head(backlog)
<1>1. /\ pc[Run] = "select" /\ backlog # <<>>
      /\ pc' = [pc EXCEPT ![Run] = "loop", ![c] = "read"]
      /\ backlog' = Tail(backlog)
      /\ UNCHANGED <<queue, requested, sent, away, lines, replies>>
      /\ signalled' \subseteq signalled /\ missed' = (missed \/ Run \in signalled)
  BY DEF Accept
<1>2. /\ backlog' \in Seq(Client) /\ Once(backlog')
      /\ Members(backlog') = Members(backlog) \ {c}
      /\ c \in Members(backlog) /\ c \in Client
  BY <1>1, TailOnce DEF IInv, Backlog
<1> HIDE DEF c
<1>3. pc[c] = "backlog"
  BY <1>2 DEF IInv, Backlog
<1>4. /\ DOMAIN pc' = Task
      /\ \A t \in Task : pc'[t] = IF t = c THEN "read" ELSE IF t = Run THEN "loop" ELSE pc[t]
  BY <1>1, <1>2, Controls DEF IInv, Mutex
<1>5. \A t \in Task : pc'[t] \in Control(t) /\ pc'[t] \in Place
  BY <1>2, <1>4, Controls DEF IInv, Mutex, Place
<1>6. pc' \in [Task -> Place]
  BY <1>1, <1>4, <1>5 DEF IInv, Mutex
<1>7. \A t \in Task : pc'[t] = pc[t] \/ {pc[t], pc'[t]} \cap Section = {}
  BY <1>1, <1>2, <1>3, <1>4, Controls DEF Section
<1>8. Mutex'
  BY <1>1, <1>5, <1>6, <1>7, MutexKept DEF IInv
<1>9. \A d \in Client : pc'[d] = IF d = c THEN "read" ELSE pc[d]
  BY <1>2, <1>4, Controls
<1>10. Backlog'
  BY <1>2, <1>9 DEF IInv, Backlog
<1>11. Conversations'
  <2>1. \A d \in Client : pc'[d] \in Busy <=> pc[d] \in Busy
    BY <1>3, <1>9 DEF Busy
  <2>2. /\ sent' \in [Client -> Nat] /\ away' \subseteq Client
        /\ \A d \in Client : sent[d] <= sent'[d]
    BY <1>1 DEF IInv, Conversations
  <2> QED
    BY <1>1, <2>1, <2>2, ConversationsKept DEF IInv
<1> QED
  BY <1>1, <1>8, <1>10, <1>11 DEF IInv

LEMMA ReadStep ==
  ASSUME IInv, NEW c \in Client, NEW line \in Line, Read(c, line)
  PROVE  IInv'
<1>1. /\ Go(c, "read", AfterReading(line)) /\ Len(lines[c]) < sent[c]
      /\ lines' = [lines EXCEPT ![c] = Append(@, line)]
      /\ UNCHANGED <<backlog, sent, away, replies>> /\ UNCHANGED <<signalled, requested, missed>>
  BY DEF Read, clients
<1>2. /\ AfterReading(line) \in {"read", "gone", "reply", "lookup", "handle"}
      /\ AfterReading(line) \in Busy <=> Answerable(line)
  BY DEF AfterReading, Line, Busy, Answerable
<1>3. /\ pc[c] = "read" /\ pc' = [pc EXCEPT ![c] = AfterReading(line)]
      /\ c \in Task /\ AfterReading(line) \in Control(c)
  BY <1>1, <1>2, Controls DEF Go
<1>4. Mutex' /\ Backlog'
  BY <1>1, <1>2, <1>3, GoKeeps, BacklogKept DEF IInv, Section
<1>5. /\ lines' \in [Client -> Seq(Line)]
      /\ \A d \in Client \ {c} : lines'[d] = lines[d]
      /\ Len(lines'[c]) = Len(lines[c]) + 1
      /\ \A n \in 0..Len(lines[c]) : Owed(c, n)' = Owed(c, n)
      /\ ~Answerable(line) => Lines(c)' = Lines(c)
      /\ Answerable(line) => /\ Lines(c)' = Lines(c) \cup {Len(lines'[c])}
                             /\ Cardinality(Lines(c)') = Cardinality(Lines(c)) + 1
  BY <1>1, OneLineMore DEF IInv
<1>6. /\ Conversations /\ sent \in [Client -> Nat] /\ lines \in [Client -> Seq(Line)]
      /\ replies \in [Client -> Seq(Nat)] /\ away \subseteq Client
      /\ \A d \in Client : Conversation(d) /\ Len(lines[d]) <= sent[d] /\ Len(lines[d]) \in Nat
  BY DEF IInv, Conversations
<1>7. \A d \in Client : pc'[d] = IF d = c THEN AfterReading(line) ELSE pc[d]
  BY <1>3, Controls DEF IInv, Mutex
<1>8. ASSUME NEW d \in Client, d # c
      PROVE  Conversation(d)' /\ Len(lines'[d]) <= sent'[d]
  <2>1. lines'[d] = lines[d] /\ pc'[d] = pc[d] /\ replies' = replies /\ away' = away /\ sent' = sent
    BY <1>1, <1>5, <1>7, <1>8
  <2>2. (\A n : Owed(d, n)' = Owed(d, n)) /\ Lines(d)' = Lines(d)
    BY <2>1 DEF Owed, Lines
  <2> QED
    BY <1>6, <2>1, <2>2 DEF Conversation
<1>9. Len(lines'[c]) <= sent'[c]
  BY <1>1, <1>5, <1>6
<1>10. Conversation(c)'
  <2>1. /\ pc[c] \notin Busy /\ Conversation(c)
        /\ pc'[c] \in Busy <=> Answerable(line)
    BY <1>2, <1>3, <1>6, <1>7 DEF Busy
  <2>2. ASSUME NEW n \in DOMAIN replies[c]
        PROVE  (replies[c][n] \in Lines(c) /\ Cardinality(Owed(c, replies[c][n])) = n)'
    <3>1. PICK m \in 0..Len(lines[c]) :
            m = replies[c][n] /\ m \in Lines(c) /\ Cardinality(Owed(c, m)) = n
      <4>1. replies[c][n] \in Lines(c) /\ Cardinality(Owed(c, replies[c][n])) = n
        BY <2>1 DEF Conversation
      <4>2. replies[c][n] \in 0..Len(lines[c])
        BY <1>6, <4>1, OwedFinite DEF Lines
      <4> QED
        BY <4>1, <4>2
    <3>2. Owed(c, m)' = Owed(c, m) /\ m \in Lines(c)'
      BY <1>5, <3>1
    <3>3. replies'[c][n] = m
      BY <1>1, <3>1
    <3>4. Owed(c, replies[c][n])' = Owed(c, m)'
      BY <3>3 DEF Owed
    <3> QED
      BY <3>1, <3>2, <3>3, <3>4
  <2>3. pc'[c] \in Busy => Len(lines'[c]) \in Lines(c)'
    BY <1>5, <2>1
  <2>4. c \notin away =>
          Len(replies[c]) + (IF pc'[c] \in Busy THEN 1 ELSE 0) = Cardinality(Lines(c)')
    <3>1. SUFFICES ASSUME c \notin away
                   PROVE  Len(replies[c]) + (IF pc'[c] \in Busy THEN 1 ELSE 0) =
                            Cardinality(Lines(c)')
      OBVIOUS
    <3>2. Len(replies[c]) + 0 = Cardinality(Lines(c)) /\ Len(replies[c]) \in Nat
      BY <1>6, <2>1, <3>1 DEF Conversation
    <3>3. CASE ~Answerable(line)
      BY <1>5, <2>1, <3>2, <3>3
    <3>4. CASE Answerable(line)
      <4>1. Cardinality(Lines(c)') = Cardinality(Lines(c)) + 1
        BY <1>5, <3>4
      <4>2. pc'[c] \in Busy
        BY <2>1, <3>4
      <4> QED
        BY <3>2, <4>1, <4>2
    <3> QED
      BY <3>3, <3>4
  <2> QED
    BY <1>1, <2>2, <2>3, <2>4 DEF Conversation
<1>11. Conversations'
  BY <1>1, <1>5, <1>6, <1>8, <1>9, <1>10 DEF Conversations
<1> QED
  BY <1>1, <1>4, <1>11 DEF IInv

(* The answer to a client that is there: the next in order, to the line     *)
(* that its task has read last.                                             *)
LEMMA ReplyStep ==
  ASSUME IInv, NEW c \in Client, NEW ok \in BOOLEAN, c \notin away, Reply(c, ok)
  PROVE  IInv'
<1>1. /\ Go(c, "reply", "read")
      /\ replies' = [replies EXCEPT ![c] = Append(@, Len(lines[c]))]
      /\ UNCHANGED <<backlog, sent, away, lines>> /\ UNCHANGED <<signalled, requested, missed>>
  BY DEF Reply, clients
<1>2. /\ pc[c] = "reply" /\ pc' = [pc EXCEPT ![c] = "read"]
      /\ c \in Task /\ "read" \in Control(c)
  BY <1>1, Controls DEF Go
<1>3. Mutex' /\ Backlog'
  BY <1>1, <1>2, GoKeeps, BacklogKept DEF IInv, Section
<1>4. /\ Conversations /\ replies \in [Client -> Seq(Nat)]
      /\ \A d \in Client : Conversation(d) /\ Len(lines[d]) \in Nat
  BY DEF IInv, Conversations
<1>5. \A d \in Client : pc'[d] = IF d = c THEN "read" ELSE pc[d]
  BY <1>2, Controls DEF IInv, Mutex
<1>6. /\ \A d, n : Owed(d, n)' = Owed(d, n)
      /\ \A d : Lines(d)' = Lines(d)
  BY <1>1 DEF Owed, Lines
<1>7. /\ replies' \in [Client -> Seq(Nat)]
      /\ \A d \in Client \ {c} : replies'[d] = replies[d]
      /\ replies'[c] = Append(replies[c], Len(lines[c]))
  BY <1>1, <1>4
<1>8. ASSUME NEW d \in Client, d # c
      PROVE  Conversation(d)'
  <2>1. lines'[d] = lines[d] /\ pc'[d] = pc[d] /\ replies'[d] = replies[d] /\ away' = away
    BY <1>1, <1>5, <1>7, <1>8
  <2> QED
    BY <1>4, <1>6, <2>1 DEF Conversation
<1>9. Conversation(c)'
  <2> DEFINE k == Len(replies[c]) + 1
             new == replies'[c]
  <2>1. /\ Len(replies[c]) \in Nat /\ DOMAIN replies[c] = 1..Len(replies[c])
        /\ Len(new) = k /\ DOMAIN new = 1..k /\ new[k] = Len(lines[c])
        /\ \A n \in DOMAIN replies[c] : new[n] = replies[c][n]
    BY <1>4, <1>7
  <2>2. /\ Len(lines[c]) \in Lines(c) /\ k = Cardinality(Lines(c))
        /\ \A n \in DOMAIN replies[c] :
             replies[c][n] \in Lines(c) /\ Cardinality(Owed(c, replies[c][n])) = n
    BY <1>2, <1>4 DEF Conversation, Busy
  <2>3. \A n \in DOMAIN new : n \in DOMAIN replies[c] \/ n = k
    BY <2>1
  <2> HIDE DEF k, new
  <2>4. ASSUME NEW n \in DOMAIN new
        PROVE  new[n] \in Lines(c) /\ Cardinality(Owed(c, new[n])) = n
    <3>1. CASE n \in DOMAIN replies[c]
      BY <2>1, <2>2, <3>1
    <3>2. CASE n = k
      BY <2>1, <2>2, <3>2 DEF Lines
    <3> QED
      BY <2>3, <3>1, <3>2
  <2>5. pc'[c] \notin Busy
    BY <1>5 DEF Busy
  <2>6. Len(new) + 0 = Cardinality(Lines(c))
    BY <2>1, <2>2 DEF k
  <2>7. \A n : Owed(c, replies[c][n])' = Owed(c, new[n])
    BY <1>1 DEF Owed, new
  <2> QED
    BY <1>6, <2>4, <2>5, <2>6, <2>7 DEF Conversation, new
<1>10. Conversations'
  BY <1>1, <1>4, <1>7, <1>8, <1>9 DEF IInv, Conversations
<1> QED
  BY <1>1, <1>3, <1>10 DEF IInv

---------------------------------------------------------------------------
LEMMA EveryStep == IInv /\ [Next]_vars => IInv'
<1> SUFFICES ASSUME IInv, [Next]_vars PROVE IInv'
  OBVIOUS
<1>1. CASE Next
  <2>1. ASSUME NEW c \in Client, NEW ok \in BOOLEAN, Reply(c, ok)
        PROVE  IInv'
    BY <2>1, ReplyStep, ConnectionSteps
  <2>2. ASSUME NEW ok \in BOOLEAN, Accept(ok)
        PROVE  IInv'
    BY <2>2, AcceptStep, RunSteps
  <2> QED
    BY <1>1, <2>1, <2>2, RunSteps, SchedulerSteps, SourceStep, ConnectionSteps, Onlookers,
       ConnectStep, ExitStep, ReadStep DEF Next
<1>2. CASE UNCHANGED vars
  <2>1. /\ UNCHANGED <<pc, queue, backlog, sent, away, lines, replies>>
        /\ UNCHANGED <<signalled, requested, missed>>
    BY <1>2 DEF vars, tasks, clients
  <2>2. /\ sent \in [Client -> Nat] /\ away \subseteq Client
        /\ \A c \in Client : sent[c] <= sent[c]
    BY DEF IInv, Conversations
  <2> QED
    BY <2>1, <2>2, NobodyMoves
<1> QED
  BY <1>1, <1>2

LEMMA Invariance == Spec => []IInv
BY Start, EveryStep, PTL DEF Spec

(* TypeOK is an invariant: whichever clients come and go, the mutex is held *)
(* and waited for by exactly the tasks that are inside or in front of a     *)
(* critical section, each once, and no task has read a line that was not    *)
(* sent.                                                                    *)
THEOREM TypeCorrect == Spec => []TypeOK
<1>1. IInv => TypeOK
  <2> SUFFICES ASSUME IInv PROVE TypeOK
    OBVIOUS
  <2>1. /\ \A t \in Task : pc[t] \in Section <=> \E i \in DOMAIN queue : queue[i] = t
        /\ \A c \in Client : pc[c] = "backlog" <=> \E i \in DOMAIN backlog : backlog[i] = c
    BY DEF IInv, Mutex, Backlog, Members
  <2> QED
    BY <2>1 DEF IInv, Mutex, Conversations, Once, TypeOK
<1> QED
  BY <1>1, Invariance, PTL

(* handle_connection answers in the order of the lines, one answer to each  *)
(* but the blank ones and one that ends it, for any number of clients and lines: whatever other  *)
(* connections, the scheduler and the stop of the server do in between.     *)
THEOREM InOrder == Spec => []AnswersInOrder
<1>1. IInv => AnswersInOrder
  BY DEF IInv, Conversations, Conversation, Lines, AnswersInOrder
<1> QED
  BY <1>1, Invariance, PTL

---------------------------------------------------------------------------
(* How the server and its scheduler stop. *)
LEMMA NotTogetherBefore == Init => Together
<1> SUFFICES ASSUME Init PROVE Together
  OBVIOUS
<1>1. pc[Sched] = "select" /\ signalled = {}
  BY Controls DEF Init
<1> QED
  BY <1>1 DEF Together

(* A step of another task, or one of the scheduler's that hears nothing.    *)
LEMMA TogetherKept ==
  ASSUME IInv, Together, NEW t \in Task, NEW to,
         pc' = [pc EXCEPT ![t] = to],
         t # Run, t = Sched => to # "stopped",
         signalled' \subseteq signalled, Run \in signalled => Run \in signalled', missed' = missed
  PROVE  Together'
<1>1. pc'[Run] = pc[Run] /\ (pc'[Sched] = "stopped" => pc[Sched] = "stopped")
  BY Controls DEF IInv, Mutex
<1> QED
  BY <1>1 DEF Together

LEMMA TogetherStep == IInv /\ Together /\ [Next]_vars => Together'
<1> SUFFICES ASSUME IInv, Together, [Next]_vars PROVE Together'
  OBVIOUS
<1> USE DEF Go, Leaves
<1>1. DOMAIN pc = Task /\ Run \in Task /\ Sched \in Task /\ Run # Sched
  BY Controls DEF IInv, Mutex
<1>2. signalled \subseteq {Run, Sched}
  BY DEF IInv
<1>3. ASSUME NEW c \in Client,
             \/ Connect(c) \/ Send(c) \/ Leave(c) \/ EndOfFile(c) \/ Absorb(c) \/ Handle(c)
             \/ \E line \in Line : Read(c, line)
             \/ \E found \in BOOLEAN : Lookup(c, found)
             \/ \E ok \in BOOLEAN : Reply(c, ok)
      PROVE  Together'
  <2>1. /\ UNCHANGED <<signalled, missed>>
        /\ pc' = pc \/ \E to : pc' = [pc EXCEPT ![c] = to]
    BY <1>3 DEF Connect, Send, Leave, EndOfFile, Absorb, Handle, Read, Lookup, Reply, tasks
  <2>2. c \in Task /\ c # Run /\ c # Sched
    BY Controls
  <2>3. CASE pc' = pc
    BY <2>1, <2>3 DEF Together
  <2>4. CASE \E to : pc' = [pc EXCEPT ![c] = to]
    BY <2>1, <2>2, <2>4, TogetherKept
  <2> QED
    BY <2>1, <2>3, <2>4
<1>4. CASE Wait
  <2>1. pc'[Run] = "select" /\ pc'[Sched] = pc[Sched] /\ pc[Run] = "loop"
        /\ UNCHANGED <<signalled, missed>>
    BY <1>1, <1>4 DEF Wait
  <2> QED
    BY <2>1 DEF Together
<1>5. CASE Hears(Run, "stop") \/ Return \/ Exit
  <2>1. pc'[Run] \in {"stop", "drop", "exited"}
    BY <1>1, <1>5 DEF Hears, Return, Exit
  <2> QED
    BY <2>1 DEF Together
<1>6. CASE Hears(Sched, "stopped")
  <2>1. /\ Sched \in signalled /\ signalled' = signalled \ {Sched} /\ missed' = missed
        /\ pc'[Run] = pc[Run]
    BY <1>1, <1>6 DEF Hears
  <2> QED
    BY <1>1, <2>1 DEF Together
<1>7. ASSUME NEW ok \in BOOLEAN, Accept(ok)
      PROVE  Together'
  <2>1. /\ pc[Run] = "select" /\ signalled' = signalled \ {Run}
        /\ missed' = (missed \/ Run \in signalled)
    BY <1>7 DEF Accept
  <2>2. pc'[Sched] = pc[Sched]
    <3>1. backlog # <<>> /\ backlog \in Seq(Client)
      BY <1>7 DEF Accept, IInv, Backlog
    <3>2. Head(backlog) \in Client
      BY <3>1
    <3>3. Head(backlog) # Sched
      BY <3>2, Controls
    <3> QED
      BY <1>1, <1>7, <3>3 DEF Accept
  <2> QED
    BY <1>1, <2>1, <2>2 DEF Together
<1>8. ASSUME NEW t \in Task, SourceEnds(t)
      PROVE  Together'
  <2>1. pc[t] = "run" /\ pc' = [pc EXCEPT ![t] = "absorb"] /\ UNCHANGED <<signalled, missed>>
    BY <1>8 DEF SourceEnds
  <2>2. t # Run
    BY <2>1, Controls DEF IInv, Mutex
  <2> QED
    BY <2>1, <2>2, TogetherKept
<1>9. ASSUME NEW c \in Client, Notify(c)
      PROVE  Together'
  <2>1. /\ signalled' = signalled \cup Waiting /\ missed' = (pc[Run] = "loop")
        /\ pc'[Run] = pc[Run]
    BY <1>1, <1>9, Controls DEF Notify
  <2>2. pc[Run] \in {"loop", "select", "stop", "drop", "exited"}
    BY Controls DEF IInv, Mutex
  <2> QED
    BY <2>1, <2>2 DEF Together, Waiting
<1>10. CASE Tick
  <2>1. /\ pc' = [pc EXCEPT ![Sched] = "specs"] /\ signalled' = signalled \ {Sched}
        /\ missed' = missed
    BY <1>10 DEF Tick
  <2> QED
    BY <1>1, <2>1, TogetherKept
<1>11. CASE SchedStep
  <2>1. PICK from \in {"specs", "absorb", "render", "check"} :
          \E to \in Following(from) : SchedSection(from, to)
    BY <1>11 DEF SchedStep
  <2> PICK to \in Following(from) : SchedSection(from, to)
    BY <2>1
  <2>2. to \in {"run", "render", "check", "select"}
    BY DEF Following
  <2>3. pc' = [pc EXCEPT ![Sched] = to] /\ UNCHANGED <<signalled, missed>>
    BY DEF SchedSection
  <2> QED
    BY <1>1, <2>2, <2>3, TogetherKept
<1>12. CASE UNCHANGED vars
  BY <1>12 DEF vars, tasks, Together
<1> QED
  BY <1>3, <1>4, <1>5, <1>6, <1>7, <1>8, <1>9, <1>10, <1>11, <1>12 DEF Next

(* notify_waiters ends the scheduler and the server together, whatever      *)
(* iteration and connections they are busy with, except where run was       *)
(* between two selects, or its select took a connection: only a missed      *)
(* notification leaves a server without a scheduler.                        *)
THEOREM NeverHalf == Spec => []StoppedTogether
<1>1. Together => StoppedTogether
  BY DEF Together, StoppedTogether
<1>2. Spec => [](IInv /\ Together)
  BY Start, EveryStep, NotTogetherBefore, TogetherStep, PTL DEF Spec
<1> QED
  BY <1>1, <1>2, PTL
============================================================================
