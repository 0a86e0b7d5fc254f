-------------------------- MODULE Transport_proofs --------------------------
(***************************************************************************)
(* Proofs about Transport, for every number of pages, every set of         *)
(* contents and every number of faults: what is read, shown or verified is *)
(* what the keyboard has.                                                  *)
(*                                                                         *)
(* The argument for a restore: a leftover reply can only be consumed by    *)
(* the reads that come before the first write (there are as many as the    *)
(* pages), and a page that is written accepts nothing but the reply to a   *)
(* write.  So when the first page's reply has been accepted, nothing is    *)
(* left over, and what is read back answers this command's own requests.   *)
(***************************************************************************)
EXTENDS Transport, SequenceTheorems, TLAPS

(* Replies can only be this command's own. *)
Synced ==
  /\ session # None
  /\ \/ ~late
     \/ session.phase = "verify"
     \/ session.op.kind = "restore" /\ session.phase = "write" /\ session.i > 1

(* A reply to the request that the session is waiting for. *)
Own(reply) ==
  LET r == Request(session)
  IN /\ reply.cmd = r.cmd
     /\ r.cmd = "read" => reply.data = stored[r.area][r.at]
     /\ r.cmd = "write" /\ r.area = "panel" /\ reply.good => stored[r.area][r.at] = r.data

InStep ==
  Synced =>
    IF session.waiting
    THEN \/ requests = <<>> /\ replies = <<>>
         \/ requests = <<Request(session)>> /\ replies = <<>>
         \/ requests = <<>> /\ Len(replies) = 1 /\ Own(replies[1])
    ELSE requests = <<>> /\ replies = <<>>

(* While a restore reads, what is left over comes first and is used up.  A  *)
(* position counts through the replies and then the requests.               *)
OldFirst ==
  session # None /\ session.op.kind = "restore" /\ session.phase = "read" =>
    /\ \A j \in 1..Len(replies) :
         j + session.i > MaxBacklog + 1 => replies[j].cmd = "read"
    /\ \A j \in 1..Len(requests) :
         Len(replies) + j + session.i > MaxBacklog + 1 => requests[j].cmd = "read"

(* When the first page is written, all that is left over are reads. *)
FirstPage ==
  session # None /\ session.op.kind = "restore" /\ session.phase = "write" /\ session.i = 1 =>
    /\ \A j \in 1..Len(requests) :
         \/ session.waiting /\ j = Len(requests)
         \/ requests[j].cmd = "read"
    /\ \A j \in 1..Len(replies) :
         \/ session.waiting /\ requests = <<>> /\ j = Len(replies)
         \/ replies[j].cmd = "read"

(* What was read is stored, and what the panel acknowledged is shown. *)
SoFar ==
  Synced =>
    /\ session.phase # "write" =>
         \A k \in 1..(session.i - 1) : session.got[k] = stored[session.op.area][k]
    /\ session.phase = "write" /\ session.op.area = "panel" =>
         \A k \in 1..(session.i - 1) : stored["panel"][k] = session.op.data[k]

(* What a result says is true, and no request is left that could change it. *)
AtTheEnd ==
  result # None =>
    /\ session = None
    /\ (result.outcome = "verified" \/ (~late /\ result.outcome # "failed")) => requests = <<>>
    /\ VerifiedIsStored /\ AnswerIsTrue

IInv == TypeOK /\ InStep /\ OldFirst /\ FirstPage /\ SoFar /\ AtTheEnd

---------------------------------------------------------------------------
(* What commands and sequences are. *)

LEMMA CommandFacts ==
  ASSUME areas \in Interface, NEW op \in Command
  PROVE  /\ op = [kind |-> op.kind, area |-> op.area, data |-> op.data]
         /\ op.area \in areas /\ op.area \in Area
         /\ op.kind \in {"read", "restore", "write"}
         /\ op.area \in Layer <=> op.kind # "write"
         /\ op.kind # "read" => op.data \in Contents(op.area)
BY DEF Command, Ops, ReadKeymap, RestoreKeymap, SyncClock, UploadContainer, Op, Interface, Area,
       Layer

LEMMA CountFacts == \A a \in Area : Count(a) \in Nat /\ Count(a) >= 1 /\ (a \in Layer => Count(a) = Parts)
BY TransportAssumption DEF TransportAssumption, Count, Area, Layer

LEMMA AppendFacts ==
  ASSUME NEW S, NEW s \in Seq(S), NEW e \in S
  PROVE  /\ Append(s, e) \in Seq(S)
         /\ Len(Append(s, e)) = Len(s) + 1
         /\ \A j \in 1..Len(s) : Append(s, e)[j] = s[j]
         /\ Append(s, e)[Len(s) + 1] = e
BY AppendProperties

LEMMA TailFacts ==
  ASSUME NEW S, NEW s \in Seq(S), s # <<>>
  PROVE  /\ Head(s) \in S /\ Head(s) = s[1]
         /\ Tail(s) \in Seq(S)
         /\ Len(s) \in Nat /\ Len(s) >= 1
         /\ Len(Tail(s)) = Len(s) - 1
         /\ \A j \in 1..(Len(s) - 1) : Tail(s)[j] = s[j + 1]
         /\ Len(s) = 1 => Tail(s) = <<>>
<1>1. Head(s) \in S /\ Tail(s) \in Seq(S) /\ Len(Tail(s)) = Len(s) - 1
      /\ \A j \in 1..Len(Tail(s)) : Tail(s)[j] = s[j + 1]
  BY HeadTailProperties
<1>2. Len(s) \in Nat \ {0}
  BY EmptySeq
<1>3. Tail(s) # <<>> => Len(Tail(s)) \in Nat \ {0}
  BY <1>1, EmptySeq
<1>4. Head(s) = s[1]
  BY <1>2
<1> QED
  BY <1>1, <1>2, <1>3, <1>4

LEMMA SuffixFacts ==
  ASSUME NEW S, NEW s \in Seq(S), NEW t \in Suffix(s)
  PROVE  t \in Seq(S)
<1>1. PICK i \in 1..(Len(s) + 1) : t = SubSeq(s, i, Len(s))
  BY DEF Suffix
<1>2. Len(s) \in Nat /\ \A j \in i..Len(s) : s[j] \in S
  BY <1>1, ElementOfSeq, LenProperties
<1> QED
  BY <1>1, <1>2, SubSeqProperties

---------------------------------------------------------------------------
(* Types. *)

LEMMA SessionFacts ==
  ASSUME TypeOK, session # None
  PROVE  /\ session \in Session
         /\ session.op \in Command
         /\ session.op.area \in areas /\ session.op.area \in Area
         /\ session.op.kind \in {"read", "restore", "write"}
         /\ session.op.area \in Layer <=> session.op.kind # "write"
         /\ session.op.kind # "read" => session.op.data \in Contents(session.op.area)
         /\ Count(session.op.area) \in Nat /\ Count(session.op.area) >= 1
BY CommandFacts, CountFacts DEF TypeOK, Session

LEMMA RequestTyped ==
  ASSUME TypeOK, session # None, ~Sent(session)
  PROVE  Request(session) \in Message
<1>1. session \in Session
  BY DEF TypeOK
<1>2. session.i \in 1..Count(session.op.area)
  BY <1>1, SessionFacts DEF Session, Sent
<1>3. session.phase = "write" => session.op.data[session.i] \in Data
  <2>1. session.phase = "write" => session.op.kind # "read"
    BY <1>1 DEF Session
  <2> QED
    BY <1>2, <2>1, SessionFacts DEF Contents
<1> QED
  BY <1>1, <1>2, <1>3, SessionFacts DEF Request, Message, Session

LEMMA TypeInit == ASSUME Init PROVE TypeOK
<1>1. \A a \in areas : stored[a] \in Contents(a)
  BY DEF Init
<1>2. <<>> \in Seq(Message) /\ <<>> \in Seq(Reply)
  BY EmptySeq
<1> QED
  BY <1>1, <1>2 DEF Init, TypeOK

LEMMA EndTyped ==
  ASSUME TypeOK, session # None, NEW outcome \in {"failed", "read", "unchanged", "verified", "written"},
         End(outcome)
  PROVE  session' \in Session' \cup {None} /\ result' \in Result' \cup {None}
<1>1. session.op \in Command /\ session.got \in Seq(Data)
  BY DEF TypeOK, Session
<1>2. Command' = Command
  BY DEF End, Command
<1> QED
  BY <1>1, <1>2 DEF End, Result

LEMMA AreasFixed ==
  ASSUME Next
  PROVE  /\ areas' = areas
         /\ Message' = Message /\ Command' = Command
         /\ Session' = Session /\ Result' = Result
<1>1. areas' = areas
  BY DEF Next, Host, Open, Send, SendFails, Receive, TimeOut, ReadDone, NothingToRestore,
         StartRestore, Written, Verify, PhaseOver, NextPhase, End, Handle, vars, device
<1> QED
  BY <1>1 DEF Message, Command, Session, Result

(* How a session moves on. *)
LEMMA SessionSent ==
  ASSUME TypeOK, session # None, ~session.waiting, ~Sent(session)
  PROVE  [session EXCEPT !.waiting = TRUE] \in Session
<1> DEFINE s == [session EXCEPT !.waiting = TRUE]
<1>1. s \in [op : Command, phase : {"read", "write", "verify"}, i : Nat,
             waiting : BOOLEAN, got : Seq(Data)]
  BY SessionFacts DEF Session
<1>2. s.op = session.op /\ s.phase = session.phase /\ s.i = session.i /\ s.got = session.got
  BY SessionFacts DEF Session
<1>3. s.i <= Count(s.op.area)
  BY <1>2, SessionFacts DEF Session, Sent
<1> HIDE DEF s
<1> QED
  BY <1>1, <1>2, <1>3, SessionFacts DEF Session

LEMMA SessionReceived ==
  ASSUME TypeOK, session # None, session.waiting, NEW d \in Data
  PROVE  [session EXCEPT !.waiting = FALSE, !.i = @ + 1, !.got = Append(@, d)] \in Session
<1>1. session.got \in Seq(Data) /\ Len(session.got) = session.i - 1
  BY SessionFacts DEF Session
<1> DEFINE s == [session EXCEPT !.waiting = FALSE, !.i = @ + 1, !.got = Append(@, d)]
<1>2. session.i \in 1..Count(session.op.area) /\ Count(session.op.area) \in Nat
  BY SessionFacts DEF Session
<1>3. Append(session.got, d) \in Seq(Data) /\ Len(Append(session.got, d)) = session.i
  BY <1>1, <1>2, AppendFacts
<1>4. s \in [op : Command, phase : {"read", "write", "verify"}, i : Nat,
             waiting : BOOLEAN, got : Seq(Data)]
  <2>1. session \in [op : Command, phase : {"read", "write", "verify"}, i : Nat,
                     waiting : BOOLEAN, got : Seq(Data)]
    BY SessionFacts DEF Session
  <2>2. session.i + 1 \in Nat
    BY <1>2
  <2>3. \A x, n : x \in Seq(Data) /\ n \in Nat =>
          [session EXCEPT !.waiting = FALSE, !.i = n, !.got = x] \in
          [op : Command, phase : {"read", "write", "verify"}, i : Nat,
           waiting : BOOLEAN, got : Seq(Data)]
    BY <2>1
  <2> QED
    BY <1>3, <2>2, <2>3
<1>5. /\ s.op = session.op /\ s.phase = session.phase /\ s.i = session.i + 1
      /\ s.got = Append(session.got, d) /\ s.waiting = FALSE
  BY SessionFacts DEF Session
<1>6. s.i \in 1..(Count(s.op.area) + 1) /\ Len(s.got) = s.i - 1
  BY <1>2, <1>3, <1>5
<1> HIDE DEF s
<1> QED
  BY <1>4, <1>5, <1>6, SessionFacts DEF Session

LEMMA SessionNextPhase ==
  ASSUME TypeOK, session # None, session.op.kind = "restore", ~session.waiting,
         NEW phase \in {"write", "verify"}
  PROVE  [session EXCEPT !.phase = phase, !.i = 1, !.got = <<>>] \in Session
<1>1. <<>> \in Seq(Data) /\ Len(<<>>) = 0
  BY EmptySeq
<1> DEFINE s == [session EXCEPT !.phase = phase, !.i = 1, !.got = <<>>]
<1>2. 1 \in 1..(Count(session.op.area) + 1)
  BY SessionFacts
<1>3. s \in [op : Command, phase : {"read", "write", "verify"}, i : Nat,
             waiting : BOOLEAN, got : Seq(Data)]
  BY <1>1, SessionFacts DEF Session
<1>4. /\ s.op = session.op /\ s.phase = phase /\ s.i = 1
      /\ s.got = <<>> /\ s.waiting = session.waiting
  BY SessionFacts DEF Session
<1>5. s \in Session
  <2> HIDE DEF s
  <2> QED
    BY <1>1, <1>2, <1>3, <1>4, SessionFacts DEF Session
<1> QED
  BY <1>5

LEMMA OpenTyped ==
  ASSUME TypeOK, NEW area \in areas, NEW op \in Ops(area)
  PROVE  [op |-> op, phase |-> FirstPhase(op), i |-> 1, waiting |-> FALSE, got |-> <<>>] \in Session
<1>1. op \in Command /\ areas \in Interface
  BY DEF Command, TypeOK
<1>2. <<>> \in Seq(Data) /\ Len(<<>>) = 0
  BY EmptySeq
<1>3. op.kind \in {"read", "restore", "write"} /\ op.area \in Area
  BY <1>1, CommandFacts
<1>4. 1 \in 1..(Count(op.area) + 1)
  BY <1>3, CountFacts
<1> QED
  BY <1>1, <1>2, <1>3, <1>4 DEF Session, FirstPhase

(* Sent(session) when nothing is awaited. *)
LEMMA SentIdle ==
  ASSUME TypeOK, session # None, Sent(session)
  PROVE  ~session.waiting /\ session.i = Count(session.op.area) + 1
BY SessionFacts DEF Session, Sent

(* The keyboard's memory and its reply. *)
LEMMA HandleTyped ==
  ASSUME TypeOK, NEW kept \in BOOLEAN, NEW good \in BOOLEAN, NEW lost \in BOOLEAN,
         Handle(kept, good, lost)
  PROVE  /\ DOMAIN stored' = areas
         /\ \A a \in areas : stored'[a] \in Contents(a)
         /\ requests' \in Seq(Message)
         /\ replies' \in Seq(Reply)
<1> DEFINE r == Head(requests)
           reply == [cmd |-> r.cmd, area |-> r.area, at |-> r.at, good |-> good,
                     data |-> IF r.cmd = "read" THEN stored[r.area][r.at] ELSE r.data]
<1>1. r \in Message /\ Tail(requests) \in Seq(Message)
  BY TailFacts DEF Handle, TypeOK
<1>2. /\ r.cmd \in {"read", "write"} /\ r.area \in areas /\ r.at \in Nat
      /\ r.at \in 1..Count(r.area) /\ (r.cmd = "write" => r.data \in Data)
  BY <1>1 DEF Message
<1>3. stored[r.area] \in Contents(r.area)
  BY <1>2 DEF TypeOK
<1>4. stored[r.area][r.at] \in Data
  BY <1>2, <1>3 DEF Contents
<1>5. r.area \in Area
  BY <1>2 DEF TypeOK, Interface, Area, Layer
<1>6. reply \in Reply
  BY <1>2, <1>4, <1>5 DEF Reply
<1>7. replies' \in Seq(Reply)
  <2>1. replies' = IF lost THEN replies ELSE Append(replies, reply)
    BY DEF Handle
  <2> HIDE DEF reply
  <2> QED
    BY <1>6, <2>1, AppendFacts DEF TypeOK
<1>8. stored' = IF r.cmd = "write" /\ kept THEN [stored EXCEPT ![r.area][r.at] = r.data] ELSE stored
  BY DEF Handle
<1>9. [stored[r.area] EXCEPT ![r.at] = r.data] \in Contents(r.area) \/ r.cmd # "write"
  BY <1>2, <1>3 DEF Contents
<1>10. DOMAIN stored' = areas
  BY <1>8 DEF TypeOK
<1>11. \A a \in areas : stored'[a] \in Contents(a)
  <2> HIDE DEF r
  <2> QED
    BY <1>2, <1>8, <1>9 DEF TypeOK
<1> QED
  BY <1>1, <1>7, <1>10, <1>11 DEF Handle

LEMMA TypeNext == ASSUME TypeOK, Next PROVE TypeOK'
<1> USE AreasFixed
<1>1. CASE \E area \in areas : \E op \in Ops(area), kept \in Suffix(replies) : Open(op, kept)
  <2> PICK area \in areas : \E op \in Ops(area), kept \in Suffix(replies) : Open(op, kept)
    BY <1>1
  <2>1. PICK op \in Ops(area), kept \in Suffix(replies) : Open(op, kept)
    OBVIOUS
  <2>2. replies' \in Seq(Reply)
    BY <2>1, SuffixFacts DEF Open, TypeOK
  <2>3. session' \in Session
    BY <2>1, OpenTyped DEF Open
  <2> QED
    BY <2>1, <2>2, <2>3 DEF Open, TypeOK
<1>2. CASE Send
  <2>1. requests' \in Seq(Message)
    BY <1>2, RequestTyped, AppendFacts DEF Send, TypeOK
  <2>2. session' \in Session
    BY <1>2, SessionSent DEF Send
  <2> QED
    BY <1>2, <2>1, <2>2 DEF Send, TypeOK
<1>3. CASE Receive
  <2>1. Tail(replies) \in Seq(Reply) /\ Head(replies) \in Reply
    BY <1>3, TailFacts DEF Receive, TypeOK
  <2>2. Head(replies).data \in Data
    BY <2>1 DEF Reply
  <2>3. session' \in Session \cup {None} /\ result' \in Result \cup {None}
    <3>1. CASE End("failed")
      BY <1>3, <3>1, EndTyped DEF Receive
    <3>2. CASE /\ session' = [session EXCEPT !.waiting = FALSE, !.i = @ + 1,
                                             !.got = Append(@, Head(replies).data)]
               /\ UNCHANGED <<areas, result, late>>
      BY <1>3, <2>2, <3>2, SessionReceived DEF Receive, TypeOK
    <3> QED
      BY <1>3, <3>1, <3>2 DEF Receive
  <2>4. late' \in BOOLEAN
    BY <1>3 DEF Receive, End, TypeOK
  <2> QED
    BY <1>3, <2>1, <2>3, <2>4 DEF Receive, TypeOK
<1>4. CASE TimeOut
  <2>1. session' \in Session \cup {None} /\ result' \in Result \cup {None}
    BY <1>4, EndTyped DEF TimeOut
  <2> QED
    BY <1>4, <2>1 DEF TimeOut, device, End, TypeOK
<1>5. CASE ReadDone
  <2>1. session' \in Session \cup {None} /\ result' \in Result \cup {None}
    BY <1>5, EndTyped DEF ReadDone, PhaseOver
  <2> QED
    BY <1>5, <2>1 DEF ReadDone, PhaseOver, device, End, TypeOK
<1>6. CASE NothingToRestore
  <2>1. session' \in Session \cup {None} /\ result' \in Result \cup {None}
    BY <1>6, EndTyped DEF NothingToRestore, PhaseOver
  <2> QED
    BY <1>6, <2>1 DEF NothingToRestore, PhaseOver, device, End, TypeOK
<1>7. CASE StartRestore
  <2>1. session' \in Session
    BY <1>7, SentIdle, SessionNextPhase DEF StartRestore, PhaseOver, NextPhase
  <2> QED
    BY <1>7, <2>1 DEF StartRestore, PhaseOver, device, NextPhase, TypeOK
<1>8. CASE Written
  <2>1. session # None /\ Sent(session)
    BY <1>8 DEF Written, PhaseOver
  <2>2. session' \in Session \cup {None} /\ result' \in Result \cup {None}
    <3>1. CASE session.op.kind = "restore"
      BY <1>8, <2>1, <3>1, SentIdle, SessionNextPhase DEF Written, NextPhase, TypeOK
    <3>2. CASE session.op.kind # "restore"
      BY <1>8, <2>1, <3>2, EndTyped DEF Written
    <3> QED
      BY <3>1, <3>2
  <2> QED
    BY <1>8, <2>2 DEF Written, PhaseOver, device, NextPhase, End, TypeOK
<1>9. CASE Verify
  <2>1. session' \in Session \cup {None} /\ result' \in Result \cup {None}
    BY <1>9, EndTyped DEF Verify, PhaseOver
  <2> QED
    BY <1>9, <2>1 DEF Verify, PhaseOver, device, End, TypeOK
<1>10. ASSUME NEW got \in BOOLEAN, SendFails(got) PROVE TypeOK'
  <2>1. requests' \in Seq(Message)
    BY <1>10, RequestTyped, AppendFacts DEF SendFails, TypeOK
  <2>2. session' \in Session \cup {None} /\ result' \in Result \cup {None}
    BY <1>10, EndTyped DEF SendFails
  <2> QED
    BY <1>10, <2>1, <2>2 DEF SendFails, End, TypeOK
<1>11. ASSUME NEW kept \in BOOLEAN, NEW good \in BOOLEAN, NEW lost \in BOOLEAN,
              Handle(kept, good, lost)
       PROVE  TypeOK'
  <2>1. faults' \in Nat /\ UNCHANGED <<areas, session, result, late>>
    BY <1>11 DEF Handle, TypeOK
  <2> QED
    BY <1>11, <2>1, HandleTyped DEF TypeOK
<1> QED
  BY <1>1, <1>2, <1>3, <1>4, <1>5, <1>6, <1>7, <1>8, <1>9, <1>10, <1>11 DEF Next, Host

(* The types hold, and what the pages and the faults are does not matter. *)
THEOREM TypeCorrect == Spec => []TypeOK
<1>1. TypeOK /\ UNCHANGED vars => TypeOK'
  BY DEF TypeOK, vars, device, Message, Session, Result, Command
<1> QED
  BY TypeInit, TypeNext, <1>1, PTL DEF Spec

---------------------------------------------------------------------------
(* What holds when the last reply of a phase has been read. *)

LEMMA Quiet ==
  ASSUME TypeOK, InStep, Synced, Sent(session)
  PROVE  requests = <<>> /\ replies = <<>>
BY SentIdle DEF InStep, Synced

LEMMA SameFunction ==
  ASSUME NEW D, NEW f \in [D -> Data], NEW g \in [D -> Data], \A k \in D : f[k] = g[k]
  PROVE  f = g
OBVIOUS

LEMMA GotIsStored ==
  ASSUME TypeOK, SoFar, Synced, Sent(session), session.phase # "write"
  PROVE  session.got = stored[session.op.area]
<1> DEFINE n == Count(session.op.area)
<1>1. session # None /\ session.i = n + 1 /\ n \in Nat
  BY SentIdle, SessionFacts DEF Synced
<1>2. session.got \in Seq(Data) /\ Len(session.got) = n
  BY <1>1, SessionFacts DEF Session
<1>3. stored[session.op.area] \in [1..n -> Data]
  BY <1>1, SessionFacts DEF TypeOK, Contents
<1>4. session.got \in [1..n -> Data]
  BY <1>2, LenProperties
<1>5. \A k \in 1..n : session.got[k] = stored[session.op.area][k]
  BY <1>1 DEF SoFar
<1> HIDE DEF n
<1> QED
  <2> DEFINE D == 1..n
             f == session.got
             g == stored[session.op.area]
  <2>1. f \in [D -> Data] /\ g \in [D -> Data] /\ \A k \in D : f[k] = g[k]
    BY <1>3, <1>4, <1>5
  <2> HIDE DEF D, f, g
  <2>2. f = g
    BY <2>1, SameFunction
  <2> QED
    BY <2>2 DEF f, g

LEMMA ShownIsSent ==
  ASSUME TypeOK, SoFar, Synced, Sent(session), session.phase = "write", session.op.area = "panel"
  PROVE  session.op.data = stored["panel"]
<1> DEFINE n == Count("panel")
<1>1. session # None /\ session.i = n + 1 /\ n \in Nat
  BY SentIdle, SessionFacts DEF Synced
<1>2. session.op.kind # "read"
  BY <1>1, SessionFacts DEF Session
<1>3. session.op.data \in [1..n -> Data] /\ stored["panel"] \in [1..n -> Data]
  BY <1>1, <1>2, SessionFacts DEF TypeOK, Contents
<1>4. \A k \in 1..n : session.op.data[k] = stored["panel"][k]
  BY <1>1 DEF SoFar
<1> HIDE DEF n
<1> QED
  <2> DEFINE D == 1..n
             f == session.op.data
             g == stored["panel"]
  <2>1. f \in [D -> Data] /\ g \in [D -> Data] /\ \A k \in D : f[k] = g[k]
    BY <1>3, <1>4
  <2> HIDE DEF D, f, g
  <2>2. f = g
    BY <2>1, SameFunction
  <2> QED
    BY <2>2 DEF f, g

(* A command that has ended leaves nothing to prove of a session. *)
LEMMA Over ==
  ASSUME session' = None
  PROVE  (InStep /\ OldFirst /\ FirstPage /\ SoFar)'
BY DEF InStep, OldFirst, FirstPage, SoFar, Synced

LEMMA FailedEnd == ASSUME End("failed") PROVE AtTheEnd'
BY DEF End, AtTheEnd, VerifiedIsStored, AnswerIsTrue, ReadIsStored, UploadIsShown, Ended

---------------------------------------------------------------------------
(* The steps, one lemma for each that does more than end a command. *)

LEMMA OpenStep ==
  ASSUME TypeOK, NEW area \in areas, NEW op \in Ops(area), NEW kept \in Suffix(replies), Open(op, kept)
  PROVE  (InStep /\ OldFirst /\ FirstPage /\ SoFar /\ AtTheEnd)'
<1>1. /\ session' = [op |-> op, phase |-> FirstPhase(op), i |-> 1, waiting |-> FALSE, got |-> <<>>]
      /\ replies' = kept /\ requests' = requests /\ result' = None
      /\ late' = (kept # <<>> \/ requests # <<>>)
      /\ Len(requests) + Len(kept) <= MaxBacklog
  BY DEF Open
<1>2. /\ session'.op = op /\ session'.i = 1 /\ session'.waiting = FALSE
      /\ session'.phase = FirstPhase(op)
  BY <1>1
<1>3. session'.phase # "verify" /\ (op.kind = "restore" => session'.phase = "read")
  BY <1>2 DEF FirstPhase
<1>4. InStep'
  BY <1>1, <1>2, <1>3 DEF InStep, Synced
<1>5. OldFirst'
  <2>1. Len(requests) \in Nat /\ Len(kept) \in Nat
    BY SuffixFacts, LenProperties DEF TypeOK
  <2> QED
    BY <1>1, <1>2, <2>1, TransportAssumption DEF OldFirst, TransportAssumption
<1>6. FirstPage'
  BY <1>2, <1>3 DEF FirstPage
<1>7. SoFar'
  BY <1>2 DEF SoFar
<1>8. AtTheEnd'
  BY <1>1 DEF AtTheEnd
<1> QED
  BY <1>4, <1>5, <1>6, <1>7, <1>8

LEMMA SendStep ==
  ASSUME IInv, Send
  PROVE  (InStep /\ OldFirst /\ FirstPage /\ SoFar /\ AtTheEnd)'
<1>1. /\ session # None /\ ~session.waiting /\ ~Sent(session)
      /\ requests' = Append(requests, Request(session))
      /\ session' = [session EXCEPT !.waiting = TRUE]
      /\ UNCHANGED <<areas, stored, replies, result, late, faults>>
  BY DEF Send
<1>2. /\ session'.op = session.op /\ session'.phase = session.phase /\ session'.i = session.i
      /\ session'.got = session.got /\ session'.waiting = TRUE
  BY <1>1, SessionFacts DEF Session, IInv
<1>3. Request(session') = Request(session)
  BY <1>2 DEF Request
<1>4. Synced' => Synced
  BY <1>1, <1>2 DEF Synced
<1>5. InStep'
  <2> SUFFICES ASSUME Synced' PROVE requests' = <<Request(session)>> /\ replies' = <<>>
    BY <1>2, <1>3 DEF InStep
  <2>1. requests = <<>> /\ replies = <<>>
    BY <1>1, <1>4 DEF InStep, IInv
  <2> QED
    BY <1>1, <2>1
<1>6. /\ requests' \in Seq(Message) /\ Len(requests) \in Nat
      /\ Len(requests') = Len(requests) + 1
      /\ \A j \in 1..Len(requests) : requests'[j] = requests[j]
      /\ requests'[Len(requests) + 1] = Request(session)
  BY <1>1, RequestTyped, AppendFacts, LenProperties DEF IInv, TypeOK
<1>7. OldFirst'
  <2> SUFFICES ASSUME session'.op.kind = "restore", session'.phase = "read"
               PROVE  OldFirst'
    BY DEF OldFirst
  <2>1. Request(session).cmd = "read"
    BY <1>2 DEF Request
  <2> QED
    BY <1>1, <1>2, <1>6, <2>1 DEF OldFirst, IInv
<1>8. FirstPage'
  BY <1>1, <1>2, <1>6 DEF FirstPage, IInv
<1>9. SoFar'
  BY <1>1, <1>2, <1>4 DEF SoFar, IInv
<1>10. AtTheEnd'
  BY <1>1 DEF AtTheEnd, IInv
<1> QED
  BY <1>5, <1>7, <1>8, <1>9, <1>10

(* A reply that is accepted. *)
LEMMA AcceptStep ==
  ASSUME IInv, Receive, Accepts(Request(session), Head(replies))
  PROVE  (InStep /\ OldFirst /\ FirstPage /\ SoFar /\ AtTheEnd)'
<1> DEFINE a == session.op.area
<1>1. /\ session # None /\ session.waiting /\ replies # <<>>
      /\ replies' = Tail(replies)
      /\ session' = [session EXCEPT !.waiting = FALSE, !.i = @ + 1,
                                    !.got = Append(@, Head(replies).data)]
      /\ UNCHANGED <<areas, stored, requests, result, late, faults>>
  BY DEF Receive
<1>2. /\ session'.op = session.op /\ session'.phase = session.phase
      /\ session'.i = session.i + 1 /\ session'.waiting = FALSE
      /\ session'.got = Append(session.got, Head(replies).data)
  BY <1>1, SessionFacts DEF Session, IInv
<1>3. session.i \in 1..Count(a) /\ Count(a) \in Nat
  BY <1>1, SessionFacts DEF Session, IInv
<1>4. /\ Head(replies) = replies[1] /\ Len(replies) \in Nat /\ Len(replies) >= 1
      /\ Len(replies') = Len(replies) - 1
      /\ \A j \in 1..(Len(replies) - 1) : replies'[j] = replies[j + 1]
      /\ Len(replies) = 1 => replies' = <<>>
  BY <1>1, TailFacts DEF IInv, TypeOK
<1>5. Len(requests) \in Nat /\ (Len(requests) = 0 => requests = <<>>)
  BY LenProperties, EmptySeq DEF IInv, TypeOK
<1>6. Synced => requests = <<>> /\ Len(replies) = 1 /\ Own(replies[1])
  BY <1>1 DEF InStep, IInv
<1>7. CASE session.op.kind = "restore" /\ session.phase = "write" /\ session.i = 1
  <2>1. replies[1].cmd = "write"
    BY <1>4, <1>7 DEF Accepts, Request
  <2>2. requests = <<>> /\ 1 = Len(replies)
    BY <1>1, <1>4, <1>7, <2>1 DEF FirstPage, IInv
  <2>3. InStep'
    BY <1>1, <1>2, <1>4, <2>2 DEF InStep
  <2>4. a # "panel"
    BY <1>1, <1>7, SessionFacts DEF Layer, IInv
  <2> QED
    BY <1>1, <1>2, <1>7, <2>3, <2>4 DEF OldFirst, FirstPage, SoFar, AtTheEnd, IInv
<1>8. CASE ~(session.op.kind = "restore" /\ session.phase = "write" /\ session.i = 1)
  <2>1. Synced' => Synced
    BY <1>1, <1>2, <1>3, <1>8 DEF Synced
  <2>2. InStep'
    BY <1>1, <1>2, <1>4, <1>6, <2>1 DEF InStep
  <2>3. OldFirst'
    <3> SUFFICES ASSUME session.op.kind = "restore", session.phase = "read"
                 PROVE  OldFirst'
      BY <1>2 DEF OldFirst
    <3>1. ASSUME NEW j \in 1..Len(replies'), j + session'.i > MaxBacklog + 1
          PROVE  replies'[j].cmd = "read"
      <4>1. j \in 1..(Len(replies) - 1) /\ j + 1 \in 1..Len(replies)
            /\ (j + 1) + session.i > MaxBacklog + 1
        BY <1>2, <1>3, <1>4, <3>1, TransportAssumption DEF TransportAssumption
      <4> QED
        BY <1>1, <1>4, <4>1 DEF OldFirst, IInv
    <3>2. ASSUME NEW j \in 1..Len(requests), Len(replies') + j + session'.i > MaxBacklog + 1
          PROVE  requests[j].cmd = "read"
      <4>1. Len(replies) + j + session.i > MaxBacklog + 1
        BY <1>2, <1>3, <1>4, <1>5, <3>2, TransportAssumption DEF TransportAssumption
      <4> QED
        BY <1>1, <4>1 DEF OldFirst, IInv
    <3> QED
      BY <1>1, <3>1, <3>2 DEF OldFirst
  <2>4. FirstPage'
    BY <1>2, <1>3 DEF FirstPage
  <2>5. SoFar'
    <3> SUFFICES ASSUME Synced' PROVE SoFar'
      BY DEF SoFar
    <3>1. Own(replies[1]) /\ Synced
      BY <1>6, <2>1
    <3>2. ASSUME session.phase # "write", NEW k \in 1..session.i
          PROVE  session'.got[k] = stored[a][k]
      <4>1. /\ session.got \in Seq(Data) /\ Len(session.got) = session.i - 1
            /\ Head(replies).data \in Data
        <5>1. Head(replies) \in Reply
          BY <1>1, TailFacts DEF IInv, TypeOK
        <5>2. session.got \in Seq(Data) /\ Len(session.got) = session.i - 1
          BY <1>1, SessionFacts DEF Session, IInv
        <5> QED
          BY <5>1, <5>2 DEF Reply
      <4>2. CASE k = session.i
        <5>1. session'.got[k] = replies[1].data
          BY <1>2, <1>3, <1>4, <4>1, <4>2, AppendFacts
        <5>2. replies[1].data = stored[a][session.i]
          BY <3>1, <3>2 DEF Own, Request
        <5> QED
          BY <4>2, <5>1, <5>2
      <4>3. CASE k # session.i
        <5>1. k \in 1..(session.i - 1)
          BY <1>3, <4>3
        <5>2. session'.got[k] = session.got[k]
          BY <1>2, <4>1, <5>1, AppendFacts
        <5> QED
          BY <3>1, <3>2, <5>1, <5>2 DEF SoFar, IInv
      <4> QED
        BY <4>2, <4>3
    <3>3. ASSUME session.phase = "write", a = "panel", NEW k \in 1..session.i
          PROVE  stored["panel"][k] = session.op.data[k]
      <4>1. CASE k = session.i
        BY <1>4, <3>1, <3>3, <4>1 DEF Own, Request, Accepts
      <4>2. CASE k # session.i
        <5>1. k \in 1..(session.i - 1)
          BY <1>3, <4>2
        <5> QED
          BY <3>1, <3>3, <5>1 DEF SoFar, IInv
      <4> QED
        BY <4>1, <4>2
    <3>4. session'.i - 1 = session.i
      BY <1>2, <1>3
    <3>5. /\ session'.op.area = a /\ session'.phase = session.phase
          /\ session'.op.data = session.op.data /\ stored' = stored
      BY <1>1, <1>2
    <3> HIDE DEF a
    <3>6. session'.phase # "write" =>
            \A k \in 1..(session'.i - 1) : session'.got[k] = stored'[session'.op.area][k]
      BY <3>2, <3>4, <3>5, Zenon
    <3>7. session'.phase = "write" /\ session'.op.area = "panel" =>
            \A k \in 1..(session'.i - 1) : stored'["panel"][k] = session'.op.data[k]
      BY <3>3, <3>4, <3>5, Zenon
    <3> QED
      BY <3>6, <3>7, Zenon DEF SoFar
  <2>6. AtTheEnd'
    BY <1>1 DEF AtTheEnd, IInv
  <2> QED
    BY <2>2, <2>3, <2>4, <2>5, <2>6
<1> QED
  BY <1>7, <1>8

(* A phase that leads to another one. *)
LEMMA PhaseStep ==
  ASSUME IInv, StartRestore \/ (Written /\ session.op.kind = "restore")
  PROVE  (InStep /\ OldFirst /\ FirstPage /\ SoFar /\ AtTheEnd)'
<1>1. /\ session # None /\ Sent(session) /\ session.op.kind = "restore"
      /\ UNCHANGED <<areas, stored, requests, replies, result, late, faults>>
  BY DEF StartRestore, Written, PhaseOver, NextPhase, device
<1>2. ~session.waiting /\ session.i = Count(session.op.area) + 1
  BY <1>1, SentIdle DEF IInv
<1>3. Count(session.op.area) = Parts
  BY <1>1, SessionFacts, CountFacts DEF IInv
<1>4. PICK phase \in {"write", "verify"} :
        /\ session' = [session EXCEPT !.phase = phase, !.i = 1, !.got = <<>>]
        /\ phase = "verify" => session.phase = "write"
        /\ phase = "write" => session.phase = "read"
  <2>1. CASE StartRestore
    BY <2>1 DEF StartRestore, PhaseOver, NextPhase
  <2>2. CASE Written /\ session.op.kind = "restore"
    BY <2>2 DEF Written, PhaseOver, NextPhase
  <2> QED
    BY <2>1, <2>2
<1>5. /\ session'.op = session.op /\ session'.phase = phase /\ session'.i = 1
      /\ session'.waiting = FALSE
  BY <1>1, <1>2, <1>4, SessionFacts DEF Session, IInv
<1>6. Synced' => Synced
  BY <1>1, <1>2, <1>3, <1>4, <1>5, TransportAssumption DEF Synced, TransportAssumption
<1>7. InStep'
  BY <1>1, <1>5, <1>6, Quiet DEF InStep, IInv
<1>8. OldFirst'
  BY <1>5 DEF OldFirst
<1>9. FirstPage'
  <2> SUFFICES ASSUME phase = "write" PROVE FirstPage'
    BY <1>5 DEF FirstPage
  <2>1. Len(requests) \in Nat /\ Len(replies) \in Nat
    BY LenProperties DEF IInv, TypeOK
  <2>2. \A j \in 1..Len(requests) : requests[j].cmd = "read"
    BY <1>1, <1>2, <1>3, <1>4, <2>1, FewLeftOver, TransportAssumption
       DEF OldFirst, IInv, FewLeftOver, TransportAssumption
  <2>3. \A j \in 1..Len(replies) : replies[j].cmd = "read"
    BY <1>1, <1>2, <1>3, <1>4, <2>1, FewLeftOver, TransportAssumption
       DEF OldFirst, IInv, FewLeftOver, TransportAssumption
  <2> QED
    BY <1>1, <2>2, <2>3 DEF FirstPage
<1>10. SoFar'
  BY <1>5 DEF SoFar
<1>11. AtTheEnd'
  BY <1>1 DEF AtTheEnd, IInv
<1> QED
  BY <1>7, <1>8, <1>9, <1>10, <1>11

(* A command that ends well. *)
LEMMA EndStep ==
  ASSUME IInv, \/ ReadDone
               \/ NothingToRestore
               \/ Written /\ session.op.kind # "restore"
               \/ Verify
  PROVE  AtTheEnd'
<1>1. /\ session # None /\ Sent(session) /\ session' = None
      /\ UNCHANGED <<areas, stored, requests, replies, late, faults>>
  BY DEF ReadDone, NothingToRestore, Written, Verify, PhaseOver, End, device
<1>2. result'.op = session.op /\ result'.got = session.got
  BY DEF ReadDone, NothingToRestore, Written, Verify, End
<1>3. ~late => Synced
  BY <1>1 DEF Synced
<1>4. Synced => requests = <<>>
  BY <1>1, Quiet DEF IInv
<1>5. Synced /\ session.phase # "write" => session.got = stored[session.op.area]
  BY <1>1, GotIsStored DEF IInv
<1>6. CASE ReadDone
  <2>1. result'.outcome = "read" /\ session.phase = "read"
    BY <1>6 DEF ReadDone, PhaseOver, End
  <2> QED
    BY <1>1, <1>2, <1>3, <1>4, <1>5, <2>1
       DEF AtTheEnd, VerifiedIsStored, AnswerIsTrue, ReadIsStored, UploadIsShown, Ended
<1>7. CASE NothingToRestore
  <2>1. /\ result'.outcome = "unchanged" /\ session.phase = "read"
        /\ session.got = session.op.data
    BY <1>7 DEF NothingToRestore, PhaseOver, End
  <2> QED
    BY <1>1, <1>2, <1>3, <1>4, <1>5, <2>1
       DEF AtTheEnd, VerifiedIsStored, AnswerIsTrue, ReadIsStored, UploadIsShown, Ended
<1>8. CASE Written /\ session.op.kind # "restore"
  <2>1. result'.outcome = "written" /\ session.phase = "write"
    BY <1>8 DEF Written, PhaseOver, End
  <2>2. Synced /\ session.op.area = "panel" => session.op.data = stored["panel"]
    BY <1>1, <2>1, ShownIsSent DEF IInv
  <2> QED
    BY <1>1, <1>2, <1>3, <1>4, <2>1, <2>2
       DEF AtTheEnd, VerifiedIsStored, AnswerIsTrue, ReadIsStored, UploadIsShown, Ended
<1>9. CASE Verify
  <2>1. /\ result'.outcome = (IF session.got = session.op.data THEN "verified" ELSE "failed")
        /\ session.phase = "verify"
    BY <1>9 DEF Verify, PhaseOver, End
  <2>2. Synced
    BY <1>1, <2>1 DEF Synced
  <2> QED
    BY <1>1, <1>2, <1>4, <1>5, <2>1, <2>2
       DEF AtTheEnd, VerifiedIsStored, AnswerIsTrue, ReadIsStored, UploadIsShown, Ended
<1> QED
  BY <1>6, <1>7, <1>8, <1>9

(* The keyboard handles a request. *)
LEMMA HandleStep ==
  ASSUME IInv, NEW kept \in BOOLEAN, NEW good \in BOOLEAN, NEW lost \in BOOLEAN,
         Handle(kept, good, lost)
  PROVE  (InStep /\ OldFirst /\ FirstPage /\ SoFar /\ AtTheEnd)'
<1> DEFINE r == Head(requests)
           reply == [cmd |-> r.cmd, area |-> r.area, at |-> r.at, good |-> good,
                     data |-> IF r.cmd = "read" THEN stored[r.area][r.at] ELSE r.data]
<1>1. /\ requests # <<>> /\ requests' = Tail(requests)
      /\ replies' = IF lost THEN replies ELSE Append(replies, reply)
      /\ stored' = IF r.cmd = "write" /\ kept
                   THEN [stored EXCEPT ![r.area][r.at] = r.data] ELSE stored
      /\ r.area = "panel" => kept = good
      /\ UNCHANGED <<areas, session, result, late>>
  BY DEF Handle
<1>2. r \in Message /\ replies \in Seq(Reply) /\ reply.cmd = r.cmd
  BY <1>1, TailFacts DEF IInv, TypeOK
<1>3. /\ r = requests[1] /\ Len(requests) \in Nat /\ Len(requests) >= 1
      /\ Len(requests') = Len(requests) - 1
      /\ \A j \in 1..(Len(requests) - 1) : requests'[j] = requests[j + 1]
      /\ Len(requests) = 1 => requests' = <<>>
  BY <1>1, TailFacts DEF IInv, TypeOK
<1>4. /\ Len(replies) \in Nat
      /\ Len(replies') = IF lost THEN Len(replies) ELSE Len(replies) + 1
      /\ \A j \in 1..Len(replies) : replies'[j] = replies[j]
      /\ ~lost => replies'[Len(replies) + 1] = reply
  <2>1. reply \in Reply
    <3>1. r.area \in areas /\ r.at \in 1..Count(r.area) /\ r.at \in Nat
          /\ r.cmd \in {"read", "write"} /\ (r.cmd = "write" => r.data \in Data)
      BY <1>2 DEF Message
    <3>2. r.area \in Area
      BY <3>1 DEF IInv, TypeOK, Interface, Area, Layer
    <3>3. stored[r.area] \in Contents(r.area)
      BY <3>1 DEF IInv, TypeOK
    <3>4. stored[r.area][r.at] \in Data
      BY <3>1, <3>3 DEF Contents
    <3> QED
      BY <3>1, <3>2, <3>4 DEF Reply
  <2> HIDE DEF reply
  <2> QED
    BY <1>1, <1>2, <2>1, AppendFacts, LenProperties
<1>5. ASSUME Synced
      PROVE  /\ session # None /\ session.waiting /\ requests = <<Request(session)>> /\ replies = <<>>
             /\ requests' = <<>> /\ r = Request(session) /\ Len(requests) = 1
  <2>1. session.waiting /\ requests = <<Request(session)>> /\ replies = <<>>
    BY <1>1, <1>5 DEF InStep, IInv
  <2>2. Len(requests) = 1 /\ r = Request(session)
    BY <1>3, <2>1
  <2> QED
    BY <1>3, <1>5, <2>1, <2>2 DEF Synced
<1>6. Synced' = Synced /\ Request(session)' = Request(session)
  BY <1>1 DEF Synced, Request
<1>7. InStep'
  <2> SUFFICES ASSUME Synced PROVE InStep'
    BY <1>6 DEF InStep
  <2>1. CASE lost
    BY <1>1, <1>5, <2>1 DEF InStep
  <2>2. CASE ~lost
    <3>1. Len(replies') = 1 /\ replies'[1] = reply
      BY <1>4, <1>5, <2>2
    <3>2. Own(replies[1])'
      <4>1. reply.cmd = r.cmd /\ r = Request(session)
        BY <1>5
      <4>2. r.cmd = "read" => reply.data = stored'[r.area][r.at]
        BY <1>1
      <4>3. r.cmd = "write" /\ r.area = "panel" /\ reply.good => stored'[r.area][r.at] = r.data
        <5> SUFFICES ASSUME r.cmd = "write", r.area = "panel", good
                     PROVE  stored'[r.area][r.at] = r.data
          OBVIOUS
        <5>1. r.area \in areas /\ r.at \in 1..Count(r.area)
          BY <1>2 DEF Message
        <5>2. r.area \in DOMAIN stored /\ r.at \in DOMAIN stored[r.area]
          BY <5>1 DEF IInv, TypeOK, Contents
        <5> HIDE DEF r
        <5> QED
          BY <1>1, <5>2
      <4> HIDE DEF reply, r
      <4> QED
        BY <1>6, <3>1, <4>1, <4>2, <4>3 DEF Own
    <3> HIDE DEF reply
    <3> QED
      BY <1>1, <1>5, <3>1, <3>2 DEF InStep
  <2> QED
    BY <2>1, <2>2
<1>8. OldFirst'
  <2> SUFFICES ASSUME session # None, session.op.kind = "restore", session.phase = "read"
               PROVE  OldFirst'
    BY <1>1 DEF OldFirst
  <2>0. session.i \in Nat
    BY SessionFacts DEF Session, IInv
  <2>1. ASSUME NEW j \in 1..Len(replies'), j + session.i > MaxBacklog + 1
        PROVE  replies'[j].cmd = "read"
    <3>1. CASE j <= Len(replies)
      BY <1>4, <2>1, <3>1 DEF OldFirst, IInv
    <3>2. CASE j > Len(replies)
      <4>1. ~lost /\ j = Len(replies) + 1 /\ replies'[j] = reply
        BY <1>4, <3>2
      <4>2. requests[1].cmd = "read"
        BY <1>3, <2>1, <4>1 DEF OldFirst, IInv
      <4> QED
        BY <1>3, <4>1, <4>2
    <3> QED
      BY <1>4, <3>1, <3>2
  <2>2. ASSUME NEW j \in 1..Len(requests'), Len(replies') + j + session.i > MaxBacklog + 1
        PROVE  requests'[j].cmd = "read"
    <3>1. /\ j + 1 \in 1..Len(requests) /\ requests'[j] = requests[j + 1]
          /\ Len(replies) + (j + 1) + session.i > MaxBacklog + 1
      BY <1>3, <1>4, <2>0, <2>2, TransportAssumption DEF TransportAssumption
    <3> QED
      BY <3>1 DEF OldFirst, IInv
  <2> QED
    BY <1>1, <2>1, <2>2 DEF OldFirst
<1>9. FirstPage'
  <2> SUFFICES ASSUME session # None, session.op.kind = "restore", session.phase = "write", session.i = 1
               PROVE  FirstPage'
    BY <1>1 DEF FirstPage
  <2>1. \A j \in 1..Len(replies) : replies[j].cmd = "read"
    BY <1>1 DEF FirstPage, IInv
  <2>2. ASSUME NEW j \in 1..Len(requests')
        PROVE  \/ session.waiting /\ j = Len(requests')
               \/ requests'[j].cmd = "read"
    <3>1. j + 1 \in 1..Len(requests) /\ requests'[j] = requests[j + 1]
      BY <1>3
    <3>2. \/ session.waiting /\ j + 1 = Len(requests)
          \/ requests[j + 1].cmd = "read"
      BY <3>1 DEF FirstPage, IInv
    <3> QED
      BY <1>3, <3>1, <3>2
  <2>3. ASSUME NEW j \in 1..Len(replies')
        PROVE  \/ session.waiting /\ requests' = <<>> /\ j = Len(replies')
               \/ replies'[j].cmd = "read"
    <3>1. CASE j <= Len(replies)
      BY <1>4, <2>1, <3>1
    <3>2. CASE j > Len(replies)
      <4>1. ~lost /\ j = Len(replies) + 1 /\ j = Len(replies') /\ replies'[j] = reply
        BY <1>4, <3>2
      <4>2. CASE Len(requests) = 1
        <5>1. session.waiting \/ requests[1].cmd = "read"
          BY <1>3, <4>2 DEF FirstPage, IInv
        <5> QED
          BY <1>3, <4>1, <4>2, <5>1
      <4>3. CASE Len(requests) # 1
        <5>1. requests[1].cmd = "read"
          BY <1>3, <4>3 DEF FirstPage, IInv
        <5> QED
          BY <1>3, <4>1, <5>1
      <4> QED
        BY <4>2, <4>3
    <3> QED
      BY <1>4, <3>1, <3>2
  <2> QED
    BY <1>1, <2>2, <2>3 DEF FirstPage
<1>10. SoFar'
  <2> SUFFICES ASSUME Synced PROVE SoFar'
    BY <1>6 DEF SoFar
  <2>1. session # None /\ r = Request(session)
    BY <1>5
  <2>2. CASE session.phase # "write"
    <3>1. stored' = stored
      BY <1>1, <2>1, <2>2 DEF Request
    <3> QED
      BY <1>1, <2>2, <3>1 DEF SoFar, IInv
  <2>3. CASE session.phase = "write"
    <3> SUFFICES ASSUME session.op.area = "panel", NEW k \in 1..(session.i - 1)
                 PROVE  stored'["panel"][k] = session.op.data[k]
      BY <1>1, <2>3 DEF SoFar
    <3>1. r.area = "panel" /\ r.at = session.i
      BY <2>1 DEF Request
    <3>2. session.i \in Nat /\ k # session.i
      BY <2>1, SessionFacts DEF Session, IInv
    <3>3. stored["panel"][k] = session.op.data[k]
      BY <2>3 DEF SoFar, IInv
    <3>4. stored'["panel"][k] = stored["panel"][k]
      <4> HIDE DEF r
      <4> QED
        BY <1>1, <3>1, <3>2
    <3> QED
      BY <3>3, <3>4
  <2> QED
    BY <2>2, <2>3
<1>11. AtTheEnd'
  <2> SUFFICES ASSUME result # None PROVE AtTheEnd'
    BY <1>1 DEF AtTheEnd
  <2>1. session = None /\ result.outcome # "verified" /\ (late \/ result.outcome = "failed")
    BY <1>1 DEF AtTheEnd, IInv
  <2> QED
    BY <1>1, <2>1 DEF AtTheEnd, VerifiedIsStored, AnswerIsTrue, ReadIsStored, UploadIsShown, Ended
<1> QED
  BY <1>7, <1>8, <1>9, <1>10, <1>11

LEMMA InvInit == ASSUME Init PROVE IInv
<1>1. TypeOK
  BY TypeInit
<1>2. InStep /\ OldFirst /\ FirstPage /\ SoFar /\ AtTheEnd
  BY DEF Init, InStep, Synced, OldFirst, FirstPage, SoFar, AtTheEnd
<1> QED
  BY <1>1, <1>2 DEF IInv

LEMMA InvNext == ASSUME IInv, Next PROVE IInv'
<1>1. TypeOK'
  BY TypeNext DEF IInv
<1> SUFFICES (InStep /\ OldFirst /\ FirstPage /\ SoFar /\ AtTheEnd)'
  BY <1>1 DEF IInv
<1>2. CASE \E area \in areas : \E op \in Ops(area), kept \in Suffix(replies) : Open(op, kept)
  BY <1>2, OpenStep DEF IInv
<1>3. CASE Send
  BY <1>3, SendStep
<1>4. CASE Receive
  <2>1. CASE Accepts(Request(session), Head(replies))
    BY <1>4, <2>1, AcceptStep
  <2>2. CASE ~Accepts(Request(session), Head(replies))
    <3>1. End("failed")
      BY <1>4, <2>2 DEF Receive
    <3> QED
      BY <3>1, FailedEnd, Over DEF End
  <2> QED
    BY <2>1, <2>2
<1>5. CASE TimeOut
  <2>1. End("failed")
    BY <1>5 DEF TimeOut
  <2> QED
    BY <2>1, FailedEnd, Over DEF End
<1>6. CASE \E got \in BOOLEAN : SendFails(got)
  <2>1. End("failed")
    BY <1>6 DEF SendFails
  <2> QED
    BY <2>1, FailedEnd, Over DEF End
<1>7. CASE StartRestore \/ (Written /\ session.op.kind = "restore")
  BY <1>7, PhaseStep
<1>8. CASE ReadDone \/ NothingToRestore \/ (Written /\ session.op.kind # "restore") \/ Verify
  <2>1. session' = None
    BY <1>8 DEF ReadDone, NothingToRestore, Written, Verify, End
  <2> QED
    BY <1>8, <2>1, EndStep, Over
<1>9. CASE \E kept, good, lost \in BOOLEAN : Handle(kept, good, lost)
  BY <1>9, HandleStep
<1> QED
  BY <1>2, <1>3, <1>4, <1>5, <1>6, <1>7, <1>8, <1>9 DEF Next, Host

(* Queues, pages and results agree, up to what was left over: what the      *)
(* properties follow from.                                                  *)
THEOREM Inductive == Spec => []IInv
<1>1. IInv /\ UNCHANGED vars => IInv'
  <2> SUFFICES ASSUME IInv, UNCHANGED vars PROVE IInv'
    OBVIOUS
  <2>1. TypeOK'
    BY DEF IInv, TypeOK, vars, device, Message, Session, Result, Command
  <2>2. Synced' = Synced /\ Request(session)' = Request(session)
    BY DEF vars, device, Synced, Request
  <2>3. InStep'
    BY <2>2 DEF IInv, InStep, Own, vars, device
  <2>4. (OldFirst /\ FirstPage)'
    BY DEF IInv, OldFirst, FirstPage, vars, device
  <2>5. SoFar'
    BY <2>2 DEF IInv, SoFar, vars, device
  <2>6. AtTheEnd'
    BY DEF IInv, AtTheEnd, VerifiedIsStored, AnswerIsTrue, ReadIsStored, UploadIsShown, Ended, vars, device
  <2> QED
    BY <2>1, <2>3, <2>4, <2>5, <2>6 DEF IInv
<1> QED
  BY InvInit, InvNext, <1>1, PTL DEF Spec

(* AtTheEnd holds without a result, too. *)
LEMMA Claims == ASSUME IInv PROVE VerifiedIsStored /\ AnswerIsTrue
BY DEF IInv, AtTheEnd, VerifiedIsStored, AnswerIsTrue, ReadIsStored, UploadIsShown, Ended

(* A restore that is reported as verified is stored, page by page, whatever *)
(* the keyboard did with the writes and whatever was left on the wire.      *)
THEOREM Verified == Spec => []VerifiedIsStored
BY Inductive, Claims, PTL

(* With nothing left over, what a command reads is what the keyboard has,   *)
(* and an upload that succeeds has put every block on the panel.            *)
THEOREM Answered == Spec => []AnswerIsTrue
BY Inductive, Claims, PTL
=============================================================================
