----------------------------- MODULE Transport -----------------------------
(***************************************************************************)
(* Commands and replies on one interface of the keyboard: an image upload  *)
(* in AA 50 reports (transport.rs, upload_container), keymap reads and     *)
(* restores page by page (read_keymap, write_keymap, and the commands in   *)
(* main.rs around them) and clock sync.                                    *)
(*                                                                         *)
(* Every request waits for one reply.  A reply tells which command it      *)
(* answers, and only the clock's reply is compared with the whole request: *)
(* the panel's acknowledgements carry no number, and the offset that a     *)
(* keymap reply repeats is not looked at.  The keyboard answers in order.  *)
(* Its reply may be lost, or come after the time limit, when the handle    *)
(* that asked is closed and perhaps another one is open.                   *)
(*                                                                         *)
(* A page or a block is one value; areas are what a command reads or       *)
(* writes.  The two interfaces do not share anything but hidapi's lock     *)
(* (HidApi), so a behaviour is about one of them.  One handle is open at a *)
(* time.                                                                   *)
(***************************************************************************)
EXTENDS Integers, Sequences

CONSTANTS
  Data,         \* contents of a page, of a block, or an instant of the clock
  Parts,        \* pages of a keymap layer, blocks of a container
  None,         \* no session, no result
  MaxBacklog,   \* bound of the model: left over when a handle is opened
  MaxFaults     \* bound of the model: requests that go wrong

Layer == {"base", "fn"}
Area == Layer \cup {"panel", "clock"}
Interface == {Layer \cup {"clock"}, {"panel"}}

Count(area) == IF area = "clock" THEN 1 ELSE Parts

Contents(area) == [1..Count(area) -> Data]

ASSUME TransportAssumption ==
  /\ Parts \in Nat \ {0}
  /\ MaxBacklog \in Nat
  /\ MaxFaults \in Nat

(* Fewer replies are left over than a layer has pages: each is left by a    *)
(* command that gave up waiting.                                            *)
ASSUME FewLeftOver == MaxBacklog <= Parts

VARIABLES
  areas,     \* what this interface reaches
  stored,    \* the keyboard: contents of each area
  requests,  \* sent and not yet handled by the keyboard
  replies,   \* sent by the keyboard and not yet read
  session,   \* the command that has the handle: [op, phase, i, waiting, got]
  result,    \* how the last command ended: [op, outcome, got]
  late,      \* history: an earlier handle left something behind for this one
  faults     \* history: requests that went wrong

device == <<stored, requests, replies>>
vars == <<areas, device, session, result, late, faults>>

Init ==
  /\ areas \in Interface
  /\ stored \in [areas -> UNION {Contents(a) : a \in areas}]
  /\ \A a \in areas : stored[a] \in Contents(a)
  /\ requests = <<>>
  /\ replies = <<>>
  /\ session = None
  /\ result = None
  /\ late = FALSE
  /\ faults = 0

---------------------------------------------------------------------------
(* The commands. *)

Op(kind, area, data) == [kind |-> kind, area |-> area, data |-> data]

(* cmd_keymap. *)
ReadKeymap(layer) == Op("read", layer, <<>>)

(* cmd_keymap_restore --execute: the backup says which layer it is of, and  *)
(* has all of its pages, or it is rejected before the handle is opened.     *)
RestoreKeymap(layer, backup) == Op("restore", layer, backup)

(* sync_clock of the daemon, and cmd_clock_sync --execute. *)
SyncClock(packet) == Op("write", "clock", packet)

(* upload_container, which only the governor calls. *)
UploadContainer(reports) == Op("write", "panel", reports)

Ops(area) ==
  IF area \in Layer
  THEN {ReadKeymap(area)} \cup {RestoreKeymap(area, t) : t \in Contents(area)}
  ELSE IF area = "clock" THEN {SyncClock(t) : t \in Contents(area)}
  ELSE {UploadContainer(t) : t \in Contents(area)}

FirstPhase(op) == IF op.kind = "write" THEN "write" ELSE "read"

(* What a phase sends: a request per page, block or packet. *)
Request(s) ==
  [cmd  |-> IF s.phase = "write" THEN "write" ELSE "read",
   area |-> s.op.area,
   at   |-> s.i,
   data |-> IF s.phase = "write" THEN s.op.data[s.i] ELSE None]

Sent(s) == s.i > Count(s.op.area)

(* is_clock_ack: the whole packet.  A clock that is not acknowledged ends   *)
(* in a message instead of an error.                                        *)
IsClockAck(request, reply) == reply.data = request.data

(* The reply names the request's command. *)
Accepts(request, reply) ==
  /\ reply.good
  /\ reply.cmd = request.cmd
  /\ reply.area = request.area
  /\ request.area = "clock" => IsClockAck(request, reply)

---------------------------------------------------------------------------
(* The program. *)

(* Device::open.  What an earlier handle was waiting for may still come, or *)
(* the system has dropped it with that handle.                              *)
Open(op, kept) ==
  /\ session = None
  /\ Len(requests) + Len(kept) <= MaxBacklog
  /\ replies' = kept
  /\ late' = (kept # <<>> \/ requests # <<>>)
  /\ session' = [op |-> op, phase |-> FirstPhase(op), i |-> 1, waiting |-> FALSE, got |-> <<>>]
  /\ result' = None
  /\ UNCHANGED <<areas, stored, requests, faults>>

Suffix(q) == {SubSeq(q, i, Len(q)) : i \in 1..(Len(q) + 1)}

End(outcome) ==
  /\ session' = None
  /\ result' = [op |-> session.op, outcome |-> outcome, got |-> session.got]
  /\ UNCHANGED <<areas, late>>

(* write_report. *)
Send ==
  /\ session # None
  /\ ~session.waiting /\ ~Sent(session)
  /\ requests' = Append(requests, Request(session))
  /\ session' = [session EXCEPT !.waiting = TRUE]
  /\ UNCHANGED <<areas, stored, replies, result, late, faults>>

(* A write error, or a short write; the keyboard may have got it. *)
SendFails(got) ==
  /\ session # None
  /\ ~session.waiting /\ ~Sent(session)
  /\ faults < MaxFaults
  /\ faults' = faults + 1
  /\ requests' = IF got THEN Append(requests, Request(session)) ELSE requests
  /\ End("failed")
  /\ UNCHANGED <<stored, replies>>

(* Mutant: the page is not put away. *)
ReceiveOver ==
  /\ session # None
  /\ session.waiting
  /\ replies # <<>>
  /\ replies' = Tail(replies)
  /\ UNCHANGED <<stored, requests, faults>>
  /\ IF Accepts(Request(session), Head(replies))
     THEN /\ session' = [session EXCEPT !.waiting = FALSE, !.i = @ + 1]
          /\ UNCHANGED <<areas, result, late>>
     ELSE End("failed")

(* read_report, when there is a report to read. *)
Receive ==
  /\ session # None
  /\ session.waiting
  /\ replies # <<>>
  /\ replies' = Tail(replies)
  /\ UNCHANGED <<stored, requests, faults>>
  /\ IF Accepts(Request(session), Head(replies))
     THEN /\ session' = [session EXCEPT !.waiting = FALSE, !.i = @ + 1,
                                        !.got = Append(@, Head(replies).data)]
          /\ UNCHANGED <<areas, result, late>>
     ELSE End("failed")

(* Mutants: the request is sent once more; there is no time limit. *)
TimeOutRetries ==
  /\ session # None
  /\ session.waiting
  /\ replies = <<>>
  /\ Len(requests) < 2
  /\ session' = [session EXCEPT !.waiting = FALSE]
  /\ UNCHANGED <<areas, device, result, late, faults>>

NeverTimesOut ==
  /\ session # None
  /\ session.waiting
  /\ replies = <<>>
  /\ UNCHANGED vars

(* read_report, when none came in time. *)
TimeOut ==
  /\ session # None
  /\ session.waiting
  /\ replies = <<>>
  /\ End("failed")
  /\ UNCHANGED <<device, faults>>

(* A phase is over: all of its replies were good. *)
PhaseOver(phase) ==
  /\ session # None
  /\ Sent(session)
  /\ session.phase = phase
  /\ UNCHANGED <<device, faults>>

NextPhase(phase) ==
  /\ session' = [session EXCEPT !.phase = phase, !.i = 1, !.got = <<>>]
  /\ UNCHANGED <<areas, result, late>>

ReadDone == PhaseOver("read") /\ session.op.kind = "read" /\ End("read")

(* cmd_keymap_restore: "the keyboard already has this keymap". *)
NothingToRestore ==
  /\ PhaseOver("read")
  /\ session.op.kind = "restore"
  /\ session.got = session.op.data
  /\ End("unchanged")

StartRestore ==
  /\ PhaseOver("read")
  /\ session.op.kind = "restore"
  /\ session.got # session.op.data
  /\ NextPhase("write")

(* Mutant: the echoes of the pages are enough. *)
WrittenTrusted ==
  /\ PhaseOver("write")
  /\ End(IF session.op.kind = "restore" THEN "verified" ELSE "written")

(* write_keymap reads everything back; an upload or the clock is done. *)
Written ==
  /\ PhaseOver("write")
  /\ IF session.op.kind = "restore" THEN NextPhase("verify") ELSE End("written")

Verify ==
  /\ PhaseOver("verify")
  /\ End(IF session.got = session.op.data THEN "verified" ELSE "failed")

---------------------------------------------------------------------------
(* The keyboard. *)

(* A request is handled: what it writes is stored, or not, and the reply    *)
(* is sent, spoiled or lost.  Only the panel's acknowledgement says that    *)
(* the block was accepted; the config channel repeats whatever it is sent.  *)
Handle(kept, good, lost) ==
  /\ requests # <<>>
  /\ LET r == Head(requests)
         ok == kept /\ good /\ ~lost
     IN /\ ok \/ faults < MaxFaults
        /\ faults' = IF ok THEN faults ELSE faults + 1
        /\ r.area = "panel" => kept = good
        /\ stored' = IF r.cmd = "write" /\ kept
                     THEN [stored EXCEPT ![r.area][r.at] = r.data] ELSE stored
        /\ replies' = IF lost THEN replies
                      ELSE Append(replies,
                             [cmd |-> r.cmd, area |-> r.area, at |-> r.at, good |-> good,
                              data |-> IF r.cmd = "read" THEN stored[r.area][r.at] ELSE r.data])
  /\ requests' = Tail(requests)
  /\ UNCHANGED <<areas, session, result, late>>

Host ==
  \/ Send \/ Receive \/ TimeOut
  \/ ReadDone \/ NothingToRestore \/ StartRestore \/ Written \/ Verify

Next ==
  \/ \E area \in areas : \E op \in Ops(area), kept \in Suffix(replies) : Open(op, kept)
  \/ Host
  \/ \E got \in BOOLEAN : SendFails(got)
  \/ \E kept, good, lost \in BOOLEAN : Handle(kept, good, lost)

Spec == Init /\ [][Next]_vars

(* The program runs; nothing is assumed of the keyboard. *)
FairSpec == Spec /\ WF_vars(Host)

---------------------------------------------------------------------------
Message ==
  {m \in [cmd : {"read", "write"}, area : areas, at : Nat, data : Data \cup {None}] :
     /\ m.at \in 1..Count(m.area)
     /\ m.cmd = "write" => m.data \in Data}

Reply == [cmd : {"read", "write"}, area : Area, at : Nat, data : Data, good : BOOLEAN]

Command == UNION {Ops(a) : a \in areas}

Session ==
  {s \in [op : Command, phase : {"read", "write", "verify"}, i : Nat,
          waiting : BOOLEAN, got : Seq(Data)] :
     /\ s.op.kind = "read" => s.phase = "read"
     /\ s.op.kind = "write" <=> s.phase = "write" /\ s.op.kind # "restore"
     /\ s.i \in 1..(Count(s.op.area) + 1)
     /\ s.waiting => s.i <= Count(s.op.area)
     /\ Len(s.got) = s.i - 1}

Result ==
  [op : Command, outcome : {"failed", "read", "unchanged", "verified", "written"}, got : Seq(Data)]

(* Every variable has its type, a command is in a phase of its own, and has *)
(* read as many replies as it has sent requests, but for the one it is      *)
(* waiting for.                                                             *)
TypeOK ==
  /\ areas \in Interface
  /\ DOMAIN stored = areas
  /\ \A a \in areas : stored[a] \in Contents(a)
  /\ requests \in Seq(Message)
  /\ replies \in Seq(Reply)
  /\ session \in Session \cup {None}
  /\ result \in Result \cup {None}
  /\ late \in BOOLEAN
  /\ faults \in Nat

---------------------------------------------------------------------------
Ended(outcome) == result # None /\ result.outcome = outcome

(* "A caller is never told a restore worked when it did not" (write_keymap): *)
(* whatever the keyboard does with the pages, and although replies carry no  *)
(* number and earlier commands may have left some on the wire, what is       *)
(* reported as verified is what is stored.                                   *)
VerifiedIsStored ==
  Ended("verified") => stored[result.op.area] = result.op.data

(* What a keymap read, and an upload, report to their callers. *)
ReadIsStored ==
  /\ Ended("read") => result.got = stored[result.op.area]
  /\ Ended("unchanged") => result.op.data = stored[result.op.area]

UploadIsShown ==
  Ended("written") /\ result.op.area = "panel" => stored["panel"] = result.op.data

(* Unless an earlier command left a reply behind, a layer that is read, or  *)
(* found to be there already, is the one that the keyboard has, and an      *)
(* upload that succeeded has put every block on the panel: the governor may *)
(* count on it.                                                             *)
AnswerIsTrue == ~late => ReadIsStored /\ UploadIsShown

(* A lost reply never blocks the program: every command ends. *)
CommandEnds == session # None ~> session = None
============================================================================
