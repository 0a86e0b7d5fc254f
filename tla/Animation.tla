----------------------------- MODULE Animation -----------------------------
(***************************************************************************)
(* From the frames of an image to the reports that carry it: the timing    *)
(* plan (catbus99-render, plan_timing and frames_to_container), the        *)
(* container (container.rs) and its reports (report.rs).                   *)
(*                                                                         *)
(* A frame is the index of the source frame it shows: its pixels are one   *)
(* value of FrameBytes bytes.  The container's 256 bytes of metadata are   *)
(* kept byte by byte, the rest as its frames and its length; the firmware  *)
(* reads it back as parse_container does.                                  *)
(***************************************************************************)
EXTENDS Integers, Sequences, FiniteSetsExt, SequencesExt

CONSTANTS
  Duration,      \* durations of a frame, in ms
  Budget,        \* values of --max-frames
  MaxLen,        \* bound of the model: frames of a source
  MaxTick,       \* largest delay byte
  FrameBytes,    \* FRAME_BYTES
  Metadata,      \* METADATA_SIZE
  Block,         \* BLOCK_SIZE
  MaxFrames,     \* MAX_FRAMES
  MaxReports     \* u16::MAX

(* 250 is the largest budget: so many frames fit a container, and the       *)
(* container its reports.  A container of one frame needs more than one     *)
(* report: a lone one that is lost would leave nothing to notice it by.     *)
ASSUME AnimationAssumption ==
  /\ Duration \subseteq Nat
  /\ Budget \subseteq Nat
  /\ MaxLen \in Nat
  /\ {MaxTick, FrameBytes, Metadata, Block, MaxFrames, MaxReports} \subseteq Nat \ {0}
  /\ MaxFrames < Metadata - 1
  /\ 250 <= MaxFrames
  /\ Block < Metadata + FrameBytes
  /\ Metadata + 250 * FrameBytes <= MaxReports * Block

VARIABLES
  given,     \* Frame::duration_ms of each source frame
  cap,       \* the frame budget
  phase,     \* what plan_timing does next
  tick,      \* Plan::tick, 0 before it is known
  slots,     \* Plan::slots, each [frame, n]
  payload    \* the container

planVars == <<given, cap, phase, tick, slots, payload>>

Clamp(x, lo, hi) == IF x < lo THEN lo ELSE IF x > hi THEN hi ELSE x

AtLeastOne(x) == IF x < 1 THEN 1 ELSE x

Total(s) ==
  LET sum[i \in 0..Len(s)] == IF i = 0 THEN 0 ELSE sum[i - 1] + s[i]
  IN sum[Len(s)]

Repeats(s) == [i \in DOMAIN s |-> s[i].n]

(* frames_to_container: cap = max_frames.clamp(1, 250). *)
PlanInit ==
  /\ given \in UNION {[1..n -> Duration] : n \in 1..MaxLen}
  /\ \E m \in Budget : cap = Clamp(m, 1, 250)
  /\ phase = IF Len(given) = 1 \/ cap = 1 THEN "still" ELSE "plan"
  /\ tick = 0
  /\ slots = <<>>
  /\ payload = <<>>

(* The durations as plan_timing takes them: --hold-first may be 0. *)
Held == [i \in DOMAIN given |-> AtLeastOne(given[i])]

---------------------------------------------------------------------------
(* plan_timing. *)

gcd[p \in Nat \X Nat] == IF p[2] = 0 THEN p[1] ELSE gcd[<<p[2], p[1] % p[2]>>]

(* Mutant: the tick is the shortest duration. *)
TickOfShortest == Clamp(FoldSeq(LAMBDA d, g : IF d < g THEN d ELSE g, Held[1], Held), 1, MaxTick)

(* The greatest common divisor of the durations. *)
HeldGcd ==
  LET fold[i \in 0..Len(Held)] == IF i = 0 THEN 0 ELSE gcd[<<fold[i - 1], Held[i]>>]
  IN fold[Len(Held)]

GcdTick == Clamp(HeldGcd, 1, MaxTick)

Plan(ph, t, s) ==
  /\ phase' = ph
  /\ tick' = t
  /\ slots' = s
  /\ UNCHANGED <<given, cap, payload>>

Still ==
  /\ phase = "still"
  /\ Plan("build", 0, <<[frame |-> 1, n |-> 1]>>)

(* More frames than the budget holds: every so-manieth. *)
Decimate ==
  /\ phase = "plan"
  /\ Len(given) >= cap
  /\ Plan("build", Clamp(Total(Held) \div cap, 1, MaxTick),
          [i \in 1..cap |-> [frame |-> ((i - 1) * Len(given)) \div cap + 1, n |-> 1]])

ExactRepeats == [i \in DOMAIN Held |-> AtLeastOne((Held[i] + GcdTick \div 2) \div GcdTick)]

AsSlots(repeats) == [i \in DOMAIN repeats |-> [frame |-> i, n |-> repeats[i]]]

Exact ==
  /\ phase = "plan"
  /\ Len(given) < cap
  /\ Total(ExactRepeats) <= cap
  /\ Plan("build", GcdTick, AsSlots(ExactRepeats))

(* The budget is shared in proportion, a slot at least to each. *)
Share ==
  /\ phase = "plan"
  /\ Len(given) < cap
  /\ Total(ExactRepeats) > cap
  /\ Plan("trim", 0,
          AsSlots([i \in DOMAIN Held |-> AtLeastOne((Held[i] * cap) \div Total(Held))]))

(* Mutant: the first frame with a slot to spare gives it up. *)
FirstToSpare ==
  CHOOSE i \in DOMAIN slots :
    /\ \A j \in DOMAIN slots : j < i => slots[j].n = 1
    /\ slots[i].n > 1 \/ i = Len(slots)

(* max_by_key: the last of the largest. *)
Greediest ==
  CHOOSE i \in DOMAIN slots :
    \A j \in DOMAIN slots : slots[j].n < slots[i].n \/ (slots[j].n = slots[i].n /\ j <= i)

OverBudget == Total(Repeats(slots)) > cap /\ slots[Greediest].n > 1

Trim ==
  /\ phase = "trim"
  /\ OverBudget
  /\ Plan("trim", 0, [slots EXCEPT ![Greediest].n = @ - 1])

Trimmed ==
  /\ phase = "trim"
  /\ ~OverBudget
  /\ Plan("build", Clamp(Total(Held) \div AtLeastOne(Total(Repeats(slots))), 1, MaxTick), slots)

---------------------------------------------------------------------------
(* container.rs.  Offsets count from 0. *)

PaddedLen(len) == ((len + Block - 1) \div Block) * Block

BuildContainer(frames, timings) ==
  LET n == Len(frames)
  IN IF n \notin 1..MaxFrames \/ Len(timings) # n - 1 THEN <<>>
     ELSE [len    |-> PaddedLen(Metadata + n * FrameBytes),
           meta   |-> [k \in 0..(Metadata - 1) |->
                         CASE k = 0 -> n
                           [] k \in 1..(n - 1) -> timings[k]
                           [] k = n -> 0
                           [] OTHER -> 255],
           frames |-> frames]

(* parse_container's answer, or <<>> for an error. *)
ParseContainer(p) ==
  LET n == p.meta[0]
      end == Metadata + n * FrameBytes
  IN IF \/ p.len = 0 \/ p.len % Block # 0 \/ p.len < Metadata
        \/ n \notin 1..MaxFrames
        \/ p.meta[n] # 0
        \/ \E k \in (n + 1)..(Metadata - 1) : p.meta[k] # 255
        \/ end > p.len
        \/ p.len - end >= Block
     THEN <<>>
     ELSE [timings |-> [k \in 1..(n - 1) |-> p.meta[k]], frames |-> p.frames]

(* frames_to_container: each frame as often as it has slots. *)
Expanded ==
  FlattenSeq([i \in DOMAIN slots |-> [k \in 1..slots[i].n |-> slots[i].frame]])

(* Mutant: a delay for every frame. *)
DelaysEach == [k \in 1..Len(Expanded) |-> tick]

Delays == [k \in 1..(Len(Expanded) - 1) |-> tick]

Build ==
  /\ phase = "build"
  /\ payload' = BuildContainer(Expanded, Delays)
  /\ phase' = "done"
  /\ UNCHANGED <<given, cap, tick, slots>>

PlanNext == Still \/ Decimate \/ Exact \/ Share \/ Trim \/ Trimmed \/ Build

PlanSpec == PlanInit /\ [][PlanNext]_planVars

---------------------------------------------------------------------------
(* report.rs.  A report is [seq, count, block]; blocks are named by their   *)
(* position in the payload.                                                 *)

(* Mutant: the numbers need not be in order. *)
ValidAnyOrder(rs) ==
  /\ Len(rs) <= MaxReports
  /\ \A i \in DOMAIN rs : rs[i].seq \in 0..(Len(rs) - 1) /\ rs[i].count = Len(rs)

ValidateReports(rs) ==
  /\ Len(rs) <= MaxReports
  /\ \A i \in DOMAIN rs : rs[i].seq = i - 1 /\ rs[i].count = Len(rs)

BuildReports(p) ==
  LET count == p.len \div Block
      reports == [i \in 1..count |-> [seq |-> i - 1, count |-> count, block |-> i]]
  IN IF p.len = 0 \/ p.len % Block # 0 \/ count > MaxReports \/ ~ValidateReports(reports)
     THEN <<>> ELSE reports

(* payload_from_reports: the blocks, or <<>> for an error. *)
PayloadFrom(rs) ==
  IF ValidateReports(rs) THEN [i \in DOMAIN rs |-> rs[i].block] ELSE <<>>

---------------------------------------------------------------------------
Done == phase = "done"

Animated == Done /\ Len(given) > 1 /\ cap > 1

Shown(i) == Total([k \in DOMAIN slots |-> IF slots[k].frame = i THEN slots[k].n ELSE 0])

(* "Never drop a frame from the loop while the budget can hold them all"    *)
(* (plan_timing); otherwise the frames that are left out are spread over    *)
(* the loop.  The budget is never exceeded, however it had to be shared,    *)
(* and a longer frame is not shown shorter than a shorter one, but for the  *)
(* slot that trimming may take from it.                                     *)
WholeLoopShown ==
  Animated =>
    LET gap == (Len(given) + cap - 1) \div cap
    IN /\ Len(Expanded) <= cap
       /\ slots[1].frame = 1
       /\ \A k \in 1..(Len(slots) - 1) : slots[k + 1].frame - slots[k].frame \in 1..gap
       /\ Len(given) - slots[Len(slots)].frame < gap
       /\ \A k \in DOMAIN slots : slots[k].n >= 1
       /\ Len(given) < cap =>
            \A i, j \in DOMAIN given : Held[i] <= Held[j] => Shown(i) <= Shown(j) + 1

Divides(t) == \A i \in DOMAIN Held : Held[i] % t = 0

Fits(t) == Total([i \in DOMAIN Held |-> Held[i] \div t]) <= cap

(* The loop is as long as the source's, up to a millisecond a slot or, for  *)
(* frames that are held in whole MaxTicks, half a tick a frame; it can only *)
(* be shorter when the tick is at its limit.                                *)
LengthBounded ==
  LET n == Len(Expanded)
      slack == n + Len(given) * ((MaxTick + 1) \div 2)
  IN /\ n * tick <= Total(Held) + (IF tick = MaxTick THEN slack ELSE 0)
     /\ tick < MaxTick => Total(Held) - n * tick < n

(* If the greatest common divisor of the durations is a delay byte and the  *)
(* slots fit, each frame is shown for exactly its duration.                 *)
DurationsKept ==
  Len(given) < cap =>
    \A t \in 1..MaxTick :
      Divides(t) /\ (\A u \in (t + 1)..Held[1] : ~Divides(u)) /\ Fits(t) =>
        \A i \in DOMAIN Held : Shown(i) * tick = Held[i]

(* An animation that plays keeps the length of its source, and each         *)
(* duration wherever a tick can express them all.                           *)
LoopLengthKept == Animated => LengthBounded /\ DurationsKept

Swap(s, i, j) == [s EXCEPT ![i] = s[j], ![j] = s[i]]

(* What is built is accepted, is read back as the frames and delays that    *)
(* went in, and has as many frames as timing_plan announces.  It comes      *)
(* through the reports unchanged, and a stream in which a report is missing *)
(* or repeated, or two have changed places, is refused.                     *)
ContainerArrives ==
  Done =>
    LET rs == BuildReports(payload)
    IN /\ payload # <<>>
       /\ ParseContainer(payload) = [timings |-> Delays, frames |-> Expanded]
       /\ payload.meta[0] = Total(Repeats(slots))
       /\ PayloadFrom(rs) = [i \in 1..(payload.len \div Block) |-> i]
       /\ \A i \in DOMAIN rs :
            /\ ~ValidateReports(RemoveAt(rs, i))
            /\ ~ValidateReports(InsertAt(rs, i, rs[i]))
            /\ \A j \in (DOMAIN rs \ {i}) \cap {1, i + 1} : ~ValidateReports(Swap(rs, i, j))
============================================================================
