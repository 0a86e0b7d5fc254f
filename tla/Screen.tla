------------------------------- MODULE Screen -------------------------------
(***************************************************************************)
(* What is on the screen: the layout and the readings that requests and    *)
(* sources change (catbus99-model, Daemon::handle), the image composed     *)
(* from them (compose.rs), and the panel, which keeps an image until       *)
(* another one is sent.                                                    *)
(*                                                                         *)
(* Time is relative: a reading has an age, which stops at MaxAge, a        *)
(* deadline is so many minutes ahead, and the clock is the minute of the   *)
(* hour.  So the model has no last instant.                                *)
(*                                                                         *)
(* The panel is Width by Height cells.  The ink of a cell is the sequence  *)
(* of what was drawn there since it was last filled.  Where a stroke may   *)
(* go is what matters: a text has the box of its line, a gauge that of its *)
(* arc, and text is cut off at the edges of the panel only.  Colours,      *)
(* glyphs and how much of a bar is filled are left out.                    *)
(*                                                                         *)
(* The governor is reduced to its verdict: an image that the panel shows   *)
(* is `unchanged', any other may be let through or refused.  When it is    *)
(* refused, power cycles and the reconnect check are PanelDaemon's; when a *)
(* source is due, and how long it runs, is Scheduler's.                    *)
(***************************************************************************)
EXTENDS Integers, FiniteSets, SequencesExt

CONSTANTS
  Width, Height,   \* SCREEN_W and SCREEN_H
  Wrap,            \* 2^32: where the sum of two u32 wraps
  Hour,            \* minutes in an hour
  Point,           \* the (source, key) of a reading; each source has one
  Reads,           \* Reads[p]: the values p may have
  Deadline,        \* those of them that are timestamps, not numbers
  Ahead,           \* bound of the model: how far ahead they are when they are read
  Literal,         \* values that a layout has itself
  TextWidth,       \* TextWidth[v]: cells of v's text in the smallest size
  PercentWidth,    \* and of what a bar says of v
  NoteWidth,       \* and of "no image"
  LineHeight,      \* line_height(1): rows of a line in the smallest size
  GaugeSide,       \* sides of a slot that an arc of the least radius stays in
  Ttl,             \* ttl_secs, in minutes
  None,            \* Option::None; the placeholder text
  Native, Torn,    \* the keyboard's own screen; a transfer that died
  Picture,         \* what ShowImage loads
  Name,            \* names of slots
  Files,           \* bound of the model: layouts the daemon may start with
  Layouts,         \* bound of the model: layouts a client may set
  Widgets,         \* bound of the model: widgets a client may set
  Ids,             \* bound of the model: slots a client may name
  Observed         \* bound of the model: ages of what a client pushes

MaxAge == Ttl + 1

Value == (UNION {Reads[p] : p \in Point}) \cup Literal \cup {0, None}

---------------------------------------------------------------------------
(* The shapes of the data: widgets, slots, and a reading with its age,      *)
(* which is None if it has no ttl_secs, and with the minutes that are left  *)
(* until it, if it is a deadline.  A binding is a point or a literal value; *)
(* a value is a number, a text or a timestamp.  Widget::Blank draws         *)
(* nothing, as a slot without a widget does.                                *)

Label(bind, size, align) == [type |-> "label", bind |-> bind, size |-> size, align |-> align]
Clock(every, size, align, wide) ==
  [type |-> "clock", every |-> every, size |-> size, align |-> align, wide |-> wide]
ProgressBar(bind, label, show) ==
  [type |-> "bar", bind |-> bind, label |-> label, show |-> show]
Gauge(bind, min, wide) == [type |-> "gauge", bind |-> bind, min |-> min, wide |-> wide]
ResetTimer(bind, label, every, wide) ==
  [type |-> "timer", bind |-> bind, label |-> label, every |-> every, wide |-> wide]
Image(loads) == [type |-> "image", loads |-> loads]
Sparkline(points) == [type |-> "line", points |-> points]
Fill == [type |-> "fill"]

Bind == Point \cup Literal

Size == 1..3

Align == {"left", "center", "right"}

(* What a format or a unit makes of a minute, of what is left or of a       *)
(* number is `wide' cells wide in the smallest size; a timer's label is its *)
(* width or None.                                                           *)
Widget ==
  [type : {"label"}, bind : Bind, size : Size, align : Align]
    \cup [type : {"clock"}, every : Nat, size : Size, align : Align, wide : [0..(Hour - 1) -> Nat]]
    \cup [type : {"bar"}, bind : Bind, label : Bind \cup {None}, show : BOOLEAN]
    \cup [type : {"gauge"}, bind : Bind, min : Value, wide : [Value -> Nat]]
    \cup [type : {"timer"}, bind : Bind, label : Nat \cup {None}, every : Nat,
         wide : [0..Ahead -> Nat]]
    \cup [type : {"image"}, loads : BOOLEAN]
    \cup [type : {"line"}, points : Nat]
    \cup {Fill}

Rect == [x : Nat, y : Nat, w : Nat, h : Nat]

Layout == Seq([id : Name, rect : Rect, widget : Widget \cup {None}])

Slot(id, rect, widget) == [id |-> id, rect |-> rect, widget |-> widget]

DataPoint(value, age) ==
  [value |-> value, age |-> age, left |-> IF value \in Deadline THEN Ahead ELSE None]

Reading(p) == [value : Reads[p], age : 0..MaxAge \cup {None}, left : 0..Ahead \cup {None}]

ASSUME ScreenAssumption ==
  /\ {Width, Height, Hour, Wrap, LineHeight} \subseteq Nat \ {0}
  /\ {Ttl, Ahead, NoteWidth, GaugeSide} \subseteq Nat
  /\ Observed \subseteq 0..MaxAge \cup {None}
  /\ Reads \in [Point -> SUBSET (Nat \ {0})]
  /\ \A p \in Point : Reads[p] \cap Literal = {}
  /\ Deadline \subseteq UNION {Reads[p] : p \in Point}
  /\ TextWidth \in [Value -> Nat]
  /\ PercentWidth \in [Value -> Nat]
  /\ None \notin Int
  /\ \A p \in Point : None \notin Reading(p)
  /\ Files \cup Layouts \subseteq Layout
  /\ Widgets \subseteq Widget

---------------------------------------------------------------------------
VARIABLES
  layout,    \* Daemon::layout: the slots, [id, rect, widget]
  store,     \* Daemon::store: per point, its reading or None
  minute,    \* the minute of Utc::now()
  panel,     \* what the panel shows; the governor knows it
  loop,      \* scheduler_loop: "sleep", or "render" after a success
  clearing,  \* the layout that clear_screen has read and blanked, or None
  answer     \* the WriteOutcome of the latest step, or None

vars == <<layout, store, minute, panel, loop, clearing, answer>>

Cell == (0..(Width - 1)) \X (0..(Height - 1))

---------------------------------------------------------------------------
Init ==
  /\ layout \in Files
  /\ store = [p \in Point |-> None]
  /\ minute \in 0..(Hour - 1)
  /\ panel = Native
  /\ loop = "sleep"
  /\ clearing = None
  /\ answer = None

---------------------------------------------------------------------------
(* Readings. *)

(* Mutant: a reading has no time to live. *)
NeverStale(r) == FALSE

IsStale(r) == r.age # None /\ r.age > Ttl

Resolved(value, left, stale, missing) ==
  [value |-> value, left |-> left, stale |-> stale, missing |-> missing]

Resolve(bind, st) ==
  IF bind \notin Point THEN Resolved(bind, None, FALSE, FALSE)
  ELSE IF st[bind] = None THEN Resolved(None, None, FALSE, TRUE)
  ELSE Resolved(st[bind].value, st[bind].left, IsStale(st[bind]), FALSE)

Degraded(r) == r.stale \/ r.missing

(* as_number: a timestamp is none. *)
NumberOr(r, fallback) == IF r.missing \/ r.left # None THEN fallback ELSE r.value

(* Mutant: the minute is shown as it is. *)
QuantizeNot(m, every) == m

(* quantize_time: within the hour, so that a step never spans two hours. *)
QuantizeTime(m, every) == IF every <= 1 THEN m ELSE m - (m % every)

(* format_remaining: whole steps, and "now" (zero) in the last one. *)
Remaining(left, every) == LET step == Max({every, 1}) IN (left \div step) * step

---------------------------------------------------------------------------
(* Rectangles. *)

Clipped(r) ==
  LET x == Min({r.x, Width})
      y == Min({r.y, Height})
  IN [x |-> x, y |-> y, w |-> Min({r.w, Width - x}), h |-> Min({r.h, Height - y})]

IsEmpty(r) == r.w = 0 \/ r.h = 0

CellsOf(r) == (r.x..(r.x + r.w - 1)) \X (r.y..(r.y + r.h - 1))

(* saturating_sub. *)
Less(m, n) == Max({m - n, 0})

(* fit_scale: the largest size, up to the preferred one, in which a text is *)
(* not wider than w, or else the smallest.  Its height does not count.      *)
Scale(width, w, preferred) == Max({1} \cup {s \in 1..preferred : s * width <= w})

(* draw_aligned: text begins in row y where its alignment puts it, before   *)
(* the slot if it is too wide, and is cut off at the edges of the panel     *)
(* only.  Half the missing cells are rounded toward zero.                   *)
TextCells(r, y, width, scale, align) ==
  LET spare == r.w - scale * width
      half == IF spare >= 0 THEN spare \div 2 ELSE -((-spare) \div 2)
      first == r.x + (CASE align = "left" -> 0 [] align = "center" -> half [] align = "right" -> spare)
  IN ((first..(first + scale * width - 1)) \X (y..(y + scale * LineHeight - 1))) \cap Cell

(* draw_centered_in: in the h rows from row y on; a line that is higher     *)
(* begins in the first of them.                                             *)
Centred(r, y, h, width, preferred, align) ==
  LET scale == Scale(width, r.w, preferred)
  IN TextCells(r, y + Less(h, scale * LineHeight) \div 2, width, scale, align)

(* draw_gauge: an arc has a least radius, so that in a small slot it goes   *)
(* beyond, by less than GaugeSide.                                          *)
ArcCells(r) ==
  IF r.w >= GaugeSide /\ r.h >= GaugeSide THEN CellsOf(r)
  ELSE (((r.x - GaugeSide)..(r.x + r.w + GaugeSide))
          \X ((r.y - GaugeSide)..(r.y + r.h + GaugeSide))) \cap Cell

---------------------------------------------------------------------------
(* draw_widget: the strokes of a widget in its clipped slot, in order.  A   *)
(* solid stroke covers what was there.                                      *)

Stroke(cells, solid, what, value, dim) ==
  [cells |-> cells, solid |-> solid,
   ink |-> [what |-> what, value |-> value, left |-> None, dim |-> dim]]

(* text_or_placeholder, dimmed if it is not a current reading. *)
TextStroke(cells, v, dim) == Stroke(cells, FALSE, "text", v, dim)

(* draw_gauge: the arc and its needle. *)
Arc(cells, v, dim) == Stroke(cells, FALSE, "arc", v, dim)

(* The label has a line above the bar if there are rows to spare for both.  *)
LabelAbove(w, r) == w.label # None /\ r.h > LineHeight + 2

BarBelow(w, r) ==
  IF LabelAbove(w, r) THEN [r EXCEPT !.y = @ + LineHeight + 1, !.h = @ - LineHeight - 1] ELSE r

(* The bar, its label, and what it says if it is as high as a line.         *)
BarStrokes(w, r, st) ==
  LET val == Resolve(w.bind, st)
      lr == Resolve(w.label, st)
      v == NumberOr(val, 0)
      bar == BarBelow(w, r)
  IN (IF LabelAbove(w, r)
      THEN <<TextStroke(TextCells(r, r.y, TextWidth[lr.value], 1, "left"), lr.value, Degraded(lr))>>
      ELSE <<>>)
       \o <<Stroke(CellsOf(bar), TRUE, "bar", v, Degraded(val))>>
       \o (IF w.show /\ bar.h >= LineHeight
           THEN <<Stroke(Centred(bar, bar.y, bar.h, PercentWidth[v], 1, "center"),
                         FALSE, "percent", v, FALSE)>>
           ELSE <<>>)

(* The number goes on the last line. *)
GaugeStrokes(w, r, st) ==
  LET val == Resolve(w.bind, st)
      v == NumberOr(val, w.min)
  IN <<Arc(ArcCells(r), v, Degraded(val)),
       TextStroke(TextCells(r, r.y + Less(r.h, LineHeight), w.wide[v], 1, "center"),
                  v, Degraded(val))>>

(* What is left until the deadline, under the label, which takes the first  *)
(* line of the slot and a row, whether or not there are more.  Without a    *)
(* deadline, a dimmed placeholder.                                          *)
TimerStrokes(w, r, st) ==
  LET val == Resolve(w.bind, st)
      known == val.left # None
      left == IF known THEN Remaining(val.left, w.every) ELSE None
      width == IF known THEN w.wide[left] ELSE TextWidth[None]
      y == IF w.label = None THEN r.y ELSE r.y + LineHeight + 1
      time == Stroke(Centred(r, y, Less(r.h, y - r.y), width, 2, "center"), FALSE, "timer",
                     IF known THEN val.value ELSE None, ~known \/ Degraded(val))
  IN (IF w.label = None THEN <<>>
      ELSE <<Stroke(TextCells(r, r.y, w.label, 1, "center"), FALSE, "label", None, FALSE)>>)
       \o <<[time EXCEPT !.ink.left = left]>>

(* The clock's text: the time, rounded down. *)
TimeStroke(w, r, m) ==
  LET time == QuantizeTime(m, w.every)
  IN Stroke(Centred(r, r.y, r.h, w.wide[time], w.size, w.align), FALSE, "time", time, FALSE)

(* The image fills the slot; if it cannot be loaded, a frame and a note.     *)
ImageStrokes(w, r) ==
  <<Stroke(CellsOf(r), w.loads, "image", None, ~w.loads)>>
    \o (IF w.loads THEN <<>>
        ELSE <<Stroke(Centred(r, r.y, r.h, NoteWidth, 1, "center"), FALSE, "note", None, TRUE)>>)

(* One point makes no line. *)
LineStrokes(w, r) ==
  IF w.points < 2 THEN <<>> ELSE <<Stroke(CellsOf(r), FALSE, "line", None, FALSE)>>

LabelStroke(w, r, st) ==
  LET val == Resolve(w.bind, st)
  IN TextStroke(Centred(r, r.y, r.h, TextWidth[val.value], w.size, w.align),
                val.value, Degraded(val))

Strokes(w, r, st, m) ==
  CASE w.type = "fill"  -> <<Stroke(CellsOf(r), TRUE, "fill", None, FALSE)>>
    [] w.type = "label" -> <<LabelStroke(w, r, st)>>
    [] w.type = "clock" -> <<TimeStroke(w, r, m)>>
    [] w.type = "bar"   -> BarStrokes(w, r, st)
    [] w.type = "gauge" -> GaugeStrokes(w, r, st)
    [] w.type = "timer" -> TimerStrokes(w, r, st)
    [] w.type = "image" -> ImageStrokes(w, r)
    [] w.type = "line"  -> LineStrokes(w, r)

SlotStrokes(slot, st, m) ==
  LET r == Clipped(slot.rect)
  IN IF IsEmpty(r) \/ slot.widget = None THEN <<>> ELSE Strokes(slot.widget, r, st, m)

(* A stroke on a cell; a solid one covers what was there. *)
Over(s, ink) == IF s.solid THEN <<s.ink>> ELSE Append(ink, s.ink)

(* The ink of cell c after the strokes, in their order, on what was there.  *)
Painted(strokes, c, ink) ==
  LET after[i \in 0..Len(strokes)] ==
        IF i = 0 THEN ink
        ELSE IF c \in strokes[i].cells THEN Over(strokes[i], after[i - 1])
        ELSE after[i - 1]
  IN after[Len(strokes)]

(* The ink of cell c after the slots, a later one over an earlier one.      *)
Layered(slots, c) ==
  LET after[i \in 0..Len(slots)] ==
        IF i = 0 THEN <<>> ELSE Painted(slots[i], c, after[i - 1])
  IN after[Len(slots)]

(* (The empty sequence has TLC evaluate the strokes once, not per cell.)     *)
Compose(l, st, m) ==
  LET slots == [i \in DOMAIN l |-> SlotStrokes(l[i], st, m)] \o <<>>
  IN [c \in Cell |-> Layered(slots, c)]

Plain == [c \in Cell |-> <<>>]

---------------------------------------------------------------------------
(* Layout::lint: the kinds of problem it reports. *)

(* Mutant: only the left and upper edges are compared with the panel. *)
PastPanelByCorner(r) == r.x > Width \/ r.y > Height

U32(n) == n % Wrap

PastPanel(r) == U32(r.x + r.w) > Width \/ U32(r.y + r.h) > Height

Overlap(a, b) ==
  /\ a.x < U32(b.x + b.w) /\ b.x < U32(a.x + a.w)
  /\ a.y < U32(b.y + b.h) /\ b.y < U32(a.y + a.h)

Lint(l) ==
  {k \in {"reuses", "empty", "past", "overlap"} :
     \E i \in DOMAIN l :
       \/ k = "empty" /\ IsEmpty(l[i].rect)
       \/ k = "past" /\ PastPanel(l[i].rect)
       \/ \E j \in 1..(i - 1) :
            \/ k = "reuses" /\ l[j].id = l[i].id
            \/ k = "overlap" /\ Overlap(l[j].rect, l[i].rect)}

---------------------------------------------------------------------------
(* Writing to the panel: Daemon::outcome, dry_outcome and upload. *)

(* What the governor may say of an image. *)
Verdicts(img) == IF panel = img THEN {"unchanged"} ELSE {"upload", "refused"}

Outcome(verdict) == [uploaded |-> verdict = "upload", reason |-> verdict]

(* Mutant: what would be sent is reported as sent. *)
DryOutcomePlain(verdict) == Outcome(verdict)

DryOutcome(verdict) ==
  IF verdict = "upload" THEN [uploaded |-> FALSE, reason |-> "would_upload"]
  ELSE Outcome(verdict)

DryRun(img) ==
  /\ \E v \in Verdicts(img) : answer' = DryOutcome(v)
  /\ UNCHANGED panel

Refused(img) ==
  /\ \E v \in Verdicts(img) \ {"upload"} : answer' = Outcome(v)
  /\ UNCHANGED panel

Sent(img) ==
  /\ "upload" \in Verdicts(img)
  /\ panel' = img
  /\ answer' = Outcome("upload")

(* The open failed, or the transfer died part-way. *)
SendFails(img) ==
  /\ "upload" \in Verdicts(img)
  /\ panel' \in {panel, Torn}
  /\ answer' = Outcome("device_error")

Upload(img) == Refused(img) \/ Sent(img) \/ SendFails(img)

Write(img, execute) == IF execute THEN Upload(img) ELSE DryRun(img)

(* SetLayout and SetWidget: the layout stays changed whatever the write     *)
(* comes to.                                                                *)
ThenRender(l, render) ==
  /\ layout' = l
  /\ IF render THEN Upload(Compose(l, store, minute))
     ELSE answer' = None /\ UNCHANGED panel

---------------------------------------------------------------------------
(* Daemon::handle, one action per request that changes something or is a    *)
(* write.                                                                   *)

SetLayout(l, render) ==
  /\ ThenRender(l, render)
  /\ UNCHANGED <<store, minute, loop, clearing>>

(* slot_mut: the first slot of that name; if there is none, an error. *)
SlotNamed(l, id) == {i \in DOMAIN l : l[i].id = id /\ \A j \in 1..(i - 1) : l[j].id # id}

SetWidget(id, w, render) ==
  /\ \E i \in SlotNamed(layout, id) : ThenRender([layout EXCEPT ![i].widget = w], render)
  /\ UNCHANGED <<store, minute, loop, clearing>>

(* The readings replace the stored ones, whatever their age. *)
Insert(readings) ==
  store' = [p \in Point |-> IF p \in DOMAIN readings THEN readings[p] ELSE store[p]]

(* PushDataPoint, observed when the client says it was, with a time to live *)
(* or none.                                                                 *)
PushDataPoint(p, v, age) ==
  /\ Insert([q \in {p} |-> DataPoint(v, age)])
  /\ answer' = None
  /\ UNCHANGED <<layout, minute, panel, loop, clearing>>

RenderRequest(execute) ==
  /\ Write(Compose(layout, store, minute), execute)
  /\ UNCHANGED <<layout, store, minute, loop, clearing>>

ShowImage(execute) ==
  /\ Write(Picture, execute)
  /\ UNCHANGED <<layout, store, minute, loop, clearing>>

(* Mutant: only the first slot is blanked. *)
BlankFirst(l) == [l EXCEPT ![1].widget = None]

Blank(l) == [i \in DOMAIN l |-> [l[i] EXCEPT !.widget = None]]

(* clear_screen of the MCP server: GetLayout, and SetLayout in a request of *)
(* its own; what the daemon was asked in between is overwritten.            *)
ClearReads ==
  /\ clearing = None
  /\ clearing' = Blank(layout)
  /\ answer' = None
  /\ UNCHANGED <<layout, store, minute, panel, loop>>

ClearWrites ==
  /\ clearing # None
  /\ layout' = clearing
  /\ Upload(Compose(clearing, store, minute))
  /\ clearing' = None
  /\ UNCHANGED <<store, minute, loop>>

---------------------------------------------------------------------------
(* The scheduler: the sources that ran well, and what they printed. *)

RunSources(ok, printed) ==
  /\ loop = "sleep"
  /\ printed \subseteq ok
  /\ \E v \in {f \in [printed -> Value] : \A p \in printed : f[p] \in Reads[p]} :
       Insert([p \in printed |-> DataPoint(v[p], 0)])
  /\ loop' = IF ok # {} THEN "render" ELSE "sleep"
  /\ answer' = None
  /\ UNCHANGED <<layout, minute, panel, clearing>>

ScheduledRender ==
  /\ loop = "render"
  /\ Upload(Compose(layout, store, minute))
  /\ loop' = "sleep"
  /\ UNCHANGED <<layout, store, minute, clearing>>

OlderReading(r) ==
  [r EXCEPT !.age = IF @ = None THEN None ELSE Min({@ + 1, MaxAge}),
            !.left = IF @ = None THEN None ELSE Max({@ - 1, 0})]

Aged(st) == [p \in Point |-> IF st[p] = None THEN None ELSE OlderReading(st[p])]

Tick ==
  /\ minute' = (minute + 1) % Hour
  /\ store' = Aged(store)
  /\ answer' = None
  /\ UNCHANGED <<layout, panel, loop, clearing>>

Next ==
  \/ \E l \in Layouts, render \in BOOLEAN : SetLayout(l, render)
  \/ \E id \in Ids, w \in Widgets, render \in BOOLEAN : SetWidget(id, w, render)
  \/ \E p \in Point, age \in Observed : \E v \in Reads[p] : PushDataPoint(p, v, age)
  \/ \E execute \in BOOLEAN : RenderRequest(execute)
  \/ \E execute \in BOOLEAN : ShowImage(execute)
  \/ ClearReads
  \/ ClearWrites
  \/ \E ok \in SUBSET Point : \E printed \in SUBSET ok : RunSources(ok, printed)
  \/ ScheduledRender
  \/ Tick

Spec == Init /\ [][Next]_vars

(* Time passes, and the scheduler's task runs; a scheduled write is not     *)
(* refused or lost for ever (only ScheduledRender takes loop to "sleep").   *)
RenderGoesThrough ==
  /\ loop = "render"
  /\ loop' = "sleep"
  /\ answer' \in {Outcome("upload"), Outcome("unchanged")}

FairSpec == Spec /\ WF_vars(Tick) /\ SF_loop(RenderGoesThrough)

(* Moreover some source, any, succeeds again and again. *)
SomeSucceeds == loop = "sleep" /\ loop' = "render"

FedSpec == FairSpec /\ SF_loop(SomeSucceeds)

---------------------------------------------------------------------------
Ink ==
  [what  : {"text", "time", "bar", "percent", "arc", "timer", "label", "image", "note", "line", "fill"},
   value : Value \cup 0..(Hour - 1),
   left  : 0..Ahead \cup {None},
   dim   : BOOLEAN]

Answer == [uploaded : BOOLEAN, reason : {"upload", "would_upload", "unchanged", "refused", "device_error"}]

(* Every variable has its type. *)
TypeOK ==
  /\ layout \in Layout
  /\ \A p \in Point : store[p] \in Reading(p) \cup {None}
  /\ minute \in 0..(Hour - 1)
  /\ panel \in {Native, Torn, Picture} \/ panel \in [Cell -> Seq(Ink)]
  /\ loop \in {"sleep", "render"}
  /\ clearing # None =>
       clearing \in Layout /\ \A i \in DOMAIN clearing : clearing[i].widget = None
  /\ answer = None \/ answer \in Answer

(* p's reading is past its time to live. *)
IsOld(p) == store[p] # None /\ store[p].age # None /\ store[p].age > Ttl

(* The panel shows a value of p as if it were current.  A bar's percentage  *)
(* is never dimmed, but the bar behind it is.                               *)
LooksCurrent(p) ==
  /\ panel \notin {Native, Torn, Picture}
  /\ \E c \in Cell : \E i \in DOMAIN panel[c] :
       /\ panel[c][i].value \in Reads[p]
       /\ panel[c][i].what \in {"text", "bar", "arc", "timer"}
       /\ ~panel[c][i].dim

(* docs/SOURCES.md: a reading past its time to live is shown dimmed.  A     *)
(* number that has stopped being updated does not stay on the panel looking *)
(* current.                                                                 *)
StaleMarked == \A p \in Point : IsOld(p) /\ LooksCurrent(p) ~> ~IsOld(p) \/ ~LooksCurrent(p)

(* "The rendered pixels are stable between steps -- that is what lets the   *)
(* write governor skip the upload" (format_clock): time alone changes what  *)
(* is composed only when a clock comes to a multiple of its step or to the  *)
(* hour, when what is left on a timer is a whole number of its steps, or    *)
(* when a reading turns stale.                                              *)
StableBetweenSteps ==
  LET next == (minute + 1) % Hour
      ends(w, k) ==
        \/ w.type = "clock" /\ next \in {0, k * Max({w.every, 1})}
        \/ w.type = "timer" /\ k > 0 /\ Resolve(w.bind, store).left = k * Max({w.every, 1})
      step == \E i \in DOMAIN layout :
                layout[i].widget # None /\ \E k \in 0..(Hour + Ahead) : ends(layout[i].widget, k)
      turns == \E p \in Point :
                 ~IsOld(p) /\ store[p] # None /\ store[p].age # None /\ store[p].age + 1 > Ttl
  IN ~step /\ ~turns =>
       Compose(layout, Aged(store), next) = Compose(layout, store, minute)

(* docs/MCP.md: "uploaded always means bytes reached the panel".  An answer *)
(* that says so is given when the panel shows the image composed, or the    *)
(* picture; without it, or a device error, no request touches the panel;    *)
(* and a clear that was not refused leaves no ink, whoever else wrote.      *)
AnswersTrue ==
  /\ [](answer # None /\ answer.uploaded => panel \in {Picture, Compose(layout, store, minute)})
  /\ [][/\ panel' # panel => answer'.uploaded \/ answer'.reason = "device_error"
        /\ clearing # None /\ clearing' = None /\ answer'.reason \in {"upload", "unchanged"} =>
             panel' = Plain]_vars

(* A text that is `width' cells wide has room in h rows of w cells.          *)
Room(width, w, h, preferred) ==
  width <= w /\ Scale(width, w, preferred) * LineHeight <= h

(* The text that w may have to draw, in slot r, does not leave it: neither   *)
(* wider than the slot nor, in the size that fit_scale takes for its width,  *)
(* higher; a timer's label leaves rows for the time; and a gauge is large    *)
(* enough for its arc.  Lint looks for none of this.                         *)
TextFits(w, r) ==
  LET values(bind) == IF bind \in Point THEN Reads[bind] \cup {None} ELSE {bind}
      times == IF w.label = None THEN r.h ELSE r.h - (LineHeight + 1)
  IN CASE w.type = "label" -> \A v \in values(w.bind) : Room(TextWidth[v], r.w, r.h, w.size)
       [] w.type = "clock" -> \A m \in 0..(Hour - 1) : Room(w.wide[m], r.w, r.h, w.size)
       [] w.type = "bar"   ->
            /\ LabelAbove(w, r) => \A v \in values(w.label) : TextWidth[v] <= r.w
            /\ w.show => \A v \in values(w.bind) \cup {0} : PercentWidth[v] <= r.w
       [] w.type = "gauge" ->
            /\ \A v \in values(w.bind) \cup {w.min} : Room(w.wide[v], r.w, r.h, 1)
            /\ r.w >= GaugeSide /\ r.h >= GaugeSide
       [] w.type = "timer" ->
            /\ w.label # None => w.label <= r.w /\ LineHeight <= r.h
            /\ \A n \in {w.wide[m] : m \in 0..Ahead} \cup {TextWidth[None]} : Room(n, r.w, times, 2)
       [] w.type = "image" -> ~w.loads => Room(NoteWidth, r.w, r.h, 1)
       [] OTHER            -> TRUE

TextsFit(l) == \A i \in DOMAIN l : l[i].widget # None => TextFits(l[i].widget, l[i].rect)

(* Nor for sums past u32, where a release build wraps. *)
NoneWraps(l) ==
  \A i \in DOMAIN l : l[i].rect.x + l[i].rect.w < Wrap /\ l[i].rect.y + l[i].rect.h < Wrap

(* Layout::lint: "a silent overlap is a common cause of `my widget          *)
(* disappeared'".  A layout that lint has nothing to say of is shown as it  *)
(* is declared: no slot is cut off, none is drawn over by another, and each *)
(* can be reached by its name; if its texts have room in their slots, and   *)
(* its numbers do not wrap.                                                 *)
LintedIsShown ==
  LET image == Compose(layout, store, minute)
      alone(i) == Compose(<<layout[i]>>, store, minute)
  IN Lint(layout) = {} /\ TextsFit(layout) /\ NoneWraps(layout) =>
       \A i \in DOMAIN layout :
         LET cells == CellsOf(layout[i].rect)
         IN /\ SlotNamed(layout, layout[i].id) = {i}
            /\ cells \subseteq Cell
            /\ Restrict(image, cells) = Restrict(alone(i), cells)
=============================================================================
