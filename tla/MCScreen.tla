----------------------------- MODULE MCScreen -----------------------------
(* TLC instance of Screen: two by five cells, a line two rows high, an hour *)
(* of three minutes.  The reading is a number or a deadline.                *)
EXTENDS Screen

CONSTANT a

MCReads == [p \in {a} |-> {1, 2}]

(* The literal 7 is two cells wide. *)
MCTextWidth == [v \in {0, 1, 2, 7, None} |-> IF v = 7 THEN 2 ELSE 1]

MCPercentWidth == [v \in {0, 1, 2, 7, None} |-> 1]

Column(x, w) == [x |-> x, y |-> 0, w |-> w, h |-> 5]

Box(x, y, h) == [x |-> x, y |-> y, w |-> 1, h |-> h]

(* A clock whose text is wider at one time of the hour than at another.     *)
Time(size, longest) ==
  Clock(2, size, "right", [m \in 0..2 |-> IF m = 2 THEN longest ELSE 1])

Timer(bind) == ResetTimer(bind, 1, 2, [m \in 0..2 |-> 1])

Clean == <<Slot("l", Column(0, 1), Label(a, 1, "left")), Slot("r", Column(1, 1), Time(2, 1))>>

(* Lint has nothing to say of the first three.  In the third, a timer has   *)
(* no row for its time and a clock is at times too wide for its slot, so    *)
(* that both are drawn over the image's.  The others have one problem each: *)
(* an overlap, a slot past the panel, a name used twice.                    *)
MCFiles ==
  {Clean,
   <<Slot("l", Column(0, 1), Timer(a)), Slot("r", Column(1, 1), Image(FALSE))>>,
   <<Slot("l", Box(0, 0, 1), Timer(7)), Slot("i", Box(0, 3, 2), Image(FALSE)),
     Slot("c", Box(1, 3, 2), Time(1, 2))>>,
   <<Slot("l", Column(0, 2), Gauge(7, 0, [v \in {0, 1, 2, 7, None} |-> 1])),
     Slot("c", Column(1, 1), Fill)>>,
   <<Slot("l", Column(1, 2), Label(7, 2, "center"))>>,
   <<Slot("l", Column(0, 1), Image(TRUE)), Slot("l", Column(1, 1), Sparkline(2))>>}

MCLayouts == {Clean}

MCWidgets == {ProgressBar(a, a, TRUE)}
===========================================================================
