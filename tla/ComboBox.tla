------------------------------- MODULE ComboBox -------------------------------
(***************************************************************************)
(* The box in which the metric is chosen (ComboBox.js, and its ties to the *)
(* page in IRVController.js): the user types, the list of the metrics that *)
(* contain the text follows with a delay, a single match is completed and  *)
(* chosen at once, and the metrics offered are asked for anew whenever the *)
(* text gains the focus, their answers coming at any time.                 *)
(*                                                                         *)
(* A keyup starts a loop that waits until no key has gone down for 100 ms  *)
(* and compares the text with the one before the last key.                 *)
(***************************************************************************)
EXTENDS Sequences, SequencesExt, Integers

CONSTANTS
  Catalogue,     \* the sequence of all metrics, in the order the page lists them
  Typed,         \* the other texts that the user types, "" among them
  Starts,        \* what each text is the beginning of
  Within,        \* what each text is found in
  Offers,        \* the sets of metrics that the server may offer
  None,
  MaxLoops,      \* bound of the loops under way
  MaxRequests    \* bound of the requests under way

Metrics == ToSet(Catalogue)
Texts == Typed \cup Metrics

ASSUME ComboAssumption ==
  /\ Catalogue \in Seq(Metrics)
  /\ "" \in Typed /\ Typed \cap Metrics = {} /\ None \notin Texts
  /\ Starts \in [Texts -> SUBSET Metrics] /\ Within \in [Texts -> SUBSET Metrics]
  /\ \A t \in Texts : Starts[t] \subseteq Within[t]
  /\ \A m \in Metrics : m \in Starts[m]
  /\ Starts[""] = Metrics
  /\ Offers \subseteq SUBSET Metrics
  /\ MaxLoops \in Nat /\ MaxRequests \in Nat

VARIABLE b     \* the box, the model's selectedMetric, and the requests under way

Choice == Metrics \cup {None}
Box ==
  [metric : Texts, asked : 0..MaxRequests, options : Offers,
   text : Texts, prev : Texts, past : Choice, value : Choice,
   list : SUBSET Metrics, all : BOOLEAN, shown : BOOLEAN, lit : Choice,
   tinted : BOOLEAN, drop : BOOLEAN, loose : BOOLEAN,
   down : BOOLEAN, loops : 0..MaxLoops, focused : BOOLEAN, edited : BOOLEAN]

\* a list is in the order of the catalogue
Position(m) == CHOOSE i \in DOMAIN Catalogue : Catalogue[i] = m
Distance(m, p) == IF Position(m) > p THEN Position(m) - p ELSE p - Position(m)
Nearest(S, p) == CHOOSE m \in S : \A n \in S : Distance(m, p) <= Distance(n, p)
Top(S) == Nearest(S, 0)

Init ==
  \E S \in Offers :
    b = [metric |-> "", asked |-> 0, options |-> S,
         text |-> "", prev |-> "", past |-> None, value |-> None,
         list |-> {}, all |-> FALSE, shown |-> FALSE, lit |-> None,
         tinted |-> FALSE, drop |-> FALSE, loose |-> FALSE,
         down |-> FALSE, loops |-> 0, focused |-> FALSE, edited |-> FALSE]
------------------------------------------------------------------------------
(* The model and the box. *)

\* the metrics are asked for on focus
Focused(x) ==
  [x EXCEPT !.focused = TRUE, !.asked = IF ~x.focused /\ @ < MaxRequests THEN @ + 1 ELSE @]

\* a new metric: the box shows it, and in a colour if it is not offered
Select(x, m) ==
  IF m = x.metric THEN x
  ELSE [x EXCEPT !.metric = m, !.text = m, !.edited = FALSE, !.tinted = m # "" /\ m \notin x.options]

\* the lit option becomes the text, its completion is marked, which takes the
\* focus, and it becomes the metric unless nothing has changed
Fires(x) == x.lit # x.prev \/ x.shown
SelectOption(x) ==
  LET marks == x.past # x.text /\ ~x.loose
      y == [x EXCEPT !.text = x.lit, !.value = x.lit, !.tinted = FALSE, !.edited = FALSE]
      z == IF marks THEN [Focused(y) EXCEPT !.past = x.lit] ELSE y
  IN IF Fires(x) THEN Select(z, x.lit) ELSE z
Hide(x) == [x EXCEPT !.shown = FALSE]

Exposed(x) == x.options \cap Within[x.text]
Update(x) == [x EXCEPT !.loose = Exposed(x) \ Starts[x.text] # {}]

\* Mutant: an option that was lit remains so
BuildKeepsLit(x, S, all) ==
  LET y == [x EXCEPT !.list = S, !.all = all]
      open == x.drop \/ x.loose \/ \A m \in S : S # {m}
  IN CASE S = {} /\ x.text = "" -> [y EXCEPT !.tinted = TRUE]
       [] S = {} /\ x.text # "" -> [Hide(y) EXCEPT !.lit = None, !.tinted = TRUE]
       [] OTHER -> [y EXCEPT !.shown = @ \/ open, !.tinted = @ \/ open, !.lit = IF @ = None THEN Top(S) ELSE @]
Build(x, S, all) ==
  LET y == [x EXCEPT !.list = S, !.all = all]
      open == x.drop \/ x.loose \/ \A m \in S : S # {m}
  IN CASE S = {} /\ x.text = "" -> [y EXCEPT !.tinted = TRUE]
       [] S = {} /\ x.text # "" -> [Hide(y) EXCEPT !.lit = None, !.tinted = TRUE]
       [] OTHER -> [y EXCEPT !.shown = @ \/ open, !.tinted = @ \/ open, !.lit = Top(S)]

\* the single match of the text is chosen at once
BuildExposed(x) ==
  LET y == Build(Update(x), Exposed(x), FALSE)
  IN IF (\E m \in y.list : y.list = {m}) /\ ~y.drop /\ ~y.loose THEN SelectOption(y) ELSE y

\* the whole list, on the option that is the text
BuildAll(x) ==
  [Build(Update([x EXCEPT !.drop = TRUE]), x.options, TRUE)
     EXCEPT !.lit = IF x.text \in x.options THEN x.text ELSE @]
OpenList(x) == Focused(BuildAll(x))

\* the browser's change event, of a text that was edited
Change(x) == IF x.edited THEN Select([x EXCEPT !.edited = FALSE], x.text) ELSE x
Leave(x) == Change([x EXCEPT !.focused = FALSE])
------------------------------------------------------------------------------
(* The keys. *)

KeyDown == [b EXCEPT !.prev = b.text, !.drop = FALSE, !.down = TRUE]

Type ==
  /\ b.focused
  /\ \E t \in Texts \ {b.text}, erasing \in BOOLEAN :
       b' = [KeyDown EXCEPT !.text = t, !.edited = TRUE, !.drop = erasing]
OtherKey == b.focused /\ b' = KeyDown

\* without a lit option in the list it throws, to no effect
Beyond(x, d) == {m \in x.list : d * (Position(m) - Position(x.lit)) > 0}
Step(x, d) ==
  IF x.lit \in x.list /\ Beyond(x, d) # {}
  THEN [x EXCEPT !.lit = Nearest(Beyond(x, d), Position(x.lit))] ELSE x
Up == b.focused /\ b' = Step(KeyDown, -1)
Down == b.focused /\ b' = IF b.shown THEN Step(KeyDown, 1) ELSE OpenList(KeyDown)
Escape == b.focused /\ b' = Hide(KeyDown)

Picks == b.shown /\ b.lit # None
Enter ==
  /\ b.focused
  /\ b' = CASE Picks -> Hide(SelectOption(KeyDown))
            [] ~Picks /\ b.tinted -> KeyDown
            [] ~Picks /\ ~b.tinted -> Change(KeyDown)
Tab == b.focused /\ b' = IF Picks THEN Hide(SelectOption(KeyDown)) ELSE Leave(KeyDown)

Compare(x) == IF x.prev # x.text THEN BuildExposed(x) ELSE x
KeyUp ==
  /\ b.focused
  /\ \/ b.down /\ b.loops < MaxLoops /\ b' = [b EXCEPT !.down = FALSE, !.loops = @ + 1]
     \/ ~b.down /\ b' = Compare(b)
\* the delay of one loop has passed
Loop ==
  /\ b.loops > 0
  /\ b' = IF b.down THEN [b EXCEPT !.down = FALSE] ELSE Compare([b EXCEPT !.loops = @ - 1])
------------------------------------------------------------------------------
(* The mouse, and the rest of the page. A mouse button that goes down over
   the list or its button gives the focus to the text, and the browser then
   takes it away. *)

Focus == ~b.focused /\ b' = Focused(b)
Blur == b.focused /\ b' = Leave(b)
Press == ~b.focused /\ b' = Leave(Focused(b))
MouseDownElsewhere == (b.shown \/ b.focused) /\ b' = Leave(Hide(b))
Hover == b.shown /\ \E m \in b.list \cup {None} : b' = [b EXCEPT !.lit = m]
Click ==
  /\ b.shown /\ ~b.focused
  /\ \E m \in b.list : b' = Hide(SelectOption([b EXCEPT !.lit = m, !.loose = TRUE]))
Toggle == ~b.focused /\ b' = IF b.shown THEN [Hide(b) EXCEPT !.drop = TRUE] ELSE OpenList(b)

\* a preset, or the link that clears the metric
SelectElsewhere == ~b.focused /\ \E m \in Metrics \cup {""} : m # b.metric /\ b' = Select(b, m)

\* Mutant: a list that is filtered stays as it is
UpdateWholeListOnly(x) == IF x.shown /\ x.all THEN BuildAll(x) ELSE x
UpdateDataIds(x) ==
  CASE ~x.shown -> x
    [] x.shown /\ x.all -> BuildAll(x)
    [] x.shown /\ ~x.all -> BuildExposed(x)
\* the answer of a request, told to the box only when it is news
Answer ==
  /\ b.asked > 0
  /\ \E S \in Offers :
       LET x == [b EXCEPT !.asked = @ - 1, !.options = S]
       IN b' = IF S = b.options THEN x ELSE UpdateDataIds(x)

Next ==
  \/ Type \/ OtherKey \/ Up \/ Down \/ Escape \/ Enter \/ Tab \/ KeyUp \/ Loop
  \/ Focus \/ Blur \/ Press \/ MouseDownElsewhere \/ Hover \/ Click \/ Toggle
  \/ SelectElsewhere \/ Answer

Spec == Init /\ [][Next]_b
------------------------------------------------------------------------------
(* The texts, the options and the bounds. *)
TypeOK == b \in Box

(* A list that is shown offers nothing that the server has withdrawn, and
   once the loops have run it holds the metrics that match what the user has
   typed, whatever the answers, the blurs and the reopenings in between.
   Excepted is a text whose last key changed nothing: an arrow key that goes
   down within the delay of a letter makes the loop miss the letter
   (ComboBox.js:101 overwrites what :146 compares with). *)
FilterFollows ==
  /\ b.shown => b.list \subseteq b.options
  /\ b.shown /\ ~b.all /\ b.loops = 0 /\ ~b.down /\ b.edited /\ b.prev # b.text
       => b.list = Exposed(b)

(* The list is in step with the text and with the server. *)
Safety == TypeOK /\ FilterFollows

(* A metric that a key, a click or a completion chooses is one that the
   server still offers. Excepted is the server that offers none: the list is
   emptied and stays open, and its last lit option can still be entered
   (ComboBox.js:230-232). *)
ChosenIsOffered == [][b'.value # b.value /\ b'.options # {} => b'.value \in b'.options]_b
==============================================================================
