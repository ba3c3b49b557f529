---------------------------- MODULE ComboBoxProofs ----------------------------
(***************************************************************************)
(* Theorems about ComboBox, for every catalogue, every typing of the user  *)
(* and every sets of metrics that the server may offer.                    *)
(***************************************************************************)
EXTENDS ComboBox, TLAPS, WellFoundedInduction

(* What is shown, and what is lit in it, is offered by the server, which    *)
(* may offer nothing at all.                                               *)
ListIsOffered(x) == x.shown => x.list \subseteq x.options
LitIsOffered(x) == x.shown /\ x.lit # None => x.lit \in x.options \/ x.options = {}
Well(x) == x \in Box /\ ListIsOffered(x) /\ LitIsOffered(x)

(* The list of a text that was edited holds what matches it, once no loop   *)
(* is left to see to it.                                                   *)
Follows(x) ==
  x.shown /\ ~x.all /\ x.loops = 0 /\ ~x.down /\ x.edited /\ x.prev # x.text
    => x.list = Exposed(x)

ComboInv == Well(b) /\ Follows(b)

(* A choice is one of what is offered. *)
Chosen(x, y) == y.value = x.value \/ y.options = {} \/ y.value \in y.options

(* What does not touch the list. *)
Alike(x, y) ==
  /\ y \in Box
  /\ y.options = x.options /\ y.list = x.list /\ y.all = x.all /\ y.shown = x.shown
  /\ y.lit = x.lit /\ y.loops = x.loops /\ y.down = x.down /\ y.prev = x.prev
  /\ y.edited => x.edited /\ y.text = x.text

LEMMA Known ==
  /\ "" \in Texts /\ Metrics \subseteq Texts
  /\ None \notin Texts
  /\ Starts \in [Texts -> SUBSET Metrics] /\ Within \in [Texts -> SUBSET Metrics]
  /\ Within[""] = Metrics
  /\ Offers \subseteq SUBSET Metrics
  /\ MaxLoops \in Nat /\ MaxRequests \in Nat
<1>1. /\ "" \in Typed /\ None \notin Texts
      /\ Starts \in [Texts -> SUBSET Metrics] /\ Within \in [Texts -> SUBSET Metrics]
      /\ \A t \in Texts : Starts[t] \subseteq Within[t]
      /\ Starts[""] = Metrics
      /\ Offers \subseteq SUBSET Metrics
      /\ MaxLoops \in Nat /\ MaxRequests \in Nat
  BY ComboAssumption, Zenon
<1>2. "" \in Texts /\ Metrics \subseteq Texts
  BY <1>1, Zenon DEF Texts
<1>3. Within[""] \subseteq Metrics /\ Metrics \subseteq Within[""]
  BY <1>1, <1>2
<1>. QED BY <1>1, <1>2, <1>3

LEMMA Positions == \A m \in Metrics : Position(m) \in Nat
<1>1. DOMAIN Catalogue \subseteq Nat
  <2>1. Catalogue \in Seq(Metrics)
    BY ComboAssumption, Zenon
  <2>. QED BY <2>1
<1>2. Metrics = {Catalogue[i] : i \in DOMAIN Catalogue}
  BY DEF Metrics, ToSet
<1>3. ASSUME NEW m \in Metrics
      PROVE  Position(m) \in DOMAIN Catalogue
  BY <1>2, <1>3, Zenon DEF Position
<1>. QED BY <1>1, <1>3

(* The metric of a set that is nearest to a place is one of the set. *)
LEMMA NearestIs ==
  ASSUME NEW S, S \subseteq Metrics, S # {}, NEW p \in Int
  PROVE  Nearest(S, p) \in S
<1>1. \A m \in S : Distance(m, p) \in Nat
  BY Positions DEF Distance
<1>2. PICK R : IsWellFoundedOn(R, Nat) /\ \A i, j \in Nat : j < i => <<j, i>> \in R
  <2>. DEFINE R == OpToRel(<, Nat)
  <2>1. IsWellFoundedOn(R, Nat)
    BY NatLessThanWellFounded
  <2>2. \A i, j \in Nat : j < i => <<j, i>> \in R
    BY DEF OpToRel
  <2>. QED BY <2>1, <2>2
<1>3. PICK D : D = {Distance(m, p) : m \in S}
  OBVIOUS
<1>4. D \subseteq Nat /\ D # {}
  BY <1>1, <1>3
<1>5. PICK d \in D : \A c \in D : ~ <<c, d>> \in R
  BY <1>2, <1>4, WFMin
<1>6. \A c \in D : d <= c
  <2>1. ASSUME NEW c \in D, ~ d <= c PROVE FALSE
    <3>1. c \in Nat /\ d \in Nat /\ c < d
      BY <1>4, <2>1
    <3>. QED BY <1>2, <1>5, <2>1, <3>1
  <2>. QED BY <2>1
<1>7. PICK m \in S : \A n \in S : Distance(m, p) <= Distance(n, p)
  BY <1>3, <1>6
<1>. QED BY <1>7, Zenon DEF Nearest

LEMMA TopIs ==
  ASSUME NEW S, S \subseteq Metrics, S # {}
  PROVE  Top(S) \in S
BY NearestIs DEF Top

LEMMA ExposedIs ==
  ASSUME NEW x \in Box
  PROVE  /\ x.options \subseteq Metrics /\ Exposed(x) \subseteq x.options
         /\ x.text = "" => Exposed(x) = x.options
<1>1. x.options \in Offers
  BY DEF Box
<1>. QED BY <1>1, Known DEF Exposed

LEMMA AlikeKeeps ==
  ASSUME NEW x, NEW y, Well(x), Alike(x, y)
  PROVE  Well(y) /\ (Follows(x) => Follows(y))
BY DEF Well, Alike, ListIsOffered, LitIsOffered, Follows, Exposed

LEMMA FocusedAlike ==
  ASSUME NEW x \in Box
  PROVE  Alike(x, Focused(x)) /\ Focused(x).value = x.value /\ Focused(x).text = x.text
         /\ Focused(x).metric = x.metric /\ Focused(x).edited = x.edited
<1>1. x.asked < MaxRequests => x.asked + 1 \in 0..MaxRequests
  <2>1. x.asked \in 0..MaxRequests
    BY DEF Box
  <2>2. MaxRequests \in Nat
    BY Known
  <2>. QED BY ONLY <2>1, <2>2
<1>. QED BY <1>1 DEF Alike, Focused, Box

LEMMA SelectAlike ==
  ASSUME NEW x \in Box, NEW m \in Texts
  PROVE  Alike(x, Select(x, m)) /\ Select(x, m).value = x.value
BY DEF Alike, Select, Box

LEMMA SelectOptionAlike ==
  ASSUME NEW x \in Box, x.lit \in Metrics
  PROVE  /\ Alike(x, SelectOption(x)) /\ ~SelectOption(x).edited
         /\ SelectOption(x).value = x.lit
<1>0. x.lit \in Texts /\ x.lit \in Choice
  BY Known DEF Choice
<1>1. PICK y : y = [x EXCEPT !.text = x.lit, !.value = x.lit, !.tinted = FALSE, !.edited = FALSE]
  OBVIOUS
<1>2. Alike(x, y) /\ y.value = x.lit /\ ~y.edited /\ y \in Box
  BY <1>0, <1>1 DEF Alike, Box
<1>3. PICK z : z = IF x.past # x.text /\ ~x.loose THEN [Focused(y) EXCEPT !.past = x.lit] ELSE y
  OBVIOUS
<1>4. Alike(x, z) /\ z.value = x.lit /\ ~z.edited /\ z \in Box
  <2>1. Alike(y, Focused(y)) /\ Focused(y).value = x.lit /\ ~Focused(y).edited
    BY <1>2, FocusedAlike
  <2>2. Alike(x, Focused(y))
    BY <1>2, <2>1 DEF Alike
  <2>3. ASSUME NEW w, Alike(x, w), w.value = x.lit, ~w.edited
        PROVE  Alike(x, [w EXCEPT !.past = x.lit]) /\ [w EXCEPT !.past = x.lit].value = x.lit
               /\ ~[w EXCEPT !.past = x.lit].edited /\ [w EXCEPT !.past = x.lit] \in Box
    BY <1>0, <2>3 DEF Alike, Box
  <2>. QED BY <1>2, <1>3, <2>1, <2>2, <2>3
<1>5. SelectOption(x) = IF Fires(x) THEN Select(z, x.lit) ELSE z
  BY <1>1, <1>3 DEF SelectOption
<1>6. Alike(z, Select(z, x.lit)) /\ Select(z, x.lit).value = z.value
  BY <1>0, <1>4, SelectAlike
<1>7. Alike(x, Select(z, x.lit)) /\ ~Select(z, x.lit).edited
  BY <1>4, <1>6 DEF Alike
<1>. QED BY <1>4, <1>5, <1>6, <1>7

(* A list that is built anew. *)
BuiltOf(x, y, S, all) ==
  /\ y.options = x.options /\ y.list = S /\ y.all = all /\ y.text = x.text /\ y.prev = x.prev
  /\ y.loops = x.loops /\ y.down = x.down /\ y.edited = x.edited /\ y.value = x.value
  /\ y.drop = x.drop /\ y.loose = x.loose
Built(x, y, S, all) == Well(y) /\ BuiltOf(x, y, S, all) /\ (S # {} => y.lit \in S)

LEMMA BuildBuilds ==
  ASSUME NEW x \in Box, NEW S, S \subseteq x.options, NEW all \in BOOLEAN,
         x.text = "" /\ S = {} => x.options = {}
  PROVE  Built(x, Build(x, S, all), S, all)
<1>1. x.options \subseteq Metrics
  BY ExposedIs
<1>2. PICK y : y = [x EXCEPT !.list = S, !.all = all]
  OBVIOUS
<1>3. y \in Box
  BY <1>1, <1>2 DEF Box
<1>4. ASSUME S = {}, x.text = ""
      PROVE  Built(x, Build(x, S, all), S, all)
  <2>1. Build(x, S, all) = [y EXCEPT !.tinted = TRUE]
    BY <1>2, <1>4 DEF Build
  <2>. HIDE DEF Build
  <2>2. PICK z : z = Build(x, S, all)
    OBVIOUS
  <2>3. z \in Box
    BY <1>3, <2>1, <2>2 DEF Box
  <2>4. BuiltOf(x, z, S, all)
    BY <1>2, <2>1, <2>2 DEF BuiltOf, Box
  <2>5. Built(x, z, S, all)
    BY <1>4, <2>3, <2>4 DEF Built, BuiltOf, Well, ListIsOffered, LitIsOffered
  <2>. QED BY <2>2, <2>5
<1>5. ASSUME S = {}, x.text # ""
      PROVE  Built(x, Build(x, S, all), S, all)
  <2>1. Build(x, S, all) = [Hide(y) EXCEPT !.lit = None, !.tinted = TRUE]
    BY <1>2, <1>5 DEF Build
  <2>2. PICK z : z = Build(x, S, all)
    OBVIOUS
  <2>3. z \in Box
    BY <1>3, <2>1, <2>2 DEF Box, Hide, Choice
  <2>4. BuiltOf(x, z, S, all) /\ ~z.shown
    BY <1>2, <2>1, <2>2 DEF BuiltOf, Box, Hide
  <2>5. Built(x, z, S, all)
    BY <1>5, <2>3, <2>4 DEF Built, Well, ListIsOffered, LitIsOffered
  <2>. QED BY <2>2, <2>5
<1>6. ASSUME S # {}
      PROVE  Built(x, Build(x, S, all), S, all)
  <2>1. PICK open \in BOOLEAN :
           Build(x, S, all) = [y EXCEPT !.shown = y.shown \/ open, !.tinted = y.tinted \/ open,
                                        !.lit = Top(S)]
    BY <1>2, <1>6 DEF Build
  <2>2. Top(S) \in S /\ Top(S) \in Choice
    BY <1>1, <1>6, TopIs DEF Choice
  <2>3. PICK z : z = Build(x, S, all)
    OBVIOUS
  <2>4. z \in Box
    BY <1>3, <2>1, <2>2, <2>3 DEF Box
  <2>5. BuiltOf(x, z, S, all) /\ z.lit \in S
    BY <1>2, <2>1, <2>2, <2>3 DEF BuiltOf, Box
  <2>6. Built(x, z, S, all)
    BY <2>4, <2>5 DEF Built, BuiltOf, Well, ListIsOffered, LitIsOffered
  <2>. QED BY <2>3, <2>6
<1>. QED BY <1>4, <1>5, <1>6

LEMMA UpdateIs ==
  ASSUME NEW x \in Box
  PROVE  /\ Update(x) \in Box
         /\ \E d \in BOOLEAN : Update(x) = [x EXCEPT !.loose = d]
BY DEF Update, Box

(* The box after the list has followed the text. *)
Followed(x, y) ==
  /\ Well(y) /\ y.options = x.options /\ y.loops = x.loops /\ y.down = x.down
  /\ y.edited => y.list = Exposed(y)
  /\ y.value = x.value \/ y.value \in y.options

LEMMA BuildExposedFollows ==
  ASSUME NEW x \in Box
  PROVE  Followed(x, BuildExposed(x))
<1>1. PICK u : u = Update(x)
  OBVIOUS
<1>2. /\ u \in Box /\ u.options = x.options /\ u.text = x.text /\ u.loops = x.loops
      /\ u.down = x.down /\ u.value = x.value
  BY <1>1, UpdateIs DEF Box
<1>3. PICK S : S = Exposed(x)
  OBVIOUS
<1>4. S \subseteq x.options /\ (x.text = "" => S = x.options) /\ x.options \subseteq Metrics
  BY <1>3, ExposedIs
<1>5. PICK y : y = Build(u, S, FALSE)
  OBVIOUS
<1>6. Built(u, y, S, FALSE)
  BY <1>2, <1>4, <1>5, BuildBuilds
<1>7. /\ Well(y) /\ y \in Box /\ y.options = x.options /\ y.list = S /\ y.text = x.text
      /\ y.loops = x.loops /\ y.down = x.down /\ y.value = x.value
      /\ S # {} => y.lit \in S
  BY <1>2, <1>6 DEF Built, BuiltOf, Well
<1>8. S = Exposed(y)
  BY <1>3, <1>7 DEF Exposed
<1>9. Followed(x, y)
  BY <1>7, <1>8 DEF Followed
<1>10. ASSUME NEW m \in y.list, y.list = {m}
       PROVE  Followed(x, SelectOption(y))
  <2>1. y.lit \in y.options /\ y.lit \in Metrics
    BY <1>4, <1>7, <1>10
  <2>2. PICK z : z = SelectOption(y)
    OBVIOUS
  <2>3. Alike(y, z) /\ ~z.edited /\ z.value = y.lit
    BY <1>7, <2>1, <2>2, SelectOptionAlike
  <2>4. Well(z)
    BY <1>7, <2>3, AlikeKeeps
  <2>5. Followed(x, z)
    BY <1>7, <2>1, <2>3, <2>4 DEF Followed, Alike
  <2>. QED BY <2>2, <2>5
<1>11. \/ BuildExposed(x) = y
       \/ \E m \in y.list : y.list = {m} /\ BuildExposed(x) = SelectOption(y)
  BY <1>1, <1>3, <1>5 DEF BuildExposed
<1>. QED BY <1>9, <1>10, <1>11

(* The box after the whole list has been opened. *)
Opened(x, y) ==
  /\ Well(y) /\ y.options = x.options /\ y.all /\ y.value = x.value

LEMMA BuildAllOpens ==
  ASSUME NEW x \in Box
  PROVE  Opened(x, BuildAll(x)) /\ Opened(x, OpenList(x))
<1>1. PICK w : w = [x EXCEPT !.drop = TRUE]
  OBVIOUS
<1>2. w \in Box /\ w.options = x.options /\ w.text = x.text /\ w.value = x.value
  BY <1>1 DEF Box
<1>3. PICK u : u = Update(w)
  OBVIOUS
<1>4. u \in Box /\ u.options = x.options /\ u.text = x.text /\ u.value = x.value
  BY <1>2, <1>3, UpdateIs DEF Box
<1>5. PICK y : y = Build(u, x.options, TRUE)
  OBVIOUS
<1>6. Built(u, y, x.options, TRUE)
  BY <1>4, <1>5, BuildBuilds
<1>7. Opened(x, y) /\ y \in Box
  BY <1>4, <1>6 DEF Opened, Built, BuiltOf, Well
<1>8. PICK z : z = [y EXCEPT !.lit = IF x.text \in x.options THEN x.text ELSE y.lit]
  OBVIOUS
<1>9. z = BuildAll(x)
  BY <1>1, <1>3, <1>5, <1>8 DEF BuildAll
<1>10. Opened(x, z) /\ z \in Box
  <2>1. x.options \subseteq Metrics
    BY ExposedIs
  <2>2. z \in Box
    BY <1>7, <1>8, <2>1 DEF Box, Choice
  <2>3. /\ z.options = y.options /\ z.list = y.list /\ z.shown = y.shown /\ z.all = y.all
        /\ z.value = y.value
        /\ z.lit = y.lit \/ z.lit \in x.options
    BY <1>7, <1>8 DEF Box
  <2>4. Well(z)
    BY <1>7, <2>2, <2>3 DEF Opened, Well, ListIsOffered, LitIsOffered
  <2>. QED BY <1>7, <2>2, <2>3, <2>4 DEF Opened
<1>11. Opened(x, Focused(z))
  <2>1. Alike(z, Focused(z)) /\ Focused(z).value = z.value
    BY <1>10, FocusedAlike
  <2>2. Well(Focused(z))
    BY <1>10, <2>1, AlikeKeeps DEF Opened
  <2>. QED BY <1>10, <2>1, <2>2 DEF Opened, Alike
<1>. QED BY <1>9, <1>10, <1>11 DEF OpenList

LEMMA ChangeAlike ==
  ASSUME NEW x \in Box
  PROVE  Alike(x, Change(x)) /\ Change(x).value = x.value
<1>1. PICK y : y = [x EXCEPT !.edited = FALSE]
  OBVIOUS
<1>2. Alike(x, y) /\ y \in Box /\ y.value = x.value /\ x.text \in Texts /\ ~y.edited
  BY <1>1 DEF Alike, Box
<1>3. Alike(y, Select(y, x.text)) /\ Select(y, x.text).value = x.value
  BY <1>2, SelectAlike
<1>4. Alike(x, Select(y, x.text))
  BY <1>2, <1>3 DEF Alike
<1>5. Alike(x, x)
  BY DEF Alike
<1>. QED BY <1>1, <1>3, <1>4, <1>5 DEF Change

LEMMA LeaveAlike ==
  ASSUME NEW x \in Box
  PROVE  Alike(x, Leave(x)) /\ Leave(x).value = x.value
<1>1. PICK y : y = [x EXCEPT !.focused = FALSE]
  OBVIOUS
<1>2. Alike(x, y) /\ y \in Box /\ y.value = x.value
  BY <1>1 DEF Alike, Box
<1>3. Alike(y, Change(y)) /\ Change(y).value = x.value
  BY <1>2, ChangeAlike
<1>4. Alike(x, Change(y))
  BY <1>2, <1>3 DEF Alike
<1>. QED BY <1>1, <1>3, <1>4 DEF Leave

LEMMA HideKeeps ==
  ASSUME NEW x, x \in Box
  PROVE  /\ Well(Hide(x)) /\ Follows(Hide(x)) /\ Hide(x).value = x.value
         /\ Hide(x).options = x.options /\ Hide(x).loops = x.loops /\ ~Hide(x).shown
         /\ Hide(x).text = x.text
BY DEF Hide, Box, Well, ListIsOffered, LitIsOffered, Follows

(* A key that goes down begins a comparison, whatever follows. *)
LEMMA KeyDownIs ==
  ASSUME Well(b)
  PROVE  /\ Well(KeyDown) /\ KeyDown \in Box /\ KeyDown.value = b.value /\ KeyDown.down
         /\ KeyDown.lit = b.lit /\ KeyDown.shown = b.shown /\ KeyDown.list = b.list
         /\ KeyDown.options = b.options
<1>1. PICK y : y = KeyDown
  OBVIOUS
<1>2. /\ y \in Box /\ y.value = b.value /\ y.down /\ y.lit = b.lit /\ y.shown = b.shown
      /\ y.list = b.list /\ y.options = b.options
  BY <1>1 DEF KeyDown, Well, Box
<1>3. Well(y)
  BY <1>2 DEF Well, ListIsOffered, LitIsOffered
<1>. QED BY <1>1, <1>2, <1>3

(* What a step promises. *)
Kept(x, y) == Well(y) /\ Follows(y) /\ Chosen(x, y)

LEMMA AlikeKept ==
  ASSUME NEW x, NEW y, Well(x), Alike(x, y), y.value = x.value, x.down \/ Follows(x)
  PROVE  Kept(x, y)
<1>1. Well(y) /\ (Follows(x) => Follows(y))
  BY AlikeKeeps
<1>2. x.down => Follows(y)
  BY DEF Alike, Follows
<1>. QED BY <1>1, <1>2 DEF Kept, Chosen

(* The value that keys and clicks choose is the one that is lit. *)
LEMMA PickKept ==
  ASSUME NEW x, Well(x), x.lit \in Metrics, x.lit \in x.options \/ x.options = {}
  PROVE  Kept(x, Hide(SelectOption(x)))
<1>1. PICK y : y = SelectOption(x)
  OBVIOUS
<1>2. Alike(x, y) /\ y.value = x.lit
  BY <1>1, SelectOptionAlike DEF Well
<1>3. /\ Well(Hide(y)) /\ Follows(Hide(y)) /\ Hide(y).value = y.value
      /\ Hide(y).options = y.options
  BY <1>2, HideKeeps DEF Alike
<1>. QED BY <1>1, <1>2, <1>3 DEF Kept, Chosen, Alike

LEMMA KeysKeep ==
  ASSUME ComboInv, Type \/ OtherKey \/ Up \/ Down \/ Escape \/ Enter \/ Tab
  PROVE  Kept(b, b')
<1>. DEFINE k == KeyDown
<1>1. /\ Well(k) /\ k \in Box /\ k.value = b.value /\ k.down /\ k.lit = b.lit /\ k.shown = b.shown
      /\ k.options = b.options
  BY KeyDownIs DEF ComboInv
<1>. HIDE DEF k
<1>2. ASSUME NEW y, Kept(k, y)
      PROVE  Kept(b, y)
  BY <1>1, <1>2 DEF Kept, Chosen
<1>3. ASSUME NEW y, Alike(k, y), y.value = k.value
      PROVE  Kept(b, y)
  BY <1>1, <1>2, <1>3, AlikeKept
<1>4. Alike(k, k)
  BY <1>1 DEF Alike
<1>5. CASE Type
  <2>1. PICK t \in Texts, erasing \in BOOLEAN :
           b' = [k EXCEPT !.text = t, !.edited = TRUE, !.drop = erasing]
    BY <1>5 DEF Type, k
  <2>2. b' \in Box /\ b'.value = k.value /\ b'.down
    BY <1>1, <2>1 DEF Box
  <2>3. b'.options = k.options /\ b'.shown = k.shown /\ b'.list = k.list /\ b'.lit = k.lit
    BY <1>1, <2>1 DEF Box
  <2>4. Well(b')
    BY <1>1, <2>2, <2>3 DEF Well, ListIsOffered, LitIsOffered
  <2>5. Follows(b')
    BY <2>2 DEF Follows
  <2>. QED BY <1>1, <2>2, <2>4, <2>5 DEF Kept, Chosen
<1>6. CASE OtherKey
  BY <1>3, <1>4, <1>6 DEF OtherKey, k
<1>7. ASSUME NEW d \in {-1, 1}
      PROVE  Kept(k, Step(k, d))
  <2>1. PICK y : y = Step(k, d)
    OBVIOUS
  <2>2. CASE y = k
    <3>1. Kept(k, k)
      BY <1>1, <1>4, AlikeKept
    <3>. QED BY <2>1, <2>2, <3>1
  <2>3. CASE y # k
    <3>1. k.lit \in k.list /\ Beyond(k, d) # {}
          /\ y = [k EXCEPT !.lit = Nearest(Beyond(k, d), Position(k.lit))]
      BY <2>1, <2>3 DEF Step
    <3>2. k.list \subseteq Metrics
      BY <1>1 DEF Box
    <3>3. Position(k.lit) \in Int
      BY <3>1, <3>2, Positions
    <3>4. PICK m : m = Nearest(Beyond(k, d), Position(k.lit))
      OBVIOUS
    <3>5. Beyond(k, d) \subseteq k.list
      BY DEF Beyond
    <3>6. m \in k.list
      BY <3>1, <3>2, <3>3, <3>4, <3>5, NearestIs
    <3>7. /\ y \in Box /\ y.value = k.value /\ y.options = k.options /\ y.shown = k.shown
          /\ y.list = k.list /\ y.lit = m /\ y.down
      BY <1>1, <3>1, <3>2, <3>4, <3>6 DEF Box, Choice
    <3>8. Well(y)
      BY <1>1, <3>6, <3>7 DEF Well, ListIsOffered, LitIsOffered
    <3>9. Follows(y)
      BY <3>7 DEF Follows
    <3>. QED BY <2>1, <3>7, <3>8, <3>9 DEF Kept, Chosen
  <2>. QED BY <2>2, <2>3
<1>8. CASE Up
  BY <1>2, <1>7, <1>8 DEF Up, k
<1>9. CASE Down
  <2>1. Opened(k, OpenList(k))
    BY <1>1, BuildAllOpens
  <2>2. Kept(k, OpenList(k))
    BY <2>1 DEF Opened, Kept, Chosen, Follows
  <2>. QED BY <1>2, <1>7, <1>9, <2>2 DEF Down, k
<1>10. CASE Escape
  <2>1. Kept(k, Hide(k))
    BY <1>1, HideKeeps DEF Kept, Chosen
  <2>. QED BY <1>2, <1>10, <2>1 DEF Escape, k
<1>11. ASSUME Picks
       PROVE  Kept(b, Hide(SelectOption(k)))
  <2>1. k.lit \in Metrics /\ (k.lit \in k.options \/ k.options = {})
    BY <1>1, <1>11 DEF Picks, Well, LitIsOffered, Box, Choice
  <2>. QED BY <1>1, <1>2, <2>1, PickKept
<1>12. Kept(b, k)
  BY <1>3, <1>4
<1>13. Kept(b, Change(k)) /\ Kept(b, Leave(k))
  BY <1>1, <1>3, ChangeAlike, LeaveAlike
<1>14. CASE Enter
  BY <1>11, <1>12, <1>13, <1>14 DEF Enter, k
<1>15. CASE Tab
  BY <1>11, <1>13, <1>15 DEF Tab, k
<1>. QED BY <1>5, <1>6, <1>8, <1>9, <1>10, <1>14, <1>15

LEMMA LoopsKeep ==
  ASSUME ComboInv, KeyUp \/ Loop
  PROVE  Kept(b, b')
<1>1. Well(b) /\ Follows(b) /\ b \in Box
  BY DEF ComboInv, Well
<1>2. ASSUME NEW x \in Box, Well(x), x.value = b.value,
             x.prev = x.text => Follows(x)
      PROVE  Kept(b, Compare(x))
  <2>1. CASE x.prev # x.text
    <3>1. Followed(x, BuildExposed(x)) /\ Compare(x) = BuildExposed(x)
      BY <2>1, BuildExposedFollows DEF Compare
    <3>. QED BY <1>2, <3>1 DEF Followed, Kept, Chosen, Follows
  <2>2. CASE x.prev = x.text
    BY <1>2, <2>2 DEF Compare, Kept, Chosen
  <2>. QED BY <2>1, <2>2
<1>3. b.loops \in Nat /\ MaxLoops \in Nat /\ b.loops <= MaxLoops
  <2>1. b.loops \in 0..MaxLoops
    BY <1>1 DEF Box
  <2>2. MaxLoops \in Nat
    BY Known
  <2>. QED BY ONLY <2>1, <2>2
<1>4. ASSUME NEW n \in 0..MaxLoops, b' = [b EXCEPT !.down = FALSE, !.loops = n], n # 0
      PROVE  Kept(b, b')
  <2>1. /\ b' \in Box /\ b'.value = b.value /\ b'.options = b.options /\ b'.list = b.list
        /\ b'.lit = b.lit /\ b'.shown = b.shown /\ b'.loops # 0
    BY <1>1, <1>4 DEF Box
  <2>2. Well(b')
    BY <1>1, <2>1 DEF Well, ListIsOffered, LitIsOffered
  <2>. QED BY <2>1, <2>2 DEF Kept, Chosen, Follows
<1>5. CASE KeyUp
  <2>1. CASE b.down /\ b.loops < MaxLoops /\ b' = [b EXCEPT !.down = FALSE, !.loops = @ + 1]
    <3>1. b' = [b EXCEPT !.down = FALSE, !.loops = b.loops + 1]
      BY <2>1
    <3>2. b.loops + 1 \in 0..MaxLoops /\ b.loops + 1 # 0
      BY ONLY <1>3, <2>1
    <3>. QED BY <1>4, <3>1, <3>2
  <2>2. CASE b' = Compare(b)
    BY <1>1, <1>2, <2>2
  <2>. QED BY <1>5, <2>1, <2>2 DEF KeyUp
<1>6. CASE Loop
  <2>1. CASE b.down
    <3>1. b.loops > 0 /\ b' = [b EXCEPT !.down = FALSE]
      BY <1>6, <2>1 DEF Loop
    <3>2. b' = [b EXCEPT !.down = FALSE, !.loops = b.loops]
      BY <1>1, <3>1 DEF Box
    <3>3. b.loops \in 0..MaxLoops /\ b.loops # 0
      BY ONLY <1>3, <3>1
    <3>. QED BY <1>4, <3>2, <3>3
  <2>2. CASE ~b.down
    <3>1. b.loops > 0 /\ b' = Compare([b EXCEPT !.loops = b.loops - 1])
      BY <1>6, <2>2 DEF Loop
    <3>2. PICK x : x = [b EXCEPT !.loops = b.loops - 1]
      OBVIOUS
    <3>3. b.loops - 1 \in 0..MaxLoops
      BY ONLY <1>3, <3>1
    <3>4. /\ x \in Box /\ x.value = b.value /\ x.options = b.options /\ x.list = b.list
          /\ x.lit = b.lit /\ x.shown = b.shown
      BY <1>1, <3>2, <3>3 DEF Box
    <3>5. Well(x)
      BY <1>1, <3>4 DEF Well, ListIsOffered, LitIsOffered
    <3>6. x.prev = x.text => Follows(x)
      BY DEF Follows
    <3>. QED BY <1>2, <3>1, <3>2, <3>4, <3>5, <3>6
  <2>. QED BY <2>1, <2>2
<1>. QED BY <1>5, <1>6

LEMMA PageKeeps ==
  ASSUME ComboInv,
         \/ Focus \/ Blur \/ Press \/ MouseDownElsewhere \/ Hover \/ Click \/ Toggle
         \/ SelectElsewhere \/ Answer
  PROVE  Kept(b, b')
<1>1. Well(b) /\ Follows(b) /\ b \in Box
  BY DEF ComboInv, Well
<1>2. ASSUME NEW y, Alike(b, y), y.value = b.value
      PROVE  Kept(b, y)
  BY <1>1, <1>2, AlikeKept
<1>3. CASE Focus
  BY <1>1, <1>2, <1>3, FocusedAlike DEF Focus
<1>4. CASE Blur
  BY <1>1, <1>2, <1>4, LeaveAlike DEF Blur
<1>5. CASE Press
  <2>1. Alike(b, Focused(b)) /\ Focused(b).value = b.value /\ Focused(b) \in Box
    BY <1>1, FocusedAlike DEF Alike
  <2>2. Alike(Focused(b), Leave(Focused(b))) /\ Leave(Focused(b)).value = b.value
    BY <2>1, LeaveAlike
  <2>3. Alike(b, Leave(Focused(b)))
    BY <2>1, <2>2 DEF Alike
  <2>. QED BY <1>2, <1>5, <2>2, <2>3 DEF Press
<1>6. CASE MouseDownElsewhere
  <2>1. Well(Hide(b)) /\ Follows(Hide(b)) /\ Hide(b).value = b.value
    BY <1>1, HideKeeps
  <2>2. Alike(Hide(b), Leave(Hide(b))) /\ Leave(Hide(b)).value = Hide(b).value
    BY <2>1, LeaveAlike DEF Well
  <2>3. Kept(Hide(b), Leave(Hide(b)))
    BY <2>1, <2>2, AlikeKept
  <2>. QED BY <1>6, <2>1, <2>3 DEF MouseDownElsewhere, Kept, Chosen
<1>7. CASE Hover
  <2>1. PICK m \in b.list \cup {None} : b' = [b EXCEPT !.lit = m]
    BY <1>7 DEF Hover
  <2>2. b.shown /\ b.list \subseteq b.options /\ b.options \subseteq Metrics
    BY <1>1, <1>7, ExposedIs DEF Hover, Well, ListIsOffered
  <2>3. /\ b' \in Box /\ b'.value = b.value /\ b'.options = b.options /\ b'.list = b.list
        /\ b'.lit = m
    BY <1>1, <2>1, <2>2 DEF Box, Choice
  <2>4. /\ b'.all = b.all /\ b'.loops = b.loops /\ b'.down = b.down /\ b'.shown = b.shown
        /\ b'.edited = b.edited /\ b'.prev = b.prev /\ b'.text = b.text
    BY <1>1, <2>1 DEF Box
  <2>5. Well(b')
    BY <2>1, <2>2, <2>3 DEF Well, ListIsOffered, LitIsOffered
  <2>6. Follows(b')
    BY <1>1, <2>3, <2>4 DEF Follows, Exposed
  <2>. QED BY <2>3, <2>5, <2>6 DEF Kept, Chosen
<1>8. CASE Click
  <2>1. PICK m \in b.list : b' = Hide(SelectOption([b EXCEPT !.lit = m, !.loose = TRUE]))
    BY <1>8 DEF Click
  <2>2. b.shown /\ b.list \subseteq b.options /\ b.options \subseteq Metrics
    BY <1>1, <1>8, ExposedIs DEF Click, Well, ListIsOffered
  <2>3. PICK x : x = [b EXCEPT !.lit = m, !.loose = TRUE]
    OBVIOUS
  <2>4. /\ x \in Box /\ x.value = b.value /\ x.options = b.options /\ x.list = b.list /\ x.lit = m
    BY <1>1, <2>1, <2>2, <2>3 DEF Box, Choice
  <2>5. Well(x) /\ x.lit \in Metrics /\ x.lit \in x.options
    BY <2>1, <2>2, <2>4 DEF Well, ListIsOffered, LitIsOffered
  <2>6. Kept(x, b')
    BY <2>1, <2>3, <2>5, PickKept
  <2>. QED BY <2>4, <2>6 DEF Kept, Chosen
<1>9. ASSUME NEW x \in Box, x.value = b.value
      PROVE  Kept(b, OpenList(x)) /\ Kept(b, BuildAll(x))
  BY <1>9, BuildAllOpens DEF Opened, Kept, Chosen, Follows
<1>10. CASE Toggle
  <2>1. CASE b.shown
    <3>1. PICK h : h = Hide(b)
      OBVIOUS
    <3>2. h \in Box /\ ~h.shown /\ h.value = b.value /\ b' = [h EXCEPT !.drop = TRUE]
      BY <1>1, <1>10, <2>1, <3>1, HideKeeps DEF Toggle, Well
    <3>3. b' \in Box /\ ~b'.shown /\ b'.value = b.value
      BY <3>2 DEF Box
    <3>. QED BY <3>3 DEF Kept, Well, ListIsOffered, LitIsOffered, Follows, Chosen
  <2>2. CASE ~b.shown
    BY <1>1, <1>9, <1>10, <2>2 DEF Toggle
  <2>. QED BY <2>1, <2>2
<1>11. CASE SelectElsewhere
  <2>1. PICK m \in Texts : b' = Select(b, m)
    BY <1>11, Known DEF SelectElsewhere
  <2>. QED BY <1>1, <1>2, <2>1, SelectAlike
<1>12. CASE Answer
  <2>1. PICK S \in Offers :
           LET x == [b EXCEPT !.asked = @ - 1, !.options = S]
           IN b' = IF S = b.options THEN x ELSE UpdateDataIds(x)
    BY <1>12 DEF Answer
  <2>2. PICK x : x = [b EXCEPT !.asked = b.asked - 1, !.options = S]
    OBVIOUS
  <2>3. b' = IF S = b.options THEN x ELSE UpdateDataIds(x)
    BY <2>1, <2>2
  <2>4. b.asked - 1 \in 0..MaxRequests
    <3>1. b.asked \in 0..MaxRequests /\ b.asked > 0 /\ MaxRequests \in Nat
      BY <1>1, <1>12, Known DEF Answer, Box
    <3>. QED BY ONLY <3>1
  <2>5. /\ x \in Box /\ x.value = b.value /\ x.options = S /\ x.shown = b.shown /\ x.list = b.list
        /\ x.lit = b.lit
    BY <1>1, <2>2, <2>4 DEF Box
  <2>6. CASE S = b.options
    <3>1. Alike(b, x)
      BY <1>1, <2>2, <2>5, <2>6 DEF Alike, Box
    <3>. QED BY <1>2, <2>3, <2>5, <2>6, <3>1
  <2>7. CASE S # b.options /\ ~x.shown
    <3>1. b' = x
      BY <2>3, <2>7 DEF UpdateDataIds
    <3>. QED BY <2>5, <2>7, <3>1 DEF Kept, Well, ListIsOffered, LitIsOffered, Follows, Chosen
  <2>8. CASE S # b.options /\ x.shown /\ x.all
    <3>1. b' = BuildAll(x)
      BY <2>3, <2>8 DEF UpdateDataIds
    <3>. QED BY <1>9, <2>5, <3>1
  <2>9. CASE S # b.options /\ x.shown /\ ~x.all
    <3>1. b' = BuildExposed(x)
      BY <2>3, <2>9 DEF UpdateDataIds
    <3>2. Followed(x, b')
      BY <2>5, <3>1, BuildExposedFollows
    <3>. QED BY <2>5, <3>2 DEF Followed, Kept, Chosen, Follows
  <2>. QED BY <2>6, <2>7, <2>8, <2>9
<1>. QED BY <1>3, <1>4, <1>5, <1>6, <1>7, <1>8, <1>10, <1>11, <1>12

LEMMA StepsKeep ==
  ASSUME ComboInv, [Next]_b
  PROVE  Kept(b, b')
<1>1. CASE UNCHANGED b
  BY <1>1 DEF ComboInv, Kept, Chosen
<1>. QED BY <1>1, KeysKeep, LoopsKeep, PageKeeps DEF Next

LEMMA ComboStep == ComboInv /\ [Next]_b => ComboInv'
<1>1. SUFFICES ASSUME ComboInv, [Next]_b
               PROVE  ComboInv'
  OBVIOUS
<1>2. Well(b') /\ Follows(b')
  BY <1>1, StepsKeep DEF Kept
<1>. QED BY <1>2 DEF ComboInv, Well, ListIsOffered, LitIsOffered, Follows, Exposed

LEMMA ComboInit == Init => ComboInv
<1>1. SUFFICES ASSUME Init
               PROVE  ComboInv
  OBVIOUS
<1>2. PICK S \in Offers :
         b = [metric |-> "", asked |-> 0, options |-> S,
              text |-> "", prev |-> "", past |-> None, value |-> None,
              list |-> {}, all |-> FALSE, shown |-> FALSE, lit |-> None,
              tinted |-> FALSE, drop |-> FALSE, loose |-> FALSE,
              down |-> FALSE, loops |-> 0, focused |-> FALSE, edited |-> FALSE]
  BY <1>1, Zenon DEF Init
<1>3. 0 \in 0..MaxLoops /\ 0 \in 0..MaxRequests /\ "" \in Texts /\ None \in Choice
  <2>1. MaxLoops \in Nat /\ MaxRequests \in Nat
    BY Known
  <2>2. 0 \in 0..MaxLoops /\ 0 \in 0..MaxRequests
    BY ONLY <2>1
  <2>3. "" \in Texts
    BY Known
  <2>4. None \in Choice
    BY DEF Choice
  <2>. QED BY <2>2, <2>3, <2>4, Zenon
<1>4. b \in Box /\ ~b.shown
  BY ONLY <1>2, <1>3 DEF Box
<1>. QED BY <1>4 DEF ComboInv, Well, ListIsOffered, LitIsOffered, Follows

LEMMA ComboIsSafe == ComboInv => Safety
BY DEF ComboInv, Well, ListIsOffered, Follows, Safety, TypeOK, FilterFollows

(* The list that is shown offers nothing the server has withdrawn, and holds
   what matches the text once the loops of the keys have run, whatever answers,
   blurs and reopenings come between (ComboBox.update, build, updateDataIds). *)
THEOREM ListFollowsText == Spec => []Safety
<1>. QED BY ComboInit, ComboStep, ComboIsSafe, PTL DEF Spec

(* A key, a click or a completion chooses a metric that is still offered,
   unless none is (ComboBox.selectOption, clickOption, handleKey). *)
THEOREM ChoicesAreOffered == Spec => ChosenIsOffered
<1>1. ComboInv /\ [Next]_b => [b'.value # b.value /\ b'.options # {} => b'.value \in b'.options]_b
  BY StepsKeep DEF Kept, Chosen
<1>. QED BY <1>1, ComboInit, ComboStep, PTL DEF Spec, ChosenIsOffered
===============================================================================
