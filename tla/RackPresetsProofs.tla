------------------------- MODULE RackPresetsProofs -------------------------
(***************************************************************************)
(* Theorems about RackPresets, for every set of devices and metrics, and   *)
(* for any number of presets, requests and reconnects: the page's copy of  *)
(* a preset is the one the server stores, and the poller, the filter bar   *)
(* and the filter of the view follow the metric that is selected.          *)
(***************************************************************************)
EXTENDS RackPresets, TLAPS, WellFoundedInduction

(* The definitions the invariant is made of.                               *)
Keys        == {"name", "rate", "metric", "filter", "map", "shared"}
IsPreset(p)  == p = [k \in Keys |-> p[k]]
IsManager(m) == m = [k \in {"selected", "change", "named"} |-> m[k]]
IsSave(s)    == s = [k \in {"manager", "id"} |-> s[k]]
IsSeq(s)     == s \in Seq(Range(s))
Ids == DOMAIN server

\* what a manager may have selected: a list can lack a preset that is selected
Loadable == Known \cup (unsure \cap Ids) \cup {0}

Shapes ==
  /\ IsSeq(server) /\ IsSeq(presets) /\ IsSeq(managers)
  /\ DOMAIN presets = Ids
  /\ \A id \in Ids : IsPreset(server[id]) /\ Stringified(server[id]) = server[id]
  /\ \A id \in Ids : presets[id] = Missing \/ IsPreset(presets[id])
  /\ \A i \in DOMAIN managers : /\ IsManager(managers[i]) /\ managers[i].named \in BOOLEAN
                                /\ managers[i].selected \in Loadable
  /\ \A s \in saves : /\ IsSave(s) /\ s.manager \in DOMAIN managers /\ s.id \in Ids
                      /\ IsPreset(managers[s.manager].change)

(* A request on the way whose preset is not in doubt: it is the only one   *)
(* of its manager, which still holds what it sent; a new preset has no     *)
(* other request; and whoever selected the preset, the sender takes part   *)
(* in what is saved to it next.                                            *)
InStep(s) ==
  LET manager == managers[s.manager]
  IN /\ Pending(s.manager) = {s.id}
     /\ Stringified(Taken(manager, server[s.id])) = server[s.id]
     /\ manager.named => \A t \in saves : t.id = s.id => t = s
     /\ ~manager.named => s.id \in Known
     /\ \A i \in DOMAIN managers : managers[i].selected = s.id => manager.selected # 0
SavesInStep == \A s \in saves : s.id \notin unsure => InStep(s)

(* The lists on their way hold presets as the server sends them.           *)
Listed(list) ==
  /\ DOMAIN list \subseteq Ids
  /\ \A id \in DOMAIN list : IsPreset(list[id]) /\ Stringified(list[id]) = list[id]
Lists == /\ IsSeq(lists) /\ DOMAIN lists = DOMAIN managers
         /\ \A i \in DOMAIN lists : \A list \in lists[i] : Listed(list)

(* The page has the names of the server.                                   *)
NamesKept == \A id \in Known \ unsure : presets[id].name = server[id].name

PresetsInv == Shapes /\ SavesInStep /\ NamesKept /\ PresetsAgree

(***************************************************************************)
(* Records and sequences                                                   *)
(***************************************************************************)
LEMMA Sequence ==
    ASSUME NEW n \in Nat, NEW s, DOMAIN s = 1..n, s = [i \in 1..n |-> s[i]]
    PROVE  IsSeq(s) /\ Len(s) = n
<1>1. \A i \in 1..n : s[i] \in Range(s)
  BY DEF Range
<1>2. s \in [1..n -> Range(s)]
  BY <1>1
<1>. QED BY <1>2 DEF IsSeq

LEMMA Typed ==
    ASSUME NEW S, NEW s \in Seq(S)
    PROVE  IsSeq(s)
<1>1. Len(s) \in Nat /\ DOMAIN s = 1..Len(s) /\ s = [i \in 1..Len(s) |-> s[i]]
  OBVIOUS
<1>. QED BY <1>1, Sequence

LEMMA SequenceDomain ==
    ASSUME NEW s, IsSeq(s)
    PROVE  /\ Len(s) \in Nat /\ DOMAIN s = 1..Len(s)
           /\ s = [i \in DOMAIN s |-> s[i]]
BY DEF IsSeq

LEMMA Joined ==
    ASSUME NEW s, NEW t, IsSeq(s), IsSeq(t)
    PROVE  /\ IsSeq(s \o t) /\ DOMAIN (s \o t) = 1..(Len(s) + Len(t))
           /\ \A i \in DOMAIN s : (s \o t)[i] = s[i]
           /\ \A i \in DOMAIN t : (s \o t)[Len(s) + i] = t[i]
<1> DEFINE S == Range(s) \cup Range(t)
<1>1. s \in Seq(S) /\ t \in Seq(S)
  BY DEF IsSeq
<1> HIDE DEF S
<1>2. s \o t \in Seq(S) /\ Len(s \o t) = Len(s) + Len(t)
  BY <1>1
<1>3. IsSeq(s \o t)
  BY <1>2, Typed
<1>4. DOMAIN (s \o t) = 1..Len(s \o t)
  BY <1>3, SequenceDomain
<1>5. \A i \in DOMAIN s : (s \o t)[i] = s[i]
  BY <1>1
<1>6. \A i \in DOMAIN t : (s \o t)[Len(s) + i] = t[i]
  BY <1>1
<1>. QED BY <1>2, <1>3, <1>4, <1>5, <1>6

LEMMA Appended ==
    ASSUME NEW s, NEW x, IsSeq(s)
    PROVE  /\ IsSeq(Append(s, x)) /\ Len(s) \in Nat
           /\ DOMAIN s = 1..Len(s) /\ DOMAIN Append(s, x) = 1..(Len(s) + 1)
           /\ Append(s, x)[Len(s) + 1] = x /\ \A i \in DOMAIN s : Append(s, x)[i] = s[i]
           /\ \A i \in DOMAIN Append(s, x) : \/ Append(s, x)[i] = x
                                             \/ i \in DOMAIN s /\ Append(s, x)[i] = s[i]
<1> DEFINE S == Range(s) \cup {x}
<1>1. s \in Seq(S) /\ Append(s, x) \in Seq(S)
  BY DEF IsSeq
<1>2. /\ Len(s) \in Nat /\ DOMAIN s = 1..Len(s) /\ DOMAIN Append(s, x) = 1..(Len(s) + 1)
      /\ Append(s, x)[Len(s) + 1] = x /\ \A i \in DOMAIN s : Append(s, x)[i] = s[i]
  BY <1>1
<1> HIDE DEF S
<1>3. IsSeq(Append(s, x))
  BY <1>1, Typed
<1>4. \A i \in DOMAIN Append(s, x) : i = Len(s) + 1 \/ i \in DOMAIN s
  BY <1>2
<1>. QED BY <1>2, <1>3, <1>4

(* What is sent to the server has no name of its own and no map object.    *)
LEMMA Texts ==
    ASSUME NEW p, IsPreset(p)
    PROVE  /\ p # Missing /\ IsPreset(Stringified(p)) /\ Stringified(p).name = p.name
           /\ Stringified(Stringified(p)) = Stringified(p)
<1>1. p # Missing
  BY DEF IsPreset, Missing, Keys
<1>2. ASSUME NEW q, IsPreset(q)
      PROVE  Stringified(q) = [k \in Keys |->
                IF k = "shared" THEN FALSE
                ELSE IF k = "map" THEN IF q.map = Undefined THEN NoMap ELSE q.map
                ELSE q[k]]
  BY <1>2 DEF IsPreset, Stringified, Keys
<1>3. NoMap # Undefined
  BY DEF NoMap, Undefined, Off
<1>4. IsPreset(Stringified(p))
  BY <1>2 DEF IsPreset
<1>5. Stringified(p).name = p.name
  BY <1>2 DEF Keys
<1>6. Stringified(Stringified(p)) = Stringified(p)
  BY <1>2, <1>3, <1>4 DEF Keys
<1>. QED BY <1>1, <1>4, <1>5, <1>6

LEMMA Rewritten ==
    ASSUME NEW p, IsPreset(p)
    PROVE  /\ \A b : LET q == [p EXCEPT !.shared = b]
                   IN IsPreset(q) /\ Stringified(q) = Stringified(p) /\ q.name = p.name
           /\ \A m : IsPreset([p EXCEPT !.map = m]) /\ [p EXCEPT !.map = m].name = p.name
           /\ \A n : IsPreset([p EXCEPT !.name = n]) /\ [p EXCEPT !.name = n].name = n
BY DEF IsPreset, Stringified, Keys

LEMMA Mapped ==
    ASSUME NEW s, IsSeq(s), NEW t, DOMAIN t = DOMAIN s, t = [i \in DOMAIN t |-> t[i]]
    PROVE  IsSeq(t) /\ Len(t) = Len(s)
BY SequenceDomain, Sequence

LEMMA SameLength ==
    ASSUME NEW s, NEW t, IsSeq(s), IsSeq(t), DOMAIN t = DOMAIN s
    PROVE  Len(t) = Len(s)
BY SequenceDomain, Mapped

(* A preset is never what the page has for an id it does not know.         *)
LEMMA KnownPresets ==
    ASSUME Shapes
    PROVE  /\ Known = {id \in Ids : IsPreset(presets[id])} /\ 0 \notin Ids
           /\ \A s \in saves : s.id \in Pending(s.manager)
           /\ \A i : \A id \in Pending(i) : \E s \in saves : s.manager = i /\ s.id = id
<1>1. IsSeq(server)
  BY DEF Shapes
<1>2. 0 \notin Ids
  BY <1>1, SequenceDomain DEF Ids
<1>3. Known = {id \in Ids : IsPreset(presets[id])}
  BY Texts DEF Shapes, Known
<1>4. \A i, id : id \in Pending(i) <=> \E s \in saves : s.manager = i /\ s.id = id
  BY DEF Pending
<1>. QED BY <1>2, <1>3, <1>4

(***************************************************************************)
(* The steps                                                               *)
(***************************************************************************)
(* What the view does to a map: whose preset or change that is, is unsure. *)
LEMMA SharedFollows ==
    ASSUME PresetsInv, SharedFollow
    PROVE  PresetsInv'
<1> USE DEF PresetsInv
<1>1. \A id \in Ids : /\ presets'[id] = Shared(presets[id])
                      /\ presets[id] = Missing => presets'[id] = Missing
                      /\ IsPreset(presets[id]) => IsPreset(presets'[id]) /\ presets'[id] # Missing
  BY Texts, Rewritten DEF SharedFollow, Shared, Shapes
<1>2. \A i \in DOMAIN managers :
        /\ managers'[i].selected = managers[i].selected /\ managers'[i].named = managers[i].named
        /\ managers'[i].change = Shared(managers[i].change) /\ IsManager(managers'[i])
        /\ IsPreset(managers[i].change) => IsPreset(managers'[i].change)
  <2> TAKE i \in DOMAIN managers
  <2>1. managers'[i] = [managers[i] EXCEPT !.change = Shared(managers[i].change)]
    BY DEF SharedFollow
  <2>2. IsManager(managers[i])
    BY DEF Shapes
  <2>3. IsPreset(managers[i].change) => IsPreset(Shared(managers[i].change))
    BY Rewritten DEF Shared
  <2>. QED BY <2>1, <2>2, <2>3 DEF IsManager
<1>3. /\ DOMAIN presets' = Ids /\ DOMAIN managers' = DOMAIN managers
      /\ IsSeq(presets)' /\ IsSeq(managers)'
  BY Mapped DEF SharedFollow, Shapes
<1>4. UNCHANGED <<server, lists, saves>> /\ unsure \subseteq unsure'
  BY DEF SharedFollow
<1>5. Known' = Known
  BY <1>1, <1>3, <1>4, Texts DEF Known, Shapes
<1>6. Shapes'
  BY <1>1, <1>2, <1>3, <1>4, <1>5 DEF Shapes, Ids, Loadable
<1>7. \A id \in Known \ unsure' : presets'[id] = presets[id]
  BY DEF SharedFollow
<1>8. ASSUME NEW s \in saves, s.id \notin unsure'
      PROVE  managers'[s.manager] = managers[s.manager]
  BY <1>8, KnownPresets DEF SharedFollow, Shapes
<1>9. SavesInStep'
  BY <1>2, <1>3, <1>4, <1>5, <1>8 DEF SavesInStep, InStep, Pending, Shapes
<1>10. NamesKept'
  BY <1>4, <1>5, <1>7 DEF NamesKept
<1>11. PresetsAgree'
  BY <1>1, <1>4, <1>7 DEF PresetsAgree, Known, Shapes, Ids
<1>. QED BY <1>6, <1>9, <1>10, <1>11

(* Loading a preset leaves the others as they are but for whether they     *)
(* share their map with the view, of which nothing is sent.                *)
Alike(q, r) == r = q \/ (q # Missing /\ \E b : r = [q EXCEPT !.shared = b])

LEMMA Loadings ==
    ASSUME NEW q, NEW p
    PROVE  Alike(q, q) /\ Alike(q, Loaded(q, p))
<1>1. \/ Loaded(q, p) = q
      \/ q # Missing /\ Loaded(q, p) = [q EXCEPT !.shared = (q = p /\ p.map # Undefined)]
  BY DEF Loaded
<1>. QED BY <1>1 DEF Alike

LEMMA Alikes ==
    ASSUME NEW q, NEW r, Alike(q, r)
    PROVE  /\ q = Missing => r = Missing
           /\ IsPreset(q) => /\ IsPreset(r) /\ r # Missing /\ r.name = q.name
                             /\ Stringified(r) = Stringified(q)
<1>1. PICK b : r = q \/ (q # Missing /\ r = [q EXCEPT !.shared = b])
  BY DEF Alike
<1>2. ASSUME IsPreset(q)
      PROVE  /\ IsPreset(r) /\ r # Missing /\ r.name = q.name
             /\ Stringified(r) = Stringified(q)
  <2>1. /\ IsPreset([q EXCEPT !.shared = b]) /\ [q EXCEPT !.shared = b].name = q.name
        /\ Stringified([q EXCEPT !.shared = b]) = Stringified(q)
    BY <1>2, Rewritten
  <2>. QED BY <1>1, <1>2, <2>1, Texts
<1>. QED BY <1>1, <1>2

(* A preset whose map is the one of the view, after the maps changed.      *)
Follow(q, maps) == IF q # Missing /\ q.shared THEN [q EXCEPT !.map = maps[q.metric]] ELSE q

LEMMA Sharings ==
    ASSUME NEW q, NEW maps
    PROVE  /\ q = Missing => Follow(q, maps) = Missing
           /\ IsPreset(q) => IsPreset(Follow(q, maps)) /\ Follow(q, maps).name = q.name
BY Rewritten DEF Follow

(* What a manager sent is taken alike before and after a preset is loaded. *)
LEMMA TakenAlike ==
    ASSUME NEW m, NEW n, NEW old, IsPreset(m.change), n.named = m.named, Alike(m.change, n.change)
    PROVE  Stringified(Taken(n, old)) = Stringified(Taken(m, old))
<1>1. PICK b : n.change = m.change \/ n.change = [m.change EXCEPT !.shared = b]
  BY DEF Alike
<1>2. CASE m.named
  <2>1. Taken(n, old) = n.change /\ Taken(m, old) = m.change
    BY <1>2 DEF Taken
  <2>2. Stringified([m.change EXCEPT !.shared = b]) = Stringified(m.change)
    BY Rewritten
  <2>. QED BY <1>1, <2>1, <2>2
<1>3. CASE ~m.named
  <2>1. /\ Taken(n, old) = [n.change EXCEPT !.name = old.name]
        /\ Taken(m, old) = [m.change EXCEPT !.name = old.name]
    BY <1>3 DEF Taken
  <2>2. Stringified([[m.change EXCEPT !.shared = b] EXCEPT !.name = old.name])
          = Stringified([m.change EXCEPT !.name = old.name])
    BY DEF IsPreset, Stringified, Keys
  <2>. QED BY <1>1, <2>1, <2>2
<1>. QED BY <1>2, <1>3

(* Loading changes which presets share their map with the view, and the    *)
(* selection of every manager.                                             *)
LEMMA SwitchPresetSettles ==
    ASSUME PresetsInv, SwitchPreset
    PROVE  PresetsInv'
<1> USE DEF PresetsInv
<1>1. UNCHANGED <<server, lists, saves>>
  BY DEF SwitchPreset
<1>2. PICK id \in Known \cup {0} : \E p :
        /\ presets' = [k \in DOMAIN presets |-> Shared(Loaded(presets[k], p))]
        /\ managers' = [i \in DOMAIN managers |->
             [managers[i] EXCEPT !.selected = id, !.change = Shared(Loaded(@, p))]]
        /\ unsure' = unsure
              \cup {k \in Known : Shared(Loaded(presets[k], p)) # Loaded(presets[k], p)}
              \cup UNION {Pending(i) : i \in {j \in DOMAIN managers :
                     Shared(Loaded(managers[j].change, p)) # Loaded(managers[j].change, p)}}
  <2>1. PICK id \in Known \cup {0} :
          LET p == IF id = 0 THEN EmptyPreset ELSE presets[id]
          IN /\ presets' = [k \in DOMAIN presets |-> Shared(Loaded(presets[k], p))]
             /\ managers' = [i \in DOMAIN managers |->
                  [managers[i] EXCEPT !.selected = id, !.change = Shared(Loaded(@, p))]]
             /\ unsure' = unsure
                   \cup {k \in Known : Shared(Loaded(presets[k], p)) # Loaded(presets[k], p)}
                   \cup UNION {Pending(i) : i \in {j \in DOMAIN managers :
                          Shared(Loaded(managers[j].change, p)) # Loaded(managers[j].change, p)}}
    BY DEF SwitchPreset
  <2>. QED BY <2>1
<1>3. PICK p :
        /\ presets' = [k \in DOMAIN presets |-> Follow(Loaded(presets[k], p), model'.maps)]
        /\ managers' = [i \in DOMAIN managers |->
             [managers[i] EXCEPT !.selected = id, !.change = Follow(Loaded(@, p), model'.maps)]]
        /\ unsure' = unsure
              \cup {k \in Known : Follow(Loaded(presets[k], p), model'.maps) # Loaded(presets[k], p)}
              \cup UNION {Pending(i) : i \in {j \in DOMAIN managers :
                     Follow(Loaded(managers[j].change, p), model'.maps) # Loaded(managers[j].change, p)}}
  BY <1>2 DEF Shared, Follow
<1>4. \A n \in Ids : /\ presets'[n] = Follow(Loaded(presets[n], p), model'.maps)
                     /\ presets[n] = Missing => presets'[n] = Missing
                     /\ IsPreset(presets[n]) =>
                          IsPreset(presets'[n]) /\ presets'[n].name = presets[n].name
  <2>1. \A n \in Ids : presets'[n] = Follow(Loaded(presets[n], p), model'.maps)
    BY <1>3 DEF Shapes
  <2>. QED BY <2>1, Loadings, Alikes, Sharings
<1>5. /\ DOMAIN presets' = Ids /\ DOMAIN managers' = DOMAIN managers
      /\ IsSeq(presets)' /\ IsSeq(managers)'
  BY <1>3, Mapped DEF Shapes
<1>6. Known' = Known
  BY <1>1, <1>4, <1>5, Texts DEF Known, Shapes
<1>7. \A i \in DOMAIN managers :
        /\ managers'[i].selected = id /\ managers'[i].named = managers[i].named
        /\ managers'[i].change = Follow(Loaded(managers[i].change, p), model'.maps) /\ IsManager(managers'[i])
        /\ IsPreset(managers[i].change) => IsPreset(managers'[i].change)
  <2> TAKE i \in DOMAIN managers
  <2>1. /\ managers'[i] = [managers[i] EXCEPT !.selected = id,
                                             !.change = Follow(Loaded(managers[i].change, p), model'.maps)]
        /\ IsManager(managers[i])
    BY <1>3 DEF Shapes
  <2>2. IsPreset(managers[i].change) => IsPreset(Follow(Loaded(managers[i].change, p), model'.maps))
    BY Loadings, Alikes, Sharings
  <2>. QED BY <2>1, <2>2 DEF IsManager
<1>8. Shapes'
  BY <1>1, <1>4, <1>5, <1>6, <1>7 DEF Shapes, Ids, Loadable
<1>9. ASSUME NEW s \in saves, s.id \notin unsure'
      PROVE  InStep(s)'
  <2>1. /\ InStep(s) /\ s.manager \in DOMAIN managers /\ s.id \in Ids
        /\ IsPreset(managers[s.manager].change)
    BY <1>3, <1>9 DEF SavesInStep, Shapes
  <2>2. Pending(s.manager)' = Pending(s.manager)
    BY <1>1 DEF Pending
  <2>3. managers'[s.manager].change = Loaded(managers[s.manager].change, p)
    <3>1. s.id \in Pending(s.manager)
      BY <1>9, KnownPresets
    <3>2. Follow(Loaded(managers[s.manager].change, p), model'.maps) = Loaded(managers[s.manager].change, p)
      BY <1>3, <1>9, <2>1, <3>1
    <3>. QED BY <1>7, <2>1, <3>2
  <2>4. \A old : Stringified(Taken(managers'[s.manager], old)) = Stringified(Taken(managers[s.manager], old))
    BY <1>7, <2>1, <2>3, Loadings, TakenAlike
  <2>5. \A i \in DOMAIN managers' : managers'[i].selected = s.id => managers'[s.manager].selected # 0
    BY <1>5, <1>7, <2>1, KnownPresets
  <2>. QED BY <1>1, <1>6, <1>7, <2>1, <2>2, <2>4, <2>5 DEF InStep
<1>10. unsure \subseteq unsure'
  BY <1>3
<1>11. NamesKept'
  BY <1>1, <1>4, <1>6, <1>10, KnownPresets DEF NamesKept
<1>12. PresetsAgree'
  <2> SUFFICES ASSUME NEW k \in Ids, k \notin unsure', \A s \in saves : s.id # k
               PROVE  IF presets'[k] = Missing THEN \A i \in DOMAIN lists : lists[i] # {}
                                               ELSE Stringified(presets'[k]) = server[k]
    BY <1>1 DEF PresetsAgree, Ids
  <2>1. CASE presets[k] = Missing
    BY <1>4, <1>10, <2>1 DEF PresetsAgree, Ids
  <2>2. CASE presets[k] # Missing
    <3>1. Stringified(presets[k]) = server[k] /\ IsPreset(presets[k])
      BY <1>10, <2>2 DEF PresetsAgree, Ids, Shapes
    <3>2. presets'[k] = Loaded(presets[k], p)
      BY <1>3, <1>4, <2>2 DEF Known, Shapes
    <3>. QED BY <3>1, <3>2, Loadings, Alikes
  <2>. QED BY <2>1, <2>2
<1>. QED BY <1>1, <1>8, <1>9, <1>11, <1>12 DEF SavesInStep

(* What the page sends is a preset with the name it was given.             *)
LEMMA Sendable ==
    ASSUME NEW v, NEW name
    PROVE  /\ IsPreset(Values(v, name)) /\ Values(v, name).name = name
           /\ \A n : [Values(v, n) EXCEPT !.name = name] = Values(v, name)
BY DEF Values, IsPreset, Keys

(* New presets: every manager sends one of its own, with an id that was    *)
(* not used before.                                                        *)
LEMMA CreatePresetSettles ==
    ASSUME PresetsInv, CreatePreset
    PROVE  PresetsInv'
<1> USE DEF PresetsInv
<1> DEFINE n == Len(server)
           New(i) == [manager |-> i, id |-> n + i]
<1>1. PICK name :
        /\ Send([i \in DOMAIN managers |-> n + i], Values(model, name), TRUE)
        /\ server' = server \o [i \in DOMAIN managers |-> Stringified(Values(model, name))]
  BY DEF CreatePreset
<1>2. presets' = presets \o [i \in DOMAIN managers |-> Missing]
  BY DEF CreatePreset
<1> DEFINE p == Values(model, name)
<1>3. IsPreset(p) /\ IsPreset(Stringified(p)) /\ Stringified(Stringified(p)) = Stringified(p)
  BY Sendable, Texts
<1>4. /\ \A i \in DOMAIN managers : managers'[i] = [managers[i] EXCEPT !.change = p, !.named = TRUE]
      /\ DOMAIN managers' = DOMAIN managers /\ managers' = [i \in DOMAIN managers' |-> managers'[i]]
      /\ saves' = saves \cup {New(i) : i \in DOMAIN managers}
      /\ unsure \subseteq unsure'
      /\ \A i \in DOMAIN managers : Pending(i) # {} => Pending(i) \cup {n + i} \subseteq unsure'
  BY <1>1 DEF Send
<1> HIDE DEF p
<1>5. \A i \in DOMAIN managers :
        /\ managers'[i].selected = managers[i].selected /\ managers'[i].named = TRUE
        /\ managers'[i].change = p /\ IsManager(managers'[i])
  <2> TAKE i \in DOMAIN managers
  <2>1. /\ managers'[i] = [managers[i] EXCEPT !.change = p, !.named = TRUE]
        /\ IsManager(managers[i])
    BY <1>4 DEF Shapes
  <2>. QED BY <2>1 DEF IsManager
<1>6. \A i : IsSave(New(i)) /\ New(i).manager = i /\ New(i).id = n + i
  BY DEF IsSave
<1> HIDE DEF New
<1>7. /\ n \in Nat /\ Ids = 1..n /\ Len(presets) = n
      /\ \E k \in Nat : DOMAIN managers = 1..k /\ k = Len(managers)
  BY SequenceDomain DEF Shapes, Ids
<1>8. /\ IsSeq(managers)'
      /\ IsSeq([i \in DOMAIN managers |-> Missing])
      /\ IsSeq([i \in DOMAIN managers |-> Stringified(p)])
      /\ Len([i \in DOMAIN managers |-> Missing]) = Len(managers)
      /\ Len([i \in DOMAIN managers |-> Stringified(p)]) = Len(managers)
  BY <1>4, Mapped DEF Shapes
<1>9. /\ IsSeq(server)' /\ IsSeq(presets)' /\ DOMAIN presets' = Ids'
      /\ Ids' = 1..(n + Len(managers))
      /\ \A id \in Ids : server'[id] = server[id] /\ presets'[id] = presets[id]
      /\ \A i \in DOMAIN managers : server'[n + i] = Stringified(p) /\ presets'[n + i] = Missing
  <2> DEFINE none == [i \in DOMAIN managers |-> Missing]
             texts == [i \in DOMAIN managers |-> Stringified(p)]
  <2>1. /\ \A i \in DOMAIN none : none[i] = Missing
        /\ \A i \in DOMAIN texts : texts[i] = Stringified(p)
        /\ DOMAIN none = DOMAIN managers /\ DOMAIN texts = DOMAIN managers
    OBVIOUS
  <2>2. IsSeq(none) /\ IsSeq(texts) /\ Len(none) = Len(managers) /\ Len(texts) = Len(managers)
    BY <1>8
  <2>3. server' = server \o texts /\ presets' = presets \o none
    BY <1>1, <1>2 DEF p
  <2> HIDE DEF none, texts
  <2>4. IsSeq(server) /\ IsSeq(presets) /\ DOMAIN server = Ids /\ DOMAIN presets = Ids
    BY DEF Shapes, Ids
  <2>5. /\ IsSeq(server') /\ DOMAIN server' = 1..(n + Len(managers))
        /\ \A id \in Ids : server'[id] = server[id]
        /\ \A i \in DOMAIN managers : server'[n + i] = Stringified(p)
    <3>1. /\ IsSeq(server \o texts) /\ DOMAIN (server \o texts) = 1..(Len(server) + Len(texts))
          /\ \A id \in DOMAIN server : (server \o texts)[id] = server[id]
          /\ \A i \in DOMAIN texts : (server \o texts)[Len(server) + i] = texts[i]
      BY <2>2, <2>4, Joined
    <3>. QED BY <2>1, <2>2, <2>3, <2>4, <3>1
  <2>6. /\ IsSeq(presets') /\ DOMAIN presets' = 1..(n + Len(managers))
        /\ \A id \in Ids : presets'[id] = presets[id]
        /\ \A i \in DOMAIN managers : presets'[n + i] = Missing
    <3>1. /\ IsSeq(presets \o none) /\ DOMAIN (presets \o none) = 1..(Len(presets) + Len(none))
          /\ \A id \in DOMAIN presets : (presets \o none)[id] = presets[id]
          /\ \A i \in DOMAIN none : (presets \o none)[Len(presets) + i] = none[i]
      BY <2>2, <2>4, Joined
    <3>. QED BY <1>7, <2>1, <2>2, <2>3, <2>4, <3>1
  <2>. QED BY <2>5, <2>6 DEF Ids
<1> HIDE DEF n
<1>10. \A id \in Ids' : id \in Ids \/ \E i \in DOMAIN managers : id = n + i
  <2> TAKE id \in Ids'
  <2>1. id \in Int /\ 1 <= id /\ id <= n + Len(managers)
    BY <1>7, <1>9
  <2>2. CASE id > n
    <3>1. id - n \in DOMAIN managers /\ id = n + (id - n)
      BY <1>7, <2>1, <2>2
    <3>. QED BY <3>1
  <2>. QED BY <1>7, <2>1, <2>2
<1>11. Known' = Known
  BY <1>7, <1>9, <1>10 DEF Known, Shapes
<1>12. Shapes'
  <2>1. /\ IsSeq(server)' /\ IsSeq(presets)' /\ IsSeq(managers)' /\ DOMAIN presets' = Ids'
    BY <1>8, <1>9
  <2>2. \A id \in Ids' : IsPreset(server'[id]) /\ Stringified(server'[id]) = server'[id]
    BY <1>3, <1>9, <1>10 DEF Shapes
  <2>3. \A id \in Ids' : presets'[id] = Missing \/ IsPreset(presets'[id])
    BY <1>9, <1>10 DEF Shapes
  <2>4. \A i \in DOMAIN managers' : /\ IsManager(managers'[i]) /\ managers'[i].named \in BOOLEAN
                                    /\ managers'[i].selected \in Loadable'
    <3>1. Ids \subseteq Ids'
      BY <1>7, <1>9
    <3>2. Loadable \subseteq Loadable'
      BY <1>4, <1>11, <3>1 DEF Loadable
    <3>. QED BY <1>4, <1>5, <3>2 DEF Shapes
  <2>5. ASSUME NEW s \in saves'
        PROVE  /\ IsSave(s) /\ s.manager \in DOMAIN managers' /\ s.id \in Ids'
               /\ IsPreset(managers'[s.manager].change)
    <3>1. IsSave(s) /\ s.manager \in DOMAIN managers /\ s.id \in Ids'
      <4>1. CASE s \in saves
        <5>1. IsSave(s) /\ s.manager \in DOMAIN managers /\ s.id \in Ids
          BY <4>1 DEF Shapes
        <5>. QED BY <1>7, <1>9, <5>1
      <4>2. ASSUME NEW i \in DOMAIN managers, s = New(i)
            PROVE  IsSave(s) /\ s.manager \in DOMAIN managers /\ s.id \in Ids'
        BY <1>6, <1>7, <1>9, <4>2
      <4>. QED BY <1>4, <4>1, <4>2
    <3>. QED BY <1>3, <1>4, <1>5, <3>1
  <2>. QED BY <2>1, <2>2, <2>3, <2>4, <2>5 DEF Shapes
<1>13. ASSUME NEW s \in saves', s.id \notin unsure'
       PROVE  InStep(s)'
  <2>1. s \notin saves
    BY <1>4, <1>13, KnownPresets DEF Shapes
  <2>2. PICK i \in DOMAIN managers : s = New(i)
    BY <1>4, <2>1
  <2>3. s.manager = i /\ s.id = n + i
    BY <1>6, <2>2
  <2>4. Pending(i) = {}
    BY <1>4, <1>13, <2>3
  <2>5. \A t \in saves' : t.manager = i => t = s
    <3> TAKE t \in saves'
    <3>1. t \notin saves \/ t.manager # i
      BY <2>4, KnownPresets
    <3>2. ASSUME NEW j \in DOMAIN managers, t = New(j), t.manager = i PROVE t = s
      BY <1>6, <2>2, <3>2
    <3>. QED BY <1>4, <3>1, <3>2
  <2>6. Pending(i)' = {n + i}
    BY <2>3, <2>5 DEF Pending
  <2>7. \A t \in saves' : t.id = n + i => t = s
    <3> TAKE t \in saves'
    <3>1. t \in saves => t.id # n + i
      BY <1>7 DEF Shapes
    <3>2. ASSUME NEW j \in DOMAIN managers, t = New(j), t.id = n + i PROVE t = s
      BY <1>6, <1>7, <2>2, <3>2
    <3>. QED BY <1>4, <3>1, <3>2
  <2>8. \A j \in DOMAIN managers : managers'[j].selected # n + i
    BY <1>5, <1>7 DEF Shapes, Loadable, Known
  <2>. QED BY <1>4, <1>5, <1>9, <2>3, <2>6, <2>7, <2>8 DEF InStep, Taken
<1>14. SavesInStep'
  BY <1>13 DEF SavesInStep
<1>15. NamesKept'
  BY <1>4, <1>9, <1>11 DEF NamesKept, Known, Shapes
<1>16. PresetsAgree'
  <2> SUFFICES ASSUME NEW id \in Ids', id \notin unsure', \A s \in saves' : s.id # id
               PROVE  IF presets'[id] = Missing THEN \A i \in DOMAIN lists' : lists'[i] # {}
                                                ELSE Stringified(presets'[id]) = server'[id]
    BY DEF PresetsAgree, Ids
  <2>1. ASSUME NEW i \in DOMAIN managers PROVE id # n + i
    BY <1>4, <1>6
  <2>2. id \in Ids
    BY <1>10, <2>1
  <2>3. /\ DOMAIN lists' = DOMAIN lists
        /\ \A i \in DOMAIN lists : lists[i] # {} => lists'[i] # {}
    BY <1>1 DEF Send
  <2>. QED BY <1>4, <1>9, <2>2, <2>3 DEF PresetsAgree, Ids
<1>. QED BY <1>12, <1>14, <1>15, <1>16

(* A preset saved again: all managers that have one selected take part, so *)
(* those with a request for a preset that is saved now are among them.     *)
LEMMA UpdatePresetSettles ==
    ASSUME PresetsInv, UpdatePreset
    PROVE  PresetsInv'
<1> USE DEF PresetsInv
<1> DEFINE S == {i \in DOMAIN managers : managers[i].selected # 0}
           T == {managers[i].selected : i \in S}
           New(i) == [manager |-> i, id |-> managers[i].selected]
           p == Values(model, None)
<1>1. UNCHANGED presets
  BY DEF UpdatePreset
<1>2. /\ Send([i \in S |-> managers[i].selected], p, FALSE)
      /\ server' = [id \in DOMAIN server |->
                      IF id \in T THEN Stringified(Values(model, server[id].name))
                                  ELSE server[id]]
  BY DEF UpdatePreset
<1>3. /\ IsPreset(p)
      /\ \A n : LET q == [p EXCEPT !.name = n]
              IN Stringified(q) = Stringified(Values(model, n)) /\ IsPreset(Stringified(q))
                 /\ Stringified(q).name = n /\ Stringified(Stringified(q)) = Stringified(q)
  <2>1. \A n : /\ [p EXCEPT !.name = n] = Values(model, n) /\ IsPreset(Values(model, n))
               /\ Values(model, n).name = n
    BY Sendable
  <2>. QED BY <2>1, Sendable, Texts
<1> HIDE DEF p
<1>4. /\ \A i \in S : managers'[i] = [managers[i] EXCEPT !.change = p, !.named = FALSE]
      /\ \A i \in DOMAIN managers \ S : managers'[i] = managers[i]
      /\ DOMAIN managers' = DOMAIN managers /\ managers' = [i \in DOMAIN managers' |-> managers'[i]]
      /\ saves' = saves \cup {New(i) : i \in S}
      /\ unsure \subseteq unsure'
      /\ \A i \in S : Pending(i) # {} => Pending(i) \cup {managers[i].selected} \subseteq unsure'
  BY <1>2 DEF Send
<1>5. \A i \in S :
        /\ managers'[i].selected = managers[i].selected /\ managers'[i].named = FALSE
        /\ managers'[i].change = p /\ IsManager(managers'[i])
  <2> TAKE i \in S
  <2>1. /\ managers'[i] = [managers[i] EXCEPT !.change = p, !.named = FALSE]
        /\ IsManager(managers[i])
    BY <1>4 DEF Shapes
  <2>. QED BY <2>1 DEF IsManager
<1>6. \A i : IsSave(New(i)) /\ New(i).manager = i /\ New(i).id = managers[i].selected
  BY DEF IsSave
<1>7. /\ S \subseteq DOMAIN managers /\ Known' = Known /\ Known \subseteq Ids
      /\ T \subseteq Ids /\ T \subseteq Known \cup unsure
  BY <1>1, KnownPresets DEF Shapes, Known, Loadable
<1>8. /\ \A i \in S : managers[i].selected \in T
      /\ \A i \in DOMAIN managers : managers[i].selected \in T => i \in S
      /\ \A i \in DOMAIN managers \ S : managers[i].selected = 0
      /\ \A id \in T : \E i \in S : managers[i].selected = id
  BY KnownPresets, <1>7
<1>9. /\ DOMAIN server' = Ids /\ IsSeq(server)' /\ IsSeq(managers)'
      /\ \A id \in T : server'[id] = Stringified([p EXCEPT !.name = server[id].name])
      /\ \A id \in Ids \ T : server'[id] = server[id]
  BY <1>2, <1>3, <1>4, <1>7, Mapped DEF Ids, Shapes
<1> HIDE DEF S, T, New
<1>10. \A id \in Ids : /\ IsPreset(server'[id]) /\ Stringified(server'[id]) = server'[id]
                       /\ server'[id].name = server[id].name
  <2> TAKE id \in Ids
  <2>1. CASE id \in T
    <3>1. server'[id] = Stringified([p EXCEPT !.name = server[id].name])
      BY <1>9, <2>1
    <3>. QED BY <1>3, <3>1
  <2>2. CASE id \notin T
    BY <1>9, <2>2 DEF Shapes
  <2>. QED BY <2>1, <2>2
<1>11. ASSUME NEW s \in saves'
       PROVE  \/ s \in saves /\ s.manager \in DOMAIN managers
              \/ /\ s.manager \in S /\ s = New(s.manager)
                 /\ s.id = managers[s.manager].selected /\ s.id \in T
  <2>1. s \in saves => s.manager \in DOMAIN managers
    BY DEF Shapes
  <2>2. ASSUME NEW i \in S, s = New(i)
        PROVE  /\ s.manager \in S /\ s = New(s.manager)
               /\ s.id = managers[s.manager].selected /\ s.id \in T
    BY <1>6, <1>8, <2>2
  <2>. QED BY <1>4, <2>1, <2>2
<1>12. Shapes'
  <2>1. \A i \in DOMAIN managers' : /\ IsManager(managers'[i]) /\ managers'[i].named \in BOOLEAN
                                    /\ managers'[i].selected \in Loadable'
    <3>1. Loadable \subseteq Loadable'
      BY <1>4, <1>7, <1>9 DEF Loadable, Ids
    <3> TAKE i \in DOMAIN managers'
    <3>2. CASE i \in S
      BY <1>5, <1>7, <3>1, <3>2 DEF Shapes
    <3>3. CASE i \notin S
      BY <1>4, <1>7, <3>1, <3>3 DEF Shapes
    <3>. QED BY <3>2, <3>3
  <2>2. ASSUME NEW s \in saves'
        PROVE  /\ IsSave(s) /\ s.manager \in DOMAIN managers' /\ s.id \in Ids'
               /\ IsPreset(managers'[s.manager].change)
    <3>1. IsSave(s) /\ s.manager \in DOMAIN managers /\ s.id \in Ids
      BY <1>6, <1>7, <1>11 DEF Shapes
    <3>2. IsPreset(managers'[s.manager].change)
      <4>1. CASE s.manager \in S
        BY <1>3, <1>5, <4>1
      <4>2. CASE s.manager \notin S
        BY <1>4, <1>11, <4>2 DEF Shapes
      <4>. QED BY <4>1, <4>2
    <3>. QED BY <1>4, <1>9, <3>1, <3>2 DEF Ids
  <2>. QED BY <1>1, <1>9, <1>10, <2>1, <2>2 DEF Shapes, Ids
<1>13. ASSUME NEW s \in saves', s.id \notin unsure'
       PROVE  InStep(s)'
  <2>1. CASE s.manager \in S
    <3> DEFINE i == s.manager
    <3>1. Pending(i) = {}
      <4>1. s \in saves => FALSE
        BY <1>4, <1>13, <2>1, KnownPresets
      <4>. QED BY <1>4, <1>11, <1>13, <2>1, <4>1
    <3>2. s = New(i) /\ s.id = managers[i].selected /\ s.id \in T
      BY <1>11, <2>1, <3>1, KnownPresets
    <3>3. \A t \in saves' : t.manager = i => t = s
      BY <1>11, <3>1, <3>2, KnownPresets
    <3>4. Pending(i)' = {s.id}
      BY <3>3 DEF Pending
    <3>5. Stringified(Taken(managers'[i], server'[s.id])) = server'[s.id]
      <4>1. server'[s.id].name = server[s.id].name
        BY <1>7, <1>10, <3>2
      <4>. QED BY <1>3, <1>5, <1>9, <2>1, <3>2, <4>1 DEF Taken
    <3>6. managers'[i].selected # 0 /\ ~managers'[i].named
      BY <1>5, <1>7, <2>1, <3>2, KnownPresets
    <3>7. s.id \in Known
      BY <1>4, <1>7, <1>13, <3>2
    <3>. QED BY <1>7, <3>2, <3>4, <3>5, <3>6, <3>7 DEF InStep
  <2>2. CASE s.manager \notin S
    <3>1. s \in saves /\ s.manager \in DOMAIN managers /\ s.id \notin unsure /\ InStep(s)
      BY <1>4, <1>11, <1>13, <2>2 DEF SavesInStep
    <3>2. managers[s.manager].selected = 0 /\ managers'[s.manager] = managers[s.manager]
      BY <1>4, <1>8, <2>2, <3>1
    <3>3. s.id \notin T
      BY <1>7, <1>8, <3>1, <3>2 DEF InStep
    <3>4. server'[s.id] = server[s.id]
      BY <1>9, <3>1, <3>3 DEF Shapes
    <3>5. Pending(s.manager)' = Pending(s.manager)
      <4>1. \A t \in saves' : t.manager = s.manager => t \in saves
        BY <1>11, <2>2
      <4>. QED BY <1>4, <4>1 DEF Pending
    <3>6. \A t \in saves' : t.id = s.id => t \in saves
      BY <1>11, <3>3
    <3>7. \A i \in DOMAIN managers' : managers'[i].selected = s.id => managers'[s.manager].selected # 0
      <4> SUFFICES ASSUME NEW i \in DOMAIN managers, managers'[i].selected = s.id PROVE FALSE
        BY <1>4
      <4>1. managers[i].selected = s.id
        BY <1>4, <1>5
      <4>. QED BY <3>1, <3>2, <4>1 DEF InStep
    <3>. QED BY <1>7, <3>1, <3>2, <3>4, <3>5, <3>6, <3>7 DEF InStep
  <2>. QED BY <2>1, <2>2
<1>14. NamesKept'
  BY <1>1, <1>4, <1>7, <1>10 DEF NamesKept
<1>15. PresetsAgree'
  <2> SUFFICES ASSUME NEW id \in Ids, id \notin unsure', \A s \in saves' : s.id # id
               PROVE  IF presets[id] = Missing THEN \A i \in DOMAIN lists' : lists'[i] # {}
                                               ELSE Stringified(presets[id]) = server'[id]
    BY <1>1, <1>9 DEF PresetsAgree
  <2>1. ASSUME NEW i \in S PROVE managers[i].selected # id
    BY <1>4, <1>6
  <2>2. id \notin T
    BY <1>8, <2>1
  <2>3. /\ DOMAIN lists' = DOMAIN lists
        /\ \A i \in DOMAIN lists : lists[i] # {} => lists'[i] # {}
    BY <1>2 DEF Send
  <2>. QED BY <1>4, <1>9, <2>2, <2>3 DEF PresetsAgree, Ids
<1>. QED BY <1>12, <1>13, <1>14, <1>15 DEF SavesInStep

(* An answer: unless the preset is in doubt, the change that the manager   *)
(* holds is the one the server stored.                                     *)
LEMMA HandleSaveResponseSettles ==
    ASSUME PresetsInv, HandleSaveResponse
    PROVE  PresetsInv'
<1> USE DEF PresetsInv
<1>1. UNCHANGED <<server, lists, unsure>>
  BY DEF HandleSaveResponse
<1>2. PICK s \in saves :
        LET manager == managers[s.manager]
            known   == presets[s.id] # Missing
            p       == Taken(manager, presets[s.id])
            name    == p.name
            loads   == manager.named /\ name # model.preset /\ Len(managers) > 1
            After(q) == IF loads THEN Loaded(q, p) ELSE q
        IN /\ saves' = saves \ {s}
           /\ IF ~manager.named /\ ~known
              THEN UNCHANGED <<model, presets, managers>>
              ELSE /\ presets' = [id \in DOMAIN presets |->
                                    After(IF id = s.id THEN p ELSE presets[id])]
                   /\ managers' = [i \in DOMAIN managers |->
                        IF i = s.manager
                        THEN [selected |-> IF manager.named THEN s.id ELSE manager.selected,
                              change |-> After(p), named |-> TRUE]
                        ELSE [managers[i] EXCEPT !.selected = IF manager.named /\ name # model.preset
                                                              THEN s.id ELSE @,
                                                 !.change = After(@)]]
  BY DEF HandleSaveResponse
<1> DEFINE m == s.manager
           p == Taken(managers[m], presets[s.id])
<1>3. /\ m \in DOMAIN managers /\ s.id \in Ids /\ IsSave(s)
      /\ s.id \notin unsure => InStep(s)
  BY DEF Shapes, SavesInStep
<1>4. saves' = saves \ {s}
  BY <1>2
<1>5. ASSUME NEW t \in saves', t.id \notin unsure
      PROVE  /\ t \in saves /\ InStep(t) /\ Pending(t.manager)' = {t.id}
             /\ t.manager \in DOMAIN managers /\ t.manager # m /\ t.id \in Ids
  <2>1. t \in saves /\ t # s /\ InStep(t) /\ IsSave(t) /\ t.manager \in DOMAIN managers /\ t.id \in Ids
    BY <1>4, <1>5 DEF SavesInStep, Shapes
  <2>2. t.manager # m
    <3>1. ASSUME t.manager = m PROVE s.id = t.id
      BY <2>1, <3>1, KnownPresets DEF InStep
    <3>. QED BY <1>3, <2>1, <3>1 DEF IsSave
  <2>3. Pending(t.manager)' = Pending(t.manager)
    BY <1>4, <2>2 DEF Pending
  <2>. QED BY <2>1, <2>2, <2>3 DEF InStep
<1>6. CASE ~managers[m].named /\ presets[s.id] = Missing
  <2>1. UNCHANGED <<presets, managers>>
    BY <1>2, <1>6
  <2>2. s.id \in unsure
    BY <1>3, <1>6 DEF InStep, Known
  <2>3. Shapes'
    BY <1>1, <1>4, <2>1 DEF Shapes, Ids, Known, Loadable
  <2>4. SavesInStep'
    BY <1>1, <1>4, <1>5, <2>1 DEF SavesInStep, InStep, Known
  <2>5. NamesKept' /\ PresetsAgree'
    BY <1>1, <1>4, <2>1, <2>2 DEF NamesKept, PresetsAgree, Known
  <2>. QED BY <2>3, <2>4, <2>5
<1>7. CASE managers[m].named \/ presets[s.id] # Missing
  <2> DEFINE loads    == managers[m].named /\ p.name # model.preset /\ Len(managers) > 1
             moves    == managers[m].named /\ p.name # model.preset
             After(x) == IF loads THEN Loaded(x, p) ELSE x
  <2>1. /\ presets' = [id \in DOMAIN presets |-> After(IF id = s.id THEN p ELSE presets[id])]
        /\ managers' = [i \in DOMAIN managers |->
             IF i = m
             THEN [selected |-> IF managers[m].named THEN s.id ELSE managers[m].selected,
                   change |-> After(p), named |-> TRUE]
             ELSE [managers[i] EXCEPT !.selected = IF moves THEN s.id ELSE @, !.change = After(@)]]
    BY <1>2, <1>7
  <2>2. IsPreset(p) /\ p # Missing
    BY <1>3, <1>7, Rewritten, Texts DEF Taken, Shapes
  <2> HIDE DEF p, loads, moves
  <2>3. DOMAIN managers' = DOMAIN managers
    BY <2>1
  <2>4. /\ IsManager(managers'[m]) /\ managers'[m].named = TRUE /\ managers'[m].change = After(p)
        /\ managers'[m].selected = IF managers[m].named THEN s.id ELSE managers[m].selected
    BY <1>3, <2>1 DEF IsManager
  <2>5. \A i \in DOMAIN managers \ {m} :
          /\ IsManager(managers'[i])
          /\ managers'[i].named = managers[i].named /\ managers'[i].change = After(managers[i].change)
          /\ managers'[i].selected = IF moves THEN s.id ELSE managers[i].selected
    <3> TAKE i \in DOMAIN managers \ {m}
    <3>1. managers'[i] = [managers[i] EXCEPT !.selected = IF moves THEN s.id ELSE managers[i].selected,
                                             !.change = After(managers[i].change)]
      BY <2>1
    <3>2. IsManager(managers[i])
      BY DEF Shapes
    <3>. QED BY <3>1, <3>2 DEF IsManager
  <2>6. \/ \A i \in DOMAIN managers \ {m} : managers'[i].selected = managers[i].selected
        \/ \A i \in DOMAIN managers \ {m} : managers'[i].selected = s.id
    BY <2>5
  <2>7. /\ IsSeq(presets)' /\ IsSeq(managers)' /\ DOMAIN presets' = Ids
        /\ presets'[s.id] = After(p) /\ \A id \in Ids \ {s.id} : presets'[id] = After(presets[id])
    BY <1>3, <2>1, <2>3, Mapped DEF Shapes
  <2> HIDE DEF After
  <2>8. /\ \A x : x = Missing => After(x) = Missing
        /\ \A x : IsPreset(x) => /\ IsPreset(After(x)) /\ After(x).name = x.name
                                 /\ Stringified(After(x)) = Stringified(x) /\ After(x) # Missing
    <3>1. \A x : Alike(x, After(x))
      BY Loadings DEF After
    <3>. QED BY <3>1, Alikes
  <2>9. Known' = Known \cup {s.id}
    BY <1>3, <2>2, <2>7, <2>8, Texts DEF Known, Shapes
  <2>10. Shapes'
    <3>1. \A i \in DOMAIN managers' : /\ IsManager(managers'[i]) /\ managers'[i].named \in BOOLEAN
                                      /\ managers'[i].selected \in Loadable'
      BY <1>1, <1>3, <2>3, <2>4, <2>5, <2>9 DEF Shapes, Loadable, Ids
    <3>2. \A t \in saves' : /\ IsSave(t) /\ t.manager \in DOMAIN managers' /\ t.id \in Ids
                            /\ IsPreset(managers'[t.manager].change)
      BY <1>3, <1>4, <2>2, <2>3, <2>4, <2>5, <2>8 DEF Shapes
    <3>3. \A id \in Ids : presets'[id] = Missing \/ IsPreset(presets'[id])
      BY <2>2, <2>7, <2>8 DEF Shapes
    <3>. QED BY <1>1, <2>7, <3>1, <3>2, <3>3 DEF Shapes, Ids
  <2>11. ASSUME NEW t \in saves', t.id \notin unsure
         PROVE  InStep(t)'
    <3>1. \A old : Stringified(Taken(managers'[t.manager], old)) = Stringified(Taken(managers[t.manager], old))
      BY <1>5, <2>5, <2>11, Loadings, TakenAlike DEF After, Shapes
    <3>2. ASSUME NEW i \in DOMAIN managers, managers'[i].selected = t.id,
                 managers'[t.manager].selected = 0
          PROVE  FALSE
      <4>1. \A j \in DOMAIN managers \ {m} : managers'[j].selected = managers[j].selected
        BY <1>3, <1>5, <2>6, <2>11, <3>2, KnownPresets
      <4>2. managers[t.manager].selected = 0
        BY <1>5, <2>11, <3>2, <4>1
      <4>3. managers[i].selected # t.id
        BY <1>5, <2>11, <4>2 DEF InStep
      <4>4. i = m /\ managers[m].named /\ s.id = t.id
        BY <2>4, <3>2, <4>1, <4>3
      <4>5. InStep(s)
        BY <1>3, <2>11, <4>4
      <4>. QED BY <1>4, <1>5, <2>11, <4>4, <4>5 DEF InStep
    <3>. QED BY <1>1, <1>4, <1>5, <2>3, <2>5, <2>9, <2>11, <3>1, <3>2 DEF InStep
  <2>12. s.id \notin unsure => /\ Stringified(p) = server[s.id] /\ p.name = server[s.id].name
    <3> SUFFICES ASSUME s.id \notin unsure PROVE Stringified(p) = server[s.id] /\ p.name = server[s.id].name
      OBVIOUS
    <3>1. InStep(s)
      BY <1>3
    <3>2. p = Taken(managers[m], server[s.id])
      <4>1. CASE managers[m].named
        BY <4>1 DEF p, Taken
      <4>2. CASE ~managers[m].named
        <5>1. presets[s.id].name = server[s.id].name
          BY <1>3, <1>7, <4>2 DEF NamesKept, Known, Shapes
        <5>. QED BY <4>2, <5>1 DEF p, Taken
      <4>. QED BY <4>1, <4>2
    <3>. QED BY <2>2, <3>1, <3>2, Texts DEF InStep
  <2>13. NamesKept'
    <3> SUFFICES ASSUME NEW id \in Known', id \notin unsure PROVE presets'[id].name = server[id].name
      BY <1>1 DEF NamesKept
    <3>1. CASE id = s.id
      BY <2>2, <2>7, <2>12, <2>8, <3>1
    <3>2. CASE id # s.id
      BY <2>7, <2>9, <2>8, <3>2, KnownPresets DEF NamesKept
    <3>. QED BY <3>1, <3>2
  <2>14. PresetsAgree'
    <3> SUFFICES ASSUME NEW id \in Ids, id \notin unsure, \A t \in saves' : t.id # id
                 PROVE  IF presets'[id] = Missing THEN \A i \in DOMAIN lists : lists[i] # {}
                                                 ELSE Stringified(presets'[id]) = server[id]
      BY <1>1 DEF PresetsAgree, Ids
    <3>1. CASE id = s.id
      BY <2>2, <2>7, <2>12, <2>8, <3>1
    <3>2. CASE id # s.id
      <4>1. \A t \in saves : t.id # id
        BY <1>4, <3>2
      <4>. QED BY <2>7, <2>8, <3>2, <4>1 DEF PresetsAgree, Ids, Shapes
    <3>. QED BY <3>1, <3>2
  <2>. QED BY <1>1, <2>10, <2>11, <2>13, <2>14 DEF SavesInStep
<1>. QED BY <1>6, <1>7

LEMMA SaveFailsSettles ==
    ASSUME PresetsInv, SaveFails
    PROVE  PresetsInv'
<1> USE DEF PresetsInv
<1>1. UNCHANGED <<presets, server, managers, lists>>
  BY DEF SaveFails
<1>2. PICK s \in saves : saves' = saves \ {s} /\ unsure' = unsure \cup {s.id}
  BY DEF SaveFails
<1>3. Shapes' /\ NamesKept'
  BY <1>1, <1>2 DEF Shapes, NamesKept, Ids, Known, Loadable
<1>4. ASSUME NEW t \in saves', t.id \notin unsure'
      PROVE  InStep(t)'
  <2>1. t \in saves /\ t.id # s.id /\ InStep(t) /\ IsSave(t)
    BY <1>2, <1>4 DEF SavesInStep, Shapes
  <2>2. Pending(t.manager)' = Pending(t.manager)
    <3>1. s.manager # t.manager
      BY <2>1, KnownPresets DEF InStep
    <3>. QED BY <1>2, <3>1 DEF Pending
  <2>. QED BY <1>1, <1>2, <2>1, <2>2 DEF InStep, Known
<1>5. PresetsAgree'
  BY <1>1, <1>2 DEF PresetsAgree
<1>. QED BY <1>3, <1>4, <1>5 DEF SavesInStep

(* A manager more, which has nothing selected and asks for a list.         *)
LEMMA ReconnectedSettles ==
    ASSUME PresetsInv, Reconnected, IsSeq(lists)
    PROVE  PresetsInv'
<1> USE DEF PresetsInv
<1> DEFINE n == Len(managers)
<1>1. /\ managers' = Append(managers, Manager) /\ lists' = Append(lists, {server})
      /\ UNCHANGED <<presets, server, saves, unsure>>
  BY DEF Reconnected
<1>2. /\ IsSeq(managers)' /\ n \in Nat /\ DOMAIN managers = 1..n /\ DOMAIN managers' = 1..(n + 1)
      /\ managers'[n + 1] = Manager
      /\ \A i \in DOMAIN managers : managers'[i] = managers[i]
  BY <1>1, Appended DEF Shapes
<1>3. IsManager(Manager) /\ Manager.selected = 0 /\ Manager.named = FALSE
  BY DEF Manager, IsManager
<1>4. UNCHANGED <<Known, Loadable>>
  BY <1>1 DEF Known, Loadable, Ids
<1>5. \A i \in DOMAIN managers' : i \in DOMAIN managers \/ i = n + 1
  BY <1>2
<1>6. Shapes'
  <2>1. \A i \in DOMAIN managers' : /\ IsManager(managers'[i]) /\ managers'[i].named \in BOOLEAN
                                    /\ managers'[i].selected \in Loadable'
    BY <1>2, <1>3, <1>4, <1>5 DEF Shapes, Loadable
  <2>. QED BY <1>1, <1>2, <1>4, <2>1 DEF Shapes, Ids
<1>7. ASSUME NEW s \in saves, s.id \notin unsure
      PROVE  InStep(s)'
  <2>1. InStep(s) /\ s.manager \in DOMAIN managers /\ s.id \in Ids /\ s.id # 0
    BY <1>7, KnownPresets DEF SavesInStep, Shapes
  <2>2. managers'[s.manager] = managers[s.manager]
    BY <1>2, <2>1
  <2>3. \A i \in DOMAIN managers' : managers'[i].selected = s.id => managers'[s.manager].selected # 0
    BY <1>2, <1>3, <1>5, <2>1, <2>2 DEF InStep
  <2>. QED BY <1>1, <1>4, <2>1, <2>2, <2>3 DEF InStep, Pending
<1>8. NamesKept'
  BY <1>1, <1>4 DEF NamesKept
<1>9. \A i \in DOMAIN lists' : lists'[i] = {server} \/ (i \in DOMAIN lists /\ lists'[i] = lists[i])
  BY <1>1, Appended
<1>10. PresetsAgree'
  BY <1>1, <1>9 DEF PresetsAgree
<1>. QED BY <1>1, <1>6, <1>7, <1>8, <1>10 DEF SavesInStep

(* A list: what it does not have as the server does is in doubt from then  *)
(* on, so the rest is as the server has it.                                *)
LEMMA PresetsReceivedSettles ==
    ASSUME PresetsInv, PresetsReceived, Lists
    PROVE  PresetsInv'
<1> USE DEF PresetsInv
<1>1. UNCHANGED <<server, saves>>
  BY DEF PresetsReceived
<1>2. PICK i \in DOMAIN lists : \E list \in lists[i] :
        /\ presets' = [id \in DOMAIN server |-> IF id \in DOMAIN list THEN list[id] ELSE Missing]
        /\ UNCHANGED managers \/ Deselects
        /\ unsure' = unsure \cup Stale(list)
              \cup UNION {Pending(j) : j \in {k \in DOMAIN managers :
                                                managers'[k].change # managers[k].change}}
  BY DEF PresetsReceived
<1>3. PICK list \in lists[i] :
        /\ Listed(list)
        /\ presets' = [id \in DOMAIN server |-> IF id \in DOMAIN list THEN list[id] ELSE Missing]
        /\ UNCHANGED managers \/ Deselects
        /\ unsure' = unsure \cup Stale(list)
              \cup UNION {Pending(j) : j \in {k \in DOMAIN managers :
                                                managers'[k].change # managers[k].change}}
  BY <1>2 DEF Lists
<1>4. \A id \in Ids \ unsure' : id \in Known' /\ presets'[id] = server[id]
  <2> TAKE id \in Ids \ unsure'
  <2>1. id \in DOMAIN list /\ list[id] = server[id]
    BY <1>3 DEF Stale, Ids
  <2>2. presets'[id] = server[id] /\ id \in DOMAIN presets' /\ server[id] # Missing
    BY <1>3, <2>1, Texts DEF Shapes, Ids
  <2>3. presets'[id] # Missing
    BY <2>2
  <2>. QED BY <2>2, <2>3 DEF Known
<1>5. /\ IsSeq(presets)' /\ DOMAIN presets' = Ids
      /\ \A id \in Ids : presets'[id] = Missing \/ IsPreset(presets'[id])
  BY <1>3, Mapped DEF Shapes, Ids, Listed
<1>6. /\ DOMAIN managers' = DOMAIN managers /\ IsSeq(managers)'
      /\ \A j \in DOMAIN managers :
           /\ IsManager(managers'[j]) /\ managers'[j].named = managers[j].named
           /\ managers'[j].selected \in {0, managers[j].selected}
           /\ IsPreset(managers[j].change) => IsPreset(managers'[j].change)
      /\ UNCHANGED managers \/ \A j \in DOMAIN managers : managers'[j].selected = 0
  <2>1. CASE UNCHANGED managers
    BY <2>1 DEF Shapes
  <2>2. CASE Deselects
    <3>1. managers' = [j \in DOMAIN managers |->
                         [managers[j] EXCEPT !.selected = 0, !.change = Follow(@, model'.maps)]]
      BY <2>2 DEF Deselects, Shared, Follow
    <3>2. DOMAIN managers' = DOMAIN managers /\ IsSeq(managers)'
      BY <3>1, Mapped DEF Shapes
    <3>3. ASSUME NEW j \in DOMAIN managers
          PROVE  /\ IsManager(managers'[j]) /\ managers'[j].named = managers[j].named
                 /\ managers'[j].selected = 0
                 /\ IsPreset(managers[j].change) => IsPreset(managers'[j].change)
      <4>1. /\ managers'[j] = [managers[j] EXCEPT !.selected = 0,
                                                 !.change = Follow(managers[j].change, model'.maps)]
            /\ IsManager(managers[j])
        BY <3>1 DEF Shapes
      <4>2. IsPreset(managers[j].change) => IsPreset(Follow(managers[j].change, model'.maps))
        BY Sharings
      <4>. QED BY <4>1, <4>2 DEF IsManager
    <3>. QED BY <3>2, <3>3
  <2>. QED BY <1>3, <2>1, <2>2
<1>7. Shapes'
  <2>1. \A id \in Ids : id \in Loadable'
    BY <1>1, <1>4 DEF Loadable, Ids
  <2>2. \A j \in DOMAIN managers : managers[j].selected \in Ids \cup {0}
    BY DEF Shapes, Loadable, Known
  <2>3. \A j \in DOMAIN managers' : managers'[j].selected \in Loadable'
    BY <1>6, <2>1, <2>2 DEF Loadable
  <2>. QED BY <1>1, <1>5, <1>6, <2>3 DEF Shapes, Ids
<1>8. ASSUME NEW s \in saves, s.id \notin unsure'
      PROVE  InStep(s)'
  <2>1. /\ InStep(s) /\ s.manager \in DOMAIN managers /\ s.id \in Ids /\ s.id # 0
        /\ s.id \in Pending(s.manager)
    BY <1>3, <1>8, KnownPresets DEF SavesInStep, Shapes
  <2>2. managers'[s.manager].change = managers[s.manager].change
    BY <1>3, <1>8, <2>1
  <2>3. /\ managers'[s.manager].named = managers[s.manager].named
        /\ \A old : Taken(managers'[s.manager], old) = Taken(managers[s.manager], old)
    BY <1>6, <2>1, <2>2 DEF Taken
  <2>4. s.id \in Known'
    BY <1>4, <1>8, <2>1
  <2>5. \A j \in DOMAIN managers' : managers'[j].selected = s.id => managers'[s.manager].selected # 0
    BY <1>6, <2>1 DEF InStep
  <2>6. Pending(s.manager)' = Pending(s.manager)
    BY <1>1 DEF Pending
  <2>. QED BY <1>1, <2>1, <2>3, <2>4, <2>5, <2>6 DEF InStep
<1>9. NamesKept'
  BY <1>1, <1>4, <1>5 DEF NamesKept, Known
<1>10. PresetsAgree'
  <2> SUFFICES ASSUME NEW id \in Ids, id \notin unsure'
               PROVE  presets'[id] # Missing /\ Stringified(presets'[id]) = server[id]
    BY <1>1 DEF PresetsAgree, Ids
  <2>. QED BY <1>4 DEF Known, Shapes
<1>. QED BY <1>1, <1>7, <1>8, <1>9, <1>10 DEF SavesInStep

LEMMA PresetsStart == InitPresets => PresetsInv /\ Lists
<1> SUFFICES ASSUME InitPresets PROVE PresetsInv /\ Lists
  OBVIOUS
<1>1. /\ server = Stored /\ presets = [id \in DOMAIN Stored |-> Missing]
      /\ managers = <<Manager>> /\ lists = <<{Stored}>> /\ saves = {} /\ unsure = {}
  BY DEF InitPresets
<1>2. /\ IsSeq(Stored) /\ DOMAIN Stored = 1..Len(Stored)
      /\ \A id \in DOMAIN Stored : Stored[id] \in Preset /\ ~Stored[id].shared /\ Stored[id].map # Undefined
  <2> DEFINE S == {p \in Preset : ~p.shared /\ Storable(p)}
  <2>1. Stored \in Seq(S)
    BY PresetsAssumption
  <2>2. \A p \in S : p \in Preset /\ ~p.shared /\ p.map # Undefined
    BY DEF Storable, Undefined, NoMap, Off
  <2> HIDE DEF S
  <2>3. IsSeq(Stored) /\ DOMAIN Stored = 1..Len(Stored) /\ \A id \in DOMAIN Stored : Stored[id] \in S
    BY <2>1, Typed
  <2>. QED BY <2>2, <2>3
<1>3. \A p \in Preset : /\ IsPreset(p)
                        /\ ~p.shared /\ p.map # Undefined => Stringified(p) = p
  BY DEF Preset, IsPreset, Keys, Stringified
<1>4. \A id \in DOMAIN Stored : IsPreset(Stored[id]) /\ Stringified(Stored[id]) = Stored[id]
  BY <1>2, <1>3
<1>5. \A x : IsSeq(<<x>>) /\ DOMAIN <<x>> = {1} /\ <<x>>[1] = x
  <2> TAKE x
  <2>1. <<x>> \in Seq({x}) /\ DOMAIN <<x>> = {1} /\ <<x>>[1] = x
    OBVIOUS
  <2>2. IsSeq(<<x>>)
    BY <2>1, Typed
  <2>. QED BY <2>1, <2>2
<1>6. IsManager(Manager) /\ Manager.selected = 0 /\ Manager.named = FALSE
  BY DEF Manager, IsManager
<1>7. Shapes
  <2>1. IsSeq(presets)
    BY <1>1, <1>2, Mapped
  <2>2. /\ IsSeq(server) /\ IsSeq(managers) /\ DOMAIN presets = Ids
        /\ \A id \in Ids : IsPreset(server[id]) /\ Stringified(server[id]) = server[id]
        /\ \A id \in Ids : presets[id] = Missing
    BY <1>1, <1>2, <1>4, <1>5 DEF Ids
  <2>3. \A i \in DOMAIN managers : managers[i] = Manager
    BY <1>1, <1>5
  <2>4. saves = {}
    BY <1>1
  <2>. QED BY <1>6, <2>1, <2>2, <2>3, <2>4 DEF Shapes, Loadable
<1>8. SavesInStep /\ NamesKept
  BY <1>1 DEF SavesInStep, NamesKept, Known
<1>9. DOMAIN lists = {1} /\ lists[1] = {Stored} /\ IsSeq(lists) /\ DOMAIN managers = {1}
  BY <1>1, <1>5
<1>10. PresetsAgree
  BY <1>1, <1>9 DEF PresetsAgree
<1>11. Lists
  BY <1>1, <1>4, <1>9 DEF Lists, Listed, Ids
<1>. QED BY <1>7, <1>8, <1>10, <1>11 DEF PresetsInv

(* Every list on its way grows by what is saved, as the server has it.     *)
LEMMA ListsStay ==
    ASSUME PresetsInv, Lists, [Next]_vars, Shapes'
    PROVE  Lists'
<1> USE DEF PresetsInv
<1>1. CASE UNCHANGED <<server, lists>> /\ DOMAIN managers' = DOMAIN managers
  BY <1>1 DEF Lists, Listed, Ids
<1>2. ASSUME CreatePreset \/ UpdatePreset
      PROVE  Lists'
  <2>1. \E idOf, p, named : Send(idOf, p, named)
    BY <1>2 DEF CreatePreset, UpdatePreset
  <2>2. /\ DOMAIN managers' = DOMAIN managers
        /\ lists' = [i \in DOMAIN lists |-> IF lists[i] = {} THEN {} ELSE lists[i] \cup {server'}]
    BY <2>1 DEF Send
  <2>3. IsSeq(lists')
    BY <2>2, Mapped DEF Lists
  <2>4. Ids \subseteq Ids'
    <3>1. CASE CreatePreset
      <4>1. \E t : server' = server \o [i \in DOMAIN managers |-> t]
        BY <3>1 DEF CreatePreset
      <4>2. PICK t : server' = server \o [i \in DOMAIN managers |-> t]
        BY <4>1
      <4> DEFINE more == [i \in DOMAIN managers |-> t]
      <4>3. IsSeq(more) /\ Len(more) \in Nat
        BY Mapped, SequenceDomain DEF Shapes
      <4> HIDE DEF more
      <4>4. DOMAIN server' = 1..(Len(server) + Len(more))
        BY <4>2, <4>3, Joined DEF Shapes, more
      <4>5. DOMAIN server = 1..Len(server) /\ Len(server) \in Nat
        BY SequenceDomain DEF Shapes
      <4>. QED BY <4>3, <4>4, <4>5 DEF Ids
    <3>2. CASE UpdatePreset
      BY <3>2 DEF UpdatePreset, Ids
    <3>. QED BY <1>2, <3>1, <3>2
  <2>5. Listed(server)'
    BY DEF Shapes, Listed, Ids
  <2>6. \A i \in DOMAIN lists' : \A list \in lists'[i] : Listed(list)'
    <3> TAKE i \in DOMAIN lists'
    <3> TAKE list \in lists'[i]
    <3>1. list = server' \/ list \in lists[i]
      BY <2>2
    <3>2. ASSUME list \in lists[i] PROVE Listed(list)'
      <4>1. Listed(list)
        BY <2>2, <3>2 DEF Lists
      <4>. QED BY <2>4, <4>1 DEF Listed
    <3>. QED BY <2>5, <3>1, <3>2
  <2>. QED BY <2>2, <2>3, <2>6 DEF Lists
<1>3. ASSUME Reconnected
      PROVE  Lists'
  <2>1. /\ managers' = Append(managers, Manager) /\ lists' = Append(lists, {server})
        /\ UNCHANGED server
    BY <1>3 DEF Reconnected
  <2>2. /\ IsSeq(lists') /\ DOMAIN lists = 1..Len(lists) /\ DOMAIN lists' = 1..(Len(lists) + 1)
        /\ DOMAIN managers = 1..Len(managers) /\ DOMAIN managers' = 1..(Len(managers) + 1)
        /\ Len(lists) \in Nat /\ Len(managers) \in Nat
    BY <2>1, Appended DEF Lists, Shapes
  <2>3. DOMAIN lists' = DOMAIN managers'
    <3>1. Len(lists) = Len(managers)
      BY SameLength DEF Lists, Shapes
    <3>. QED BY <2>2, <3>1
  <2>4. \A i \in DOMAIN lists' : lists'[i] = {server} \/ (i \in DOMAIN lists /\ lists'[i] = lists[i])
    BY <2>1, Appended DEF Lists
  <2>5. Listed(server)
    BY DEF Shapes, Listed, Ids
  <2>6. \A i \in DOMAIN lists' : \A list \in lists'[i] : Listed(list)
    BY <2>4, <2>5 DEF Lists
  <2>. QED BY <2>1, <2>2, <2>3, <2>6 DEF Lists, Listed, Ids
<1>4. ASSUME PresetsReceived
      PROVE  Lists'
  <2>1. PICK i \in DOMAIN lists : lists' = [lists EXCEPT ![i] = {}]
    BY <1>4 DEF PresetsReceived
  <2>2. UNCHANGED server /\ DOMAIN managers' = DOMAIN managers
    BY <1>4 DEF PresetsReceived, Deselects
  <2>3. IsSeq(lists') /\ DOMAIN lists' = DOMAIN lists
    BY <2>1, Mapped DEF Lists
  <2>4. \A j \in DOMAIN lists : lists'[j] \subseteq lists[j]
    BY <2>1
  <2>. QED BY <2>2, <2>3, <2>4 DEF Lists, Listed, Ids
<1>5. SwitchPreset => UNCHANGED <<server, lists>> /\ DOMAIN managers' = DOMAIN managers
  BY DEF SwitchPreset
<1>6. HandleSaveResponse => UNCHANGED <<server, lists>> /\ DOMAIN managers' = DOMAIN managers
  BY DEF HandleSaveResponse
<1>7. SaveFails => UNCHANGED <<server, lists>> /\ DOMAIN managers' = DOMAIN managers
  BY DEF SaveFails
<1>8. Metric => UNCHANGED <<server, lists>> /\ DOMAIN managers' = DOMAIN managers
  BY DEF Metric, SharedFollow
<1>9. UNCHANGED vars => UNCHANGED <<server, lists>> /\ DOMAIN managers' = DOMAIN managers
  BY DEF vars, presetVars
<1>. QED BY <1>1, <1>2, <1>3, <1>4, <1>5, <1>6, <1>7, <1>8, <1>9 DEF Next

LEMMA PresetsInductive == PresetsInv /\ Lists /\ [Next]_vars => PresetsInv' /\ Lists'
<1> SUFFICES ASSUME PresetsInv, Lists, [Next]_vars PROVE PresetsInv' /\ Lists'
  OBVIOUS
<1>1. Metric => PresetsInv'
  BY SharedFollows DEF Metric
<1>2. ASSUME UNCHANGED vars PROVE PresetsInv'
  <2>1. UNCHANGED <<presets, server, managers, lists, saves, unsure>>
    BY <1>2 DEF vars, presetVars
  <2>2. UNCHANGED <<Known, Ids, Loadable>>
    BY <2>1 DEF Known, Ids, Loadable
  <2>3. Shapes' /\ NamesKept'
    BY <2>1, <2>2 DEF PresetsInv, Shapes, NamesKept
  <2>4. SavesInStep'
    BY <2>1, <2>2 DEF PresetsInv, SavesInStep, InStep, Pending
  <2>5. PresetsAgree'
    BY <2>1 DEF PresetsInv, PresetsAgree
  <2>. QED BY <2>3, <2>4, <2>5 DEF PresetsInv
<1>3. PresetsInv'
  BY <1>1, <1>2, SwitchPresetSettles, CreatePresetSettles, UpdatePresetSettles,
     HandleSaveResponseSettles, SaveFailsSettles, ReconnectedSettles,
     PresetsReceivedSettles DEF Next, Lists
<1>. QED BY <1>3, ListsStay DEF PresetsInv

(* Whatever the user edits, saves and loads, however often the page        *)
(* reconnects, and in whatever order lists and answers come or get lost:   *)
(* the page's copy of a preset is the one the server stores, unless an     *)
(* answer for it is missing or was taken for the answer to another change, *)
(* or a list came that the server had made before it stored the preset.    *)
THEOREM PresetsStayAgreed == Spec => []PresetsAgree
<1>1. PresetsInv => PresetsAgree
  BY DEF PresetsInv
<1>. QED BY <1>1, PresetsStart, PresetsInductive, PTL DEF Spec

(***************************************************************************)
(* The view model                                                          *)
(***************************************************************************)
Filter == [min : Int, max : Int]
Map    == [low : Int, high : Int, olow : Int, ohigh : Int]
Bar    == [of : Metrics \cup {None}, shown : BOOLEAN, filter : Filter]
IsFilter(f) == f \in Filter /\ f.min >= Off /\ f.max >= Off
IsMap(m) == /\ m \in Map /\ 0 <= m.low /\ m.low <= m.high
            /\ 0 <= m.olow /\ m.olow <= m.ohigh
IsData(d) == /\ d = [metric |-> d.metric, values |-> d.values]
             /\ d = Blank \/ d.metric \in Named
             /\ \A x \in DOMAIN d.values : x \in Devices /\ d.values[x] \in 0..Top
ViewKeys == {"selected", "rate", "timer", "wire", "data", "filters", "maps", "active",
             "filtered", "preset", "loading", "bar"}
IsView(v) ==
  /\ v = [k \in ViewKeys |-> v[k]]
  /\ v.selected \in Metrics \cup {None} /\ v.rate \in {0, 1}
  /\ v.timer \in BOOLEAN /\ v.loading \in BOOLEAN /\ v.active \in BOOLEAN
  /\ v.wire \in [Metrics -> Nat] /\ IsData(v.data) /\ v.filtered \subseteq Devices
  /\ v.filters \in [Named \cup {None} -> Filter]
  /\ \A m \in Named \cup {None} : v.filters[m] = Unset \/ IsFilter(v.filters[m])
  /\ v.maps \in [Named -> Map] /\ v.bar \in Bar

(* What is not a filter, a map or the bar's.                               *)
Kept(v, w) == /\ w.selected = v.selected /\ w.rate = v.rate /\ w.timer = v.timer
              /\ w.wire = v.wire /\ w.loading = v.loading /\ w.preset = v.preset
              /\ w.data = v.data

(* The devices that pass are those of the filter.                          *)
Fresh(v) == v.active => v.filtered = Satisfying(v.filters[v.selected], v.data.values)

(* The names and the values that stand for what is not there.              *)
LEMMA Constants ==
  /\ None \notin Metrics /\ Failed \notin Metrics /\ None # Failed
  /\ Named = Metrics \cup {Failed} /\ Valid \subseteq Metrics
  /\ Unset \in Filter /\ ~IsFilter(Unset) /\ IsFilter(NoFilter) /\ NoFilter # Unset
  /\ NoMap \in Map /\ ~IsMap(NoMap) /\ Undefined \in Map /\ ~IsMap(Undefined) /\ NoMap # Undefined
  /\ IsData(Blank) /\ DOMAIN Blank.values = {} /\ Blank.metric = None
<1>1. None \notin Metrics /\ Failed \notin Metrics /\ None # Failed
  BY MetricsAssumption DEF None, Failed
<1>2. /\ Unset \in Filter /\ ~IsFilter(Unset) /\ IsFilter(NoFilter) /\ NoFilter # Unset
  BY DEF Filter, IsFilter, Unset, NoFilter, Off
<1>3. /\ NoMap \in Map /\ ~IsMap(NoMap) /\ Undefined \in Map /\ ~IsMap(Undefined) /\ NoMap # Undefined
  BY DEF Map, IsMap, NoMap, Undefined, Off
<1>4. IsData(Blank) /\ DOMAIN Blank.values = {} /\ Blank.metric = None
  BY DEF IsData, Blank, Empty
<1>. QED BY <1>1, <1>2, <1>3, <1>4, MetricsAssumption DEF Named

(* The filter of the selected metric is applied to the data there is.      *)
LEMMA ApplyFilterView ==
    ASSUME NEW v, IsView(v), NEW w, w = ApplyFilter(v), NEW f, f = v.filters[v.selected]
    PROVE  /\ IsView(w) /\ Kept(v, w)
           /\ w.filters = v.filters /\ w.maps = v.maps /\ w.bar = v.bar
           /\ f # Unset /\ Bounded(f) => w.filtered = Satisfying(f, v.data.values)
           /\ f # Unset /\ w.active => Bounded(f)
<1> DEFINE s == Satisfying(f, v.data.values)
<1>1. s \subseteq Devices
  BY DEF Satisfying, IsView, IsData
<1>2. DOMAIN v.data.values = {} => s = {}
  BY DEF Satisfying
<1> HIDE DEF s
<1>3. ASSUME NEW b \in BOOLEAN, NEW D \in SUBSET Devices, w = [v EXCEPT !.active = b, !.filtered = D]
      PROVE  /\ IsView(w) /\ Kept(v, w) /\ w.active = b /\ w.filtered = D
             /\ w.filters = v.filters /\ w.maps = v.maps /\ w.bar = v.bar
  <2>1. w = [k \in ViewKeys |-> w[k]] /\ w.active = b /\ w.filtered = D
    BY <1>3 DEF IsView, ViewKeys
  <2>2. Kept(v, w) /\ w.filters = v.filters /\ w.maps = v.maps /\ w.bar = v.bar
    BY <1>3 DEF IsView, Kept, ViewKeys
  <2>3. IsView(w)
    BY <2>1, <2>2 DEF IsView, Kept
  <2>. QED BY <2>1, <2>2, <2>3
<1>4. CASE f = Unset
  BY <1>4 DEF ApplyFilter, Kept
<1>5. CASE f # Unset /\ Bounded(f) /\ DOMAIN v.data.values # {}
  <2>1. w = [v EXCEPT !.active = TRUE, !.filtered = s]
    BY <1>5 DEF ApplyFilter, s
  <2>. QED BY <1>1, <1>3, <1>5, <2>1 DEF s
<1>6. CASE f # Unset /\ ~(Bounded(f) /\ DOMAIN v.data.values # {})
  <2>1. w = [v EXCEPT !.active = FALSE,
                      !.filtered = IF Bounded(f) \/ v.active THEN {} ELSE v.filtered]
    BY <1>6 DEF ApplyFilter
  <2>2. (IF Bounded(f) \/ v.active THEN {} ELSE v.filtered) \in SUBSET Devices
    BY DEF IsView
  <2>3. /\ IsView(w) /\ Kept(v, w) /\ w.active = FALSE
        /\ w.filtered = (IF Bounded(f) \/ v.active THEN {} ELSE v.filtered)
        /\ w.filters = v.filters /\ w.maps = v.maps /\ w.bar = v.bar
    BY <1>3, <2>1, <2>2
  <2>. QED BY <1>2, <1>6, <2>3 DEF s
<1>. QED BY <1>4, <1>5, <1>6

(* Whatever is written is of its type: the result is a view again.         *)
LEMMA BarWritten ==
    ASSUME NEW v, IsView(v), NEW bar \in Bar, NEW w, w = [v EXCEPT !.bar = bar]
    PROVE  /\ IsView(w) /\ Kept(v, w) /\ w.bar = bar /\ w.filters = v.filters /\ w.maps = v.maps
           /\ w.active = v.active /\ w.filtered = v.filtered
<1>1. /\ w = [k \in ViewKeys |-> w[k]] /\ w.bar = bar
      /\ Kept(v, w) /\ w.filters = v.filters /\ w.maps = v.maps
      /\ w.active = v.active /\ w.filtered = v.filtered
  BY DEF IsView, Kept, ViewKeys
<1>. QED BY <1>1 DEF IsView, Kept

LEMMA FiltersWritten ==
    ASSUME NEW v, IsView(v), NEW fs \in [Named \cup {None} -> Filter],
           \A m \in Named \cup {None} : fs[m] = Unset \/ IsFilter(fs[m]),
           NEW w, w = [v EXCEPT !.filters = fs]
    PROVE  /\ IsView(w) /\ Kept(v, w) /\ w.filters = fs /\ w.maps = v.maps /\ w.bar = v.bar
           /\ w.active = v.active /\ w.filtered = v.filtered
<1>1. /\ w = [k \in ViewKeys |-> w[k]] /\ w.filters = fs
      /\ Kept(v, w) /\ w.bar = v.bar /\ w.maps = v.maps
      /\ w.active = v.active /\ w.filtered = v.filtered
  BY DEF IsView, Kept, ViewKeys
<1>. QED BY <1>1 DEF IsView, Kept

LEMMA MapsWritten ==
    ASSUME NEW v, IsView(v), NEW ms \in [Named -> Map], NEW w, w = [v EXCEPT !.maps = ms]
    PROVE  /\ IsView(w) /\ Kept(v, w) /\ w.filters = v.filters /\ w.maps = ms /\ w.bar = v.bar
           /\ w.active = v.active /\ w.filtered = v.filtered
<1>1. /\ w = [k \in ViewKeys |-> w[k]] /\ w.maps = ms
      /\ Kept(v, w) /\ w.bar = v.bar /\ w.filters = v.filters
      /\ w.active = v.active /\ w.filtered = v.filtered
  BY DEF IsView, Kept, ViewKeys
<1>. QED BY <1>1 DEF IsView, Kept

Passing(v, b, D) == [v EXCEPT !.active = b, !.filtered = D]
LEMMA ActiveWritten ==
    ASSUME NEW v, IsView(v), NEW b \in BOOLEAN, NEW D \in SUBSET Devices,
           NEW w, w = Passing(v, b, D)
    PROVE  /\ IsView(w) /\ Kept(v, w) /\ w.active = b /\ w.filtered = D
           /\ w.filters = v.filters /\ w.maps = v.maps /\ w.bar = v.bar
<1>1. /\ w = [k \in ViewKeys |-> w[k]] /\ w.active = b /\ w.filtered = D
      /\ Kept(v, w) /\ w.filters = v.filters /\ w.maps = v.maps /\ w.bar = v.bar
  BY DEF IsView, Kept, ViewKeys, Passing
<1>. QED BY <1>1 DEF IsView, Kept

(* A filter within a map, or within none, has bounds.                      *)
LEMMA Bounds ==
    ASSUME NEW f, f = Unset \/ IsFilter(f), NEW m, m = NoMap \/ IsMap(m)
    PROVE  /\ IsFilter(Within(f, m)) /\ IsFilter(Whole(m)) /\ Within(NoFilter, m) = Whole(m)
           /\ IsFilter(f) => IsFilter(Narrowed(f, m)) /\ Narrowed(f, m) # Unset
           /\ Narrowed(Whole(m), m) = NoFilter
           /\ (Original(m) = NoMap \/ IsMap(Original(m))) /\ (Original(m) = NoMap <=> m = NoMap)
<1>1. f \in Filter /\ f.min \in Int /\ f.max \in Int /\ m \in Map
  BY Constants DEF Filter, IsFilter, IsMap
<1>2. m.low \in Int /\ m.high \in Int /\ m.low >= Off /\ m.high >= Off
  BY <1>1 DEF IsMap, NoMap, Off, Map
<1>3. IsFilter(Within(f, m)) /\ IsFilter(Whole(m)) /\ Within(NoFilter, m) = Whole(m)
  BY <1>1, <1>2 DEF IsFilter, Within, Whole, Filter, Off, NoFilter
<1>4. IsFilter(f) => IsFilter(Narrowed(f, m)) /\ Narrowed(f, m) # Unset
  BY <1>1, <1>2 DEF IsFilter, Narrowed, Filter, Off, Unset
<1>5. Narrowed(Whole(m), m) = NoFilter
  BY DEF Narrowed, Whole, NoFilter
<1>6. (Original(m) = NoMap \/ IsMap(Original(m))) /\ (Original(m) = NoMap <=> m = NoMap)
  <2> DEFINE o == Original(m)
  <2>1. o \in Map /\ o.low = m.olow /\ o.high = m.ohigh /\ o.olow = m.olow /\ o.ohigh = m.ohigh
    BY <1>1 DEF Original, Map
  <2>2. \A x, y \in Map : x = y <=> /\ x.low = y.low /\ x.high = y.high
                                   /\ x.olow = y.olow /\ x.ohigh = y.ohigh
    BY DEF Map
  <2> HIDE DEF o
  <2>3. CASE m = NoMap
    BY <1>1, <2>1, <2>2, <2>3 DEF NoMap, o
  <2>4. CASE IsMap(m)
    BY <2>1, <2>4, Constants DEF IsMap, o
  <2>. QED BY <1>1, <2>3, <2>4
<1>. QED BY <1>3, <1>4, <1>5, <1>6
(* The maps of the view, unless a preset took them all.                    *)
MapsSound(v) == \A m \in Named : v.maps[m] = NoMap \/ IsMap(v.maps[m])

(* The bar shows another filter of the map that it holds.                  *)
LEMMA SetFilterView ==
    ASSUME NEW v, IsView(v), MapsSound(v), NEW w, w = SetFilter(v)
    PROVE  /\ IsView(w) /\ Kept(v, w) /\ w.filters = v.filters /\ w.maps = v.maps
           /\ w.active = v.active /\ w.filtered = v.filtered
           /\ w.bar.of = v.bar.of /\ w.bar.shown = v.bar.shown
           /\ v.bar.of = None => w.bar = v.bar
           /\ v.bar.of # None => w.bar.filter = Within(v.filters[v.selected], v.maps[v.bar.of])
           /\ IsFilter(v.bar.filter) => IsFilter(w.bar.filter)
<1>1. CASE v.bar.of = None
  BY <1>1 DEF SetFilter, Kept
<1>2. CASE v.bar.of # None
  <2> DEFINE f == Within(v.filters[v.selected], v.maps[v.bar.of])
  <2>1. /\ v.bar.of \in Named /\ v.selected \in Named \cup {None} /\ v.bar \in Bar
        /\ v.filters[v.selected] = Unset \/ IsFilter(v.filters[v.selected])
        /\ v.maps[v.bar.of] = NoMap \/ IsMap(v.maps[v.bar.of])
    BY <1>2, Constants DEF IsView, MapsSound, Bar
  <2>2. IsFilter(f)
    BY <2>1, Bounds
  <2> HIDE DEF f
  <2>3. [v.bar EXCEPT !.filter = f] = [of |-> v.bar.of, shown |-> v.bar.shown, filter |-> f]
    BY <2>1 DEF Bar
  <2>4. [v.bar EXCEPT !.filter = f] \in Bar
    BY <2>1, <2>2, <2>3 DEF Bar, IsFilter
  <2>5. w = [v EXCEPT !.bar = [v.bar EXCEPT !.filter = f]]
    BY <1>2 DEF SetFilter, f
  <2>6. /\ IsView(w) /\ Kept(v, w) /\ w.bar = [v.bar EXCEPT !.filter = f]
        /\ w.filters = v.filters /\ w.maps = v.maps
        /\ w.active = v.active /\ w.filtered = v.filtered
    BY <2>4, <2>5, BarWritten
  <2>7. w.bar.of = v.bar.of /\ w.bar.shown = v.bar.shown /\ w.bar.filter = f
    BY <2>3, <2>6
  <2>. QED BY <1>2, <2>2, <2>6, <2>7 DEF f
<1>. QED BY <1>1, <1>2

(* The bar as SetMap leaves it.                                            *)
Fitting(v) ==
  /\ v.bar.shown => v.bar.of = v.selected /\ v.selected # None
  /\ v.selected # None => (v.bar.shown <=> v.maps[v.selected] # NoMap)
  /\ v.bar.shown => v.bar.filter = Within(v.filters[v.selected], v.maps[v.selected])

(* The bar takes the map of the selected metric, if there is one.          *)
LEMMA SetMapView ==
    ASSUME NEW v, IsView(v), MapsSound(v), NEW w, w = SetMap(v)
    PROVE  /\ IsView(w) /\ Kept(v, w) /\ w.filters = v.filters /\ w.maps = v.maps
           /\ w.active = v.active /\ w.filtered = v.filtered
           /\ Fitting(w) /\ (v.bar.of # None => w.bar.of # None)
           /\ IsFilter(v.bar.filter) => IsFilter(w.bar.filter)
<1>1. CASE v.selected = None \/ v.maps[v.selected] = NoMap
  <2> DEFINE bar == [v.bar EXCEPT !.shown = FALSE]
  <2>1. bar.of = v.bar.of /\ bar.shown = FALSE /\ bar.filter = v.bar.filter
    BY DEF IsView, Bar
  <2>2. bar \in Bar
    BY DEF IsView, Bar
  <2>3. w = [v EXCEPT !.bar = bar]
    BY <1>1 DEF SetMap
  <2> HIDE DEF bar
  <2>4. /\ IsView(w) /\ Kept(v, w) /\ w.bar = bar
        /\ w.filters = v.filters /\ w.maps = v.maps
        /\ w.active = v.active /\ w.filtered = v.filtered
    BY <2>2, <2>3, BarWritten
  <2>5. w.bar.of = v.bar.of /\ w.bar.shown = FALSE /\ w.bar.filter = v.bar.filter
    BY <2>1, <2>4
  <2>. QED BY <1>1, <2>4, <2>5 DEF Fitting, Kept
<1>2. CASE v.selected # None /\ v.maps[v.selected] # NoMap
  <2> DEFINE f == Within(v.filters[v.selected], v.maps[v.selected])
             bar == [of |-> v.selected, shown |-> TRUE, filter |-> f]
  <2>1. /\ v.selected \in Named /\ v.selected \in Metrics
        /\ v.filters[v.selected] = Unset \/ IsFilter(v.filters[v.selected])
        /\ IsMap(v.maps[v.selected])
    BY <1>2, Constants DEF IsView, MapsSound
  <2>2. IsFilter(f)
    BY <2>1, Bounds
  <2> HIDE DEF f
  <2>3. bar \in Bar /\ bar.of = v.selected /\ bar.shown = TRUE /\ bar.filter = f
    BY <2>1, <2>2 DEF Bar, IsFilter
  <2>4. w = [v EXCEPT !.bar = bar]
    BY <1>2 DEF SetMap, f
  <2> HIDE DEF bar
  <2>5. /\ IsView(w) /\ Kept(v, w) /\ w.bar = bar /\ w.filters = v.filters /\ w.maps = v.maps
        /\ w.active = v.active /\ w.filtered = v.filtered
    BY <2>3, <2>4, BarWritten
  <2>. QED BY <1>2, <2>2, <2>3, <2>5 DEF Fitting, Kept, f
<1>. QED BY <1>1, <1>2

(* A filter that is written is applied at once, and told to the bar.       *)
LEMMA WriteFiltersView ==
    ASSUME NEW v, IsView(v), MapsSound(v), NEW fs \in [Named \cup {None} -> Filter],
           \A m \in Named \cup {None} : fs[m] = Unset \/ IsFilter(fs[m]),
           NEW w, w = WriteFilters(v, fs)
    PROVE  /\ IsView(w) /\ Kept(v, w) /\ w.filters = fs /\ w.maps = v.maps
           /\ w.bar.of = v.bar.of /\ w.bar.shown = v.bar.shown
           /\ IsFilter(v.bar.filter) => IsFilter(w.bar.filter)
           /\ fs[v.selected] # Unset =>
                /\ Fresh(w) /\ (w.active => Bounded(fs[v.selected]))
                /\ v.bar.of # None => w.bar.filter = Within(fs[v.selected], v.maps[v.bar.of])
<1> DEFINE u == [v EXCEPT !.filters = fs]
<1>1. /\ IsView(u) /\ Kept(v, u) /\ u.filters = fs /\ u.maps = v.maps /\ u.bar = v.bar
  BY FiltersWritten
<1> HIDE DEF u
<1>2. CASE fs[v.selected] = Unset
  BY <1>1, <1>2 DEF WriteFilters, u
<1>3. CASE fs[v.selected] # Unset
  <2> DEFINE a == ApplyFilter(u)
  <2>1. /\ IsView(a) /\ Kept(u, a) /\ a.filters = fs /\ a.maps = v.maps /\ a.bar = v.bar
        /\ a.active => Bounded(fs[v.selected]) /\ a.filtered = Satisfying(fs[v.selected], u.data.values)
    BY <1>1, <1>3, ApplyFilterView DEF Kept
  <2>2. w = SetFilter(a)
    BY <1>3 DEF WriteFilters, u
  <2> HIDE DEF a
  <2>3. MapsSound(a) /\ a.selected = v.selected /\ a.data = v.data
    BY <1>1, <2>1 DEF MapsSound, Kept
  <2>4. /\ IsView(w) /\ Kept(a, w) /\ w.filters = fs /\ w.maps = v.maps
        /\ w.active = a.active /\ w.filtered = a.filtered
        /\ w.bar.of = v.bar.of /\ w.bar.shown = v.bar.shown
        /\ v.bar.of # None => w.bar.filter = Within(fs[v.selected], v.maps[v.bar.of])
        /\ IsFilter(v.bar.filter) => IsFilter(w.bar.filter)
    BY <2>1, <2>2, <2>3, SetFilterView
  <2>. QED BY <1>1, <1>3, <2>1, <2>3, <2>4 DEF Kept, Fresh
<1>. QED BY <1>2, <1>3

(* Maps that are written change nothing but the bar.                       *)
LEMMA WriteMapsView ==
    ASSUME NEW v, IsView(v), NEW ms \in [Named -> Map],
           \A m \in Named : ms[m] = NoMap \/ IsMap(ms[m]),
           NEW w, w = WriteMaps(v, ms)
    PROVE  /\ IsView(w) /\ Kept(v, w) /\ w.filters = v.filters /\ w.maps = ms /\ MapsSound(w)
           /\ w.active = v.active /\ w.filtered = v.filtered
           /\ v.bar.of # None => w.bar.of # None
           /\ IsFilter(v.bar.filter) => IsFilter(w.bar.filter)
           /\ IF DOMAIN v.data.values # {} /\ ms[v.data.metric] = NoMap THEN w.bar = v.bar ELSE Fitting(w)
<1> DEFINE u == [v EXCEPT !.maps = ms]
<1>1. /\ IsView(u) /\ Kept(v, u) /\ u.filters = v.filters /\ u.maps = ms /\ u.bar = v.bar
      /\ u.active = v.active /\ u.filtered = v.filtered
  BY MapsWritten
<1>2. MapsSound(u)
  BY <1>1 DEF MapsSound
<1> HIDE DEF u
<1>3. CASE DOMAIN v.data.values # {} /\ ms[v.data.metric] = NoMap
  <2>1. w = u
    BY <1>3 DEF WriteMaps, u
  <2>. QED BY <1>1, <1>2, <1>3, <2>1
<1>4. CASE ~(DOMAIN v.data.values # {} /\ ms[v.data.metric] = NoMap)
  <2>1. w = SetMap(u)
    BY <1>4 DEF WriteMaps, u
  <2>. QED BY <1>1, <1>2, <1>4, <2>1, SetMapView DEF Kept, MapsSound
<1>. QED BY <1>3, <1>4

(***************************************************************************)
(* The chains of writes                                                    *)
(***************************************************************************)
LEMMA ResetFilterView ==
    ASSUME NEW v, IsView(v), MapsSound(v), NEW w, w = ResetFilter(v)
    PROVE  /\ IsView(w) /\ Kept(v, w) /\ w.maps = v.maps
           /\ w.filters[v.selected] = NoFilter /\ w.active = FALSE
           /\ w.bar.of = v.bar.of /\ w.bar.shown = v.bar.shown
           /\ IsFilter(v.bar.filter) => IsFilter(w.bar.filter)
           /\ v.bar.of # None => w.bar.filter = Within(NoFilter, v.maps[v.bar.of])
<1> DEFINE u  == [v EXCEPT !.active = FALSE, !.filtered = {}]
           fs == [v.filters EXCEPT ![v.selected] = NoFilter]
<1>1. /\ IsView(u) /\ Kept(v, u) /\ u.filters = v.filters /\ u.maps = v.maps /\ u.bar = v.bar
  <2>1. PICK b \in BOOLEAN, D \in SUBSET Devices : b = FALSE /\ D = {}
    OBVIOUS
  <2> HIDE DEF u
  <2>2. u = Passing(v, b, D)
    BY <2>1 DEF u, Passing
  <2>. QED BY <2>1, <2>2, ActiveWritten
<1> HIDE DEF u
<1>2. MapsSound(u)
  BY <1>1 DEF MapsSound
<1>3. /\ v.selected \in Named \cup {None} /\ fs \in [Named \cup {None} -> Filter]
      /\ fs[v.selected] = NoFilter
      /\ \A m \in Named \cup {None} : fs[m] = Unset \/ IsFilter(fs[m])
  BY Constants DEF IsView, IsFilter
<1> HIDE DEF fs
<1>4. w = WriteFilters(u, fs)
  BY DEF ResetFilter, u, fs
<1>5. /\ IsView(w) /\ Kept(u, w) /\ w.filters = fs /\ w.maps = u.maps
      /\ w.bar.of = u.bar.of /\ w.bar.shown = u.bar.shown
      /\ IsFilter(u.bar.filter) => IsFilter(w.bar.filter)
      /\ fs[u.selected] # Unset =>
           /\ Fresh(w) /\ (w.active => Bounded(fs[u.selected]))
           /\ u.bar.of # None => w.bar.filter = Within(fs[u.selected], u.maps[u.bar.of])
  BY <1>1, <1>2, <1>3, <1>4, WriteFiltersView
<1>6. ~Bounded(NoFilter)
  BY DEF Bounded, NoFilter, Off
<1>7. w.active \in BOOLEAN
  BY <1>5 DEF IsView
<1>. QED BY <1>1, <1>3, <1>5, <1>6, <1>7, Constants DEF Kept

(* The filter of the bar goes to the model.                                *)
LEMMA UpdateFilterView ==
    ASSUME NEW v, IsView(v), MapsSound(v), IsFilter(v.bar.filter), v.bar.of # None,
           NEW w, w = UpdateFilter(v), NEW f, f = Narrowed(v.bar.filter, v.maps[v.bar.of])
    PROVE  /\ IsView(w) /\ Kept(v, w) /\ w.maps = v.maps /\ w.bar = v.bar
           /\ w.filters[v.selected] = f /\ IsFilter(f) /\ Fresh(w) /\ w.active = Bounded(f)
<1> DEFINE fs == [v.filters EXCEPT ![v.selected] = f]
           u  == [v EXCEPT !.filters = fs]
           a  == ApplyFilter(u)
<1>1. v.bar.of \in Named /\ (v.maps[v.bar.of] = NoMap \/ IsMap(v.maps[v.bar.of]))
  BY Constants DEF IsView, Bar, MapsSound
<1>2. IsFilter(f) /\ f # Unset
  BY <1>1, Bounds
<1>3. /\ v.selected \in Named \cup {None} /\ fs \in [Named \cup {None} -> Filter]
      /\ fs[v.selected] = f
      /\ \A m \in Named \cup {None} : fs[m] = Unset \/ IsFilter(fs[m])
  BY <1>2, Constants DEF IsView, IsFilter
<1>4. w = [a EXCEPT !.active = Bounded(f)]
  BY DEF UpdateFilter
<1> HIDE DEF fs
<1>5. /\ IsView(u) /\ Kept(v, u) /\ u.filters = fs /\ u.maps = v.maps /\ u.bar = v.bar
  BY <1>3, FiltersWritten
<1> HIDE DEF u
<1>6. /\ IsView(a) /\ Kept(u, a) /\ a.filters = fs /\ a.maps = v.maps /\ a.bar = v.bar
      /\ Bounded(f) => a.filtered = Satisfying(f, u.data.values)
  BY <1>2, <1>3, <1>5, ApplyFilterView DEF Kept
<1> HIDE DEF a
<1>7. PICK b \in BOOLEAN : b = Bounded(f)
  BY DEF Bounded
<1>8. w = Passing(a, b, a.filtered)
  <2>1. w = [a EXCEPT !.active = b]
    BY <1>4, <1>7
  <2>. QED BY <1>6, <2>1 DEF IsView, ViewKeys, Passing
<1>9. a.filtered \in SUBSET Devices
  BY <1>6 DEF IsView
<1>10. /\ IsView(w) /\ Kept(a, w) /\ w.active = b /\ w.filtered = a.filtered
       /\ w.filters = fs /\ w.maps = v.maps /\ w.bar = v.bar
  BY <1>6, <1>8, <1>9, ActiveWritten
<1>. QED BY <1>2, <1>3, <1>5, <1>6, <1>7, <1>10 DEF Kept, Fresh

BarReset(v, w) ==
  /\ IsView(w) /\ Kept(v, w) /\ MapsSound(w) /\ IsFilter(w.bar.filter)
  /\ v.bar.of # None /\ ~Throws(v) /\ w.bar.of = v.bar.of /\ w.bar.shown = v.bar.shown
  /\ \A m \in Named : w.maps[m] = NoMap <=> v.maps[m] = NoMap
  /\ w.bar.filter = Within(NoFilter, w.maps[w.bar.of])
  /\ w.filters[v.selected] = NoFilter /\ w.active = FALSE
LEMMA ResetFiltersView ==
    ASSUME NEW v, IsView(v), MapsSound(v), IsFilter(v.bar.filter), NEW w, w = ResetFilters(v)
    PROVE  w = v \/ BarReset(v, w)
<1>1. CASE v.bar.of = None \/ Throws(v)
  BY <1>1 DEF ResetFilters
<1>2. CASE v.bar.of # None /\ ~Throws(v)
  <2> DEFINE m   == v.maps[v.bar.of]
             ms  == [v.maps EXCEPT ![v.bar.of] = Original(m)]
             bar == [v.bar EXCEPT !.filter = Whole(Original(m))]
             u   == [v EXCEPT !.maps = ms]
             x   == [u EXCEPT !.bar = bar]
  <2>1. v.bar.of \in Named /\ v.bar \in Bar /\ (m = NoMap \/ IsMap(m))
    BY <1>2, Constants DEF IsView, Bar, MapsSound
  <2>2. /\ Original(m) = NoMap \/ IsMap(Original(m))
        /\ Original(m) = NoMap <=> m = NoMap
    BY <2>1, Bounds
  <2>3. /\ IsFilter(Whole(Original(m))) /\ Within(NoFilter, Original(m)) = Whole(Original(m))
        /\ Narrowed(Whole(Original(m)), Original(m)) = NoFilter
    BY <2>2, Constants, Bounds
  <2>4. /\ ms \in [Named -> Map] /\ ms[v.bar.of] = Original(m)
        /\ \A n \in Named : ms[n] = NoMap \/ IsMap(ms[n])
        /\ \A n \in Named : ms[n] = NoMap <=> v.maps[n] = NoMap
    BY <2>1, <2>2, Constants DEF IsView, IsMap, MapsSound
  <2>5. /\ bar \in Bar /\ bar.of = v.bar.of /\ bar.shown = v.bar.shown
        /\ bar.filter = Whole(Original(m))
    BY <2>1, <2>3 DEF Bar, IsFilter
  <2> HIDE DEF m, ms, bar
  <2>6. /\ IsView(u) /\ Kept(v, u) /\ u.filters = v.filters /\ u.maps = ms /\ u.bar = v.bar
    BY <2>4, MapsWritten
  <2>7. w = UpdateFilter(x)
    <3>1. w = UpdateFilter([u EXCEPT !.bar.filter = Whole(u.maps[v.bar.of])])
      BY <1>2 DEF ResetFilters, u, ms, m
    <3>2. [u EXCEPT !.bar.filter = Whole(u.maps[v.bar.of])] = x
      BY <2>4, <2>6 DEF x, bar
    <3>. QED BY <3>1, <3>2
  <2> HIDE DEF u
  <2>8. /\ IsView(x) /\ Kept(u, x) /\ x.bar = bar /\ x.filters = v.filters /\ x.maps = ms
    BY <2>5, <2>6, BarWritten
  <2> HIDE DEF x
  <2>9. MapsSound(x)
    BY <2>4, <2>8 DEF MapsSound
  <2>10. /\ IsView(w) /\ Kept(x, w) /\ w.maps = ms /\ w.bar = bar
         /\ w.filters[x.selected] = NoFilter /\ w.active = Bounded(NoFilter)
    BY <1>2, <2>3, <2>4, <2>5, <2>7, <2>8, <2>9, UpdateFilterView
  <2>11. Bounded(NoFilter) = FALSE
    BY DEF Bounded, NoFilter, Off
  <2>. QED BY <1>2, <2>3, <2>4, <2>5, <2>6, <2>8, <2>10, <2>11 DEF Kept, MapsSound, BarReset
<1>. QED BY <1>1, <1>2

(* Polling changes no more than the poller.                                *)
Polling(v, b, wire) == [v EXCEPT !.timer = b, !.wire = wire]
LEMMA PollerWritten ==
    ASSUME NEW v, IsView(v), NEW b \in BOOLEAN, NEW wire \in [Metrics -> Nat],
           NEW w, w = Polling(v, b, wire)
    PROVE  /\ IsView(w) /\ w.timer = b /\ w.wire = wire
           /\ w.selected = v.selected /\ w.rate = v.rate /\ w.loading = v.loading
           /\ w.preset = v.preset /\ w.data = v.data /\ w.filters = v.filters
           /\ w.maps = v.maps /\ w.bar = v.bar /\ w.active = v.active /\ w.filtered = v.filtered
<1>1. /\ w = [k \in ViewKeys |-> w[k]] /\ w.timer = b /\ w.wire = wire
      /\ w.selected = v.selected /\ w.rate = v.rate /\ w.loading = v.loading
      /\ w.preset = v.preset /\ w.data = v.data /\ w.filters = v.filters
      /\ w.maps = v.maps /\ w.bar = v.bar /\ w.active = v.active /\ w.filtered = v.filtered
  BY DEF IsView, ViewKeys, Polling
<1>. QED BY <1>1 DEF IsView

Still(v, w) == /\ w.selected = v.selected /\ w.rate = v.rate /\ w.loading = v.loading
               /\ w.preset = v.preset /\ w.data = v.data /\ w.filters = v.filters
               /\ w.maps = v.maps /\ w.bar = v.bar /\ w.active = v.active /\ w.filtered = v.filtered

(* The poller runs for a metric, unless a preset is being loaded.          *)
LEMMA ResetMetricPollerView ==
    ASSUME NEW v, IsView(v), NEW w, w = ResetMetricPoller(v)
    PROVE  /\ IsView(w) /\ Still(v, w)
           /\ v.loading => w.timer = v.timer
           /\ ~v.loading => (w.timer <=> v.rate # 0 /\ v.selected # None)
<1>1. CASE v.loading
  BY <1>1 DEF ResetMetricPoller, Still
<1>2. CASE ~v.loading
  <2> DEFINE on   == v.rate # 0 /\ v.selected # None
             wire == IF on THEN Poll(v) ELSE v.wire
  <2>1. PICK b \in BOOLEAN : b = on
    OBVIOUS
  <2>2. w = Polling(v, b, wire)
    <3>1. CASE on
      <4>1. w = [v EXCEPT !.timer = on, !.wire = wire]
        BY <1>2, <3>1 DEF ResetMetricPoller
      <4> HIDE DEF wire
      <4>. QED BY <2>1, <3>1, <4>1 DEF Polling
    <3>2. CASE ~on
      BY <1>2, <2>1, <3>2 DEF ResetMetricPoller, Polling
    <3>. QED BY <3>1, <3>2
  <2>4. wire \in [Metrics -> Nat]
    BY DEF IsView, Poll
  <2> HIDE DEF on, wire
  <2>3. IsView(w) /\ Still(v, w) /\ w.timer = b
    BY <2>2, <2>4, PollerWritten DEF Still
  <2>. QED BY <1>2, <2>1, <2>3 DEF on
<1>. QED BY <1>1, <1>2

(***************************************************************************)
(* A metric, and the answers                                               *)
(***************************************************************************)
LEMMA Least ==
    ASSUME NEW T, T \subseteq Nat, T # {}
    PROVE  \E x \in T : \A y \in T : x <= y
<1>1. PICK R : IsWellFoundedOn(R, Nat) /\ \A x, y \in Nat : y < x => <<y, x>> \in R
  <2> DEFINE R == OpToRel(<, Nat)
  <2>1. IsWellFoundedOn(R, Nat)
    BY NatLessThanWellFounded
  <2>2. \A x, y \in Nat : y < x => <<y, x>> \in R
    BY DEF OpToRel
  <2> HIDE DEF R
  <2>. QED BY <2>1, <2>2
<1>2. PICK x \in T : \A y \in T : ~ (<<y, x>> \in R)
  BY <1>1, WFMin
<1>3. ASSUME NEW y \in T PROVE x <= y
  <2>1. x \in Nat /\ y \in Nat /\ ~(y < x)
    BY <1>1, <1>2
  <2>. QED BY <2>1
<1>. QED BY <1>3

(* And the greatest of the values there are.                               *)
LEMMA Greatest ==
    ASSUME NEW T, T \subseteq 0..Top, T # {}
    PROVE  \E x \in T : \A y \in T : x >= y
<1> DEFINE D == {Top - t : t \in T}
<1>1. Top \in Nat /\ \A t \in T : t \in Nat /\ Top - t \in Nat
  BY MetricsAssumption
<1>2. D \subseteq Nat /\ D # {}
  <2>1. PICK t : t \in T
    OBVIOUS
  <2>2. Top - t \in D
    BY <2>1
  <2>3. ASSUME NEW d \in D PROVE d \in Nat
    <3>1. PICK u \in T : d = Top - u
      OBVIOUS
    <3>. QED BY <1>1, <3>1
  <2>. QED BY <2>2, <2>3
<1>3. PICK d \in D : \A e \in D : d <= e
  <2> HIDE DEF D
  <2>. QED BY <1>2, Least
<1>4. PICK x \in T : d = Top - x
  OBVIOUS
<1>5. ASSUME NEW y \in T PROVE x >= y
  <2>1. Top - x <= Top - y
    BY <1>3, <1>4
  <2>. QED BY <1>1, <2>1
<1>. QED BY <1>5

(* The first answer of a metric gives it a map.                            *)
LEMMA ColourMapIsMap ==
    ASSUME NEW values, \A d \in DOMAIN values : values[d] \in 0..Top
    PROVE  IsMap(ColourMap(values))
<1> DEFINE V    == {values[d] : d \in DOMAIN values}
           low  == CHOOSE v \in V : \A u \in V : v <= u
           high == CHOOSE v \in V : \A u \in V : v >= u
           lo   == IF low = high THEN 0 ELSE low
           hi   == IF low = high THEN 2 * high ELSE high
<1>1. CASE V = {}
  BY <1>1 DEF ColourMap, IsMap, Map
<1>2. CASE V # {}
  <2>1. V \subseteq 0..Top /\ V \subseteq Nat
    BY MetricsAssumption
  <2> HIDE DEF V
  <2>2. low \in V /\ \A u \in V : low <= u
    BY <1>2, <2>1, Least
  <2>3. high \in V /\ \A u \in V : high >= u
    BY <1>2, <2>1, Greatest
  <2> HIDE DEF low, high
  <2>4. low \in Nat /\ high \in Nat /\ low <= high
    BY <2>1, <2>2, <2>3
  <2>5. ColourMap(values) = [low |-> lo, high |-> hi, olow |-> lo, ohigh |-> hi]
    BY <1>2 DEF ColourMap, V, low, high
  <2>6. lo \in Int /\ hi \in Int /\ 0 <= lo /\ lo <= hi
    BY <2>4
  <2> HIDE DEF lo, hi
  <2>. QED BY <2>5, <2>6 DEF IsMap, Map
<1>. QED BY <1>1, <1>2

(* Single observables that are written.                                    *)
LEMMA DataWritten ==
    ASSUME NEW v, IsView(v), NEW d, IsData(d), NEW w, w = [v EXCEPT !.data = d]
    PROVE  /\ IsView(w) /\ w.data = d
           /\ w.selected = v.selected /\ w.rate = v.rate /\ w.loading = v.loading
           /\ w.timer = v.timer /\ w.wire = v.wire
           /\ w.preset = v.preset /\ w.filters = v.filters
           /\ w.maps = v.maps /\ w.bar = v.bar /\ w.active = v.active /\ w.filtered = v.filtered
<1>1. /\ w = [k \in ViewKeys |-> w[k]] /\ w.data = d
      /\ w.selected = v.selected /\ w.rate = v.rate /\ w.loading = v.loading
      /\ w.timer = v.timer /\ w.wire = v.wire
      /\ w.preset = v.preset /\ w.filters = v.filters
      /\ w.maps = v.maps /\ w.bar = v.bar /\ w.active = v.active /\ w.filtered = v.filtered
  BY DEF IsView, ViewKeys
<1>. QED BY <1>1 DEF IsView

LEMMA SelectedWritten ==
    ASSUME NEW v, IsView(v), NEW m \in Metrics \cup {None}, NEW w, w = [v EXCEPT !.selected = m]
    PROVE  /\ IsView(w) /\ w.data = v.data
           /\ w.selected = m /\ w.rate = v.rate /\ w.loading = v.loading
           /\ w.timer = v.timer /\ w.wire = v.wire
           /\ w.preset = v.preset /\ w.filters = v.filters
           /\ w.maps = v.maps /\ w.bar = v.bar /\ w.active = v.active /\ w.filtered = v.filtered
<1>1. /\ w = [k \in ViewKeys |-> w[k]] /\ w.data = v.data
      /\ w.selected = m /\ w.rate = v.rate /\ w.loading = v.loading
      /\ w.timer = v.timer /\ w.wire = v.wire
      /\ w.preset = v.preset /\ w.filters = v.filters
      /\ w.maps = v.maps /\ w.bar = v.bar /\ w.active = v.active /\ w.filtered = v.filtered
  BY DEF IsView, ViewKeys
<1>. QED BY <1>1 DEF IsView

(* A poller runs as it was asked to.                                       *)
Polls(v) == /\ v.timer => v.rate # 0 /\ v.selected # None
            /\ v.selected \in Valid /\ v.rate # 0 => v.timer

(* A metric is switched, by the user or by a preset.                       *)
Selectable == Metrics \cup {None}
Switched(v, metric, w) ==
  /\ IsView(w) /\ MapsSound(w) /\ IsFilter(w.bar.filter)
  /\ w.selected = metric /\ w.rate = v.rate /\ w.loading = v.loading /\ w.preset = v.preset
  /\ v.bar.of # None => w.bar.of # None
  /\ (v.bar.shown => v.bar.of # None) => (w.bar.shown => w.bar.of # None)
  /\ \A m \in Named : w.maps[m] = NoMap <=> v.maps[m] = NoMap
  /\ metric # None \/ v.preset # None => w.maps = v.maps
  /\ metric \in Valid => /\ w.data = Blank /\ w.active = FALSE
                         /\ w.filters[metric] = NoFilter /\ Fitting(w)
  /\ ~v.loading /\ Polls(v) => Polls(w)

LEMMA SwitchMetricView ==
    ASSUME NEW v, IsView(v), MapsSound(v), IsFilter(v.bar.filter), NEW metric \in Selectable,
           NEW w, w = SwitchMetric(v, metric)
    PROVE  Switched(v, metric, w)
<1> USE DEF Switched
<1> DEFINE s == [v EXCEPT !.selected = metric]
           p == ResetMetricPoller(s)
           d == [p EXCEPT !.data = Blank]
           r == ResetFilter(d)
<1>1. /\ IsView(s) /\ s.data = v.data
      /\ s.selected = metric /\ s.rate = v.rate /\ s.loading = v.loading
      /\ s.timer = v.timer /\ s.wire = v.wire
      /\ s.preset = v.preset /\ s.filters = v.filters
      /\ s.maps = v.maps /\ s.bar = v.bar
  BY SelectedWritten DEF Selectable
<1>2. /\ IsView(p) /\ Still(s, p)
      /\ ~s.loading => (p.timer <=> s.rate # 0 /\ s.selected # None)
  BY <1>1, ResetMetricPollerView
<1>3. /\ w = IF metric \in Metrics \ Valid THEN SetMap(s)
             ELSE IF metric # None THEN SetMap(r)
             ELSE IF Throws(r) THEN r ELSE SetMap(ResetFilters(r))
  BY DEF SwitchMetric
<1> HIDE DEF s, p
<1>4. /\ IsView(d) /\ d.data = Blank
      /\ d.selected = p.selected /\ d.rate = p.rate /\ d.loading = p.loading
      /\ d.timer = p.timer /\ d.preset = p.preset /\ d.filters = p.filters
      /\ d.maps = p.maps /\ d.bar = p.bar
  BY <1>2, Constants, DataWritten
<1> HIDE DEF d
<1>5. /\ d.data = Blank /\ d.selected = metric /\ d.rate = v.rate /\ d.loading = v.loading
      /\ d.preset = v.preset /\ d.filters = v.filters /\ d.maps = v.maps /\ d.bar = v.bar
      /\ ~v.loading => (d.timer <=> v.rate # 0 /\ metric # None)
  BY <1>1, <1>2, <1>4 DEF Still
<1>6. MapsSound(s) /\ MapsSound(d)
  BY <1>1, <1>5 DEF MapsSound
<1>7. /\ IsView(r) /\ Kept(d, r) /\ r.maps = d.maps
      /\ r.filters[d.selected] = NoFilter /\ r.active = FALSE
      /\ r.bar.of = d.bar.of /\ r.bar.shown = d.bar.shown
      /\ IsFilter(d.bar.filter) => IsFilter(r.bar.filter)
  BY <1>4, <1>6, ResetFilterView
<1> HIDE DEF r
<1>8. /\ MapsSound(r) /\ IsFilter(r.bar.filter)
      /\ r.data = Blank /\ r.selected = metric /\ r.rate = v.rate /\ r.loading = v.loading
      /\ r.preset = v.preset /\ r.maps = v.maps
      /\ ~v.loading => (r.timer <=> v.rate # 0 /\ metric # None)
  BY <1>5, <1>6, <1>7 DEF MapsSound, Kept
<1>9. CASE metric \in Metrics \ Valid
  <2>1. w = SetMap(s)
    BY <1>3, <1>9
  <2>2. /\ IsView(w) /\ Kept(s, w) /\ w.filters = s.filters /\ w.maps = s.maps
        /\ Fitting(w) /\ (s.bar.of # None => w.bar.of # None)
        /\ IsFilter(s.bar.filter) => IsFilter(w.bar.filter)
    BY <1>1, <1>6, <2>1, SetMapView
  <2>. QED BY <1>1, <1>6, <1>9, <2>2, Constants DEF Kept, MapsSound, Fitting, Polls
<1>10. CASE metric \in Valid
  <2>1. w = SetMap(r) /\ metric # None
    BY <1>3, <1>10, Constants
  <2>2. /\ IsView(w) /\ Kept(r, w) /\ w.filters = r.filters /\ w.maps = r.maps
        /\ w.active = r.active
        /\ Fitting(w) /\ (r.bar.of # None => w.bar.of # None)
        /\ IsFilter(r.bar.filter) => IsFilter(w.bar.filter)
    BY <1>7, <1>8, <2>1, SetMapView
  <2>. QED BY <1>5, <1>7, <1>8, <1>10, <2>1, <2>2 DEF Kept, MapsSound, Fitting, Polls
<1>11. CASE metric = None
  <2>1. metric \notin Valid /\ metric \notin Metrics
    BY <1>11, Constants
  <2>2. CASE Throws(r)
    <3>1. w = r
      BY <1>3, <1>11, <2>1, <2>2
    <3>. QED BY <1>5, <1>7, <1>8, <1>11, <2>1, <3>1 DEF Polls
  <2>3. CASE ~Throws(r)
    <3>0. PICK f : f = ResetFilters(r)
      OBVIOUS
    <3>1. w = SetMap(f)
      BY <1>3, <1>11, <2>1, <2>3, <3>0
    <3>2. \/ f = r
          \/ /\ IsView(f) /\ Kept(r, f) /\ MapsSound(f) /\ IsFilter(f.bar.filter)
             /\ r.bar.of # None /\ f.bar.of = r.bar.of
             /\ \A m \in Named : f.maps[m] = NoMap <=> r.maps[m] = NoMap
      <4>1. IsView(r) /\ MapsSound(r) /\ IsFilter(r.bar.filter)
        BY <1>7, <1>8
      <4>2. f = r \/ BarReset(r, f)
        BY <3>0, <4>1, ResetFiltersView
      <4>. QED BY <4>2 DEF BarReset
    <3>3. /\ IsView(f) /\ Kept(r, f) /\ MapsSound(f) /\ IsFilter(f.bar.filter)
          /\ f.bar.of = r.bar.of /\ (r.bar.of = None => f = r)
          /\ \A m \in Named : f.maps[m] = NoMap <=> r.maps[m] = NoMap
      BY <1>7, <1>8, <3>2 DEF Kept
    <3>4. /\ IsView(w) /\ Kept(f, w) /\ w.filters = f.filters /\ w.maps = f.maps
          /\ Fitting(w) /\ (f.bar.of # None => w.bar.of # None)
          /\ IsFilter(f.bar.filter) => IsFilter(w.bar.filter)
      BY <3>1, <3>3, SetMapView
    <3>5. v.preset # None => w.maps = v.maps
      BY <1>5, <1>7, <1>8, <2>3, <3>3, <3>4 DEF Throws
    <3>. QED BY <1>5, <1>7, <1>8, <1>11, <2>1, <3>3, <3>4, <3>5 DEF Kept, MapsSound, Fitting, Polls
  <2>. QED BY <2>2, <2>3
<1>. QED BY <1>9, <1>10, <1>11 DEF Selectable

(***************************************************************************)
(* What holds of the view between two handlers                             *)
(***************************************************************************)
Sound(v) ==
  /\ IsView(v) /\ MapsSound(v) /\ IsFilter(v.bar.filter) /\ (v.bar.shown => v.bar.of # None)
  /\ v.selected \in Valid =>
       /\ v.filters[v.selected] # Unset
       /\ DOMAIN v.data.values # {} /\ v.data.metric # v.selected => v.maps[v.data.metric] # NoMap
       /\ v.bar.shown => v.bar.of = v.selected
       /\ v.maps[v.selected] # NoMap => v.bar.shown

(* The parts of it that a drag or an interrupted drag suspends.            *)
Settled(v) == v.selected \in Valid /\ v.maps[v.selected] # NoMap =>
  \/ v.filters[v.selected] = Narrowed(v.bar.filter, v.maps[v.selected])
  \/ v.bar.filter = Within(v.filters[v.selected], v.maps[v.selected])
Unbounded(v) == v.selected \in Valid /\ v.maps[v.selected] = NoMap => ~Bounded(v.filters[v.selected])
Passed(v) ==
  v.selected \in Valid /\ v.active /\ v.data.metric = v.selected
  /\ Restricts(v.filters[v.selected], v.maps[v.selected])
    => v.filtered = Satisfying(v.filters[v.selected], v.data.values)
Held(v) == v.selected \in Valid => v.bar.of = v.selected /\ v.maps[v.selected] # NoMap

(* A handler keeps them, and takes no map away.                            *)
Follows(v, w) ==
  /\ Settled(v) => Settled(w)
  /\ Unbounded(v) => Unbounded(w)
  /\ Unbounded(v) /\ Passed(v) => Passed(w)
  /\ \A m \in Named : v.maps[m] # NoMap => w.maps[m] # NoMap
  /\ v.bar.of # None => w.bar.of # None
Asks(v, w) == /\ w.selected = v.selected /\ w.rate = v.rate /\ w.timer = v.timer
              /\ w.wire = v.wire /\ w.loading = v.loading /\ w.preset = v.preset

LEMMA Composed ==
    ASSUME NEW u, NEW v, NEW w, Follows(u, v), Follows(v, w)
    PROVE  Follows(u, w)
BY DEF Follows

(* A bar as SetMap leaves it agrees with the filter.                       *)
LEMMA FittingIsSettled ==
    ASSUME NEW v, IsView(v), Fitting(v)
    PROVE  /\ Settled(v)
           /\ v.selected \in Valid => /\ v.bar.shown => v.bar.of = v.selected
                                      /\ v.maps[v.selected] # NoMap <=> v.bar.shown
BY Constants DEF Fitting, Settled, IsView

(* A filter that restricts the values of a metric without map is bounded.  *)
LEMMA RestrictsBounds ==
    ASSUME NEW f, Restricts(f, NoMap)
    PROVE  Bounded(f)
BY DEF Restricts, Bounded

(* An answer for a metric that has a map.                                  *)
LEMMA DisplayMappedView ==
    ASSUME NEW v, Sound(v), NEW d, IsData(d), d.metric \in Named, v.maps[d.metric] # NoMap,
           NEW w, w = DisplayMapped(v, d)
    PROVE  Sound(w) /\ Follows(v, w) /\ (Held(v) => Held(w)) /\ Asks(v, w)
<1> DEFINE u == [v EXCEPT !.data = d]
<1>1. /\ IsView(u) /\ u.data = d /\ Asks(v, u) /\ u.filters = v.filters
      /\ u.maps = v.maps /\ u.bar = v.bar /\ u.active = v.active /\ u.filtered = v.filtered
  BY DataWritten DEF Sound, Asks
<1>2. w = IF Restricts(v.filters[d.metric], v.maps[d.metric]) THEN ApplyFilter(u) ELSE u
  BY <1>1 DEF DisplayMapped
<1> HIDE DEF u
<1>3. /\ IsView(w) /\ w.data = d /\ Asks(v, w) /\ w.filters = v.filters
      /\ w.maps = v.maps /\ w.bar = v.bar
  <2>1. CASE Restricts(v.filters[d.metric], v.maps[d.metric])
    BY <1>1, <1>2, <2>1, ApplyFilterView DEF Kept, Asks
  <2>2. CASE ~Restricts(v.filters[d.metric], v.maps[d.metric])
    BY <1>1, <1>2, <2>2
  <2>. QED BY <2>1, <2>2
<1>4. Sound(w)
  BY <1>3 DEF Sound, MapsSound, Asks
<1>5. Passed(w)
  <2> SUFFICES ASSUME v.selected \in Valid, w.active, d.metric = v.selected,
                      Restricts(v.filters[v.selected], v.maps[v.selected])
               PROVE  w.filtered = Satisfying(v.filters[v.selected], d.values)
    BY <1>3 DEF Passed, Asks
  <2>1. w = ApplyFilter(u) /\ v.filters[v.selected] # Unset
    BY <1>2 DEF Sound
  <2>2. u.selected = v.selected
    BY <1>1 DEF Asks
  <2>3. /\ Bounded(v.filters[v.selected])
           => w.filtered = Satisfying(v.filters[v.selected], d.values)
        /\ w.active => Bounded(v.filters[v.selected])
    BY <1>1, <2>1, <2>2, ApplyFilterView
  <2>. QED BY <2>3
<1>. QED BY <1>3, <1>4, <1>5 DEF Follows, Settled, Unbounded, Held, Asks

(* The first answer for a metric, which makes its map.                     *)
LEMMA DisplayUnmappedView ==
    ASSUME NEW v, Sound(v), NEW d, IsData(d), d.metric \in Named, v.maps[d.metric] = NoMap,
           NEW w, w = DisplayUnmapped(v, d)
    PROVE  Sound(w) /\ Follows(v, w) /\ (Held(v) => Held(w)) /\ Asks(v, w)
<1> DEFINE first == v.filters[d.metric] = Unset
           fs == [v.filters EXCEPT ![d.metric] = NoFilter]
           u  == IF first THEN WriteFilters(v, fs) ELSE v
           ms == [u.maps EXCEPT ![d.metric] = ColourMap(d.values)]
           x  == WriteMaps(u, ms)
<1>1. IsMap(ColourMap(d.values)) /\ ColourMap(d.values) # NoMap
  BY ColourMapIsMap, Constants DEF IsData
<1>2. /\ fs \in [Named \cup {None} -> Filter] /\ fs[d.metric] = NoFilter
      /\ \A m \in Named \cup {None} : fs[m] = Unset \/ IsFilter(fs[m])
      /\ v.selected # d.metric => fs[v.selected] = v.filters[v.selected]
  BY Constants DEF Sound, IsView, IsFilter
<1>3. IF first /\ u.filters[v.selected] = Unset THEN w = u ELSE w = [x EXCEPT !.data = d]
  BY DEF DisplayUnmapped
<1> HIDE DEF fs
<1>4. /\ IsView(u) /\ Kept(v, u) /\ u.maps = v.maps
      /\ u.bar.of = v.bar.of /\ u.bar.shown = v.bar.shown /\ IsFilter(u.bar.filter)
  <2>1. CASE first
    <3>1. u = WriteFilters(v, fs)
      BY <2>1
    <3>. QED BY <1>2, <3>1, WriteFiltersView DEF Sound
  <2>2. CASE ~first
    BY <2>2 DEF Sound, Kept
  <2>. QED BY <2>1, <2>2
<1>5. v.selected \in Valid =>
        /\ u.filters[v.selected] = v.filters[v.selected] /\ u.filters[v.selected] # Unset
        /\ first /\ v.bar.of # None => u.bar.filter = Within(v.filters[v.selected], v.maps[v.bar.of])
        /\ ~first => u = v
        /\ first => v.selected # d.metric
  <2> SUFFICES ASSUME v.selected \in Valid
               PROVE  /\ u.filters[v.selected] = v.filters[v.selected] /\ u.filters[v.selected] # Unset
                      /\ first /\ v.bar.of # None => u.bar.filter = Within(v.filters[v.selected], v.maps[v.bar.of])
                      /\ ~first => u = v
                      /\ first => v.selected # d.metric
    OBVIOUS
  <2>1. v.filters[v.selected] # Unset
    BY DEF Sound
  <2>2. CASE first
    <3>1. u = WriteFilters(v, fs) /\ v.selected # d.metric
      BY <2>1, <2>2
    <3>2. fs[v.selected] = v.filters[v.selected]
      BY <1>2, <3>1
    <3>. QED BY <1>2, <2>1, <2>2, <3>1, <3>2, WriteFiltersView DEF Sound
  <2>3. CASE ~first
    BY <2>1, <2>3
  <2>. QED BY <2>2, <2>3
<1> HIDE DEF u, first
<1>6. MapsSound(u) /\ u.selected = v.selected /\ u.data = v.data
  BY <1>4 DEF MapsSound, Sound, Kept
<1>7. CASE first /\ u.filters[v.selected] = Unset
  <2>1. w = u /\ v.selected \notin Valid
    BY <1>3, <1>5, <1>7
  <2>. QED BY <1>4, <1>6, <2>1
           DEF Sound, Follows, Settled, Unbounded, Passed, Held, Asks, Kept
<1>8. CASE ~(first /\ u.filters[v.selected] = Unset)
  <2>1. /\ ms \in [Named -> Map] /\ ms[d.metric] = ColourMap(d.values)
        /\ \A m \in Named : ms[m] = NoMap \/ IsMap(ms[m])
        /\ \A m \in Named \ {d.metric} : ms[m] = v.maps[m]
    BY <1>1, <1>4, <1>6 DEF IsView, MapsSound, IsMap
  <2> HIDE DEF ms
  <2>2. /\ IsView(x) /\ Kept(u, x) /\ x.filters = u.filters /\ x.maps = ms /\ MapsSound(x)
        /\ u.bar.of # None => x.bar.of # None
        /\ IsFilter(x.bar.filter)
        /\ IF DOMAIN u.data.values # {} /\ ms[u.data.metric] = NoMap THEN x.bar = u.bar ELSE Fitting(x)
    BY <1>4, <2>1, WriteMapsView
  <2> HIDE DEF x
  <2>3. w = [x EXCEPT !.data = d]
    BY <1>3, <1>8
  <2>4. /\ IsView(w) /\ w.data = d /\ Asks(x, w) /\ w.filters = u.filters /\ w.maps = ms /\ w.bar = x.bar
    BY <2>2, <2>3, DataWritten DEF Asks
  <2>5. Asks(v, w) /\ MapsSound(w) /\ IsFilter(w.bar.filter) /\ x.selected = v.selected
    BY <1>4, <2>2, <2>4 DEF Asks, Kept, MapsSound
  <2>6. /\ w.bar.shown => w.bar.of # None
        /\ v.bar.of # None => w.bar.of # None
    BY <1>4, <2>2, <2>4 DEF Sound, Fitting
  <2>7. ASSUME v.selected \in Valid
        PROVE  /\ w.filters[v.selected] = v.filters[v.selected] /\ w.filters[v.selected] # Unset
               /\ ms[v.selected] = NoMap => v.selected # d.metric /\ v.maps[v.selected] = NoMap
               /\ w.bar.shown => w.bar.of = v.selected
               /\ ms[v.selected] # NoMap => w.bar.shown
               /\ ms[v.selected] # NoMap => w.bar.filter = Within(w.filters[v.selected], ms[v.selected])
    <3>1. v.selected \in Named
      BY <2>7, Constants
    <3>2. ms[v.selected] = NoMap => v.selected # d.metric /\ v.maps[v.selected] = NoMap
      BY <1>1, <2>1, <3>1
    <3>3. CASE Fitting(x)
      BY <1>5, <2>2, <2>4, <2>5, <2>7, <3>2, <3>3, Constants DEF Fitting
    <3>4. CASE ~Fitting(x)
      <4>1. DOMAIN v.data.values # {} /\ ms[v.data.metric] = NoMap /\ x.bar = u.bar
        BY <1>6, <2>2, <3>4
      <4>2. v.data.metric \in Named
        BY <4>1, Constants DEF Sound, IsView, IsData
      <4>3. v.data.metric # d.metric /\ v.maps[v.data.metric] = NoMap
        BY <1>1, <2>1, <4>1, <4>2
      <4>4. v.data.metric = v.selected
        BY <2>7, <4>1, <4>3 DEF Sound
      <4>. QED BY <1>4, <1>5, <2>4, <2>7, <3>2, <4>1, <4>4 DEF Sound
    <3>. QED BY <3>3, <3>4
  <2>8. Sound(w)
    <3>1. w.selected = v.selected /\ w.maps[d.metric] # NoMap
      BY <1>1, <2>1, <2>4, <2>5 DEF Asks
    <3>. QED BY <2>4, <2>5, <2>6, <2>7, <3>1 DEF Sound
  <2>9. \A m \in Named : v.maps[m] # NoMap => w.maps[m] # NoMap
    BY <1>1, <2>1, <2>4
  <2>10. w.selected = v.selected
    BY <2>5 DEF Asks
  <2>11. Settled(w)
    BY <2>4, <2>7, <2>10 DEF Settled
  <2>12. Unbounded(v) => Unbounded(w)
    BY <2>4, <2>7, <2>10 DEF Unbounded
  <2>13. Unbounded(v) => Passed(w)
    <3> SUFFICES ASSUME Unbounded(v), v.selected \in Valid, d.metric = v.selected
                 PROVE  ~Restricts(w.filters[v.selected], w.maps[v.selected])
      BY <2>4, <2>10 DEF Passed
    <3>1. ~Bounded(v.filters[v.selected])
      BY DEF Unbounded
    <3>. QED BY <2>7, <3>1 DEF Restricts, Bounded
  <2>14. Held(v) => Held(w)
    <3> SUFFICES ASSUME v.selected \in Valid, v.maps[v.selected] # NoMap, v.bar.of = v.selected
                 PROVE  w.bar.of = v.selected /\ w.maps[v.selected] # NoMap
      BY <2>10 DEF Held
    <3>1. w.maps[v.selected] # NoMap
      BY <2>9, Constants
    <3>. QED BY <2>4, <2>7, <3>1
  <2>. QED BY <2>5, <2>6, <2>8, <2>9, <2>11, <2>12, <2>13, <2>14 DEF Follows
<1>. QED BY <1>7, <1>8

(***************************************************************************)
(* Loading                                                                 *)
(***************************************************************************)
(* A preset as the page keeps it, without what it has to do with the view. *)
GoodPreset(p) ==
  /\ IsPreset(p) /\ p.rate \in {0, 1} /\ p.metric \in Metrics \cup {None} /\ p.shared \in BOOLEAN
  /\ p.metric = None => p.map \in {NoMap, Undefined} /\ ~p.shared
  /\ p.metric # None => IsFilter(p.filter) /\ (p.map \in {NoMap, Undefined} \/ IsMap(p.map))
  /\ p.shared => IsMap(p.map)
BoundedByMap(p) == p.metric # None /\ p.map \in {NoMap, Undefined} => ~Bounded(p.filter)

Rates == {0, 1}
Loading(v, b, rate) == [v EXCEPT !.loading = b, !.rate = rate]
LEMMA LoadingWritten ==
    ASSUME NEW v, IsView(v), NEW b \in BOOLEAN, NEW rate \in Rates, NEW w, w = Loading(v, b, rate)
    PROVE  /\ IsView(w) /\ w.data = v.data /\ w.selected = v.selected /\ w.rate = rate
           /\ w.loading = b /\ w.timer = v.timer /\ w.wire = v.wire
           /\ w.preset = v.preset /\ w.filters = v.filters
           /\ w.maps = v.maps /\ w.bar = v.bar /\ w.active = v.active /\ w.filtered = v.filtered
<1>1. /\ w = [k \in ViewKeys |-> w[k]] /\ w.data = v.data /\ w.selected = v.selected
      /\ w.rate = rate /\ w.loading = b /\ w.timer = v.timer /\ w.wire = v.wire
      /\ w.preset = v.preset /\ w.filters = v.filters
      /\ w.maps = v.maps /\ w.bar = v.bar /\ w.active = v.active /\ w.filtered = v.filtered
  BY DEF IsView, ViewKeys, Loading
<1>. QED BY <1>1 DEF IsView, Rates

(* First the metric.                                                       *)
LEMMA LoadMetricView ==
    ASSUME NEW v, Sound(v), v.loading, NEW p, GoodPreset(p), NEW w, w = LoadMetric(v, p)
    PROVE  /\ Sound(w) /\ w.selected = p.metric /\ w.rate = v.rate /\ w.loading /\ w.preset = v.preset
           /\ v.bar.of # None => w.bar.of # None
           /\ \A m \in Named : w.maps[m] = NoMap <=> v.maps[m] = NoMap
           /\ p.metric # None \/ v.preset # None => w.maps = v.maps
<1>1. CASE p.metric = v.selected
  BY <1>1 DEF LoadMetric
<1>2. CASE p.metric # v.selected
  <2>1. PICK metric \in Selectable : metric = p.metric /\ w = SwitchMetric(v, metric)
    BY <1>2 DEF LoadMetric, GoodPreset, Selectable
  <2>2. /\ IsView(w) /\ MapsSound(w) /\ IsFilter(w.bar.filter)
        /\ w.selected = p.metric /\ w.rate = v.rate /\ w.loading = v.loading /\ w.preset = v.preset
        /\ v.bar.of # None => w.bar.of # None
        /\ (v.bar.shown => v.bar.of # None) => (w.bar.shown => w.bar.of # None)
        /\ \A m \in Named : w.maps[m] = NoMap <=> v.maps[m] = NoMap
        /\ p.metric # None \/ v.preset # None => w.maps = v.maps
        /\ p.metric \in Valid => /\ w.data = Blank /\ w.active = FALSE
                                 /\ w.filters[p.metric] = NoFilter /\ Fitting(w)
    <3>1. IsView(v) /\ MapsSound(v) /\ IsFilter(v.bar.filter)
      BY DEF Sound
    <3>2. Switched(v, metric, w)
      BY <2>1, <3>1, SwitchMetricView
    <3>. QED BY <2>1, <3>2 DEF Switched
  <2>3. Sound(w)
    BY <2>2, FittingIsSettled, Constants DEF Sound
  <2>. QED BY <2>2, <2>3
<1>. QED BY <1>1, <1>2

(* Then the filter of a metric, which is applied, and its map.             *)
LEMMA LoadFiltersView ==
    ASSUME NEW v, Sound(v), NEW p, GoodPreset(p), p.metric # None, v.selected = p.metric,
           NEW w, w = LoadFilters(v, p)
    PROVE  /\ Sound(w) /\ Kept(v, w) /\ w.maps = v.maps /\ w.filters[p.metric] = p.filter
           /\ Fresh(w) /\ w.bar.of = v.bar.of
           /\ v.bar.of # None => w.bar.filter = Within(p.filter, v.maps[v.bar.of])
<1> DEFINE fs == [v.filters EXCEPT ![p.metric] = p.filter]
<1>1. p.metric \in Metrics /\ IsFilter(p.filter) /\ p.filter # Unset
  BY Constants DEF GoodPreset
<1>2. /\ fs \in [Named \cup {None} -> Filter] /\ fs[p.metric] = p.filter
      /\ \A m \in Named \cup {None} : fs[m] = Unset \/ IsFilter(fs[m])
  BY <1>1, Constants DEF Sound, IsView, IsFilter
<1>3. w = WriteFilters(v, fs)
  BY DEF LoadFilters
<1> HIDE DEF fs
<1>4. /\ IsView(w) /\ Kept(v, w) /\ w.filters = fs /\ w.maps = v.maps
      /\ w.bar.of = v.bar.of /\ w.bar.shown = v.bar.shown
      /\ IsFilter(v.bar.filter) => IsFilter(w.bar.filter)
      /\ fs[v.selected] # Unset =>
           /\ Fresh(w) /\ (w.active => Bounded(fs[v.selected]))
           /\ v.bar.of # None => w.bar.filter = Within(fs[v.selected], v.maps[v.bar.of])
  BY <1>2, <1>3, WriteFiltersView DEF Sound
<1>5. Sound(w)
  BY <1>1, <1>2, <1>4 DEF Sound, MapsSound, Kept
<1>. QED BY <1>1, <1>2, <1>4, <1>5

(* And the map of the preset, after its filter.                            *)
LEMMA LoadMapsView ==
    ASSUME NEW v, Sound(v), Fresh(v), NEW p, GoodPreset(p), p.metric # None, v.selected = p.metric,
           v.filters[p.metric] = p.filter,
           v.bar.of # None => v.bar.filter = Within(p.filter, v.maps[v.bar.of]),
           NEW w, w = LoadMaps(v, p)
    PROVE  /\ Sound(w) /\ Kept(v, w) /\ Settled(w) /\ Passed(w) /\ (BoundedByMap(p) => Unbounded(w))
           /\ v.bar.of # None => w.bar.of # None
           /\ p.map = NoMap => w.maps = v.maps
           /\ \A m \in Named \ {p.metric} : w.maps[m] = v.maps[m]
           /\ p.map # NoMap => w.maps[p.metric] = IF p.map = Undefined THEN NoMap ELSE p.map
<1>1. p.metric \in Metrics /\ p.metric \in Named /\ IsFilter(p.filter) /\ p.filter # Unset
  BY Constants DEF GoodPreset
<1>2. CASE p.map = NoMap
  <2>1. w = v
    BY <1>2 DEF LoadMaps
  <2>2. Settled(w) /\ Passed(w)
    BY <1>1, <2>1, Constants DEF Settled, Passed, Sound, Fresh
  <2>3. BoundedByMap(p) => Unbounded(w)
    BY <1>2, <2>1, Constants DEF BoundedByMap, Unbounded
  <2>. QED BY <1>2, <2>1, <2>2, <2>3 DEF Kept
<1>3. CASE p.map # NoMap
  <2> DEFINE new == IF p.map = Undefined THEN NoMap ELSE p.map
             ms  == [v.maps EXCEPT ![p.metric] = new]
  <2>1. w = WriteMaps(v, ms)
    BY <1>3 DEF LoadMaps
  <2>2. new = NoMap \/ IsMap(new)
    BY <1>3 DEF GoodPreset
  <2>3. /\ ms \in [Named -> Map] /\ ms[p.metric] = new
        /\ \A m \in Named : ms[m] = NoMap \/ IsMap(ms[m])
        /\ \A m \in Named \ {p.metric} : ms[m] = v.maps[m]
    BY <1>1, <2>2, Constants DEF Sound, IsView, MapsSound, IsMap
  <2> HIDE DEF ms
  <2>4. /\ IsView(w) /\ Kept(v, w) /\ w.filters = v.filters /\ w.maps = ms /\ MapsSound(w)
        /\ w.active = v.active /\ w.filtered = v.filtered
        /\ v.bar.of # None => w.bar.of # None
        /\ IsFilter(w.bar.filter)
        /\ IF DOMAIN v.data.values # {} /\ ms[v.data.metric] = NoMap THEN w.bar = v.bar ELSE Fitting(w)
    BY <2>1, <2>3, WriteMapsView DEF Sound
  <2>5. w.selected = p.metric /\ w.data = v.data
    BY <2>4 DEF Kept
  <2>6. ASSUME p.metric \in Valid, ~Fitting(w)
        PROVE  w.bar = v.bar /\ v.data.metric = p.metric /\ ms[p.metric] = NoMap
    <3>1. DOMAIN v.data.values # {} /\ ms[v.data.metric] = NoMap /\ w.bar = v.bar
      BY <2>4, <2>6
    <3>2. v.data.metric \in Named
      BY <3>1, Constants DEF Sound, IsView, IsData
    <3>. QED BY <2>3, <2>6, <3>1, <3>2 DEF Sound
  <2>7. p.metric \in Valid => /\ w.bar.shown => w.bar.of = p.metric
                              /\ ms[p.metric] # NoMap => w.bar.shown
    BY <2>4, <2>5, <2>6, FittingIsSettled DEF Sound
  <2>8. ASSUME p.metric \in Valid, DOMAIN v.data.values # {}, v.data.metric # p.metric
        PROVE  ms[v.data.metric] # NoMap
    <3>1. v.data.metric \in Named
      BY <2>8, Constants DEF Sound, IsView, IsData
    <3>. QED BY <2>3, <2>8, <3>1 DEF Sound
  <2>9. w.bar.shown => w.bar.of # None
    BY <2>4 DEF Fitting, Sound
  <2>10. Sound(w)
    BY <1>1, <2>4, <2>5, <2>7, <2>8, <2>9 DEF Sound
  <2>11. Settled(w)
    BY <2>4, <2>5, <2>6, FittingIsSettled DEF Settled
  <2>12. Passed(w)
    BY <2>4, <2>5 DEF Passed, Fresh
  <2>13. BoundedByMap(p) => Unbounded(w)
    BY <1>1, <2>3, <2>4, <2>5, Constants DEF BoundedByMap, Unbounded
  <2>. QED BY <1>3, <2>3, <2>4, <2>10, <2>11, <2>12, <2>13
<1>. QED BY <1>2, <1>3

(* No metric: the filters are forgotten, and all the maps may be.          *)
LEMMA LoadNoneView ==
    ASSUME NEW v, Sound(v), NEW p, GoodPreset(p), p.metric = None, v.selected = None,
           NEW f, f = LoadFilters(v, p), NEW w, w = LoadMaps(f, p)
    PROVE  /\ IsView(w) /\ Kept(v, w) /\ w.bar.of = v.bar.of
           /\ p.map = NoMap => Sound(w) /\ w.maps = v.maps
           /\ p.map = Undefined => w.maps[Failed] = Undefined
<1>1. /\ IsView(f) /\ Kept(v, f) /\ f.maps = v.maps /\ f.bar.of = v.bar.of /\ f.bar.shown = v.bar.shown
      /\ IsFilter(f.bar.filter)
  <2>1. CASE p.filter = Unset
    BY <2>1 DEF LoadFilters, Sound, Kept
  <2>2. CASE p.filter # Unset
    <3> DEFINE fs == [m \in DOMAIN v.filters |-> Unset]
    <3>1. f = WriteFilters(v, fs)
      BY <2>2 DEF LoadFilters
    <3>2. fs \in [Named \cup {None} -> Filter] /\ \A m \in Named \cup {None} : fs[m] = Unset
      BY Constants DEF Sound, IsView
    <3> HIDE DEF fs
    <3>3. IsView(v) /\ MapsSound(v) /\ IsFilter(v.bar.filter)
      BY DEF Sound
    <3>. QED BY <3>1, <3>2, <3>3, WriteFiltersView
  <2>. QED BY <2>1, <2>2
<1>2. Sound(f) /\ f.selected = None
  BY <1>1, Constants DEF Sound, MapsSound, Kept
<1>3. CASE p.map = NoMap
  BY <1>1, <1>2, <1>3, Constants DEF LoadMaps
<1>4. CASE p.map = Undefined
  <2> DEFINE ms == [m \in DOMAIN f.maps |-> Undefined]
  <2>1. w = [f EXCEPT !.maps = ms]
    BY <1>4, Constants DEF LoadMaps
  <2>2. ms \in [Named -> Map] /\ ms[Failed] = Undefined
    BY <1>1, Constants DEF IsView
  <2> HIDE DEF ms
  <2>3. IsView(w) /\ Kept(f, w) /\ w.maps = ms /\ w.bar = f.bar
    BY <1>1, <2>1, <2>2, MapsWritten
  <2>. QED BY <1>1, <1>4, <2>2, <2>3, Constants DEF Kept
<1>. QED BY <1>3, <1>4 DEF GoodPreset

(* The whole of a preset, which leaves the view sound unless it takes all  *)
(* the maps away. The filter bar and the poller follow.                    *)
LEMMA LoadView ==
    ASSUME NEW v, Sound(v), ~v.loading, NEW p, GoodPreset(p), NEW w, w = Load(v, p)
    PROVE  /\ IsView(w) /\ w.selected = p.metric /\ ~w.loading /\ Polls(w) /\ w.preset = v.preset
           /\ v.bar.of # None => w.bar.of # None
           /\ IF p.metric = None /\ p.map = Undefined THEN w.maps[Failed] = Undefined
              ELSE Sound(w) /\ Settled(w) /\ Passed(w) /\ (BoundedByMap(p) => Unbounded(w))
           /\ p.metric = None /\ p.map = NoMap =>
                /\ \A m \in Named : w.maps[m] = NoMap <=> v.maps[m] = NoMap
                /\ v.preset # None => w.maps = v.maps
           /\ p.metric # None =>
                /\ p.map = NoMap => w.maps = v.maps
                /\ \A m \in Named \ {p.metric} : w.maps[m] = v.maps[m]
                /\ p.map # NoMap => w.maps[p.metric] = IF p.map = Undefined THEN NoMap ELSE p.map
<1>1. PICK b \in BOOLEAN, c \in BOOLEAN : b = TRUE /\ c = FALSE
  OBVIOUS
<1>2. PICK s : s = Loading(v, b, p.rate)
  OBVIOUS
<1>3. PICK m : m = LoadMetric(s, p)
  OBVIOUS
<1>4. PICK l : l = LoadFilters(m, p)
  OBVIOUS
<1>5. PICK k : k = LoadMaps(l, p)
  OBVIOUS
<1>6. PICK f : f = IF p.metric = None /\ p.map # Undefined THEN ResetFilter(k) ELSE k
  OBVIOUS
<1>7. PICK e : e = Loading(f, c, f.rate)
  OBVIOUS
<1>8. p.metric \in Metrics \cup {None} /\ p.rate \in {0, 1}
  BY DEF GoodPreset
<1>9. /\ IsView(s) /\ s.data = v.data /\ s.selected = v.selected /\ s.rate = p.rate
      /\ s.loading = b /\ s.preset = v.preset /\ s.filters = v.filters
      /\ s.maps = v.maps /\ s.bar = v.bar
  <2>1. IsView(v) /\ p.rate \in Rates
    BY <1>8 DEF Sound, Rates
  <2>. QED BY <1>2, <2>1, LoadingWritten
<1>10. Sound(s) /\ s.loading
  BY <1>1, <1>9 DEF Sound, MapsSound
<1>11. /\ Sound(m) /\ m.selected = p.metric /\ m.loading /\ m.preset = v.preset
       /\ v.bar.of # None => m.bar.of # None
       /\ \A n \in Named : m.maps[n] = NoMap <=> v.maps[n] = NoMap
       /\ p.metric # None \/ v.preset # None => m.maps = v.maps
  BY <1>3, <1>9, <1>10, LoadMetricView
<1>12. /\ IsView(f) /\ f.selected = p.metric /\ f.loading /\ f.preset = v.preset
       /\ v.bar.of # None => f.bar.of # None
       /\ IF p.metric = None /\ p.map = Undefined THEN f.maps[Failed] = Undefined
          ELSE Sound(f) /\ Settled(f) /\ Passed(f) /\ (BoundedByMap(p) => Unbounded(f))
       /\ p.metric = None /\ p.map = NoMap => f.maps = m.maps
       /\ p.metric # None =>
            /\ p.map = NoMap => f.maps = v.maps
            /\ \A n \in Named \ {p.metric} : f.maps[n] = v.maps[n]
            /\ p.map # NoMap => f.maps[p.metric] = IF p.map = Undefined THEN NoMap ELSE p.map
  <2>1. CASE p.metric # None
    <3>1. /\ Sound(l) /\ Kept(m, l) /\ l.maps = m.maps /\ l.filters[p.metric] = p.filter
          /\ Fresh(l) /\ l.bar.of = m.bar.of
          /\ m.bar.of # None => l.bar.filter = Within(p.filter, m.maps[m.bar.of])
      BY <1>4, <1>11, <2>1, LoadFiltersView
    <3>2. l.selected = p.metric
      BY <1>11, <3>1 DEF Kept
    <3>3. /\ Sound(k) /\ Kept(l, k) /\ Settled(k) /\ Passed(k) /\ (BoundedByMap(p) => Unbounded(k))
          /\ l.bar.of # None => k.bar.of # None
          /\ p.map = NoMap => k.maps = l.maps
          /\ \A n \in Named \ {p.metric} : k.maps[n] = l.maps[n]
          /\ p.map # NoMap => k.maps[p.metric] = IF p.map = Undefined THEN NoMap ELSE p.map
      BY <1>5, <2>1, <3>1, <3>2, LoadMapsView
    <3>4. f = k
      BY <1>6, <2>1
    <3>5. IsView(k) /\ k.selected = p.metric /\ k.loading /\ k.preset = v.preset
      BY <1>11, <3>1, <3>3 DEF Kept, Sound
    <3>. QED BY <1>11, <2>1, <3>1, <3>3, <3>4, <3>5
  <2>2. CASE p.metric = None
    <3>1. /\ IsView(k) /\ Kept(m, k) /\ k.bar.of = m.bar.of
          /\ p.map = NoMap => Sound(k) /\ k.maps = m.maps
          /\ p.map = Undefined => k.maps[Failed] = Undefined
      BY <1>4, <1>5, <1>11, <2>2, LoadNoneView
    <3>2. k.selected = None /\ k.loading /\ k.preset = v.preset
      BY <1>11, <2>2, <3>1 DEF Kept
    <3>3. CASE p.map = Undefined
      BY <1>6, <1>11, <2>2, <3>1, <3>2, <3>3, Constants
    <3>4. CASE p.map # Undefined
      <4>1. p.map = NoMap /\ f = ResetFilter(k) /\ Sound(k)
        BY <1>6, <2>2, <3>1, <3>4 DEF GoodPreset
      <4>2. IsView(k) /\ MapsSound(k) /\ IsFilter(k.bar.filter) /\ (k.bar.shown => k.bar.of # None)
        BY <4>1 DEF Sound
      <4>3. /\ IsView(f) /\ Kept(k, f) /\ f.maps = k.maps
            /\ f.bar.of = k.bar.of /\ f.bar.shown = k.bar.shown
            /\ IsFilter(k.bar.filter) => IsFilter(f.bar.filter)
        BY <4>1, <4>2, ResetFilterView
      <4>4. f.selected = None /\ f.loading /\ f.preset = v.preset
        BY <3>2, <4>3 DEF Kept
      <4>5. Sound(f) /\ Settled(f) /\ Passed(f) /\ Unbounded(f)
        BY <4>2, <4>3, <4>4, Constants DEF Sound, Settled, Passed, Unbounded, MapsSound
      <4>. QED BY <1>11, <2>2, <3>1, <3>4, <4>1, <4>3, <4>4, <4>5
    <3>. QED BY <3>3, <3>4
  <2>. QED BY <2>1, <2>2
<1>13. /\ IsView(e) /\ e.data = f.data /\ e.selected = f.selected /\ e.rate = f.rate
       /\ e.loading = c /\ e.preset = f.preset /\ e.filters = f.filters
       /\ e.maps = f.maps /\ e.bar = f.bar /\ e.active = f.active /\ e.filtered = f.filtered
  <2>1. f.rate \in Rates
    BY <1>12 DEF IsView, Rates
  <2>. QED BY <1>7, <1>12, <2>1, LoadingWritten
<1>14. w = ResetMetricPoller(e)
  <2>1. s = [v EXCEPT !.loading = TRUE, !.rate = p.rate]
    BY <1>1, <1>2 DEF Loading
  <2>2. e = [f EXCEPT !.loading = FALSE]
    BY <1>1, <1>7, <1>12 DEF Loading, IsView, ViewKeys
  <2>. QED BY <1>3, <1>4, <1>5, <1>6, <2>1, <2>2 DEF Load
<1>15. /\ IsView(w) /\ Still(e, w)
       /\ ~e.loading => (w.timer <=> e.rate # 0 /\ e.selected # None)
  BY <1>13, <1>14, ResetMetricPollerView
<1>16. /\ w.selected = p.metric /\ ~w.loading /\ w.preset = v.preset /\ w.data = f.data
       /\ w.filters = f.filters /\ w.maps = f.maps /\ w.bar = f.bar
       /\ w.active = f.active /\ w.filtered = f.filtered /\ Polls(w)
  <2>1. p.metric \in Valid => p.metric # None
    BY Constants
  <2>. QED BY <1>1, <1>12, <1>13, <1>15, <2>1 DEF Still, Polls
<1>17. /\ Sound(f) => Sound(w)
       /\ Settled(f) => Settled(w)
       /\ Passed(f) => Passed(w)
       /\ Unbounded(f) => Unbounded(w)
  BY <1>12, <1>15, <1>16 DEF Sound, Settled, Passed, Unbounded, MapsSound
<1>. QED BY <1>11, <1>12, <1>15, <1>16, <1>17

(***************************************************************************)
(* What the handlers do to the view                                        *)
(***************************************************************************)
LEMMA SwitchedIsSound ==
    ASSUME NEW v, Sound(v), NEW m \in Selectable, NEW w, Switched(v, m, w)
    PROVE  Sound(w) /\ Settled(w) /\ Unbounded(w) /\ Passed(w)
<1>1. ~Bounded(NoFilter)
  BY DEF Bounded, NoFilter, Off
<1>2. Sound(w)
  BY FittingIsSettled, Constants DEF Sound, Switched
<1>3. Settled(w)
  BY FittingIsSettled, Constants DEF Settled, Switched
<1>4. Unbounded(w) /\ Passed(w)
  BY <1>1 DEF Unbounded, Passed, Switched
<1>. QED BY <1>2, <1>3, <1>4

(* The rate of the polls: without polls there is no data.                  *)
LEMMA SetMetricPollView ==
    ASSUME NEW v, Sound(v), ~v.loading, Polls(v), NEW u, u = [v EXCEPT !.rate = 1 - @],
           NEW w, w = IF u.selected = None THEN u
                      ELSE IF u.rate = 0 THEN [u EXCEPT !.timer = FALSE, !.data = Blank]
                      ELSE ResetMetricPoller(u)
    PROVE  Sound(w) /\ ~w.loading /\ Polls(w) /\ Follows(v, w)
<1>1. /\ IsView(u) /\ u.data = v.data /\ u.selected = v.selected /\ u.rate \in {0, 1}
      /\ u.loading = v.loading /\ u.timer = v.timer /\ u.filters = v.filters
      /\ u.maps = v.maps /\ u.bar = v.bar /\ u.active = v.active /\ u.filtered = v.filtered
  <2>1. 1 - v.rate \in {0, 1}
    BY DEF Sound, IsView
  <2>2. /\ u = [k \in ViewKeys |-> u[k]] /\ u.rate = 1 - v.rate
        /\ u.data = v.data /\ u.selected = v.selected
        /\ u.loading = v.loading /\ u.timer = v.timer /\ u.wire = v.wire /\ u.filters = v.filters
        /\ u.maps = v.maps /\ u.bar = v.bar /\ u.active = v.active /\ u.filtered = v.filtered
    BY DEF Sound, IsView, ViewKeys
  <2>. QED BY <2>1, <2>2 DEF Sound, IsView
<1>2. CASE u.selected = None
  BY <1>1, <1>2, Constants DEF Sound, MapsSound, Polls, Follows, Settled, Unbounded, Passed
<1>3. CASE u.selected # None /\ u.rate = 0
  <2>1. w = [u EXCEPT !.timer = FALSE, !.data = Blank]
    BY <1>3
  <2>2. /\ w = [k \in ViewKeys |-> w[k]] /\ w.timer = FALSE /\ w.data = Blank
        /\ w.selected = u.selected /\ w.rate = u.rate /\ w.loading = u.loading /\ w.wire = u.wire
        /\ w.filters = u.filters /\ w.maps = u.maps /\ w.bar = u.bar /\ w.active = u.active
        /\ w.filtered = u.filtered
    BY <1>1, <2>1 DEF IsView, ViewKeys
  <2>4. IsData(Blank) /\ DOMAIN Blank.values = {}
    BY Constants
  <2>3. IsView(w)
    <3>1. IsView(u)
      BY <1>1
    <3>. QED BY ONLY <2>2, <2>4, <3>1 DEF IsView
  <2>5. Blank.metric = v.selected => v.selected \notin Valid
    BY Constants
  <2>6. Sound(w)
    BY <1>1, <2>2, <2>3, <2>4 DEF Sound, MapsSound
  <2>7. ~w.loading /\ Polls(w)
    BY <1>1, <1>3, <2>2 DEF Polls
  <2>8. Follows(v, w)
    BY <1>1, <2>2, <2>5 DEF Follows, Settled, Unbounded, Passed
  <2>. QED BY <2>6, <2>7, <2>8
<1>4. CASE u.selected # None /\ u.rate # 0
  <2>1. w = ResetMetricPoller(u)
    BY <1>4
  <2>2. /\ IsView(w) /\ Still(u, w)
        /\ ~u.loading => (w.timer <=> u.rate # 0 /\ u.selected # None)
    BY <1>1, <2>1, ResetMetricPollerView
  <2>. QED BY <1>1, <1>4, <2>2
           DEF Still, Sound, MapsSound, Polls, Follows, Settled, Unbounded, Passed
<1>. QED BY <1>2, <1>3, <1>4

(* Everything is reset, and the bar follows.                               *)
LEMMA EvResetFiltersView ==
    ASSUME NEW v, Sound(v), NEW u, u = ResetFilter(v), NEW w, w = ResetFilters(u)
    PROVE  Sound(w) /\ Kept(v, w) /\ Settled(w) /\ Follows(v, w)
<1>1. IsView(v) /\ MapsSound(v) /\ IsFilter(v.bar.filter)
  BY DEF Sound
<1>2. /\ IsView(u) /\ Kept(v, u) /\ u.maps = v.maps
      /\ u.filters[v.selected] = NoFilter /\ u.active = FALSE
      /\ u.bar.of = v.bar.of /\ u.bar.shown = v.bar.shown
      /\ IsFilter(v.bar.filter) => IsFilter(u.bar.filter)
      /\ v.bar.of # None => u.bar.filter = Within(NoFilter, v.maps[v.bar.of])
  BY <1>1, ResetFilterView
<1>3. MapsSound(u) /\ IsFilter(u.bar.filter) /\ u.selected = v.selected
  BY <1>1, <1>2 DEF MapsSound, Kept
<1>4. w = u \/ BarReset(u, w)
  <2>1. IsView(u) /\ MapsSound(u) /\ IsFilter(u.bar.filter)
    BY <1>2, <1>3
  <2>. QED BY <2>1, ResetFiltersView
<1>5. /\ IsView(w) /\ Kept(v, w) /\ MapsSound(w) /\ IsFilter(w.bar.filter)
      /\ w.bar.of = v.bar.of /\ w.bar.shown = v.bar.shown
      /\ \A m \in Named : w.maps[m] = NoMap <=> v.maps[m] = NoMap
      /\ v.bar.of # None => w.bar.filter = Within(NoFilter, w.maps[v.bar.of])
      /\ w.filters[v.selected] = NoFilter /\ w.active = FALSE
  BY <1>2, <1>3, <1>4 DEF Kept, BarReset
<1>6. w.selected = v.selected /\ w.data = v.data
  BY <1>5 DEF Kept
<1>7. Sound(w)
  <2>1. v.selected \in Valid /\ DOMAIN v.data.values # {} => v.data.metric \in Named
    BY Constants DEF Sound, IsView, IsData
  <2>2. v.selected \in Valid => v.selected \in Named
    BY Constants
  <2>. QED BY <1>5, <1>6, <2>1, <2>2, Constants DEF Sound
<1>8. Settled(w)
  BY <1>5, <1>6, Constants DEF Sound, Settled
<1>9. ~Bounded(NoFilter)
  BY DEF Bounded, NoFilter, Off
<1>. QED BY <1>5, <1>6, <1>7, <1>8, <1>9 DEF Follows, Unbounded, Passed

Slid(v, f) == [v EXCEPT !.bar.filter = f]
(* A slider moves: the view follows when the mouse is let go.              *)
LEMMA DragSliderView ==
    ASSUME NEW v, Sound(v), v.bar.shown, v.maps[v.bar.of] # NoMap, NEW f, IsFilter(f),
           NEW w, w = Slid(v, f)
    PROVE  /\ Sound(w) /\ Kept(v, w) /\ Held(w) /\ w.maps = v.maps /\ w.bar.of # None
           /\ (Unbounded(v) => Unbounded(w)) /\ (Passed(v) => Passed(w))
<1>1. PICK bar : bar = [v.bar EXCEPT !.filter = f]
  OBVIOUS
<1>2. /\ bar \in Bar /\ bar.of = v.bar.of /\ bar.shown = v.bar.shown /\ bar.filter = f
      /\ IsView(v)
  BY <1>1 DEF Sound, IsView, Bar, IsFilter
<1>3. w = [v EXCEPT !.bar = bar]
  BY <1>1 DEF Slid
<1>4. /\ IsView(w) /\ Kept(v, w) /\ w.bar = bar /\ w.filters = v.filters /\ w.maps = v.maps
      /\ w.active = v.active /\ w.filtered = v.filtered
  BY ONLY <1>2, <1>3, BarWritten
<1>5. w.selected = v.selected /\ w.data = v.data
  BY <1>4 DEF Kept
<1>6. v.bar.of # None
  BY DEF Sound
<1>7. Sound(w)
  BY <1>2, <1>4, <1>5, <1>6 DEF Sound, MapsSound
<1>8. Held(w)
  BY <1>2, <1>4, <1>5 DEF Held, Sound
<1>9. (Unbounded(v) => Unbounded(w)) /\ (Passed(v) => Passed(w))
  BY <1>4, <1>5 DEF Unbounded, Passed
<1>. QED BY <1>2, <1>4, <1>6, <1>7, <1>8, <1>9

LEMMA StopDragView ==
    ASSUME NEW v, Sound(v), v.bar.of # None, NEW w, w = UpdateFilter(v)
    PROVE  /\ Sound(w) /\ Kept(v, w) /\ Settled(w) /\ Passed(w) /\ w.maps = v.maps /\ w.bar = v.bar
           /\ (Held(v) => Held(w) /\ Unbounded(w))
<1> DEFINE f == Narrowed(v.bar.filter, v.maps[v.bar.of])
<1>1. IsView(v) /\ MapsSound(v) /\ IsFilter(v.bar.filter)
  BY DEF Sound
<1> HIDE DEF f
<1>2. /\ IsView(w) /\ Kept(v, w) /\ w.maps = v.maps /\ w.bar = v.bar
      /\ w.filters[v.selected] = f /\ IsFilter(f) /\ Fresh(w) /\ w.active = Bounded(f)
  BY <1>1, UpdateFilterView DEF f
<1>3. w.selected = v.selected /\ w.data = v.data /\ f # Unset
  BY <1>2, Constants DEF Kept
<1>4. Sound(w)
  BY <1>1, <1>2, <1>3 DEF Sound, MapsSound
<1>5. Settled(w)
  BY <1>2, <1>3 DEF Settled, Sound, f
<1>6. Passed(w)
  BY <1>2, <1>3 DEF Passed, Fresh
<1>. QED BY <1>2, <1>3, <1>4, <1>5, <1>6 DEF Held, Unbounded

(* A map with other bounds is a map.                                       *)
LEMMA MapMoved ==
    ASSUME NEW o, IsMap(o), NEW low \in Nat, NEW high \in Nat, low <= high,
           NEW new, new = [o EXCEPT !.low = low, !.high = high]
    PROVE  IsMap(new)
<1>1. o \in Map
  BY DEF IsMap
<1>2. /\ new.low = low /\ new.high = high
      /\ new.olow = o.olow /\ new.ohigh = o.ohigh
  BY <1>1 DEF Map
<1>3. new = [low |-> low, high |-> high, olow |-> o.olow, ohigh |-> o.ohigh]
  BY <1>1, <1>2 DEF Map
<1>. QED BY <1>1, <1>2, <1>3 DEF IsMap, Map

(* Other bounds of the map, and the filter moves along.                    *)
LEMMA UpdateMapView ==
    ASSUME NEW v, Sound(v), v.bar.shown, v.bar.of = v.selected, v.maps[v.selected] # NoMap,
           NEW low \in 0..Top, NEW high \in 0..Top, low <= high,
           NEW x, x = [v EXCEPT !.maps[v.bar.of].low = low, !.maps[v.bar.of].high = high,
                         !.bar.filter = Remapped(@, v.maps[v.bar.of], low, high)],
           NEW w, w = SetMap(UpdateFilter(x))
    PROVE  Sound(w) /\ Kept(v, w) /\ Settled(w) /\ Follows(v, w)
<1> DEFINE of  == v.bar.of
           new == [v.maps[of] EXCEPT !.low = low, !.high = high]
           ms  == [v.maps EXCEPT ![of] = new]
           f   == Remapped(v.bar.filter, v.maps[of], low, high)
           bar == [v.bar EXCEPT !.filter = f]
           u   == [v EXCEPT !.maps = ms]
           y   == [u EXCEPT !.bar = bar]
<1>1. /\ of \in Metrics /\ of \in Named /\ IsMap(v.maps[of]) /\ v.bar \in Bar
      /\ low \in Nat /\ high \in Nat /\ IsFilter(v.bar.filter) /\ IsView(v)
  <2>1. of # None /\ v.bar \in Bar /\ IsView(v) /\ IsFilter(v.bar.filter) /\ MapsSound(v)
    BY DEF Sound, IsView
  <2>2. of \in Metrics /\ of \in Named
    BY <2>1, Constants DEF Bar
  <2>3. low \in Nat /\ high \in Nat
    BY MetricsAssumption
  <2>. QED BY <2>1, <2>2, <2>3 DEF MapsSound
<1>2. IsMap(new)
  <2>1. IsMap(v.maps[of]) /\ low \in Nat /\ high \in Nat
    BY <1>1
  <2>. QED BY <2>1, MapMoved
<1> HIDE DEF new
<1>3. /\ ms \in [Named -> Map] /\ ms[of] = new /\ \A m \in Named \ {of} : ms[m] = v.maps[m]
      /\ \A m \in Named : ms[m] = NoMap \/ IsMap(ms[m])
  <2>1. v.maps \in [Named -> Map] /\ MapsSound(v)
    BY DEF IsView, Sound
  <2>. QED BY <1>1, <1>2, <2>1 DEF IsMap, MapsSound
<1>4. IsFilter(f)
  <2>1. PICK g : g = v.bar.filter
    OBVIOUS
  <2>2. PICK o : o = v.maps[of]
    OBVIOUS
  <2>3. g.min \in Int /\ g.max \in Int /\ g.min >= -1 /\ g.max >= -1 /\ g \in Filter
        /\ o.low \in Int /\ o.high \in Int
    BY <1>1, <2>1, <2>2 DEF IsFilter, Filter, Off, IsMap, Map
  <2>4. PICK e : e = IF o.high = high THEN g
                     ELSE [min |-> IF g.min > high THEN high ELSE g.min,
                           max |-> IF g.max > high \/ g.max = o.high THEN high ELSE g.max]
    OBVIOUS
  <2>5. e \in Filter /\ e.min >= -1 /\ e.max >= -1
    BY <1>1, <2>3, <2>4 DEF Filter
  <2>6. f = IF o.low = low THEN e
            ELSE [min |-> IF e.min < low \/ e.min = o.low THEN low ELSE e.min,
                  max |-> IF e.max < low THEN low ELSE e.max]
    BY <2>1, <2>2, <2>4 DEF Remapped
  <2>. QED BY <1>1, <2>3, <2>5, <2>6 DEF IsFilter, Filter, Off
<1> HIDE DEF f
<1>5. bar \in Bar /\ bar.of = of /\ bar.shown /\ bar.filter = f
  BY <1>1, <1>4 DEF Bar, IsFilter
<1>6. x = y
  <2>1. ms = [v.maps EXCEPT ![of].low = low, ![of].high = high]
    BY <1>1 DEF new, IsView
  <2>. QED BY <1>1, <2>1 DEF IsView, ViewKeys, f
<1> HIDE DEF ms, bar
<1>7. /\ IsView(u) /\ Kept(v, u) /\ u.filters = v.filters /\ u.maps = ms /\ u.bar = v.bar
  BY <1>1, <1>3, MapsWritten
<1> HIDE DEF u
<1>8. /\ IsView(y) /\ Kept(u, y) /\ y.bar = bar /\ y.filters = v.filters /\ y.maps = ms
  BY <1>5, <1>7, BarWritten
<1> HIDE DEF y
<1>9. /\ MapsSound(y) /\ y.bar.of # None /\ IsFilter(y.bar.filter)
      /\ y.selected = v.selected /\ y.data = v.data
  BY <1>1, <1>3, <1>4, <1>5, <1>7, <1>8, Constants DEF MapsSound, Kept
<1>10. PICK n : n = Narrowed(y.bar.filter, y.maps[y.bar.of])
  OBVIOUS
<1>11. PICK z : z = UpdateFilter(y)
  OBVIOUS
<1>12. /\ IsView(z) /\ Kept(y, z) /\ z.maps = y.maps /\ z.bar = y.bar
       /\ z.filters[y.selected] = n /\ IsFilter(n) /\ Fresh(z) /\ z.active = Bounded(n)
  BY <1>8, <1>9, <1>10, <1>11, UpdateFilterView
<1>13. MapsSound(z) /\ w = SetMap(z) /\ IsFilter(z.bar.filter)
  BY <1>6, <1>9, <1>11, <1>12 DEF MapsSound
<1>14. /\ IsView(w) /\ Kept(z, w) /\ w.filters = z.filters /\ w.maps = z.maps
       /\ w.active = z.active /\ w.filtered = z.filtered
       /\ Fitting(w) /\ (z.bar.of # None => w.bar.of # None)
       /\ IsFilter(w.bar.filter)
  BY <1>12, <1>13, SetMapView
<1>15. /\ Kept(v, w) /\ w.selected = v.selected /\ w.data = v.data /\ w.maps = ms
       /\ w.filters[v.selected] = n /\ n # Unset /\ Fresh(w) /\ MapsSound(w)
  <2>1. Kept(v, w)
    BY ONLY <1>7, <1>8, <1>12, <1>14 DEF Kept
  <2>2. z.selected = v.selected /\ z.data = v.data /\ w.selected = v.selected /\ w.data = v.data
    BY ONLY <1>7, <1>8, <1>12, <1>14 DEF Kept
  <2>3. w.maps = ms /\ w.filters[v.selected] = n /\ MapsSound(w)
    BY <1>8, <1>9, <1>12, <1>13, <1>14 DEF MapsSound
  <2>4. n # Unset
    BY <1>12, Constants
  <2>5. Fresh(w)
    BY ONLY <1>12, <1>14, <2>2 DEF Fresh
  <2>. QED BY <2>1, <2>2, <2>3, <2>4, <2>5
<1>16. v.selected \in Valid => v.selected \in Named /\ ms[v.selected] # NoMap
  BY <1>1, <1>2, <1>3, Constants
<1>17. \A m \in Named : v.maps[m] # NoMap => w.maps[m] # NoMap
  BY <1>2, <1>3, <1>15, Constants
<1>18. Sound(w)
  <2>1. v.selected \in Valid /\ DOMAIN v.data.values # {} => v.data.metric \in Named
    BY Constants DEF Sound, IsView, IsData
  <2>2. w.bar.shown => w.bar.of # None
    BY <1>14 DEF Fitting
  <2>3. w.selected \in Valid => /\ w.bar.shown => w.bar.of = w.selected
                                /\ w.maps[w.selected] # NoMap <=> w.bar.shown
    BY <1>14, FittingIsSettled
  <2>. QED BY <1>14, <1>15, <1>17, <2>1, <2>2, <2>3 DEF Sound
<1>19. Settled(w) /\ Unbounded(w) /\ Passed(w)
  BY <1>14, <1>15, <1>16, FittingIsSettled DEF Unbounded, Passed, Fresh
<1>20. w.bar.of # None
  BY <1>9, <1>12, <1>14
<1>. QED BY <1>15, <1>17, <1>18, <1>19, <1>20 DEF Follows

(***************************************************************************)
(* The view between the steps                                              *)
(***************************************************************************)
IsDrag(d) == d.on \in BOOLEAN /\ d.fixed \in Int /\ d.fixed >= Off
Good(v, on, hot) ==
  /\ Sound(v) /\ ~v.loading /\ Polls(v)
  /\ on => v.bar.of # None
  /\ ~on => Settled(v)
  /\ ~hot => Unbounded(v) /\ Passed(v) /\ (on => Held(v))
FewRequests(v) == \A m \in Metrics : v.wire[m] <= MaxWire
ViewInv ==
  /\ IsView(model) /\ FewRequests(model) /\ ~model.loading /\ Polls(model)
  /\ IsData(due) /\ IsDrag(drag) /\ interrupted \in BOOLEAN
  /\ IF Broken THEN model.selected = None ELSE Good(model, drag.on, interrupted)
MapsKept(v, w) == \A m \in Named : v.maps[m] # NoMap => w.maps[m] # NoMap

(* What a step of the metrics leaves behind.                               *)
Kind(v, w, d, D, hot) ==
  Good(w, D.on, hot) /\ MapsKept(v, w) /\ FewRequests(w) /\ IsData(d) /\ IsDrag(D)

(* Requests and answers on their way.                                      *)
LEMMA WireWritten ==
    ASSUME NEW v, NEW on, NEW hot, Good(v, on, hot), NEW wire \in [Metrics -> Nat],
           NEW w, w = [v EXCEPT !.wire = wire]
    PROVE  Good(w, on, hot) /\ MapsKept(v, w) /\ w.wire = wire
<1>1. IsView(v)
  BY DEF Good, Sound
<1>2. /\ w = [k \in ViewKeys |-> w[k]] /\ w.wire = wire
      /\ w.selected = v.selected /\ w.rate = v.rate /\ w.loading = v.loading
      /\ w.timer = v.timer /\ w.data = v.data
      /\ w.preset = v.preset /\ w.filters = v.filters
      /\ w.maps = v.maps /\ w.bar = v.bar /\ w.active = v.active /\ w.filtered = v.filtered
  BY <1>1 DEF IsView, ViewKeys
<1>3. IsView(w)
  BY <1>1, <1>2 DEF IsView
<1>4. Sound(w)
  BY <1>2, <1>3 DEF Good, Sound, MapsSound
<1>5. ~w.loading /\ Polls(w)
  BY <1>2 DEF Good, Polls
<1>6. /\ Settled(v) => Settled(w)
      /\ Unbounded(v) => Unbounded(w)
      /\ Passed(v) => Passed(w)
      /\ Held(v) => Held(w)
  BY <1>2 DEF Settled, Unbounded, Passed, Held
<1>. QED BY <1>2, <1>4, <1>5, <1>6 DEF Good, MapsKept

(* Every step of the metrics leaves a good view, one by one.               *)
LEMMA PickMetricKind ==
    ASSUME ViewInv, ~Broken, PickMetric
    PROVE  Kind(model, model', due', drag', interrupted)
<1>1. PICK m \in Selectable : model' = SwitchMetric(model, m)
  BY DEF PickMetric, Selectable
<1>2. Good(model, drag.on, interrupted) /\ ~drag.on /\ drag' = drag /\ due' = due
      /\ IsData(due) /\ IsDrag(drag) /\ FewRequests(model)'
  BY DEF ViewInv, PickMetric, Asked, Fits, FewRequests
<1>3. /\ IsView(model) /\ MapsSound(model) /\ IsFilter(model.bar.filter) /\ Sound(model)
      /\ ~model.loading /\ Polls(model)
  BY <1>2 DEF Good, Sound
<1>4. PICK w : w = model'
  OBVIOUS
<1>5. Switched(model, m, w)
  BY <1>1, <1>3, <1>4, SwitchMetricView
<1>6. Sound(w) /\ Settled(w) /\ Unbounded(w) /\ Passed(w)
  BY <1>3, <1>5, SwitchedIsSound
<1>7. ~w.loading /\ Polls(w) /\ MapsKept(model, w)
  BY <1>3, <1>5 DEF Switched, MapsKept
<1>. QED BY <1>2, <1>4, <1>6, <1>7 DEF Kind, Good, FewRequests

LEMMA SetMetricPollKind ==
    ASSUME ViewInv, ~Broken, SetMetricPoll
    PROVE  Kind(model, model', due', drag', interrupted)
<1>1. PICK u : u = [model EXCEPT !.rate = 1 - @]
  OBVIOUS
<1>2. PICK w : w = model'
  OBVIOUS
<1>3. w = IF u.selected = None THEN u
          ELSE IF u.rate = 0 THEN [u EXCEPT !.timer = FALSE, !.data = Blank]
          ELSE ResetMetricPoller(u)
  BY <1>1, <1>2 DEF SetMetricPoll
<1>4. Good(model, drag.on, interrupted) /\ ~drag.on /\ drag' = drag /\ due' = due
      /\ IsData(due) /\ IsDrag(drag) /\ FewRequests(model)'
  BY DEF ViewInv, SetMetricPoll, Asked, Fits, FewRequests
<1>5. Sound(model) /\ ~model.loading /\ Polls(model)
  BY <1>4 DEF Good
<1>6. Sound(w) /\ ~w.loading /\ Polls(w) /\ Follows(model, w)
  BY <1>1, <1>3, <1>5, SetMetricPollView
<1>. QED BY <1>2, <1>4, <1>6 DEF Kind, Good, FewRequests, Follows, MapsKept

LEMMA EvResetFiltersKind ==
    ASSUME ViewInv, ~Broken, EvResetFilters
    PROVE  Kind(model, model', due', drag', interrupted)
<1>1. PICK u : u = ResetFilter(model)
  OBVIOUS
<1>2. PICK w : w = model'
  OBVIOUS
<1>3. w = ResetFilters(u)
  BY <1>1, <1>2 DEF EvResetFilters
<1>4. Good(model, drag.on, interrupted) /\ ~drag.on /\ drag' = drag /\ due' = due
      /\ IsData(due) /\ IsDrag(drag) /\ FewRequests(model)
  BY DEF ViewInv, EvResetFilters, Asked
<1>5. Sound(model) /\ ~model.loading /\ Polls(model)
  BY <1>4 DEF Good
<1>6. Sound(w) /\ Kept(model, w) /\ Settled(w) /\ Follows(model, w)
  BY <1>1, <1>3, <1>5, EvResetFiltersView
<1>7. ~w.loading /\ Polls(w) /\ FewRequests(w)
  BY <1>4, <1>5, <1>6 DEF Kept, Polls, FewRequests
<1>. QED BY <1>2, <1>4, <1>6, <1>7 DEF Kind, Good, Follows, MapsKept

LEMMA DragSliderKind ==
    ASSUME ViewInv, ~Broken, DragSlider
    PROVE  Kind(model, model', due', drag', interrupted)
<1>1. Good(model, drag.on, interrupted) /\ due' = due /\ IsData(due) /\ IsDrag(drag)
      /\ FewRequests(model) /\ model.bar.shown /\ model.maps[model.bar.of] # NoMap
  BY DEF ViewInv, DragSlider
<1>2. Sound(model) /\ ~model.loading /\ Polls(model) /\ IsFilter(model.bar.filter)
      /\ MapsSound(model) /\ model.bar.of # None /\ IsView(model)
  BY <1>1 DEF Good, Sound
<1>3. IsMap(model.maps[model.bar.of])
  <2>1. model.bar.of \in Named
    BY <1>2, Constants DEF IsView, Bar
  <2>. QED BY <1>1, <1>2, <2>1 DEF MapsSound
<1>4. PICK fixed \in (IF drag.on THEN {drag.fixed} ELSE {model.bar.filter.min, model.bar.filter.max}),
           x \in model.maps[model.bar.of].low..model.maps[model.bar.of].high :
        /\ model' = [model EXCEPT !.bar.filter = Dragged(x, fixed)]
        /\ drag' = [on |-> TRUE, fixed |-> fixed, sync |-> TRUE]
  BY DEF DragSlider
<1>5. fixed \in Int /\ fixed >= -1 /\ x \in Int /\ x >= -1
  BY <1>1, <1>2, <1>3, <1>4 DEF IsDrag, IsFilter, Filter, IsMap, Map, Off
<1>6. PICK f : f = Dragged(x, fixed)
  OBVIOUS
<1>7. IsFilter(f)
  BY <1>5, <1>6 DEF Dragged, IsFilter, Filter, Off
<1>8. PICK w : w = model'
  OBVIOUS
<1>9. w = Slid(model, f)
  BY <1>4, <1>6, <1>8 DEF Slid
<1>10. /\ Sound(w) /\ Kept(model, w) /\ Held(w) /\ w.maps = model.maps /\ w.bar.of # None
       /\ (Unbounded(model) => Unbounded(w)) /\ (Passed(model) => Passed(w))
  <2>1. Sound(model) /\ model.bar.shown /\ model.maps[model.bar.of] # NoMap
    BY <1>1, <1>2
  <2>. QED BY ONLY <2>1, <1>7, <1>9, DragSliderView
<1>11. ~w.loading /\ Polls(w) /\ FewRequests(w) /\ MapsKept(model, w)
  BY <1>1, <1>2, <1>10 DEF Kept, Polls, FewRequests, MapsKept
<1>12. drag'.on /\ IsDrag(drag')
  BY <1>4, <1>5 DEF IsDrag, Off
<1>. QED BY <1>1, <1>8, <1>10, <1>11, <1>12 DEF Kind, Good

LEMMA StopDragKind ==
    ASSUME ViewInv, ~Broken, StopDrag
    PROVE  Kind(model, model', due', drag', interrupted)
<1>1. PICK w : w = model'
  OBVIOUS
<1>2. w = UpdateFilter(model) /\ drag.on /\ due' = due
  BY <1>1 DEF StopDrag
<1>3. Good(model, drag.on, interrupted) /\ IsData(due) /\ IsDrag(drag) /\ FewRequests(model)
  BY DEF ViewInv
<1>4. Sound(model) /\ ~model.loading /\ Polls(model) /\ model.bar.of # None
  BY <1>2, <1>3 DEF Good
<1>5. /\ Sound(w) /\ Kept(model, w) /\ Settled(w) /\ Passed(w)
      /\ w.maps = model.maps /\ w.bar = model.bar
      /\ (Held(model) => Held(w) /\ Unbounded(w))
  BY <1>2, <1>4, StopDragView
<1>6. ~w.loading /\ Polls(w) /\ FewRequests(w) /\ MapsKept(model, w)
  BY <1>3, <1>4, <1>5 DEF Kept, Polls, FewRequests, MapsKept
<1>7. drag'.on \in BOOLEAN /\ IsDrag(drag')
  <2>1. CASE drag' = NoDrag
    BY <2>1 DEF NoDrag, IsDrag, Off
  <2>2. CASE drag' = [drag EXCEPT !.sync = FALSE]
    <3>1. drag'.on = drag.on /\ drag'.fixed = drag.fixed
      BY <2>2
    <3>. QED BY <1>3, <3>1 DEF IsDrag
  <2>. QED BY <2>1, <2>2 DEF StopDrag
<1>. QED BY <1>1, <1>2, <1>3, <1>4, <1>5, <1>6, <1>7 DEF Kind, Good

LEMMA UpdateMapKind ==
    ASSUME ViewInv, ~Broken, UpdateMap
    PROVE  Kind(model, model', due', drag', interrupted)
<1>1. PICK low \in 0..Top, high \in 0..Top :
        /\ low <= high
        /\ model' = SetMap(UpdateFilter(
             [model EXCEPT !.maps[model.bar.of].low = low, !.maps[model.bar.of].high = high,
                !.bar.filter = Remapped(@, model.maps[model.bar.of], low, high)]))
  BY DEF UpdateMap
<1>2. PICK x : x = [model EXCEPT !.maps[model.bar.of].low = low, !.maps[model.bar.of].high = high,
                      !.bar.filter = Remapped(@, model.maps[model.bar.of], low, high)]
  OBVIOUS
<1>3. PICK w : w = model'
  OBVIOUS
<1>4. w = SetMap(UpdateFilter(x))
  BY <1>1, <1>2, <1>3
<1>5. /\ Good(model, drag.on, interrupted) /\ ~drag.on /\ drag' = drag /\ due' = due
      /\ IsData(due) /\ IsDrag(drag) /\ FewRequests(model)
      /\ model.bar.shown /\ model.bar.of = model.selected /\ model.maps[model.selected] # NoMap
  BY DEF ViewInv, UpdateMap, Asked
<1>6. Sound(model) /\ ~model.loading /\ Polls(model)
  BY <1>5 DEF Good
<1>7. Sound(w) /\ Kept(model, w) /\ Settled(w) /\ Follows(model, w)
  <2>1. low <= high
    BY <1>1
  <2>2. model.bar.shown /\ model.bar.of = model.selected /\ model.maps[model.selected] # NoMap
    BY <1>5
  <2>. QED BY ONLY <1>2, <1>4, <1>6, <2>1, <2>2, low \in 0..Top, high \in 0..Top, UpdateMapView
<1>8. ~w.loading /\ Polls(w) /\ FewRequests(w)
  BY <1>5, <1>6, <1>7 DEF Kept, Polls, FewRequests
<1>. QED BY <1>3, <1>5, <1>7, <1>8 DEF Kind, Good, Follows, MapsKept

LEMMA LoadMetricsKind ==
    ASSUME ViewInv, ~Broken, LoadMetrics
    PROVE  Kind(model, model', due', drag', interrupted)
<1>1. PICK wire : wire = Poll(model)
  OBVIOUS
<1>2. /\ Good(model, drag.on, interrupted) /\ drag' = drag /\ due' = due
      /\ IsData(due) /\ IsDrag(drag) /\ FewRequests(model)'
      /\ model' = [model EXCEPT !.wire = wire]
  BY <1>1 DEF ViewInv, LoadMetrics, Fits, FewRequests
<1>3. model.wire \in [Metrics -> Nat]
  BY DEF ViewInv, IsView
<1>4. wire \in [Metrics -> Nat]
  <2>1. model.selected \in Metrics
    BY DEF ViewInv, IsView, Polls, LoadMetrics
  <2>2. model.wire[model.selected] + 1 \in Nat
    BY <1>3, <2>1
  <2>. QED BY <1>1, <1>3, <2>1, <2>2 DEF Poll
<1>5. PICK w : w = model'
  OBVIOUS
<1>6. Good(w, drag.on, interrupted) /\ MapsKept(model, w)
  BY <1>2, <1>4, <1>5, WireWritten
<1>. QED BY <1>2, <1>5, <1>6 DEF Kind, FewRequests

LEMMA ReceivedMetricsKind ==
    ASSUME ViewInv, ~Broken, ReceivedMetrics
    PROVE  Kind(model, model', due', drag', interrupted)
<1>1. PICK m \in Metrics :
        /\ model.wire[m] > 0 /\ model' = [model EXCEPT !.wire[m] = @ - 1]
        /\ due' \in {[metric |-> m, values |-> a] : a \in Answers}
                     \cup {[metric |-> Failed, values |-> Empty]}
  BY DEF ReceivedMetrics
<1>2. PICK wire : wire = [model.wire EXCEPT ![m] = @ - 1]
  OBVIOUS
<1>3. Good(model, drag.on, interrupted) /\ drag' = drag /\ IsDrag(drag) /\ FewRequests(model)
  BY DEF ViewInv, ReceivedMetrics
<1>4. model.wire \in [Metrics -> Nat]
  BY DEF ViewInv, IsView
<1>5. /\ wire \in [Metrics -> Nat]
      /\ \A n \in Metrics : wire[n] <= model.wire[n]
  BY <1>1, <1>2, <1>4
<1>6. PICK w : w = model'
  OBVIOUS
<1>7. w = [model EXCEPT !.wire = wire]
  BY <1>1, <1>2, <1>6
<1>8. Good(w, drag.on, interrupted) /\ MapsKept(model, w) /\ w.wire = wire
  BY <1>3, <1>5, <1>7, WireWritten
<1>9. FewRequests(w)
  BY <1>3, <1>4, <1>5, <1>8, MetricsAssumption DEF FewRequests
<1>10. IsData(due')
  <2>1. CASE due' = [metric |-> Failed, values |-> Empty]
    BY <2>1, Constants DEF IsData, Empty
  <2>2. CASE due' \in {[metric |-> m, values |-> a] : a \in Answers}
    <3>1. PICK a \in Answers : due' = [metric |-> m, values |-> a]
      BY <2>2
    <3>2. PICK D \in SUBSET Devices : a \in [D -> 0..Top]
      BY MetricsAssumption
    <3>3. /\ due' = [metric |-> due'.metric, values |-> due'.values]
          /\ due'.metric = m /\ due'.values = a
      BY <3>1
    <3>4. due'.metric \in Named
      BY <3>3, Constants
    <3>5. \A d \in DOMAIN due'.values : d \in Devices /\ due'.values[d] \in 0..Top
      BY <3>2, <3>3
    <3>. QED BY <3>3, <3>4, <3>5 DEF IsData
  <2>. QED BY <1>1, <2>1, <2>2
<1>. QED BY <1>3, <1>6, <1>8, <1>9, <1>10 DEF Kind

LEMMA DisplayMetricsKind ==
    ASSUME ViewInv, ~Broken, DisplayMetrics
    PROVE  Kind(model, model', due', drag', interrupted)
<1>1. PICK w : w = model'
  OBVIOUS
<1>2. /\ Good(model, drag.on, interrupted) /\ drag' = drag /\ due' = Blank /\ due # Blank
      /\ IsData(due) /\ IsDrag(drag) /\ FewRequests(model)
      /\ w = IF model.maps[due.metric] # NoMap THEN DisplayMapped(model, due)
              ELSE DisplayUnmapped(model, due)
  BY <1>1 DEF ViewInv, DisplayMetrics
<1>3. Sound(model) /\ ~model.loading /\ Polls(model) /\ due.metric \in Named
  BY <1>2 DEF Good, IsData
<1>4. Sound(w) /\ Follows(model, w) /\ (Held(model) => Held(w)) /\ Asks(model, w)
  <2>1. CASE model.maps[due.metric] # NoMap
    BY <1>2, <1>3, <2>1, DisplayMappedView
  <2>2. CASE model.maps[due.metric] = NoMap
    BY <1>2, <1>3, <2>2, DisplayUnmappedView
  <2>. QED BY <2>1, <2>2
<1>5. ~w.loading /\ Polls(w) /\ FewRequests(w)
  BY <1>2, <1>3, <1>4 DEF Asks, Polls, FewRequests
<1>6. IsData(due')
  BY <1>2, Constants
<1>. QED BY <1>1, <1>2, <1>4, <1>5, <1>6 DEF Kind, Good, Follows, MapsKept

LEMMA MetricsKind ==
    ASSUME ViewInv, ~Broken, MetricsNext
    PROVE  Kind(model, model', due', drag', interrupted)
BY PickMetricKind, SetMetricPollKind, EvResetFiltersKind, DragSliderKind, StopDragKind,
   UpdateMapKind, LoadMetricsKind, ReceivedMetricsKind, DisplayMetricsKind DEF MetricsNext

(***************************************************************************)
(* The presets and the view                                                *)
(***************************************************************************)
(* A preset that shares its map with the view has the one of the view.     *)
Usable(q, maps, hot) ==
  /\ GoodPreset(q) /\ (~hot => BoundedByMap(q))
  /\ q.shared => q.map = maps[q.metric]
FitPreset(q, maps, hot) == q = Missing \/ (Usable(q, maps, hot) /\ q.name # None)
FitChange(c, named, maps, hot) == c = Missing \/ (Usable(c, maps, hot) /\ (named => c.name # None))

(* A preset follows the view when a map changes.                           *)
LEMMA FollowUsable ==
    ASSUME NEW q, NEW vs, NEW ws, NEW hot, Usable(q, vs, hot),
           q.shared => IsMap(ws[q.metric]), NEW r, r = Follow(q, ws)
    PROVE  Usable(r, ws, hot) /\ r.name = q.name
<1>1. GoodPreset(q) /\ IsPreset(q) /\ q # Missing /\ q.shared \in BOOLEAN
  BY Texts DEF Usable, GoodPreset
<1>2. CASE ~q.shared
  BY <1>1, <1>2 DEF Follow, Usable
<1>3. CASE q.shared
  <2>1. r = [q EXCEPT !.map = ws[q.metric]]
    BY <1>1, <1>3 DEF Follow
  <2>2. /\ IsPreset(r) /\ r.map = ws[q.metric] /\ r.name = q.name /\ r.rate = q.rate
        /\ r.metric = q.metric /\ r.filter = q.filter /\ r.shared = q.shared
    BY <1>1, <2>1 DEF IsPreset, Keys
  <2>3. IsMap(r.map) /\ r.map \notin {NoMap, Undefined}
    BY <1>3, <2>2, Constants
  <2>4. q.metric # None
    BY <1>1, <1>3 DEF GoodPreset
  <2>5. GoodPreset(r)
    BY <1>1, <1>3, <2>2, <2>3, <2>4 DEF GoodPreset
  <2>6. BoundedByMap(r)
    BY <2>3 DEF BoundedByMap
  <2>. QED BY <2>2, <2>5, <2>6 DEF Usable
<1>. QED BY <1>1, <1>2, <1>3

(* The maps after preset p was loaded under a name.                        *)
Reloaded(vs, ws, p, name) ==
  /\ p.metric = None /\ p.map = NoMap =>
       /\ \A m \in Named : ws[m] = NoMap <=> vs[m] = NoMap
       /\ name # None => ws = vs
  /\ p.metric # None =>
       /\ p.map = NoMap => ws = vs
       /\ \A m \in Named \ {p.metric} : ws[m] = vs[m]
       /\ p.map # NoMap => ws[p.metric] = IF p.map = Undefined THEN NoMap ELSE p.map

LEMMA SharedWritten ==
    ASSUME NEW q, IsPreset(q), NEW b \in BOOLEAN, NEW r, r = [q EXCEPT !.shared = b]
    PROVE  /\ IsPreset(r) /\ r.shared = b /\ r.name = q.name /\ r.rate = q.rate
           /\ r.metric = q.metric /\ r.filter = q.filter /\ r.map = q.map
BY DEF IsPreset, Keys

(* A preset after another one, or the same, was loaded.                    *)
LEMMA LoadedUsable ==
    ASSUME NEW q, NEW p, NEW vs, NEW ws, NEW hot, Usable(q, vs, hot), GoodPreset(p),
           p.shared => p.map = vs[p.metric], NEW name, Reloaded(vs, ws, p, name),
           p.metric = None /\ p.map = NoMap => name # None,
           NEW r, r = Loaded(q, p)
    PROVE  Usable(r, ws, hot) /\ r.name = q.name
<1>1. GoodPreset(q) /\ IsPreset(q) /\ q # Missing /\ q.shared \in BOOLEAN
  BY Texts DEF Usable, GoodPreset
<1>2. q.shared => IsMap(q.map) /\ q.metric # None /\ q.metric \in Metrics /\ q.metric \in Named
  BY <1>1, Constants DEF GoodPreset
<1>3. p.metric # None => p.metric \in Named
  BY Constants DEF GoodPreset
<1>4. CASE p.metric \in {q.metric, None} /\ ~p.shared /\ p.map # NoMap
  <2>1. PICK b \in BOOLEAN : b = (q = p /\ p.map # Undefined)
    OBVIOUS
  <2>2. r = [q EXCEPT !.shared = b]
    BY <1>1, <1>4, <2>1 DEF Loaded
  <2>3. /\ IsPreset(r) /\ r.shared = b /\ r.name = q.name /\ r.rate = q.rate
        /\ r.metric = q.metric /\ r.filter = q.filter /\ r.map = q.map
    BY <1>1, <2>2, SharedWritten
  <2>4. CASE b
    <3>1. q = p /\ p.map # Undefined /\ p.metric # None
      BY <1>4, <2>1, <2>4 DEF GoodPreset
    <3>2. IsMap(p.map)
      BY <1>4, <3>1 DEF GoodPreset
    <3>3. ws[p.metric] = p.map
      BY <1>4, <3>1 DEF Reloaded
    <3>. QED BY <1>1, <2>3, <2>4, <3>1, <3>2, <3>3 DEF Usable, GoodPreset, BoundedByMap
  <2>5. CASE ~b
    BY <1>1, <2>3, <2>5 DEF Usable, GoodPreset, BoundedByMap
  <2>. QED BY <2>4, <2>5
<1>5. CASE ~(p.metric \in {q.metric, None} /\ ~p.shared /\ p.map # NoMap)
  <2>1. r = q
    BY <1>1, <1>5 DEF Loaded
  <2>2. ASSUME q.shared PROVE ws[q.metric] = vs[q.metric]
    <3>1. CASE p.metric = None
      <4>1. ~p.shared
        BY <3>1 DEF GoodPreset
      <4>2. p.map = NoMap
        BY <1>5, <3>1, <4>1
      <4>. QED BY <3>1, <4>2 DEF Reloaded
    <3>2. CASE p.metric # None /\ p.metric # q.metric
      BY <1>2, <2>2, <3>2 DEF Reloaded
    <3>3. CASE p.metric # None /\ p.metric = q.metric
      <4>1. CASE p.map = NoMap
        BY <3>3, <4>1 DEF Reloaded
      <4>2. CASE p.map # NoMap
        <5>1. p.shared
          BY <1>5, <3>3, <4>2 DEF GoodPreset
        <5>2. IsMap(p.map) /\ p.map # Undefined
          BY <5>1, Constants DEF GoodPreset
        <5>. QED BY <3>3, <4>2, <5>1, <5>2 DEF Reloaded
      <4>. QED BY <4>1, <4>2
    <3>. QED BY <3>1, <3>2, <3>3
  <2>. QED BY <2>1, <2>2 DEF Usable
<1>. QED BY <1>4, <1>5

(* Loading, and then following the maps it changed.                        *)
AreMaps(maps) == \A m \in Named : maps[m] = NoMap \/ IsMap(maps[m])
Switching(q, p, vs, ws, hot, name, r) ==
  /\ Usable(q, vs, hot) /\ GoodPreset(p) /\ (p.shared => p.map = vs[p.metric])
  /\ AreMaps(vs) /\ (p.metric # None \/ p.map = NoMap => AreMaps(ws))
  /\ Reloaded(vs, ws, p, name) /\ r = Follow(Loaded(q, p), ws)
LEMMA SwitchedUsable ==
    ASSUME NEW q, NEW p, NEW vs, NEW ws, NEW hot, NEW name, NEW r,
           Switching(q, p, vs, ws, hot, name, r)
    PROVE  Usable(r, ws, hot) /\ r.name = q.name
<1>0. /\ Usable(q, vs, hot) /\ GoodPreset(p) /\ (p.shared => p.map = vs[p.metric])
      /\ AreMaps(vs) /\ (p.metric # None \/ p.map = NoMap => AreMaps(ws))
      /\ Reloaded(vs, ws, p, name) /\ r = Follow(Loaded(q, p), ws)
  BY DEF Switching
<1>1. PICK l : l = Loaded(q, p)
  OBVIOUS
<1>2. r = Follow(l, ws)
  BY <1>0, <1>1
<1>3. CASE p.metric = None /\ p.map = NoMap
  <2>1. l = q
    BY <1>1, <1>3 DEF Loaded
  <2>2. ASSUME q.shared PROVE IsMap(ws[q.metric])
    <3>1. q.metric \in Named /\ IsMap(vs[q.metric])
      BY <1>0, <2>2, Constants DEF Usable, GoodPreset, AreMaps
    <3>. QED BY <1>0, <1>3, <3>1, Constants DEF Reloaded, AreMaps
  <2>. QED BY <1>0, <1>2, <2>1, <2>2, FollowUsable
<1>4. CASE ~(p.metric = None /\ p.map = NoMap)
  <2>1. Usable(l, ws, hot) /\ l.name = q.name
    BY <1>0, <1>1, <1>4, LoadedUsable
  <2>2. l.shared => IsMap(ws[l.metric])
    BY <2>1 DEF Usable, GoodPreset
  <2>. QED BY <1>0, <1>2, <2>1, <2>2, FollowUsable
<1>. QED BY <1>3, <1>4

(* The name of the selected preset.                                        *)
LEMMA PresetWritten ==
    ASSUME NEW v, NEW on, NEW hot, Good(v, on, hot), NEW name, NEW w, w = [v EXCEPT !.preset = name]
    PROVE  /\ Good(w, on, hot) /\ w.maps = v.maps /\ w.wire = v.wire /\ w.bar = v.bar
           /\ w.preset = name
<1>1. IsView(v)
  BY DEF Good, Sound
<1>2. /\ w = [k \in ViewKeys |-> w[k]] /\ w.wire = v.wire
      /\ w.selected = v.selected /\ w.rate = v.rate /\ w.loading = v.loading
      /\ w.timer = v.timer /\ w.data = v.data
      /\ w.preset = name /\ w.filters = v.filters
      /\ w.maps = v.maps /\ w.bar = v.bar /\ w.active = v.active /\ w.filtered = v.filtered
  BY <1>1 DEF IsView, ViewKeys
<1>3. IsView(w)
  BY <1>1, <1>2 DEF IsView
<1>4. Sound(w)
  BY <1>2, <1>3 DEF Good, Sound, MapsSound
<1>5. ~w.loading /\ Polls(w)
  BY <1>2 DEF Good, Polls
<1>6. /\ Settled(v) => Settled(w)
      /\ Unbounded(v) => Unbounded(w)
      /\ Passed(v) => Passed(w)
      /\ Held(v) => Held(w)
  BY <1>2 DEF Settled, Unbounded, Passed, Held
<1>. QED BY <1>2, <1>4, <1>5, <1>6 DEF Good

(* What is left of the view by a preset: that of all metrics without a map *)
(* breaks it.                                                              *)
LoadGood(v, w, on, hot, p, name) ==
  /\ IsView(w) /\ w.selected = p.metric /\ ~w.loading /\ Polls(w)
  /\ IF p.metric = None /\ p.map = Undefined THEN w.maps[Failed] = Undefined ELSE Good(w, on, hot)
  /\ Reloaded(v.maps, w.maps, p, name)
LEMMA LoadIsGood ==
    ASSUME NEW v, NEW on \in BOOLEAN, NEW hot, Good(v, on, hot), NEW p, GoodPreset(p),
           NEW late, ~late => ~hot /\ ~on /\ BoundedByMap(p),
           NEW name, NEW w, w = Load([v EXCEPT !.preset = name], p)
    PROVE  LoadGood(v, w, on, late, p, name)
<1>1. PICK u : u = [v EXCEPT !.preset = name]
  OBVIOUS
<1>2. Good(u, on, hot) /\ u.maps = v.maps /\ u.bar = v.bar /\ u.preset = name
  BY <1>1, PresetWritten
<1>3. Sound(u) /\ ~u.loading /\ w = Load(u, p) /\ GoodPreset(p)
  BY <1>1, <1>2 DEF Good
<1>4. /\ IsView(w) /\ w.selected = p.metric /\ ~w.loading /\ Polls(w)
      /\ u.bar.of # None => w.bar.of # None
      /\ IF p.metric = None /\ p.map = Undefined THEN w.maps[Failed] = Undefined
         ELSE Sound(w) /\ Settled(w) /\ Passed(w) /\ (BoundedByMap(p) => Unbounded(w))
      /\ p.metric = None /\ p.map = NoMap =>
           /\ \A m \in Named : w.maps[m] = NoMap <=> u.maps[m] = NoMap
           /\ u.preset # None => w.maps = u.maps
      /\ p.metric # None =>
           /\ p.map = NoMap => w.maps = u.maps
           /\ \A m \in Named \ {p.metric} : w.maps[m] = u.maps[m]
           /\ p.map # NoMap => w.maps[p.metric] = IF p.map = Undefined THEN NoMap ELSE p.map
  BY ONLY <1>3, LoadView
<1>5. Reloaded(v.maps, w.maps, p, name)
  BY <1>2, <1>4 DEF Reloaded
<1>6. on => w.bar.of # None
  BY <1>2, <1>4 DEF Good
<1>. QED BY <1>4, <1>5, <1>6 DEF LoadGood, Good

(* What is saved is a preset again, and so is what the server makes of it. *)
LEMMA ValuesUsable ==
    ASSUME NEW v, NEW on, NEW hot, Good(v, on, hot), v.selected \notin Metrics \ Valid,
           NEW name, NEW p, p = Values(v, name), NEW s, s = Stringified(p)
    PROVE  /\ Usable(p, v.maps, hot) /\ p.name = name
           /\ GoodPreset(s) /\ (~hot => BoundedByMap(s)) /\ ~s.shared /\ s.name = name
<1>1. /\ IsView(v) /\ MapsSound(v) /\ (~hot => Unbounded(v))
      /\ v.selected \in Valid => v.filters[v.selected] # Unset
  BY DEF Good, Sound
<1>2. IsPreset(p) /\ p.name = name
  BY Sendable
<1>3. PICK map : map = IF v.selected = None THEN NoMap ELSE v.maps[v.selected]
  OBVIOUS
<1>4. /\ p.rate = v.rate /\ p.metric = v.selected /\ p.filter = v.filters[v.selected]
      /\ p.map = IF map = NoMap THEN Undefined ELSE map
      /\ p.shared = (map # NoMap)
  BY <1>3 DEF Values
<1>5. v.selected = None \/ (v.selected \in Valid /\ v.selected \in Metrics /\ v.selected \in Named)
  BY <1>1, Constants DEF IsView
<1>6. /\ v.selected = None => map = NoMap
      /\ map = NoMap \/ IsMap(map)
      /\ v.selected # None => map = v.maps[v.selected] /\ IsFilter(v.filters[v.selected])
  BY <1>1, <1>3, <1>5, Constants DEF MapsSound, IsView
<1>7. GoodPreset(p)
  BY <1>1, <1>2, <1>4, <1>5, <1>6, Constants DEF GoodPreset, IsView
<1>8. ~hot => BoundedByMap(p)
  BY <1>1, <1>4, <1>5, <1>6, Constants DEF BoundedByMap, Unbounded
<1>9. p.shared => p.map = v.maps[p.metric]
  BY <1>4, <1>6
<1>10. /\ IsPreset(s) /\ s.rate = p.rate /\ s.metric = p.metric /\ s.filter = p.filter
       /\ s.name = name /\ s.shared = FALSE /\ s.map = IF p.map = Undefined THEN NoMap ELSE p.map
  BY <1>2 DEF Stringified, IsPreset, Keys
<1>11. GoodPreset(s)
  BY <1>7, <1>10 DEF GoodPreset
<1>12. ~hot => BoundedByMap(s)
  BY <1>8, <1>10 DEF BoundedByMap
<1>. QED BY <1>2, <1>7, <1>8, <1>9, <1>10, <1>11, <1>12 DEF Usable

(* What the server stores shares nothing with the view.                    *)
FitStored(s, hot) == GoodPreset(s) /\ (~hot => BoundedByMap(s)) /\ ~s.shared /\ s.name # None
Fit(ps, ms, sv, maps, hot) ==
  /\ \A id \in DOMAIN ps : FitPreset(ps[id], maps, hot)
  /\ \A i \in DOMAIN ms : FitChange(ms[i].change, ms[i].named, maps, hot)
  /\ \A id \in DOMAIN sv : FitStored(sv[id], hot)
Fitted == Fit(presets, managers, server, model.maps, interrupted)
FitLists == \A i \in DOMAIN lists : \A list \in lists[i] :
              \A id \in DOMAIN list : FitStored(list[id], interrupted)
SafeInv == PresetsInv /\ Lists /\ ViewInv /\ Fitted /\ FitLists

(* Good views break nothing.                                               *)
LEMMA GoodIsWhole ==
    ASSUME NEW v, NEW on, NEW hot, Good(v, on, hot)
    PROVE  /\ v.maps[Failed] # Undefined /\ IsView(v) /\ ~v.loading /\ Polls(v)
           /\ \A m \in Named : v.maps[m] = NoMap \/ IsMap(v.maps[m])
<1>1. IsView(v) /\ MapsSound(v)
  BY DEF Good, Sound
<1>2. Failed \in Named
  BY DEF Named
<1>. QED BY <1>1, <1>2, Constants DEF Good, MapsSound

(* A step of the metrics, and the presets that follow the maps.            *)
LEMMA MetricFits ==
    ASSUME SafeInv, Metric
    PROVE  ViewInv' /\ Fitted'
<1>1. ~Broken /\ MetricsNext /\ SharedFollow /\ ViewInv /\ PresetsInv /\ Fitted
  BY DEF Metric, SafeInv
<1>2. Kind(model, model', due', drag', interrupted)
  BY <1>1, MetricsKind
<1>3. interrupted' = interrupted /\ interrupted \in BOOLEAN
  BY <1>1 DEF SharedFollow, ViewInv
<1>4. PICK w : w = model'
  OBVIOUS
<1>5. /\ Good(w, drag'.on, interrupted) /\ MapsKept(model, w) /\ FewRequests(w)
      /\ IsData(due') /\ IsDrag(drag')
  BY <1>2, <1>4 DEF Kind
<1>6. /\ w.maps[Failed] # Undefined /\ IsView(w) /\ ~w.loading /\ Polls(w)
      /\ \A m \in Named : w.maps[m] = NoMap \/ IsMap(w.maps[m])
  BY <1>5, GoodIsWhole
<1>7. ViewInv'
  BY <1>3, <1>4, <1>5, <1>6 DEF ViewInv, Broken
<1>8. \A q : Usable(q, model.maps, interrupted) =>
               Usable(Follow(q, w.maps), w.maps, interrupted) /\ Follow(q, w.maps).name = q.name
  <2> SUFFICES ASSUME NEW q, Usable(q, model.maps, interrupted)
               PROVE  Usable(Follow(q, w.maps), w.maps, interrupted) /\ Follow(q, w.maps).name = q.name
    OBVIOUS
  <2>1. ASSUME q.shared PROVE IsMap(w.maps[q.metric])
    <3>1. q.metric \in Named /\ model.maps[q.metric] # NoMap
      BY <2>1, Constants DEF Usable, GoodPreset
    <3>. QED BY <1>5, <1>6, <3>1 DEF MapsKept
  <2>. QED BY <2>1, FollowUsable
<1>9. /\ presets' = [id \in DOMAIN presets |-> Follow(presets[id], w.maps)]
      /\ managers' = [i \in DOMAIN managers |-> [managers[i] EXCEPT !.change = Follow(@, w.maps)]]
      /\ server' = server
  BY <1>1, <1>4 DEF SharedFollow, Shared, Follow
<1>10. Follow(Missing, w.maps) = Missing
  BY Sharings
<1>11. \A id \in DOMAIN presets' : FitPreset(presets'[id], w.maps, interrupted)
  BY <1>1, <1>8, <1>9, <1>10 DEF Fitted, Fit, FitPreset
<1>12. \A i \in DOMAIN managers' : FitChange(managers'[i].change, managers'[i].named, w.maps, interrupted)
  <2> SUFFICES ASSUME NEW i \in DOMAIN managers
               PROVE  FitChange(managers'[i].change, managers'[i].named, w.maps, interrupted)
    BY <1>9
  <2>1. /\ managers'[i].change = Follow(managers[i].change, w.maps)
        /\ managers'[i].named = managers[i].named
    <3>1. managers'[i] = [managers[i] EXCEPT !.change = Follow(managers[i].change, w.maps)]
      BY <1>9
    <3>2. IsManager(managers[i])
      BY <1>1 DEF PresetsInv, Shapes
    <3>. QED BY <3>1, <3>2 DEF IsManager
  <2>. QED BY <1>1, <1>8, <1>10, <2>1 DEF Fitted, Fit, FitChange
<1>13. Fitted'
  BY <1>1, <1>3, <1>4, <1>9, <1>11, <1>12 DEF Fitted, Fit
<1>. QED BY <1>7, <1>13

LEMMA EmptyPresetIsGood == GoodPreset(EmptyPreset) /\ BoundedByMap(EmptyPreset) /\ ~EmptyPreset.shared
BY DEF EmptyPreset, GoodPreset, BoundedByMap, IsPreset, Keys

(* Another preset is selected: it is loaded, and the others follow.        *)
LEMMA SwitchPresetFits ==
    ASSUME SafeInv, SwitchPreset
    PROVE  ViewInv' /\ Fitted'
<1>1. ~Broken /\ ViewInv /\ PresetsInv /\ Fitted /\ ~drag.on /\ interrupted \in BOOLEAN
  BY DEF SwitchPreset, SafeInv, Asked, ViewInv
<1>2. /\ due' = due /\ drag' = drag /\ server' = server /\ interrupted' = interrupted
      /\ FewRequests(model')
  BY DEF SwitchPreset, Fits, FewRequests
<1>3. PICK id \in Known \cup {0} : \E p :
        /\ p = IF id = 0 THEN EmptyPreset ELSE presets[id]
        /\ model' = Load([model EXCEPT !.preset = p.name], p)
        /\ presets' = [k \in DOMAIN presets |-> Follow(Loaded(presets[k], p), model'.maps)]
        /\ managers' = [i \in DOMAIN managers |->
             [managers[i] EXCEPT !.selected = id, !.change = Follow(Loaded(@, p), model'.maps)]]
  <2>1. PICK id \in Known \cup {0} :
          LET p == IF id = 0 THEN EmptyPreset ELSE presets[id]
          IN /\ model' = Load([model EXCEPT !.preset = p.name], p)
             /\ presets' = [k \in DOMAIN presets |-> Shared(Loaded(presets[k], p))]
             /\ managers' = [i \in DOMAIN managers |->
                  [managers[i] EXCEPT !.selected = id, !.change = Shared(Loaded(@, p))]]
    BY DEF SwitchPreset
  <2>2. PICK p : p = IF id = 0 THEN EmptyPreset ELSE presets[id]
    OBVIOUS
  <2>3. /\ model' = Load([model EXCEPT !.preset = p.name], p)
        /\ presets' = [k \in DOMAIN presets |-> Shared(Loaded(presets[k], p))]
        /\ managers' = [i \in DOMAIN managers |->
             [managers[i] EXCEPT !.selected = id, !.change = Shared(Loaded(@, p))]]
    BY <2>1, <2>2
  <2>. QED BY <2>2, <2>3 DEF Shared, Follow
<1>4. PICK p :
        /\ p = IF id = 0 THEN EmptyPreset ELSE presets[id]
        /\ model' = Load([model EXCEPT !.preset = p.name], p)
        /\ presets' = [k \in DOMAIN presets |-> Follow(Loaded(presets[k], p), model'.maps)]
        /\ managers' = [i \in DOMAIN managers |->
             [managers[i] EXCEPT !.selected = id, !.change = Follow(Loaded(@, p), model'.maps)]]
  BY <1>3
<1>5. /\ GoodPreset(p) /\ (p.shared => p.map = model.maps[p.metric])
      /\ (~interrupted => BoundedByMap(p))
  <2>1. CASE id = 0
    BY <1>4, <2>1, EmptyPresetIsGood
  <2>2. CASE id # 0
    <3>1. p = presets[id] /\ id \in DOMAIN presets /\ presets[id] # Missing
      BY <1>4, <2>2 DEF Known
    <3>. QED BY <1>1, <3>1 DEF Fitted, Fit, FitPreset, Usable
  <2>. QED BY <2>1, <2>2
<1>6. Good(model, drag.on, interrupted) /\ drag.on \in BOOLEAN
  BY <1>1 DEF ViewInv, IsDrag
<1>7. PICK name : name = p.name
  OBVIOUS
<1>8. PICK w : w = model'
  OBVIOUS
<1>9. w = Load([model EXCEPT !.preset = name], p)
  BY <1>4, <1>7, <1>8
<1>10. LoadGood(model, w, drag.on, interrupted, p, name)
  BY <1>1, <1>5, <1>6, <1>9, LoadIsGood
<1>11. ViewInv'
  <2>1. /\ IsView(w) /\ FewRequests(w) /\ ~w.loading /\ Polls(w)
        /\ IsData(due) /\ IsDrag(drag)
    BY <1>1, <1>2, <1>8, <1>10 DEF LoadGood, ViewInv
  <2>2. IF w.maps[Failed] = Undefined THEN w.selected = None ELSE Good(w, drag.on, interrupted)
    BY <1>10, GoodIsWhole DEF LoadGood
  <2>. QED BY <1>1, <1>2, <1>8, <2>1, <2>2 DEF ViewInv, Broken
<1>12. /\ \A m \in Named : model.maps[m] = NoMap \/ IsMap(model.maps[m])
       /\ p.metric # None \/ p.map = NoMap => \A m \in Named : w.maps[m] = NoMap \/ IsMap(w.maps[m])
       /\ Reloaded(model.maps, w.maps, p, name)
  <2>1. \A m \in Named : model.maps[m] = NoMap \/ IsMap(model.maps[m])
    BY <1>6, GoodIsWhole
  <2>2. p.metric # None \/ p.map = NoMap => Good(w, drag.on, interrupted)
    BY <1>10, Constants DEF LoadGood
  <2>. QED BY <1>10, <2>1, <2>2, GoodIsWhole DEF LoadGood
<1>13. \A q : Usable(q, model.maps, interrupted) =>
                /\ Usable(Follow(Loaded(q, p), w.maps), w.maps, interrupted)
                /\ Follow(Loaded(q, p), w.maps).name = q.name
  <2> SUFFICES ASSUME NEW q, Usable(q, model.maps, interrupted)
               PROVE  /\ Usable(Follow(Loaded(q, p), w.maps), w.maps, interrupted)
                      /\ Follow(Loaded(q, p), w.maps).name = q.name
    OBVIOUS
  <2>1. PICK r : r = Follow(Loaded(q, p), w.maps)
    OBVIOUS
  <2>2. Usable(r, w.maps, interrupted) /\ r.name = q.name
    <3>1. PICK vs : vs = model.maps
      OBVIOUS
    <3>2. PICK ws : ws = w.maps
      OBVIOUS
    <3>3. Switching(q, p, vs, ws, interrupted, name, r)
      BY <1>5, <1>12, <2>1, <3>1, <3>2 DEF AreMaps, Switching
    <3>4. Usable(r, ws, interrupted) /\ r.name = q.name
      BY ONLY <3>3, SwitchedUsable
    <3>. QED BY <3>2, <3>4
  <2>. QED BY <2>1, <2>2
<1>14. Follow(Loaded(Missing, p), w.maps) = Missing
  BY Sharings DEF Loaded
<1>15. \A k \in DOMAIN presets' : FitPreset(presets'[k], w.maps, interrupted)
  BY <1>1, <1>4, <1>8, <1>13, <1>14 DEF Fitted, Fit, FitPreset
<1>16. \A i \in DOMAIN managers' : FitChange(managers'[i].change, managers'[i].named, w.maps, interrupted)
  <2> SUFFICES ASSUME NEW i \in DOMAIN managers
               PROVE  FitChange(managers'[i].change, managers'[i].named, w.maps, interrupted)
    BY <1>4
  <2>1. /\ managers'[i].change = Follow(Loaded(managers[i].change, p), w.maps)
        /\ managers'[i].named = managers[i].named
    <3>1. managers'[i] = [managers[i] EXCEPT !.selected = id,
                                             !.change = Follow(Loaded(managers[i].change, p), w.maps)]
      BY <1>4, <1>8
    <3>2. IsManager(managers[i])
      BY <1>1 DEF PresetsInv, Shapes
    <3>. QED BY <3>1, <3>2 DEF IsManager
  <2>. QED BY <1>1, <1>13, <1>14, <2>1 DEF Fitted, Fit, FitChange
<1>17. Fitted'
  BY <1>1, <1>2, <1>8, <1>15, <1>16 DEF Fitted, Fit
<1>. QED BY <1>11, <1>17

(* New elements at the end of a sequence, all alike.                       *)
LEMMA Extended ==
    ASSUME NEW a, IsSeq(a), NEW ms, IsSeq(ms), NEW x, NEW c, c = a \o [i \in DOMAIN ms |-> x]
    PROVE  \A id \in DOMAIN c : c[id] = x \/ (id \in DOMAIN a /\ c[id] = a[id])
<1>1. PICK xs : xs = [i \in DOMAIN ms |-> x]
  OBVIOUS
<1>2. DOMAIN xs = DOMAIN ms /\ \A i \in DOMAIN xs : xs[i] = x
  BY <1>1
<1>3. xs = [i \in DOMAIN xs |-> xs[i]]
  BY <1>1
<1>4. IsSeq(xs)
  BY <1>2, <1>3, Mapped
<1>5. c = a \o xs
  BY <1>1
<1>6. PICK S : a \in Seq(S) /\ xs \in Seq(S)
  <2>1. PICK S : S = Range(a) \cup Range(xs)
    OBVIOUS
  <2>2. a \in Seq(S) /\ xs \in Seq(S)
    BY <1>4, <2>1 DEF IsSeq
  <2>. QED BY <2>2
<1>7. \A id \in DOMAIN c : IF id \in DOMAIN a THEN c[id] = a[id]
                          ELSE id - Len(a) \in DOMAIN xs /\ c[id] = xs[id - Len(a)]
  BY ONLY <1>5, <1>6
<1>. QED BY <1>2, <1>7

(* The steps that leave the view alone.                                    *)
LEMMA ViewStays ==
    ASSUME ViewInv, UNCHANGED <<model, due, drag, interrupted>>
    PROVE  ViewInv'
BY DEF ViewInv, Broken

LEMMA CreatePresetFits ==
    ASSUME SafeInv, CreatePreset
    PROVE  ViewInv' /\ Fitted'
<1>1. /\ ~Broken /\ ViewInv /\ PresetsInv /\ Fitted
      /\ UNCHANGED <<model, due, drag, interrupted>> /\ model.selected \notin Metrics \ Valid
  BY DEF CreatePreset, SafeInv
<1>2. ViewInv'
  BY <1>1, ViewStays
<1>3. PICK name \in Names : \E p :
        /\ p = Values(model, name)
        /\ Send([i \in DOMAIN managers |-> Len(server) + i], p, TRUE)
        /\ server' = server \o [i \in DOMAIN managers |-> Stringified(p)]
  BY DEF CreatePreset
<1>4. PICK p :
        /\ p = Values(model, name)
        /\ Send([i \in DOMAIN managers |-> Len(server) + i], p, TRUE)
        /\ server' = server \o [i \in DOMAIN managers |-> Stringified(p)]
  BY <1>3
<1>5. Good(model, drag.on, interrupted) /\ name # None
  BY <1>1, PresetsAssumption DEF ViewInv
<1>6. PICK s : s = Stringified(p)
  OBVIOUS
<1>7. /\ Usable(p, model.maps, interrupted) /\ p.name = name
      /\ FitStored(s, interrupted)
  <2>1. /\ Usable(p, model.maps, interrupted) /\ p.name = name
        /\ GoodPreset(s) /\ (~interrupted => BoundedByMap(s)) /\ ~s.shared /\ s.name = name
    BY <1>1, <1>4, <1>5, <1>6, ValuesUsable
  <2>. QED BY <1>5, <2>1 DEF FitStored
<1>8. IsSeq(server) /\ IsSeq(presets) /\ IsSeq(managers)
  BY <1>1 DEF PresetsInv, Shapes
<1>9. \A id \in DOMAIN server' : FitStored(server'[id], interrupted)
  <2> TAKE id \in DOMAIN server'
  <2>1. server' = server \o [i \in DOMAIN managers |-> s]
    BY <1>4, <1>6
  <2>2. server'[id] = s \/ (id \in DOMAIN server /\ server'[id] = server[id])
    BY <1>8, <2>1, Extended
  <2>. QED BY <1>1, <1>7, <2>2 DEF Fitted, Fit
<1>10. \A id \in DOMAIN presets' : FitPreset(presets'[id], model.maps, interrupted)
  <2> TAKE id \in DOMAIN presets'
  <2>1. presets' = presets \o [i \in DOMAIN managers |-> Missing]
    BY DEF CreatePreset
  <2>2. presets'[id] = Missing \/ (id \in DOMAIN presets /\ presets'[id] = presets[id])
    BY <1>8, <2>1, Extended
  <2>. QED BY <1>1, <2>2 DEF Fitted, Fit, FitPreset
<1>11. \A i \in DOMAIN managers' : FitChange(managers'[i].change, managers'[i].named, model.maps, interrupted)
  <2>1. /\ DOMAIN managers' = DOMAIN managers
        /\ \A i \in DOMAIN managers : managers'[i] = [managers[i] EXCEPT !.change = p, !.named = TRUE]
    BY <1>4 DEF Send
  <2> SUFFICES ASSUME NEW i \in DOMAIN managers
               PROVE  FitChange(managers'[i].change, managers'[i].named, model.maps, interrupted)
    BY <2>1
  <2>2. IsManager(managers[i])
    BY <1>1 DEF PresetsInv, Shapes
  <2>3. managers'[i].change = p
    BY <2>1, <2>2 DEF IsManager
  <2>. QED BY <1>5, <1>7, <2>3 DEF FitChange
<1>12. Fitted'
  BY <1>1, <1>9, <1>10, <1>11 DEF Fitted, Fit
<1>. QED BY <1>2, <1>12

LEMMA UpdatePresetFits ==
    ASSUME SafeInv, UpdatePreset
    PROVE  ViewInv' /\ Fitted'
<1>1. /\ ~Broken /\ ViewInv /\ PresetsInv /\ Fitted
      /\ UNCHANGED <<model, due, drag, presets, interrupted>> /\ model.selected \notin Metrics \ Valid
  BY DEF UpdatePreset, SafeInv
<1>2. ViewInv'
  BY <1>1, ViewStays
<1>3. Good(model, drag.on, interrupted)
  BY <1>1 DEF ViewInv
<1>4. PICK p : p = Values(model, None)
  OBVIOUS
<1>5. PICK S, T :
        /\ Send([i \in S |-> managers[i].selected], p, FALSE)
        /\ server' = [id \in DOMAIN server |->
                        IF id \in T THEN Stringified(Values(model, server[id].name)) ELSE server[id]]
  BY <1>4 DEF UpdatePreset
<1>6. Usable(p, model.maps, interrupted)
  BY <1>1, <1>3, <1>4, ValuesUsable
<1>7. \A id \in DOMAIN server' : FitStored(server'[id], interrupted)
  <2> SUFFICES ASSUME NEW id \in DOMAIN server
               PROVE  FitStored(server'[id], interrupted)
    BY <1>5
  <2>1. FitStored(server[id], interrupted)
    BY <1>1 DEF Fitted, Fit
  <2>2. CASE id \in T
    <3>1. PICK name : name = server[id].name
      OBVIOUS
    <3>2. PICK q : q = Values(model, name)
      OBVIOUS
    <3>3. PICK s : s = Stringified(q)
      OBVIOUS
    <3>4. server'[id] = s
      BY <1>5, <2>2, <3>1, <3>2, <3>3
    <3>5. GoodPreset(s) /\ (~interrupted => BoundedByMap(s)) /\ ~s.shared /\ s.name = name
      BY <1>1, <1>3, <3>2, <3>3, ValuesUsable
    <3>. QED BY <2>1, <3>1, <3>4, <3>5 DEF FitStored
  <2>3. CASE id \notin T
    BY <1>5, <2>1, <2>3
  <2>. QED BY <2>2, <2>3
<1>8. \A i \in DOMAIN managers' : FitChange(managers'[i].change, managers'[i].named, model.maps, interrupted)
  <2>1. /\ DOMAIN managers' = DOMAIN managers
        /\ \A i \in DOMAIN managers :
             managers'[i] = IF i \in S THEN [managers[i] EXCEPT !.change = p, !.named = FALSE]
                            ELSE managers[i]
    BY <1>5 DEF Send
  <2> SUFFICES ASSUME NEW i \in DOMAIN managers
               PROVE  FitChange(managers'[i].change, managers'[i].named, model.maps, interrupted)
    BY <2>1
  <2>2. IsManager(managers[i])
    BY <1>1 DEF PresetsInv, Shapes
  <2>3. CASE i \in S
    <3>1. managers'[i].change = p /\ managers'[i].named = FALSE
      BY <2>1, <2>2, <2>3 DEF IsManager
    <3>. QED BY <1>6, <3>1 DEF FitChange
  <2>4. CASE i \notin S
    BY <1>1, <2>1, <2>4 DEF Fitted, Fit
  <2>. QED BY <2>3, <2>4
<1>9. Fitted'
  BY <1>1, <1>7, <1>8 DEF Fitted, Fit
<1>. QED BY <1>2, <1>9

LEMMA SaveFailsFits ==
    ASSUME SafeInv, SaveFails
    PROVE  ViewInv' /\ Fitted'
<1>1. /\ ViewInv /\ Fitted
      /\ UNCHANGED <<model, due, drag, presets, managers, server, interrupted>>
  BY DEF SaveFails, SafeInv, metricVars
<1>. QED BY <1>1, ViewStays DEF Fitted

LEMMA ReconnectedFits ==
    ASSUME SafeInv, Reconnected
    PROVE  ViewInv' /\ Fitted'
<1>1. /\ ViewInv /\ Fitted /\ PresetsInv
      /\ UNCHANGED <<model, due, drag, presets, server, interrupted>>
      /\ managers' = Append(managers, Manager)
  BY DEF Reconnected, SafeInv
<1>2. \A i \in DOMAIN managers' : FitChange(managers'[i].change, managers'[i].named, model.maps, interrupted)
  <2>1. \A i \in DOMAIN managers' : managers'[i] = Manager \/ (i \in DOMAIN managers /\ managers'[i] = managers[i])
    BY <1>1, Appended DEF PresetsInv, Shapes
  <2>2. Manager.change = Missing
    BY DEF Manager
  <2>. QED BY <1>1, <2>1, <2>2 DEF Fitted, Fit, FitChange
<1>. QED BY <1>1, <1>2, ViewStays DEF Fitted, Fit

(* A list brings presets of the server, and may take the one away that is  *)
(* selected: the empty preset is loaded, and changes follow the maps.      *)
LEMMA PresetsReceivedFits ==
    ASSUME SafeInv, PresetsReceived
    PROVE  ViewInv' /\ Fitted'
<1>1. /\ ~Broken /\ ViewInv /\ PresetsInv /\ Fitted /\ FitLists /\ FewRequests(model')
      /\ UNCHANGED <<due, drag, server>>
  BY DEF PresetsReceived, SafeInv, Fits, FewRequests
<1>2. Good(model, drag.on, interrupted) /\ drag.on \in BOOLEAN /\ interrupted \in BOOLEAN
  BY <1>1 DEF ViewInv, IsDrag
<1>3. /\ UNCHANGED <<model, managers, interrupted>> \/ Deselects
      /\ \A id \in DOMAIN presets' : presets'[id] = Missing \/ FitStored(presets'[id], interrupted)
  <2>1. PICK i \in DOMAIN lists : \E list \in lists[i] :
          /\ presets' = [id \in DOMAIN server |-> IF id \in DOMAIN list THEN list[id] ELSE Missing]
          /\ UNCHANGED <<model, managers, interrupted>> \/ Deselects
    BY DEF PresetsReceived
  <2>. QED BY <1>1, <2>1 DEF FitLists
<1>4. ASSUME NEW maps, NEW late \in BOOLEAN, interrupted => late
      PROVE  \A id \in DOMAIN presets' : FitPreset(presets'[id], maps, late)
  BY <1>2, <1>3, <1>4 DEF FitStored, FitPreset, Usable
<1>5. CASE UNCHANGED <<model, managers, interrupted>>
  <2>1. \A id \in DOMAIN presets' : FitPreset(presets'[id], model.maps, interrupted)
    BY <1>2, <1>4
  <2>. QED BY <1>1, <1>5, <2>1, ViewStays DEF Fitted, Fit
<1>6. CASE Deselects
  <2>1. PICK w : w = model'
    OBVIOUS
  <2>2. PICK late : late = (interrupted \/ drag.on)
    OBVIOUS
  <2>3. /\ w = Load([model EXCEPT !.preset = None], EmptyPreset) /\ interrupted' = late
        /\ managers' = [j \in DOMAIN managers |->
                          [managers[j] EXCEPT !.selected = 0, !.change = Follow(@, w.maps)]]
    BY <1>6, <2>1, <2>2 DEF Deselects, Shared, Follow
  <2>4. late \in BOOLEAN /\ (interrupted => late)
    BY <1>2, <2>2
  <2>5. EmptyPreset.metric = None /\ EmptyPreset.map = NoMap /\ NoMap # Undefined
    BY DEF EmptyPreset, NoMap, Undefined, Off
  <2>6. LoadGood(model, w, drag.on, late, EmptyPreset, None)
    <3>1. ~late => ~interrupted /\ ~drag.on /\ BoundedByMap(EmptyPreset)
      BY <2>2, EmptyPresetIsGood
    <3>. QED BY <1>2, <2>3, <3>1, EmptyPresetIsGood, LoadIsGood
  <2>7. /\ Good(w, drag.on, late)
        /\ \A m \in Named : w.maps[m] = NoMap <=> model.maps[m] = NoMap
    BY <2>5, <2>6 DEF LoadGood, Reloaded
  <2>8. /\ w.maps[Failed] # Undefined /\ IsView(w) /\ ~w.loading /\ Polls(w)
        /\ \A m \in Named : w.maps[m] = NoMap \/ IsMap(w.maps[m])
    BY <2>7, GoodIsWhole
  <2>9. ViewInv'
    BY <1>1, <2>1, <2>3, <2>4, <2>7, <2>8 DEF ViewInv, Broken
  <2>10. ASSUME NEW q, Usable(q, model.maps, interrupted)
         PROVE  Usable(Follow(q, w.maps), w.maps, late) /\ Follow(q, w.maps).name = q.name
    <3>1. Usable(q, model.maps, late)
      BY <1>2, <2>4, <2>10 DEF Usable
    <3>2. ASSUME q.shared PROVE IsMap(w.maps[q.metric])
      <4>1. q.metric \in Named /\ model.maps[q.metric] # NoMap
        BY <2>10, <3>2, Constants DEF Usable, GoodPreset
      <4>. QED BY <2>7, <2>8, <4>1
    <3>. QED BY <3>1, <3>2, FollowUsable
  <2>11. Follow(Missing, w.maps) = Missing
    BY Sharings
  <2>12. \A i \in DOMAIN managers' : FitChange(managers'[i].change, managers'[i].named, w.maps, late)
    <3> SUFFICES ASSUME NEW i \in DOMAIN managers
                 PROVE  FitChange(managers'[i].change, managers'[i].named, w.maps, late)
      BY <2>3
    <3>1. /\ managers'[i].change = Follow(managers[i].change, w.maps)
          /\ managers'[i].named = managers[i].named
      <4>1. managers'[i] = [managers[i] EXCEPT !.selected = 0, !.change = Follow(managers[i].change, w.maps)]
        BY <2>3
      <4>2. IsManager(managers[i])
        BY <1>1 DEF PresetsInv, Shapes
      <4>. QED BY <4>1, <4>2 DEF IsManager
    <3>. QED BY <1>1, <2>10, <2>11, <3>1 DEF Fitted, Fit, FitChange
  <2>13. \A id \in DOMAIN presets' : FitPreset(presets'[id], w.maps, late)
    BY <1>4, <2>4
  <2>14. \A id \in DOMAIN server : FitStored(server[id], late)
    BY <1>1, <2>4 DEF Fitted, Fit, FitStored
  <2>15. Fitted'
    BY <1>1, <2>1, <2>3, <2>12, <2>13, <2>14 DEF Fitted, Fit
  <2>. QED BY <2>9, <2>15
<1>. QED BY <1>3, <1>5, <1>6

(* An answer gives a preset its name.                                      *)
LEMMA NameWritten ==
    ASSUME NEW q, NEW maps, NEW hot, Usable(q, maps, hot), NEW name, NEW r, r = [q EXCEPT !.name = name]
    PROVE  Usable(r, maps, hot) /\ r.name = name
<1>1. IsPreset(q)
  BY DEF Usable, GoodPreset
<1>2. /\ IsPreset(r) /\ r.shared = q.shared /\ r.name = name /\ r.rate = q.rate
      /\ r.metric = q.metric /\ r.filter = q.filter /\ r.map = q.map
  BY <1>1 DEF IsPreset, Keys
<1>. QED BY <1>2 DEF Usable, GoodPreset, BoundedByMap

(* An answer that loads a preset may do so while a slider is dragged.      *)
LEMMA HandleSaveResponseFits ==
    ASSUME SafeInv, HandleSaveResponse
    PROVE  ViewInv' /\ Fitted'
<1>1. /\ ~Broken /\ ViewInv /\ PresetsInv /\ Fitted /\ FewRequests(model')
      /\ UNCHANGED <<due, drag, server>>
  BY DEF HandleSaveResponse, SafeInv, Fits, FewRequests
<1>2. Good(model, drag.on, interrupted) /\ drag.on \in BOOLEAN /\ interrupted \in BOOLEAN
  BY <1>1 DEF ViewInv, IsDrag
<1>3. PICK s \in saves :
        LET manager == managers[s.manager]
            known   == presets[s.id] # Missing
            p       == Taken(manager, presets[s.id])
            name    == p.name
            loads   == manager.named /\ name # model.preset /\ Len(managers) > 1
            After(q) == IF loads THEN Loaded(q, p) ELSE q
        IN /\ interrupted' = (interrupted \/ (loads /\ drag.on))
           /\ IF ~manager.named /\ ~known
              THEN UNCHANGED <<model, presets, managers>>
              ELSE /\ presets' = [id \in DOMAIN presets |->
                                    After(IF id = s.id THEN p ELSE presets[id])]
                   /\ managers' = [i \in DOMAIN managers |->
                        IF i = s.manager
                        THEN [selected |-> IF manager.named THEN s.id ELSE manager.selected,
                              change |-> After(p), named |-> TRUE]
                        ELSE [managers[i] EXCEPT !.selected = IF manager.named /\ name # model.preset
                                                              THEN s.id ELSE @,
                                                 !.change = After(@)]]
                   /\ model' = IF ~manager.named THEN model
                               ELSE IF loads THEN Load([model EXCEPT !.preset = name], p)
                               ELSE [model EXCEPT !.preset = name]
  BY DEF HandleSaveResponse
<1> DEFINE m == s.manager
<1>4. /\ m \in DOMAIN managers /\ s.id \in DOMAIN presets
      /\ IsPreset(managers[m].change) /\ managers[m].named \in BOOLEAN
  BY <1>1 DEF PresetsInv, Shapes
<1>5. /\ Usable(managers[m].change, model.maps, interrupted)
      /\ managers[m].named => managers[m].change.name # None
  BY <1>1, <1>4, Texts DEF Fitted, Fit, FitChange
<1>6. CASE ~managers[m].named /\ presets[s.id] = Missing
  <2>1. UNCHANGED <<model, presets, managers, interrupted>>
    BY <1>2, <1>3, <1>6
  <2>. QED BY <1>1, <2>1, ViewStays DEF Fitted
<1>7. CASE managers[m].named \/ presets[s.id] # Missing
  <2>1. PICK p : p = Taken(managers[m], presets[s.id])
    OBVIOUS
  <2>2. PICK loads \in BOOLEAN : loads = (managers[m].named /\ p.name # model.preset /\ Len(managers) > 1)
    OBVIOUS
  <2>3. PICK late \in BOOLEAN : late = (interrupted \/ (loads /\ drag.on))
    BY <1>2
  <2>4. PICK moves : moves = (managers[m].named /\ p.name # model.preset)
    OBVIOUS
  <2> DEFINE After(q) == IF loads THEN Loaded(q, p) ELSE q
  <2>5. /\ interrupted' = late
        /\ presets' = [id \in DOMAIN presets |-> After(IF id = s.id THEN p ELSE presets[id])]
        /\ managers' = [i \in DOMAIN managers |->
             IF i = m
             THEN [selected |-> IF managers[m].named THEN s.id ELSE managers[m].selected,
                   change |-> After(p), named |-> TRUE]
             ELSE [managers[i] EXCEPT !.selected = IF moves THEN s.id ELSE @, !.change = After(@)]]
        /\ model' = IF ~managers[m].named THEN model
                    ELSE IF loads THEN Load([model EXCEPT !.preset = p.name], p)
                    ELSE [model EXCEPT !.preset = p.name]
    BY <1>3, <1>7, <2>1, <2>2, <2>3, <2>4
  <2>6. Usable(p, model.maps, interrupted) /\ p.name # None
    <3>1. CASE managers[m].named
      BY <1>5, <2>1, <3>1 DEF Taken
    <3>2. CASE ~managers[m].named
      <4>1. presets[s.id].name # None
        BY <1>1, <1>4, <1>7, <3>2 DEF Fitted, Fit, FitPreset
      <4>2. p = [managers[m].change EXCEPT !.name = presets[s.id].name]
        BY <2>1, <3>2 DEF Taken
      <4>. QED BY <1>5, <4>1, <4>2, NameWritten
    <3>. QED BY <3>1, <3>2
  <2>7. PICK w : w = model'
    OBVIOUS
  <2>8. /\ IsView(w) /\ ~w.loading /\ Polls(w)
        /\ IF w.maps[Failed] = Undefined THEN w.selected = None ELSE Good(w, drag.on, late)
        /\ \A q : Usable(q, model.maps, interrupted) =>
                    Usable(After(q), w.maps, late) /\ After(q).name = q.name
    <3>1. CASE loads
      <4>1. PICK name : name = p.name
        OBVIOUS
      <4>2. w = Load([model EXCEPT !.preset = name], p)
        BY <2>2, <2>5, <2>7, <3>1, <4>1
      <4>3. late = (interrupted \/ drag.on)
        BY <2>3, <3>1
      <4>4. GoodPreset(p) /\ (~interrupted => BoundedByMap(p)) /\ (p.shared => p.map = model.maps[p.metric])
        BY <2>6 DEF Usable
      <4>5. LoadGood(model, w, drag.on, late, p, name)
        <5>1. ~late => ~interrupted /\ ~drag.on /\ BoundedByMap(p)
          BY <1>2, <4>3, <4>4
        <5>. QED BY <1>2, <4>2, <4>4, <5>1, LoadIsGood
      <4>6. /\ IsView(w) /\ ~w.loading /\ Polls(w)
            /\ IF w.maps[Failed] = Undefined THEN w.selected = None ELSE Good(w, drag.on, late)
            /\ Reloaded(model.maps, w.maps, p, name)
        BY <4>5, GoodIsWhole DEF LoadGood
      <4>7. ASSUME NEW q, Usable(q, model.maps, interrupted)
            PROVE  Usable(After(q), w.maps, late) /\ After(q).name = q.name
        <5>1. Usable(q, model.maps, late)
          BY <1>2, <4>3, <4>7 DEF Usable
        <5>2. PICK r : r = Loaded(q, p)
          OBVIOUS
        <5>3. name # None
          BY <2>6, <4>1
        <5>4. Usable(r, w.maps, late) /\ r.name = q.name
          BY <4>4, <4>6, <5>1, <5>2, <5>3, LoadedUsable
        <5>. QED BY <3>1, <5>2, <5>4
      <4>. QED BY <4>6, <4>7
    <3>2. CASE ~loads
      <4>1. Good(w, drag.on, interrupted) /\ w.maps = model.maps
        <5>1. CASE managers[m].named
          <6>1. PICK name : name = p.name
            OBVIOUS
          <6>2. w = [model EXCEPT !.preset = name]
            BY <2>5, <2>7, <3>2, <5>1, <6>1
          <6>. QED BY <1>2, <6>2, PresetWritten
        <5>2. CASE ~managers[m].named
          BY <1>2, <2>5, <2>7, <5>2
        <5>. QED BY <5>1, <5>2
      <4>2. late = interrupted
        BY <1>2, <2>3, <3>2
      <4>. QED BY <3>2, <4>1, <4>2, GoodIsWhole
    <3>. QED BY <3>1, <3>2
  <2>9. After(Missing) = Missing
    BY DEF Loaded
  <2> HIDE DEF After
  <2>10. ViewInv'
    BY <1>1, <2>3, <2>5, <2>7, <2>8 DEF ViewInv, Broken
  <2>11. \A id \in DOMAIN presets' : FitPreset(presets'[id], w.maps, late)
    <3> SUFFICES ASSUME NEW id \in DOMAIN presets PROVE FitPreset(presets'[id], w.maps, late)
      BY <2>5
    <3>1. CASE id = s.id
      BY <2>5, <2>6, <2>8, <3>1 DEF FitPreset
    <3>2. CASE id # s.id
      BY <1>1, <2>5, <2>8, <2>9, <3>2 DEF Fitted, Fit, FitPreset
    <3>. QED BY <3>1, <3>2
  <2>12. \A i \in DOMAIN managers' : FitChange(managers'[i].change, managers'[i].named, w.maps, late)
    <3> SUFFICES ASSUME NEW i \in DOMAIN managers
                 PROVE  FitChange(managers'[i].change, managers'[i].named, w.maps, late)
      BY <2>5
    <3>1. CASE i = m
      <4>1. managers'[i].change = After(p) /\ managers'[i].named = TRUE
        BY <2>5, <3>1
      <4>. QED BY <2>6, <2>8, <4>1 DEF FitChange
    <3>2. CASE i # m
      <4>1. managers'[i] = [managers[i] EXCEPT !.selected = IF moves THEN s.id ELSE @,
                                               !.change = After(managers[i].change)]
        BY <2>5, <3>2
      <4>2. IsManager(managers[i])
        BY <1>1 DEF PresetsInv, Shapes
      <4>3. managers'[i].change = After(managers[i].change) /\ managers'[i].named = managers[i].named
        BY <4>1, <4>2 DEF IsManager
      <4>. QED BY <1>1, <2>8, <2>9, <4>3 DEF Fitted, Fit, FitChange
    <3>. QED BY <3>1, <3>2
  <2>13. \A id \in DOMAIN server : FitStored(server[id], late)
    BY <1>1, <1>2, <2>3 DEF Fitted, Fit, FitStored
  <2>14. Fitted'
    BY <1>1, <2>5, <2>7, <2>11, <2>12, <2>13 DEF Fitted, Fit
  <2>. QED BY <2>10, <2>14
<1>. QED BY <1>6, <1>7

(* At the start nothing is selected.                                       *)
LEMMA ViewStarts ==
    ASSUME InitPresets
    PROVE  ViewInv
<1>1. /\ model = InitModel /\ due = Blank /\ drag = NoDrag /\ interrupted = FALSE
  BY DEF InitPresets, Init
<1>2. /\ model = [k \in ViewKeys |-> model[k]] /\ model.selected = None /\ model.rate = 1
      /\ model.timer = FALSE /\ model.wire = [m \in Metrics |-> 0] /\ model.data = Blank
      /\ model.filters = [m \in Named \cup {None} |-> Unset]
      /\ model.maps = [m \in Named |-> NoMap] /\ model.active = FALSE /\ model.filtered = {}
      /\ model.loading = FALSE /\ model.bar = [of |-> None, shown |-> FALSE, filter |-> NoFilter]
  BY <1>1 DEF InitModel, ViewKeys
<1>3. model.bar \in Bar /\ IsFilter(model.bar.filter) /\ ~model.bar.shown
  <2>1. NoFilter \in Filter /\ IsFilter(NoFilter)
    BY Constants DEF IsFilter
  <2>2. /\ model.bar = [of |-> None, shown |-> FALSE, filter |-> NoFilter]
        /\ model.bar.filter = NoFilter /\ model.bar.shown = FALSE
    BY <1>2
  <2>. QED BY <2>1, <2>2 DEF Bar
<1>4. model.wire \in [Metrics -> Nat] /\ FewRequests(model)
  BY <1>2, MetricsAssumption DEF FewRequests
<1>5. IsView(model)
  BY <1>2, <1>3, <1>4, Constants DEF IsView
<1>6. MapsSound(model) /\ ~Broken
  BY <1>2, Constants DEF MapsSound, Broken
<1>7. Sound(model) /\ Settled(model) /\ Unbounded(model) /\ Passed(model)
  BY <1>2, <1>3, <1>5, <1>6, Constants DEF Sound, Settled, Unbounded, Passed
<1>8. Polls(model) /\ ~model.loading
  BY <1>2, Constants DEF Polls
<1>9. IsData(due) /\ IsDrag(drag) /\ drag.on = FALSE
  BY <1>1, Constants DEF IsDrag, NoDrag, Off
<1>. QED BY <1>1, <1>4, <1>5, <1>6, <1>7, <1>8, <1>9 DEF ViewInv, Good

LEMMA StoredFits ==
    ASSUME NEW p \in Preset, ~p.shared, Storable(p)
    PROVE  FitStored(p, FALSE)
<1>1. /\ IsPreset(p) /\ p.rate \in {0, 1} /\ p.metric \in Metrics \cup {None} /\ p.shared = FALSE
      /\ p.filter \in Filter /\ p.map \in Map
  BY DEF Preset, IsPreset, Keys, Filter, Map
<1>2. p.map = NoMap \/ IsMap(p.map)
  BY <1>1 DEF Storable, IsMap
<1>3. p.metric # None => IsFilter(p.filter)
  BY <1>1 DEF Storable, IsFilter
<1>4. GoodPreset(p)
  BY <1>1, <1>2, <1>3 DEF Storable, GoodPreset
<1>5. BoundedByMap(p)
  BY <1>2, Constants DEF Storable, BoundedByMap
<1>. QED BY <1>1, <1>4, <1>5 DEF Storable, FitStored

LEMMA SafeStarts == InitPresets => SafeInv
<1> SUFFICES ASSUME InitPresets PROVE SafeInv
  OBVIOUS
<1>1. PresetsInv /\ Lists /\ ViewInv
  BY PresetsStart, ViewStarts
<1>2. /\ server = Stored /\ presets = [id \in DOMAIN Stored |-> Missing]
      /\ managers = <<Manager>> /\ lists = <<{Stored}>> /\ interrupted = FALSE
  BY DEF InitPresets
<1>3. \A id \in DOMAIN Stored : FitStored(Stored[id], FALSE)
  <2> DEFINE S == {p \in Preset : ~p.shared /\ Storable(p)}
  <2>1. \A p \in S : FitStored(p, FALSE)
    BY StoredFits
  <2>2. Stored \in Seq(S)
    BY PresetsAssumption
  <2> HIDE DEF S
  <2>3. \A id \in DOMAIN Stored : Stored[id] \in S
    BY <2>2
  <2>. QED BY <2>1, <2>3
<1>4. \A id \in DOMAIN presets : presets[id] = Missing
  BY <1>2
<1>5. \A i \in DOMAIN managers : managers[i].change = Missing
  BY <1>2 DEF Manager
<1>6. Fitted
  BY <1>2, <1>3, <1>4, <1>5 DEF Fitted, Fit, FitChange, FitPreset
<1>7. \A i \in DOMAIN lists : lists[i] = {Stored}
  BY <1>2
<1>8. FitLists
  BY <1>2, <1>3, <1>7 DEF FitLists
<1>. QED BY <1>1, <1>6, <1>8 DEF SafeInv

(* A list on its way holds what the server has now, or was there before.   *)
LEMMA ListsGrow ==
    ASSUME IsSeq(lists), [Next]_vars
    PROVE  \A i \in DOMAIN lists' : \A list \in lists'[i] :
             list = server' \/ (i \in DOMAIN lists /\ list \in lists[i])
<1>1. CreatePreset \/ UpdatePreset =>
        lists' = [i \in DOMAIN lists |-> IF lists[i] = {} THEN {} ELSE lists[i] \cup {server'}]
  BY DEF CreatePreset, UpdatePreset, Send
<1>2. PresetsReceived => \E i \in DOMAIN lists : lists' = [lists EXCEPT ![i] = {}]
  BY DEF PresetsReceived
<1>3. Reconnected => UNCHANGED server /\ lists' = Append(lists, {server})
  BY DEF Reconnected
<1>4. Reconnected => \A i \in DOMAIN lists' :
        lists'[i] = {server'} \/ (i \in DOMAIN lists /\ lists'[i] = lists[i])
  BY <1>3, Appended
<1>5. UNCHANGED lists \/ CreatePreset \/ UpdatePreset \/ PresetsReceived \/ Reconnected
  BY DEF Next, Metric, SharedFollow, SwitchPreset, HandleSaveResponse, SaveFails, vars, presetVars
<1>. QED BY <1>1, <1>2, <1>4, <1>5

LEMMA ListsFit ==
    ASSUME SafeInv, [Next]_vars, Fitted'
    PROVE  FitLists'
<1>1. interrupted => interrupted'
  BY DEF Next, Metric, SharedFollow, SwitchPreset, CreatePreset, UpdatePreset, HandleSaveResponse,
         SaveFails, Reconnected, PresetsReceived, Deselects, vars, presetVars
<1>2. \A id \in DOMAIN server' : FitStored(server'[id], interrupted')
  BY DEF Fitted, Fit
<1>3. \A p : FitStored(p, interrupted) => FitStored(p, interrupted')
  BY <1>1 DEF FitStored
<1>4. \A i \in DOMAIN lists' : \A list \in lists'[i] :
        list = server' \/ (i \in DOMAIN lists /\ list \in lists[i])
  BY ListsGrow DEF SafeInv, Lists
<1>5. FitLists
  BY DEF SafeInv
<1>. QED BY <1>2, <1>3, <1>4, <1>5 DEF FitLists

(* The invariant of the presets and the one of the view support each other.*)
LEMMA SafeInductive == SafeInv /\ [Next]_vars => SafeInv'
<1> SUFFICES ASSUME SafeInv, [Next]_vars PROVE SafeInv'
  OBVIOUS
<1>1. PresetsInv' /\ Lists'
  BY PresetsInductive DEF SafeInv
<1>2. ViewInv' /\ Fitted'
  <2>1. CASE UNCHANGED vars
    <3>1. UNCHANGED <<model, due, drag, presets, server, managers, interrupted>>
      BY <2>1 DEF vars, presetVars, metricVars
    <3>. QED BY <3>1, ViewStays DEF SafeInv, Fitted
  <2>. QED BY <2>1, MetricFits, SwitchPresetFits, CreatePresetFits, UpdatePresetFits,
              HandleSaveResponseFits, SaveFailsFits, ReconnectedFits, PresetsReceivedFits DEF Next
<1>. QED BY <1>1, <1>2, ListsFit DEF SafeInv

LEMMA SafeImplies == SafeInv => Safety
<1> SUFFICES ASSUME SafeInv PROVE Safety
  OBVIOUS
<1>1. /\ IsView(model) /\ FewRequests(model) /\ Polls(model) /\ PresetsInv /\ Lists
      /\ IF Broken THEN model.selected = None ELSE Good(model, drag.on, interrupted)
  BY DEF SafeInv, ViewInv
<1>2. model.selected \in Valid => ~Broken
  BY <1>1, Constants
<1>3. ~Broken => /\ Sound(model) /\ (~drag.on => Settled(model))
                 /\ (~interrupted => Passed(model))
                 /\ \A m \in Named : model.maps[m] = NoMap \/ IsMap(model.maps[m])
  BY <1>1, GoodIsWhole DEF Good
<1>4. TypeOK
  <2>1. model.wire \in [Metrics -> 0..MaxWire]
    <3>1. \A m \in Metrics : model.wire[m] \in Nat /\ model.wire[m] <= MaxWire
      BY <1>1 DEF IsView, FewRequests
    <3>2. \A m \in Metrics : model.wire[m] \in 0..MaxWire
      BY <3>1, MetricsAssumption
    <3>. QED BY <1>1, <3>2 DEF IsView
  <2>2. model.data.metric \in Named \cup {None}
    BY <1>1, Constants DEF IsView, IsData
  <2>3. \A m \in Metrics : model.maps[m] # NoMap /\ ~Broken => model.maps[m].low <= model.maps[m].high
    BY <1>3, Constants DEF IsMap
  <2>4. Len(presets) = Len(server) /\ Len(lists) = Len(managers)
    BY <1>1, SameLength DEF PresetsInv, Lists, Shapes, Ids
  <2>. QED BY <1>1, <2>1, <2>2, <2>3, <2>4 DEF TypeOK, IsView
<1>5. PollsAsAsked
  BY <1>1 DEF PollsAsAsked, Polls
<1>6. BarAgrees
  BY <1>2, <1>3 DEF BarAgrees, Sound, Settled
<1>7. FilterAgrees
  BY <1>2, <1>3 DEF FilterAgrees, Passed
<1>. QED BY <1>4, <1>5, <1>6, <1>7 DEF Safety

(* Whatever metrics, rates and presets the user picks, drags and types,    *)
(* and whenever answers come: the poller runs for the selected metric and  *)
(* no other, the filter bar shows its map and its filter, and the devices  *)
(* that pass are those that this filter lets pass.                         *)
THEOREM ViewFollowsItsMetric == Spec => []Safety
<1>. QED BY SafeStarts, SafeInductive, SafeImplies, PTL DEF Spec
=============================================================================
