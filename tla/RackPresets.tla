---------------------------- MODULE RackPresets ----------------------------
(***************************************************************************)
(* Display presets: named settings of the rack view, kept by the server    *)
(* and in the page, loaded into the view model and saved from it           *)
(* (PresetManager.js), on top of the metric they select (RackMetrics).     *)
(*                                                                         *)
(* Loading writes one observable after the other, in the order of the      *)
(* configuration, and what one write throws does not stop the next. A      *)
(* preset and the view model may hold one and the same map object, so an   *)
(* edit of the map changes both.                                           *)
(***************************************************************************)
EXTENDS RackMetrics, SequencesExt, Functions, TLC

CONSTANTS
  Stored,        \* the presets of the server when the page opens
  Names,         \* names the user can give to a preset
  MaxSaves,      \* bound on the requests to save on their way
  MaxManagers    \* bound on the PresetManagers that reconnects leave behind

Undefined == [low |-> -2, high |-> -2, olow |-> -2, ohigh |-> -2]
Preset == [name : STRING, rate : {0, 1}, metric : Metrics \cup {None},
           filter : [min : Int, max : Int],
           map : [low : Int, high : Int, olow : Int, ohigh : Int], shared : BOOLEAN]

\* a preset has a name; the page saves the filter of a metric with it, and one
\* that bounds the values only together with a map
Storable(p) ==
  /\ p.name # None
  /\ p.map # NoMap => 0 <= p.map.low /\ p.map.low <= p.map.high
                      /\ 0 <= p.map.olow /\ p.map.olow <= p.map.ohigh
  /\ p.metric = None => p.map = NoMap
  /\ p.metric # None => p.filter.min >= Off /\ p.filter.max >= Off
                        /\ (p.map = NoMap => ~Bounded(p.filter))

ASSUME PresetsAssumption ==
  /\ MaxManagers \in Nat \ {0} /\ None \notin Names
  /\ Stored \in Seq({p \in Preset : ~p.shared /\ Storable(p)})

VARIABLES
  presets,    \* ViewModel.presetsById, a sequence: ids count from one
  server,     \* the presets the server holds
  managers,   \* PresetManagers that listen to the buttons: selected, change
  lists,      \* lists[i]: what the list that managers[i] asked for may hold, or {}
              \* once it came
  saves,      \* requests to save on the way
  unsure,     \* history: presets of which an answer was lost or took the
              \* change of another, whose map was edited in the view, or that
              \* were saved while an older list was on its way to the page
  interrupted \* history: an answer loaded a preset while a slider was dragged

presetVars == <<presets, server, managers, lists, saves, unsure, interrupted>>
vars == <<metricVars, presetVars>>

Missing   == [name |-> None]              \* an id the page does not know
Manager   == [selected |-> 0, change |-> Missing, named |-> FALSE]
EmptyPreset == [name |-> None, rate |-> 1, metric |-> None, filter |-> Unset,
                map |-> NoMap, shared |-> FALSE]
Known == {id \in DOMAIN presets : presets[id] # Missing}
Broken == model.maps[Failed] = Undefined
Pending(i) == {s.id : s \in {t \in saves : t.manager = i}}
---------------------------------------------------------------------------
(* Loading *)

LoadMetric(v, p) == IF p.metric = v.selected THEN v ELSE SwitchMetric(v, p.metric)

\* the filter and the map of the preset's metric; of none, they replace the
\* filters and the maps of all metrics, unless the preset has no such key
LoadFilters(v, p) ==
  IF p.metric = None /\ p.filter = Unset THEN v
  ELSE IF p.metric = None THEN WriteFilters(v, [m \in DOMAIN v.filters |-> Unset])
  ELSE WriteFilters(v, [v.filters EXCEPT ![p.metric] = p.filter])
LoadMaps(v, p) ==
  IF p.map = NoMap THEN v
  ELSE IF p.metric = None THEN [v EXCEPT !.maps = [m \in DOMAIN @ |-> Undefined]]
  ELSE WriteMaps(v, [v.maps EXCEPT ![p.metric] = IF p.map = Undefined THEN NoMap ELSE p.map])

\* Mutant: the poller does not follow loadingAPreset.
LoadUnpolled(v, p) ==
  LET w == [v EXCEPT !.loading = TRUE, !.rate = p.rate]
      l == LoadMaps(LoadFilters(LoadMetric(w, p), p), p)
  IN [(IF p.metric = None /\ p.map # Undefined THEN ResetFilter(l) ELSE l) EXCEPT !.loading = FALSE]
Load(v, p) ==
  LET w == [v EXCEPT !.loading = TRUE, !.rate = p.rate]
      l == LoadMaps(LoadFilters(LoadMetric(w, p), p), p)
      f == IF p.metric = None /\ p.map # Undefined THEN ResetFilter(l) ELSE l
  IN ResetMetricPoller([f EXCEPT !.loading = FALSE])

\* whether preset q and the view have one map object after p was loaded: the
\* view then has the one of p, or none at all
Loaded(q, p) ==
  IF q # Missing /\ p.metric \in {q.metric, None} /\ ~p.shared /\ p.map # NoMap
  THEN [q EXCEPT !.shared = (q = p /\ p.map # Undefined)] ELSE q

\* what is done to a map in the view is done to the presets that share it
Shared(q) == IF q # Missing /\ q.shared THEN [q EXCEPT !.map = model'.maps[q.metric]] ELSE q

\* the option "Select a preset" stands for the empty preset, which clears the
\* metric, and with it the bounds that were typed for its map
SwitchPreset ==
  /\ ~Broken /\ Asked
  /\ \E id \in Known \cup {0} :
       LET p == IF id = 0 THEN EmptyPreset ELSE presets[id]
           Edited(q) == Shared(Loaded(q, p)) # Loaded(q, p)
       IN /\ p.name # model.preset
          /\ model' = Load([model EXCEPT !.preset = p.name], p)
          /\ presets' = [k \in DOMAIN presets |-> Shared(Loaded(presets[k], p))]
          /\ managers' = [i \in DOMAIN managers |->
                            [managers[i] EXCEPT !.selected = id, !.change = Shared(Loaded(@, p))]]
          /\ unsure' = unsure \cup {k \in Known : Edited(presets[k])}
                \cup UNION {Pending(i) : i \in {j \in DOMAIN managers : Edited(managers[j].change)}}
  /\ Fits /\ UNCHANGED <<due, drag, server, lists, saves, interrupted>>
---------------------------------------------------------------------------
(* Saving. The server stores at once and in the order of the requests; the *)
(* answers come in any order.                                              *)

Values(v, name) ==
  LET map == IF v.selected = None THEN NoMap ELSE v.maps[v.selected]
  IN [name |-> name, rate |-> v.rate, metric |-> v.selected,
      filter |-> v.filters[v.selected],
      map |-> IF map = NoMap THEN Undefined ELSE map, shared |-> map # NoMap]

\* as JSON: values that are undefined have no key
Stringified(p) == [p EXCEPT !.shared = FALSE, !.map = IF @ = Undefined THEN NoMap ELSE @]

\* manager i sends its change for the preset idOf[i]; it keeps only the last
Send(idOf, p, named) ==
  /\ managers' = [i \in DOMAIN managers |->
                    IF i \in DOMAIN idOf
                    THEN [managers[i] EXCEPT !.change = p, !.named = named] ELSE managers[i]]
  /\ saves' = saves \cup {[manager |-> i, id |-> idOf[i]] : i \in DOMAIN idOf}
  /\ Cardinality(saves') <= MaxSaves
  /\ unsure' = unsure \cup UNION {Pending(i) \cup {idOf[i]} :
                                     i \in {j \in DOMAIN idOf : Pending(j) # {}}}
  /\ lists' = [i \in DOMAIN lists |-> IF lists[i] = {} THEN {} ELSE lists[i] \cup {server'}]

\* every manager hears the button, and finds the name free
CreatePreset ==
  /\ ~Broken /\ Asked /\ model.selected \notin Metrics \ Valid
  /\ \E name \in Names \ {presets[id].name : id \in Known} :
       LET p == Values(model, name)
       IN /\ server' = server \o [i \in DOMAIN managers |-> Stringified(p)]
          /\ Send([i \in DOMAIN managers |-> Len(server) + i], p, TRUE)
  /\ presets' = presets \o [i \in DOMAIN managers |-> Missing]
  /\ UNCHANGED <<model, due, drag, interrupted>>

\* a manager that has no preset selected sends nothing
UpdatePreset ==
  /\ ~Broken /\ Asked /\ model.preset # None /\ model.selected \notin Metrics \ Valid
  /\ LET S == {i \in DOMAIN managers : managers[i].selected # 0}
         T == {managers[i].selected : i \in S}
     IN /\ server' = [id \in DOMAIN server |->
                        IF id \in T THEN Stringified(Values(model, server[id].name))
                                    ELSE server[id]]
        /\ Send([i \in S |-> managers[i].selected], Values(model, None), FALSE)
  /\ UNCHANGED <<model, due, drag, presets, interrupted>>

\* the preset that an answer is taken for
\* Mutant: the settings of the view when the answer comes.
TakenLate(manager, old) ==
  Values(model, IF manager.named THEN manager.change.name ELSE old.name)
Taken(manager, old) ==
  IF manager.named THEN manager.change ELSE [manager.change EXCEPT !.name = old.name]

\* the answer names the preset, and its manager takes its last change for the
\* one of the request: a change that has a name is selected, which only the
\* other managers take for a switch
HandleSaveResponse ==
  /\ ~Broken
  /\ \E s \in saves :
       LET manager == managers[s.manager]
           known   == presets[s.id] # Missing
           p       == Taken(manager, presets[s.id])
           name    == p.name
           loads   == manager.named /\ name # model.preset /\ Len(managers) > 1
           After(q) == IF loads THEN Loaded(q, p) ELSE q
       IN /\ saves' = saves \ {s}
          /\ interrupted' = (interrupted \/ (loads /\ drag.on))
          /\ IF ~manager.named /\ ~known
             THEN UNCHANGED <<model, presets, managers>>
             ELSE /\ presets' = [id \in DOMAIN presets |->
                                   After(IF id = s.id THEN p ELSE presets[id])]
                  /\ managers' = [i \in DOMAIN managers |->
                       IF i = s.manager
                       THEN [selected |-> IF manager.named THEN s.id ELSE manager.selected,
                             change |-> After(p), named |-> TRUE]
                       ELSE [managers[i] EXCEPT !.selected = IF manager.named /\ name # model.preset
                                                             THEN s.id ELSE @,
                                                !.change = After(@)]]
                  /\ model' = IF ~manager.named THEN model
                              ELSE IF loads THEN Load([model EXCEPT !.preset = name], p)
                              ELSE [model EXCEPT !.preset = name]
  /\ Fits /\ UNCHANGED <<due, drag, requests, server, lists, unsure>>

\* the answer is lost, or is read as a failure
SaveFails ==
  /\ \E s \in saves : saves' = saves \ {s} /\ unsure' = unsure \cup {s.id}
  /\ UNCHANGED <<metricVars, presets, server, managers, lists, interrupted>>
---------------------------------------------------------------------------
(* The list of the presets, which each manager asks for once. It holds     *)
(* what the server had at some moment since; what is saved after that and  *)
(* answered before the list comes is undone in the page. A list that never *)
(* comes is a request that failed, which nobody handles.                   *)

\* all definitions come again, and with them one more manager
Reconnected ==
  /\ ~Broken /\ Len(managers) < MaxManagers
  /\ requests < MaxRequests /\ requests' = requests + 1
  /\ managers' = Append(managers, Manager)
  /\ lists' = Append(lists, {server})
  /\ UNCHANGED <<model, due, drag, presets, server, saves, unsure, interrupted>>

\* The list replaces what the page knows. A name that is selected and not in
\* it leaves the options of its combo box, whose binding then selects the
\* empty preset.
Stale(list) == {id \in DOMAIN server : id \notin DOMAIN list \/ list[id] # server[id]}
Deselects ==
  /\ model' = Load([model EXCEPT !.preset = None], EmptyPreset)
  /\ managers' = [j \in DOMAIN managers |->
                    [managers[j] EXCEPT !.selected = 0, !.change = Shared(@)]]
  /\ interrupted' = (interrupted \/ drag.on)
PresetsReceived ==
  /\ ~Broken
  /\ \E i \in DOMAIN lists : \E list \in lists[i] :
       /\ lists' = [lists EXCEPT ![i] = {}]
       /\ presets' = [id \in DOMAIN server |-> IF id \in DOMAIN list THEN list[id] ELSE Missing]
       /\ IF model.preset \in {None} \cup {list[id].name : id \in DOMAIN list}
          THEN UNCHANGED <<model, managers, interrupted>> ELSE Deselects
       /\ unsure' = unsure \cup Stale(list)
             \cup UNION {Pending(j) : j \in {k \in DOMAIN managers :
                                               managers'[k].change # managers[k].change}}
  /\ Fits /\ UNCHANGED <<due, drag, requests, server, saves>>
---------------------------------------------------------------------------
SharedFollow ==
  /\ presets' = [id \in DOMAIN presets |-> Shared(presets[id])]
  /\ managers' = [i \in DOMAIN managers |-> [managers[i] EXCEPT !.change = Shared(@)]]
  /\ unsure' = unsure \cup {id \in Known : presets'[id] # presets[id]}
                     \cup UNION {Pending(i) : i \in {j \in DOMAIN managers :
                                                       managers'[j] # managers[j]}}
  /\ UNCHANGED <<server, lists, saves, interrupted>>
Metric == ~Broken /\ MetricsNext /\ SharedFollow

InitPresets ==
  /\ Init
  /\ server = Stored /\ presets = [id \in DOMAIN Stored |-> Missing]
  /\ managers = <<Manager>> /\ lists = <<{Stored}>>
  /\ saves = {} /\ unsure = {} /\ interrupted = FALSE

Next == Metric \/ SwitchPreset \/ CreatePreset \/ UpdatePreset \/ HandleSaveResponse
        \/ SaveFails \/ Reconnected \/ PresetsReceived

\* timers run, and every request is answered or fails
Fairness == /\ WF_vars(~Broken /\ LoadMetrics /\ SharedFollow)
            /\ WF_vars(~Broken /\ ReceivedMetrics /\ SharedFollow)
            /\ WF_due(~Broken /\ due # Blank /\ due' = Blank)     \* DisplayMetrics
Spec == InitPresets /\ [][Next]_vars
FairSpec == Spec /\ Fairness
---------------------------------------------------------------------------
TypeOK ==
  /\ model.selected \in Metrics \cup {None} /\ model.rate \in {0, 1}
  /\ model.wire \in [Metrics -> 0..MaxWire]
  /\ model.data.metric \in Named \cup {None}
  /\ \A m \in Metrics : model.maps[m] # NoMap /\ ~Broken => model.maps[m].low <= model.maps[m].high
  /\ model.filtered \subseteq Devices
  /\ Len(presets) = Len(server) /\ Len(lists) = Len(managers)

\* A poller runs for every metric of the templates, and for nothing else but
\* a metric, whatever presets and edits of the rate came in which order.
PollsAsAsked ==
  /\ model.timer => model.rate # 0 /\ model.selected # None
  /\ model.selected \in Valid /\ model.rate # 0 => model.timer

\* The filter bar shows the map and the filter of the selected metric, one of
\* the two following from the other: only a metric whose map a preset took
\* leaves its bar. What the bar shows of no metric, or of one that the
\* templates lack, does not follow.
BarAgrees ==
  LET bar == model.bar
      m   == model.selected
  IN m \in Valid =>
       /\ bar.shown => bar.of = m
       /\ model.maps[m] # NoMap => bar.shown
       /\ model.maps[m] # NoMap /\ ~drag.on =>
            \/ model.filters[m] = Narrowed(bar.filter, model.maps[m])
            \/ bar.filter = Within(model.filters[m], model.maps[m])

\* With the values of the selected metric on the page, the devices that pass
\* the filter are those the filter of that metric lets pass. A filter that
\* ends where the map does is taken for none, and a preset loaded while a
\* slider is dragged lets the drag go on with its own metric.
FilterAgrees ==
  LET m == model.selected
  IN ~interrupted /\ m \in Valid /\ model.active /\ model.data.metric = m
     /\ Restricts(model.filters[m], model.maps[m]) =>
       model.filtered = Satisfying(model.filters[m], model.data.values)

\* Poller, filter bar and filter follow the metric that is selected.
Safety == TypeOK /\ PollsAsAsked /\ BarAgrees /\ FilterAgrees

\* The page's copy of a preset is the one the server stores, once the answers
\* of its own saves came, and unless they came in between others or a list
\* came after them that the server had made before. A preset that the page
\* does not know is one of those, or no list has come yet.
PresetsAgree ==
  \A id \in DOMAIN server \ (unsure \cup {s.id : s \in saves}) :
    IF presets[id] = Missing THEN \A i \in DOMAIN lists : lists[i] # {}
                             ELSE Stringified(presets[id]) = server[id]

\* The metric that stays selected is the one on the page in the end, or its
\* requests fail.
ShowsTheMetric ==
  <>[](model.selected \in Valid /\ model.rate # 0 /\ ~Broken)
    => <>[](model.data.metric \in {model.selected, Failed})
=============================================================================
