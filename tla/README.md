# Verification of the Concertim visualisation app

TLA+ models of the application in `src/`: a Rails server that keeps racks, devices, users and
teams in PostgreSQL, a set of GoodJob workers that talk to the cloud's middleware, and a browser
page (the interactive rack view, "IRV") that draws the racks and follows their changes over a
websocket. The modules state what should be true of it, TLC checks them on small instances, and
TLAPS proves the most important statements for every value of the constants.

`PROJECT.json` holds the same facts for tools: components, runs, the map from each definition to
the lines it models, mutants, hazards and theorems.

    tlc -config rack_serial.cfg RackOccupancyMC.tla      # one run
    tlapm TeamsProofs.tla                                # one module of proofs

## 1. The system

### Components

| Component | State it keeps | Operations | Talks to |
|---|---|---|---|
| Rack occupancy (`HwRack`, `Location`, `Chassis`, `Device`, `Template`) | tables `racks`, `locations`, `base_chassis`, `devices`, `templates`, `data_source_maps` | create, resize and destroy a rack; create, rename, move and destroy a device; create and destroy a template | browsers, through `after_commit` hooks |
| Accounts (`User`, `CloudServiceConfig`, user jobs) | a user's row with a link to the cloud and two copies of a password on their way there; the job queue | sign up, change the password, delete, configure the cloud; sign-up, update, deletion, team jobs | the middleware, over HTTP; teams |
| Teams and roles | `teams`, `team_roles`; projects and billing accounts in the cloud | create and delete a team, grant, change and revoke a role | the middleware first, the database after its answer |
| Live-update server | subscriptions of `InteractiveRackViewChannel` | broadcast a changed rack, broadcast all racks of a user | rack occupancy above, the browser below |
| Live updates in the browser (`IRVController`, `FunctionQueue`, `RackSpace`, `Parser`) | the racks of the model and as drawn, pending changes, a queue of postponed messages, counters of resources and images | open the page, take in a message, load images, zoom | the channel, the loader |
| Asset loading (`AssetManager`) | cache, callbacks, queue of loads | get, received, failed | the browser's image loads |
| Metrics and presets of the rack view (`IRVController`, `ViewModel`, `FilterBar`, `PresetManager`, `ComboBox`) | selected metric, poll timer, requests under way, values, colour maps and filters; the selection and what it greys out; presets; the typed text and its list | select, poll, filter, select racks and devices, type and choose a metric, save and load a preset | the metric service, `rackview_presets` |
| Dragging and zooming (`IRVController`, `RackSpace`, `RackSpaceDragHandler`) | mouse and drag state, face, scale, the two animations, the place of each rack | press, click, drag, drop; zoom, flip, split view, resize | rack occupancy (`update_position`), live updates |
| Canvas widgets and drawing (`SimpleRenderer`, `SimpleChart`, `Metric`, `Highlight`) | the assets, animations and dirty regions of each layer; the chart's data and tooltip | draw, animate, remove; hover, sort | everything above that is drawn |
| Clusters and cluster types | a cache of cluster types | synchronise, create a cluster | the cluster builder |
| Status changes | `status` of racks and devices | request an action | the middleware |
| Credits, invoices, key pairs, cloud statistics | nothing | one call each | the middleware |
| Authorisation (`Ability`) | nothing | may this user do that? | every controller |
| Tables, searches, presenters | nothing | formatting | |

### What is hard in it

* **Check, then write.** Puma serves requests on several threads, each request in its own
  transaction at READ COMMITTED, and the code takes no lock. Every validation reads what is
  committed at that moment; the write it allows comes later. Only the foreign keys of
  `db/schema.rb` are enforced by the database.
* **Long calls between a read and a write.** A job reads a user, waits for the middleware for up
  to a minute, and saves the attributes that changed in its copy. Meanwhile requests and other
  jobs write the same row.
* **Failure in the middle.** A call may fail before or after the middleware has served it; a worker may
  die between two writes; a web process may die after it has saved a row and before it has
  scheduled its job. `retry_on` tries ten times and then gives up.
* **Events in any order.** The rack view is one thread, but messages, answers, image loads,
  zooms and timers come as they like, handlers nest (a callback of the loader may open the page,
  which runs the queue, which handles messages, which load images), and two servers may send the
  older of two contents last.
* **Animations that call back.** A zoom, a flip and a fade are chains of renderer callbacks. Between
  two links the racks may be rebuilt, the window resized, the asset removed, the metric changed.
* **Writes that notify.** Knockout runs the subscribers of an observable inside the write, so one
  assignment redraws the chart, moves the filter or restarts the poller, and the order of the writes
  of one handler is visible.

`PROJECT.json` lists each hazard at its line, with the properties that cover it.

### What makes each component correct

* Rack occupancy: a device lies inside its rack, devices do not share a place, names are unique
  in a rack, nothing refers to what is gone, licensed limits hold, a deletion that must not
  destroy devices does not, and browsers hear of what changed.
* Accounts: a link to the cloud is true; no job undoes a request; a sign-up, a deletion and
  a team come to their end or visibly give up; the account has the password chosen last; no account is left
  that nobody knows of.
* Teams: the cloud and the database agree on projects and roles when nothing is under way; a team outlives its
  project, unless its deletion never saw that; creations and deletions end.
* Live updates: when nothing is under way any more, the page shows what the database holds; no
  update is left in a queue; the page opens; a deleted rack leaves.
* Metrics and presets: the poller asks for the metric selected and its values are shown in the end;
  filter, filter bar and map of a metric agree; a preset of the page is the server's; what is greyed out is
  what selection, filter and values leave out; neither an update nor an answer changes what the user selected;
  a metric chosen is one that is offered.
* Dragging and zooming: what a rack offers for a drop is what the server accepts; a cancelled drag moves
  nothing; a click is not forgotten; the picture shows the face and the scale chosen, no rack covers
  another, and animations end and uncover the page.
* Drawing: the canvas shows what is in its layers, what is in them has an owner, and the chart has
  a datum for each value and a tooltip about one of them.

## 2. Modules

| Module | Models | Built on |
|---|---|---|
| `RackLayout` | geometry and the validations, as operators over a layout | |
| `RackRegistry` | abstract: what racks promise, every operation atomic | `RackLayout` |
| `RackOccupancy` | the HTTP requests, split where another can come between | `RackLayout`, refines `RackRegistry` |
| `Accounts` | one user, their account, the jobs | |
| `Teams` | one team, its project, the roles of its users, the jobs and requests behind them | |
| `AssetManager` | the loader of images, as operators over a record | |
| `RackPage` | the record of the page, and drawing the racks anew | `AssetManager` |
| `RackLoading` | loading the images of racks, with `testLoadProgress` as a parameter: an open page draws, one that is not may open and run its queue | `RackPage` |
| `RackView` | the page: each of its events is an operator from page to page; instantiates `RackLoading` for either case | `RackPage`, `RackLoading` |
| `LiveUpdates` | the racks in the database, the hooks, jobs and channel, and the events of the page as actions | `RackView` |
| `RackArrangement` | how racks are laid out in rows, as operators over a sequence of racks | |
| `RackScene` | the racks drawn, the face, the scale, and the animations between two pictures | `RackArrangement` |
| `RackMouse` | presses, clicks and drags of devices, the places offered, the server that is asked | `RackLayout` |
| `RackMetrics` | the metric shown: poller, answers, colour maps, filters and filter bar | |
| `RackPresets` | the stored settings that are loaded into the view and saved from it | `RackMetrics` |
| `RackSelection` | what is selected and filtered, and what the page greys out for it | |
| `ComboBox` | the box in which the metric is typed, completed and chosen | |
| `SimpleRenderer` | the layers of the canvas: assets, animations, frames | |
| `RackDrawing` | bars, free spaces and highlights on those layers | `SimpleRenderer` |
| `SimpleChart` | axes, labels and the search for the datum under the mouse, as operators | |
| `RackChart` | the chart of the metric: what it depends on, its data, its tooltip | `SimpleChart` |
| `...MC` | the instances for TLC | the module of that name |
| `...Proofs` | theorems | the module of that name, TLAPS |
| `MouseProofs` | theorems about the mouse on the racks and on the chart | `RackMouse`, `RackChart`, TLAPS |

Where components interact they are composed: `RackOccupancy` with the hooks that announce changes, which
`LiveUpdates` takes up as commits; the mouse of `RackMouse` with the server's validation, both over
`RackLayout`; `RackPresets` with `RackMetrics`, whose every write it can trigger; `RackDrawing` with the
renderer. What another module models in detail is nondeterministic in the rest: an answer in
`RackSelection` is any set of devices with a value, an update in `RackMouse` the server's whole layout.

### RackOccupancy

`height[r]` is the `u_height` of rack *r* (0: no such rack), `templates` the templates that exist,
`node[n]` the row of device *n* with its chassis and its location (one transaction creates the three, one
destroys them), `requests[q]` what thread *q* holds between two of its steps, and `announced` the
racks the last step has broadcast.

| Action | Code |
|---|---|
| `CreateRack`, `InsertRack` | `POST /racks`: `HwRack#rack_limit`, then the INSERT |
| `ResizeRack`, `WriteHeight` | `PUT /racks/:id`: the load, then the validation of `u_height` and the UPDATE |
| `DestroyRack`, `LoadRack`, `DeleteRack` | `DELETE /racks/:id`: `empty?`, the load by `dependent: :destroy`, the DELETE |
| `CreateTemplate`; `DestroyTemplate`, `LoadTemplate`, `DeleteTemplate` | the same for templates |
| `CreateNode`, `InsertDevice`, `CommitNode` | `NodeServices::Create`: location, device with its validations, commit |
| `UpdateDevice`, `WriteName`, `CheckPlace`, `WritePlace` | `DeviceServices::Update`: the device is saved, then the location |
| `MoveChassis` | `POST /irv/chassis/:id/update_position` |
| `DestroyDevice` | `DeviceServices::Destroy` |
| `Abort` | an exception or a crash: what is open is rolled back |

`Serial` chooses between one request at a time and all threads at once; with `Serial` a request
starts only when every thread is idle, and its steps are the same.

A row that an open transaction has inserted is not visible to others, but it holds a share lock on
the rack and template it refers to. `DeleteRack` and `DeleteTemplate` therefore wait for
`Inserting` threads, as PostgreSQL makes them, and fail on rows they did not delete.

### Accounts

`user` is the committed row (`Nobody` before sign-up, `Destroyed` after), `account` the password of the
cloud's account, `jobs[s]` the job in slot *s* with its program point (`queued`, `sent`,
`answered`, `linked`, `validated`), its attempts and `seen`, the part of the row it has read; `web` the
requests that have written a row and not yet called `perform_later`.

| Action | Code |
|---|---|
| `Register`, `ChangePassword`, `DeleteUser`, `CreateConfig` | the controllers and `UserServices`, up to their commit |
| `Schedule`, `WebCrash` | `perform_later` after it, and a web process that dies before |
| `SignUpUsers` | `CloudServiceConfigCreatedJob` |
| `Start` | `perform` reads the row and decides: send, skip or stop; `perform_limit` |
| `Answer`, `Fail` | the middleware answers, or a `Faraday::Error` comes before or after it has served the call; `retry_on` |
| `Link`, `FollowWithTeam` | `UserSignupJob`: the answer is saved, the team's job is scheduled |
| `MovePassword`, `DestroyUser` | what `UserUpdateJob` and `UserDeletionJob` do with their answer |
| `ValidateTeam`, `InsertTeam` | `CreateSingleUserTeamJob` |
| `Crash` | a worker dies: GoodJob runs the job again from its start |

The middleware is not part of the repository. `Accepted` holds what its answers imply for the
account as far as the jobs rely on it: a sign-up leaves an account (the one it had, if any), an
update needs one, a deletion of an account that is gone may be accepted or refused.

### Teams

`team` is the row (`Absent` before, `Destroyed` after), `live` and `made` the projects that the cloud has
and ever had, `granted` the roles in it, `roles` the rows of `team_roles`, and `jobs[s]` a job or a
request in slot *s* with its program point, its attempts and its call.

| Action | Code |
|---|---|
| `CreateTeam`, `DeleteTeam`, `Schedule` | `TeamsController#create` or `CreateSingleUserTeamJob`, `TeamServices::Delete`, and `perform_later` |
| `StartCreate`, `StartGrant`, `StartDelete` | `perform` looks at the row it was given and decides what to send |
| `DestroyUnlinked` | `DeleteTeamJob` destroys a team whose copy had no ids, whatever was saved in its row since |
| `RoleRequest` | `TeamRolesController#create, update, destroy`, whose jobs run while the user waits |
| `Answer`, `Fail` | the middleware answers, or the call fails before or after it was served; `retry_on` |
| `LinkProject`, `LinkBilling` | the two saves of `CreateTeamJob`; `CreateTeamThenRoleJob` then schedules the role |
| `GrantSaved`, `SaveRole` | the grant of a single user team; the save, update or `destroy!` of a role |
| `DestroyTeam` | `DeleteTeamJob` after its answer |
| `Crash` | a process dies: a job runs again from its start, a request is lost |

`Served` holds what the middleware can be met with. The properties except what the code leaves
open, each recorded where it happens: an answer was lost (`lost`), a team was destroyed without the
middleware although its project was being made or had just been saved (`unlinked`), somebody was told of a failure (`noticed`), requests about a user crossed
(`crossed`), a job has given up (`gaveUp`).

Requests cross when one is made while another is under way that was made for another role of the user. Mostly the
middleware then refuses the older one, as its old role is gone, and somebody is told. But if further requests have brought that role back,
the older one is served with nobody told, and the two may write their rows in the other order than the
middleware served them. Two requests of which the second was made for the role that the first still sees are
safe: that is what `RolesAgree` says, and it took the proof to find the difference.

### RackPage, RackLoading, RackView and LiveUpdates

A page is a record with the fields of the code: `initialised`, `zooming` (of `IRVController`), `spaceZooming` (of
`RackSpace`), `queue`, `resourceCount`, `assetCount`, `assetList`, `racks` (the model), `modified`
(`modifiedRackDefs`), `deleted` (`changeSetRacks.deleted`, as the loop over it reads it) and `loader`.
`shown` is what has been drawn, `timer` the timeout set at the end of a zoom, `answers` the requests under way, and
`hung` a page in which `executeAll` does not return. JavaScript runs to completion, so an event is
one operator on pages with everything it calls: `ReceiveMessage`, `ReceiveAnswer`, `ReceiveImage`,
`FailImage`, `PollMetricTemplates`, the zoom events and `TimerFires`. `LiveUpdates` makes an
action of each and adds the server.

| Action | Code |
|---|---|
| `AddRack`, `ModifyRack`, `DeleteRack` | the commit of a rack or of what it holds, and its `after_commit` hook |
| `ChangeRole` | `TeamRole#broadcast_change`: all racks are sent again |
| `Connect`, `Disconnect` | a subscription with its `all_racks_sync`; the socket breaks and drops what is on its way |
| `Read`, `Send` | a broadcast job reads the rack (or all of them) and then sends |
| `Receive`, `Answer`, `ImageLoads`, `ImageFails`, `Poll`, `Zoom`, `ResetZoom`, `ZoomEnds`, `Timer` | the events of the page |

What a rack looks like is its version. The images a rack needs are `ImagesOf[r][v]`.

Two fields of the page are not in the code. `lost` is the set of racks whose newest change the code
is known to drop; it grows where the code drops it and shrinks when a newer message is
taken in. The places are: `modifiedRackDefs` is overwritten while images of the message before are
still loading; a message passes older ones that wait in the queue; the older of two contents was
sent last; an image has failed at both places, or waits for a load that failed before; a count of
loaded images has gone past the list. `late` tells the last case, in which callbacks of earlier messages
are still to come. `ViewIsCurrent` excepts the racks in `lost` and so says: these are **all** the ways
in which a rack that exists can be shown wrongly on a page at rest.

### RackArrangement and RackScene

`RackArrangement` holds `setUpRacks` and `arrangeRacks`: `BestWidth` and `NumRows` look for the number of rows
whose picture has about the shape of the window, `ActualWidth`, `RacksWidth` and `RacksHeight` are the canvas
computed from it, and `Place` is the loop that fills one row after the other. The canvas is
sized first and the loop is greedy, so that the rows used could be more than those there is room
for: `WithinCanvas` and `Apart` say that this does not happen. JavaScript's fractions are compared
by cross products.

Every rack has one width, and the padding is not larger than the horizontal padding added to it (`padding`, `h_padding`). The first holds since each rack is created with the one
template with the tag `rack` (`hw_rack.rb:104`, `template.rb:135`) and `RacksController` permits no `template_id`, the second
in `app/views/racks/_configuration.json` (100 and 100). `SceneAssumption` and `ArrangementAssumption` say so. Racks of different
widths could fill more rows than there is room for.

`RackScene` has three faces, as the code has: the view model's, the controller's and the rack space's; `space` with
the racks, what is drawn of them, the scales and presets; `zoom` and `flip` with their phase and what was
counted; and the mask that takes the mouse away. Each callback of a chain of animations is an action.

| Action | Code |
|---|---|
| `StepZoom`, `ZoomToPreset`, `ResetZoom`, `FocusOn` | the zoom controls and the double click, with `quickZoom` |
| `EvZoomReady`, `EvRackZoomComplete`, `EvZoomComplete` | faded out, scaled, faded in |
| `SwitchFace` | front, rear or both: a flip, or the split view built or left |
| `EvFlipReady`, `EvHalfFlipped`, `EvFlipped`, `EvFlipComplete` | the racks turn from the middle outwards and are counted |
| `Synchronise`, `FullRackDataReceived`, `ImagesLoaded`, `DiscardExcludedRacks` | racks come, change and go |
| `Resize`, `LayoutTimer` | the window or the navigation changes; `setLayout` after a delay |
| `ReceivedMetrics`, `DisplayMetrics` | the values of a metric, which uncover the page |

`missed`, `relaid` and `broken` record that a flip could not start, that racks were laid out under a zoom, and
that a zoom began over a flip, which share the field `fx`; a behaviour ends with `broken`.

### RackMouse

`mouse` holds the flags of the handlers (`clickAssigned`, `clickTmr`, `dragging`, `cancelled` ...), `drag` the device taken and the
nearest place, `page.at` the layout shown and `page.built` the layout its racks were built from, `sites` the
places offered, `posted` and `news` what is on its way to and from the server.

| Action | Code |
|---|---|
| `EvMouseDownRack`, `EvDrag`, `EvMouseUpRack`, `MouseUpElsewhere`, `EvRightClickRack` | the handlers of the mouse, a drop among them |
| `EvClick`, `EvZoomComplete` | the timer of a single click; the end of the zoom of a double click |
| `SwitchFace` | the other face, in which other devices can be taken |
| `ReceiveUpdate`, `ImagesLoaded` | a live update cancels the drag and, its images loaded, rebuilds the racks |
| `Answer`, `SomebodyMoves` | `update_position` validates, moves and announces; another user's move |

`Location#update_position` reads the start and the side that are sent, not the rack, and a save announces the rack also when
nothing has changed, so that a page which shows a device in another rack is corrected by the announcement.

### RackMetrics and RackPresets

`model` is the view model with the poller (`timer`, `wire`, the requests of each metric on their way), the values (`data`), the
`maps` and `filters` of each metric, and the filter bar. `RackPresets` adds the presets of the page and of the
`server`, and `managers`: each reconnection leaves one more `PresetManager` that listens to the same buttons. Each manager asks for the
list of the presets once; `lists` holds what the list on its way to it may contain, which is what the server had at any moment since.

| Action | Code |
|---|---|
| `PickMetric`, `SetMetricPoll` | `switchMetric`; the rate of the poll, zero for none |
| `LoadMetrics`, `ReceivedMetrics`, `DisplayMetrics` | the interval, an answer of any request on its way, the timer that shows it |
| `DragSlider`, `StopDrag`, `UpdateMap`, `EvResetFilters` | the filter bar |
| `SwitchPreset` | `switchPreset`: one write after the other, in the order of the configuration |
| `CreatePreset`, `UpdatePreset`, `HandleSaveResponse`, `SaveFails` | saves, and answers that cross |
| `Reconnected` | all definitions come again: a new manager, which asks for the list |
| `PresetsReceived` | the list comes and replaces what the page knows; if it lacks the preset that is selected, the box of the presets selects none (`Deselects`), as knockout's binding does when an option goes |

What a write notifies is inside the operator of the write. A map that a preset shares with the view changes in both
(`SharedFollow`). An exception leaves the rest of the handler undone; one that leaves the page without a map
for every later answer is `Broken`, and nothing is said of that page.

The properties of the view have exceptions, each named where it is stated. A metric that the templates lack has no bar that
follows. A filter that ends where the map ends lets everything pass and is not applied again. `interrupted` records that an answer loaded a preset while a
slider was dragged: the drag goes on with the bar it began with, and then the filter may bound a metric without a map. Stored presets
are such as the page can have saved (`Storable`): they have a name, an ordered map if any, and a filter that
bounds the values only together with a map.

### RackSelection

`selected` maps an object to `missing`, `false` or `true` (the code tells the three apart), `filtered` and `values` are
sets of devices or `None`, and `included` and `bars` are what was drawn last. `Included` and `Bars` are what should be
drawn.

| Action | Code |
|---|---|
| `Click`, `ClickMore`, `FocusOn` | `viewSelectItem`, alone or with the control key; the context menu |
| `ResetFilters`, `UpdateFilter` | the filter bar, which writes the selection |
| `DiscardExcludedRacks` | "Clear de-selected" |
| `DisplayMetrics` | an answer of the poller, which may write the selection through `setMetricLevel` |
| `SwitchMetric`, `ClearMetric`, `StopPolling`, `SwitchPreset` | the metric, its rate, a preset and its level |
| `Update` | a live update of a rack: `synchroniseSelected` |

### ComboBox

The record `b` has the text, the text before the last key, what is shown of the list and its options, the option that is lit, the
loops that wait for the keys to rest, and the requests for the metrics offered. The list is a set: it is always shown in the
order of the catalogue, by which the first option and the ones above and below the lit one are found. Keys go down and come up in separate
actions (`Type`, `OtherKey`, `Up`, `Down`, `Escape`, `Enter`, `Tab`; `KeyUp`), `Loop` is the end of a delay, and `Focus`, `Blur`, `Press`,
`MouseDownElsewhere`, `Hover`, `Click` and `Toggle` are the mouse. `SelectElsewhere` clears the metric from outside, `Answer` brings what the server
offers now. `Leave` and `Change` stand for the browser's change event, which Knockout's binding takes up.

### SimpleRenderer and RackDrawing

A layer is a record of the renderer's fields (`assetDir`, `anims`, `clearList`, `drawList`, `paused`) and a canvas: what is painted in
each region. `dead` is a loop that an exception has ended. `runAnims` and `drawFrame` are
folds over the lists in their order, with the callbacks that the code gives them. `RackDrawing` has a layer for the free spaces, one for
the bars, one for the highlights, and the objects that hold asset ids in them. `highlighted` is `RackSpace.highlighted`, which `Rebuild` does not
empty: a device in it stands for an object that was destroyed and still holds its highlight. `Frame` is a frame of all layers; `Poll`,
`Draw`, `StartDrag`, `StopDrag`, `Rebuild`, `Hover`, `Leave`, `HoverChart`, `LeaveChart`, `showContextMenu`, `Click`, `MenuClick`, `Redraw` and the steps of a
zoom are what happens between frames. A behaviour ends when a handler throws (`Halted`).

### SimpleChart and RackChart

`SimpleChart` computes the range of the axis, its labels, and the datum under the mouse by the code's binary search. Of a line, the point where the
search ends and its neighbours are compared by their distance in both directions, squared. How far below or above the mouse each point is, is any of a set of
numbers (`Rises`), whatever its value. `RackChart` is
what the chart subscribes to (metric, values, maps, selection, filter, level, order, racks, layout) and the chart: the data drawn
(`coords`), whether it is shown, the device its tooltip is about (`hint`), what it has highlighted (`lit`), and the timer of the mouse with the coordinates it
was set for. Each write to an observable redraws through `Notify`.

The division of the axis is a list (`Steps`) of what the code's loop goes through for an axis of 2 to 200 distances of labels (`Room`), that is
40 to 4000 pixels. The turns of the search (`Try`) and the powers of ten (`Factor`) are recursive functions, so that the provers can take them up.

## 3. Runs

Each run is one question. "Proved" names the theorem that says the same for every value of the constants.

| Run | Instance | Shows | Proved |
|---|---|---|---|
| `rack_serial` | 2 racks of up to 3U, 2 devices, 2 names, a 1U half-depth and a 2U full-depth template, one thread | `FitsRack`, `NoSharedStart`, `NamesUnique`; `ImplementsRegistry`: every request is a step of `RackRegistry` or none | all four |
| `rack_concurrent` | 2 racks of up to 2U, 3 devices, limits of 1, 2 threads | `ReferencesHold` and `LicenceRespected` (a limit is exceeded by the other threads at most) under every interleaving of checks and writes; `ChangesAnnounced`: each committed change of a rack reaches a broadcast | all four |
| `accounts` | 2 passwords, 1 change, one job of each kind at a time, 1 crash, fairness | `LinkedAccountExists`, `StaleJobsKeepTheRow`; `SignupSettles`, `DeletionSettles`, `TeamFollows` | the first two |
| `teams` | 1 user, 2 roles, 2 projects, 2 attempts, 2 deletions and 2 role requests at a time, 3 requests, 1 crash, fairness | `Safety`: cloud and database agree on roles (`RolesAgree`) and projects (`ProjectsAreKnown`) when nothing is under way; `DestroyedAfterItsProject`; `TeamSettles`, `DeletionSettles` | the first two |
| `live_updates` | 2 racks, 2 images, 2 processes, 2 changes, 2 mishaps | `Safety`: at rest the page shows the database (`ViewIsCurrent`) and its queue is empty (`QueueIsEmptied`); `PageOpens` | |
| `irv_scene` | 2 racks and one more that comes, 2 windows, 4 scales, 3 requests, 2 arrivals, fairness | `Safety`: the split view pairs the faces (`SplitPairs`), the face chosen is shown (`FaceShown`), the layers have one scale (`LayersAgree`), no rack covers another or leaves the canvas (`RacksApart`); `FaceKeepsRacks`; `FlipEnds`, `MaskLifts` | the first two |
| `irv_mouse` | 2 racks of 3U, 2 devices, 4 layouts to begin with, 2 presses, 1 move of others, fairness | `Safety`: what is offered is what the server accepts (`OffersAreAccepted`), page and server agree in the end (`PageAgrees`); `DropsKeepApart`, `CancelMovesNothing`; `PendingClicksEnd` | the first three |
| `irv_metrics` | 2 metrics and one without template, 2 devices, 1 stored preset, 3 requests, 2 preset managers, fairness | `Safety`: poller, bar and filter follow the metric (`PollsAsAsked`, `BarAgrees`, `FilterAgrees`); `PresetsAgree`; `ShowsTheMetric` | the first two |
| `irv_selection` | 2 racks, 2 chassis, 2 devices, presets of 2 levels | `Safety`: what is greyed out is what does not count (`IncludedIsCurrent`, `BarsAreNotGreyed`, `SelectedMeansActive`); `UpdateKeepsSelection`, `PollKeepsSelection` | all three |
| `irv_drawing` | the two faces of a rack with a device seen from both, animations of 2 frames, 5 combinations of bounds | `Safety`: no layer stops (`LayersLive`), the canvas is current (`PictureIsCurrent`), bars and highlights have their owner (`BarsOwnTheirAssets`, `HighlightsBelong`); `SpacesFadeAway`, `HighlightsPulse` | |
| `irv_chart` | a chassis and two devices, one of which comes and goes, 2 metrics | `ChartSafety`: a datum for each value (`ChartIsCurrent`), a tooltip about one of them (`TooltipIsOfABar`), the search finds the bar under the mouse and no worse than the points next to it (`HoverFindsTheDatum`), the axis holds it (`AxisHoldsTheData`); `HintLeavesNoMark` | both |
| `irv_combo` | metrics `load` and `loadavg`, four texts, 3 offers of the server, 1 loop and 1 request under way | `Safety`: the list follows the text and the offer (`FilterFollows`); `ChosenIsOffered` | both |

Every property has a mutant of the code under it (`PROJECT.json`): a plausible bug in a mapped definition with
which TLC finds the property violated.

### Bounds, and why they are enough

* Racks, devices and threads: the properties relate two devices of one rack or two threads;
  a third adds no new kind of conflict. `rack_concurrent` has three devices so that their limit of one can be
  exceeded by more than the property allows; with two racks theirs cannot, which is what `LicenceKept` proves for any
  number. The proofs of section 4 lift these bounds.
* `MaxHeight` is 3 in `rack_serial`: a 2U device then fits in two places that overlap, and can stand below and above another
  start. The code's tallest rack has 72U. With two threads 2U are enough for a device that is above a rack made lower.
* `MaxAttempts` is 1 in `accounts` and 2 in `teams` (10 in the code). A crash after an answer makes the
  same call come twice, as a retry does; the proofs about accounts hold for any number of attempts,
  jobs and crashes. `teams` has two attempts, since what was answered at the first decides what the second sends.
* `MaxChanges`, `MaxCrashes`, `MaxMishaps`, `MaxRequests`, `MaxMoves`, `MaxPresses` bound requests,
  crashes and accidents. In `live_updates` two changes and two mishaps reach every branch of the
  handlers; one process with three changes, and a start with any set of racks, have been run as well and show the same.
* `live_updates` begins with one rack that is there and one that is not. The rack that is there has
  first no image and then one, so both branches of `receivedRackDefs` are taken.
* `irv_scene`: lengths count 25 pixels, with the paddings and spaces of `app/views/racks/_configuration.json`. One
  window gives three racks one row and the other gives them two, so that a resize or a new rack changes the rows; an
  assumption ties the numbers of rows to `NumRows`. `RackArrangement` alone has been compared with a direct
  transcription of the code on random racks and windows. The two scales of a window stay constants.
* `irv_metrics`: one answer with the lowest and the highest value is enough to have filters that
  let none, one or both devices pass. Two managers are what one reconnection leaves. The
  bound on requests counts the requests for values and the reconnections together.
* `irv_drawing` bounds the assets a layer may have had (`Rooms`). No instance has room for everything at
  once; a drag needs one asset for the highlight of its device and one for each rack with a free space. The combinations are a bar and a drag with a
  space; two bars and a drag without (zooms are followed under the other combinations, `Zoomed`; this one has been run with them as well); two drags with a space each and no bar; four highlights; a bar and a highlight. Two drags with up to two spaces each (five and
  six assets), and a bar with a drag of two spaces, have been run as well and show the same. A bar with two drags, and bars, spaces and highlights at once, are not explored.
* `irv_chart`: a bar is 4 pixels wide, a line has 2 for each datum and a radius of 10, as configured. Its points are 4 or 10 pixels
  below or above the mouse, so that one next to it is near enough with the one height and just so, or not, with the other. The search is run on charts of up to 8
  data (`Longest`), with each combination of heights.
* `irv_combo`: one metric begins with the other, so that a text can match one, both or none and be
  a whole name and a beginning at once. Two loops under way have been run as well (5.9 million states).
* The runs of accounts, teams, live updates, scene, mouse and metrics may stop: jobs are done, the page is at rest, and the
  bounded changes are used up. They set `CHECK_DEADLOCK FALSE`. The others do not.
* Symmetry is used for identifiers that nothing orders, and never with liveness.

### Fairness

* `accounts`, `teams`: weak fairness of `Schedule` (a request that has written its row comes to its
  end) and of `Run` (GoodJob takes up every job it has stored, a job runs on, and a call ends within the 60 s
  timeout of `job_runner.rb` with an answer or an error). In `teams` only creations and deletions need it. Nothing
  is assumed of users, of crashes, or of the middleware beyond ending a call. A crash that loses a request's job for
  good is recorded (`gaveUp`).
* `irv_scene`: each link of an animation and each timer comes to its end, which the renderer's loop and
  `setTimeout` guarantee while the page is open. Nothing is assumed of the user, of updates or of answers.
* `irv_mouse`: the timer of a click fires and a zoom ends.
* `irv_metrics`: the poller's interval and the timer of an answer fire, and a request is answered or fails. Which
  of several requests is answered first is free.

The exceptions in the liveness properties are states of the page: `Uncountable` says of a flip that the
racks turned and those to turn do not add up any more, which is how the code counts itself into a flip
without an end; `cut` that a live update cleared the timer of a click.

## 4. What is proved

TLAPS checks these for every value of the constants that satisfies the named assumptions of the
modules (finite sets of identifiers, positive heights, distinct null values, a tree of racks, chassis and devices, racks of one width,
presets that the page can have saved, whole numbers as the values of a chart of 40 to 4000 pixels).

| Theorem | Statement |
|---|---|
| `TypeCorrect` | `Spec => []TypeOK` for `RackOccupancy` |
| `ReferencesCorrect` | `Spec => []ReferencesHold`: under any interleaving no device outlives its rack or template |
| `ChangesAreAnnounced` | `Spec => ChangesAnnounced`: under any interleaving a committed change of what a rack shows is broadcast |
| `LicenceKept` | `Spec => []LicenceRespected`: under any interleaving of any number of threads |
| `SerialSafety` | with `Serial`: `FitsRack`, `NoSharedStart` and `NamesUnique` always; `StartsStayApart` and `NamesStayUnique` are its parts |
| `SerialImplements` | with `Serial`: `Spec => ImplementsRegistry` |
| `OneUnitDevicesDoNotOverlap` | with `Serial`, and only templates of 1U: `[]NoOverlap` |
| `AccountsTypeCorrect` | `Spec => []TypeOK` for `Accounts` |
| `LinksAreTrue` | `Spec => []LinkedAccountExists` |
| `RowsAreKept` | `Spec => StaleJobsKeepTheRow` |
| `TeamsTypeCorrect` | `Spec => []TypeOK` for `Teams` |
| `TeamOutlivesItsProject` | `Spec => DestroyedAfterItsProject`, with its exception for a deletion that loaded the team before it had a project |
| `TeamsSafety` | `Spec => []Safety` for `Teams`: `RolesAgree`, `ProjectsAreKnown` |
| `MouseSafety` | `Spec => []Safety` for `RackMouse`: `OffersAreAccepted`, `PageAgrees` |
| `DropsLeaveDevicesApart`, `OnlyDropsMove` | `Spec => DropsKeepApart`, `Spec => CancelMovesNothing` |
| `ChartIsRight` | `ChartSpec => []ChartSafety` for `RackChart`: `ChartIsCurrent`, `TooltipIsOfABar`, `HoverFindsTheDatum`, `AxisHoldsTheData` |
| `HintsAreTidied` | `ChartSpec => HintLeavesNoMark` |
| `PresetsStayAgreed` | `Spec => []PresetsAgree` for `RackPresets` |
| `ViewFollowsItsMetric` | `Spec => []Safety` for `RackPresets`: `PollsAsAsked`, `BarAgrees`, `FilterAgrees`, for any number of presets, managers and requests |
| `SelectionIsShown` | `Spec => []Safety` for `RackSelection` |
| `UpdatesKeepSelections`, `PollsKeepSelections` | `Spec => UpdateKeepsSelection`, `Spec => PollKeepsSelection` |
| `PictureIsRight` | `Spec => []Safety` for `RackScene`: `SplitPairs`, `FaceShown`, `LayersAgree`, `RacksApart`, for any number of racks, windows and scales |
| `FacesKeepRacks` | `Spec => FaceKeepsRacks`: changing the face loses and adds no rack, unless full data came whose images are not loaded |
| `ListFollowsText` | `Spec => []Safety` for `ComboBox`, for any metrics, texts and offers |
| `ChoicesAreOffered` | `Spec => ChosenIsOffered` |

* **References.** `ReferencesHold` alone is not inductive: a thread about to commit a device may have
  lost its rack. `References` adds `InsertsRefer`: the rack and template of every row an open
  transaction has inserted exist, which the share locks keep true.
* **Announcements.** What a rack shows changes with a commit, and which rack the commit is about was fixed when the
  request began. `Announcing` adds to `References` that the device a thread is about to commit has no row yet and that no other
  thread inserts, updates or removes it (`NewAlone`), and that the rows a thread has loaded are still in the rack they were in
  (`HeldRacks`): no request moves a device to another rack.
* **Licence.** The number of rows says nothing of those whose check has passed. `Licence` bounds rows and
  threads past the check together (`RackRoom`, `DeviceRoom`): a check adds a thread only when the rows
  are below the limit, and then at most the other threads are past theirs; an INSERT
  turns a thread into a row. With `Serial`, `OneAtATime` leaves no other thread.
* **Serial.** `SerialInv` adds to `References`: at most one thread is busy, the layout is
  `Sound` (devices fit, starts are apart, names differ), and what the busy thread has checked still holds
  (`Checked`), since nobody else writes. Each request's step then preserves `Sound` from what was checked. `SerialImplements` uses the
  same invariant: every step is a step of `RackRegistry` or a stutter.
* **Accounts.** `LinkedAccountExists` is preserved only because an answered sign-up knows its
  account (`AnswerKnown`), a deletion under way has its mark (`DeletionsMarked`), and nothing is under way
  for a user who does not exist (`NothingForNobody`). `Good` is their conjunction with the types.
  `RowsAreKept` follows from `Good` and the partial UPDATEs.
* **Teams.** That the project is gone when a deletion has been answered holds only for the project the row names
  *then*. `Tracked` therefore says: calls fit their jobs (`OpsFit`), one creation runs for one team and what it
  was answered is the project the row has, if it has one (`OneCreation`), a row's project was made (`KnownProject`), and a deletion
  under way loaded a team without a project, or names the project of the row and stands where its answer means that it is gone (`TrueDeletions`).
* **Agreement of teams.** That cloud and rows agree when nothing is under way says nothing of the way there. `Agreed` follows every call.
  A project that lives is in the row or in an answer about to be written there, and once the team is gone no creation makes one
  (`NoStrays`). Roles are granted in the team's project, by calls made for it (`CallsKnown`, `GrantsKnown`). The one role of a single
  user's team is granted, given up, or still to be granted (`SingleRole`). In a shared team, the requests about a user that are under way
  together were made for the same role, at most one of them is answered, and until its row is written that is all that tells cloud
  and table apart (`SharedRoles`). Together with `Tracked` it is inductive; there is one lemma for each action.
* **Mouse.** `MouseInv` says that page, server and all layouts between them have the same devices (`Kin`), that what a rack offers was free
  in the layout the rack was built from (`Offers`), and that the last layout on its way is the server's (`Latest`). A place is then
  accepted although the server looks up only the start, since the whole height was free when the layouts are the same; for the same reason a drop keeps devices apart.
* **Presets.** `PresetsAgree` is kept although a manager remembers only its last change. `SavesInStep` says of each request whose preset
  is not in doubt: it is its manager's only one, what the manager holds is what the server stored, a new preset has no other
  request, and whoever selects the preset, the sender has one selected too. The last part is why the next update of the preset either includes the
  sender, whose answers are then in doubt, or does not touch the preset. A list puts in doubt what it does not have as
  the server does. Map objects shared with the view put a preset in doubt when they are edited.
* **Metrics.** `Safety` of the presets' view says nothing of the states a write passes through, nor of the presets that are loaded next. `SafeInv` adds
  `ViewInv`, `Fitted` and `FitLists` to what keeps the presets agreed. `ViewInv` says that the values and maps have their shape, that each map is ordered, and that the bar is
  of the selected metric or of none (`Sound`); outside a drag, filter and bar follow one from the other (`Settled`); a metric
  without a map has no filter that bounds it (`Unbounded`), the devices that pass are those the filter lets pass (`Passed`), and a drag has a bar and a map
  (`Held`), unless the drag was interrupted. `Fitted` and `FitLists` say that every preset of the page, of a manager, of the server or of a list can be loaded without breaking that. Each
  write that notifies has a lemma of its own, and a handler's is their composition.
* **Selection.** `Safety` is inductive as it stands. `Written` splits each step: any operator that
  ends in `ShowSelection` restores what is shown, so that what remains for each action is that the
  selection it writes is well-formed and that its `activeSelection` is not false with something selected.
* **Scene.** `SceneInv` has a part for each actor. `RacksInv`: no rack is twice in the list (`Single`), but in the split view, where each stands front and rear
  (`Paired`) until full data comes. `LayersInv`: a zoom heads for a scale that the presets allow, and after its labels have faded the layers have it. `FaceInv`:
  the racks that a flip has turned show the face, except those drawn anew that still wait; a flip whose labels still fade has turned none.
  That no rack covers another is arithmetic, for any number of racks of one width: the greedy loop of `Place` never fills more rows than the canvas
  was sized for, and no row holds more than its width. Where that needs an induction (over the loop, over the sums of
  widths), it is one over a set of numbers (`Least`, `Climb`), which needs no theorem with an operator as its parameter.
* **Combo box.** `ComboInv`: what is shown and what is lit are offered (`Well`), and the list of a text that was edited holds what
  matches it once no loop is left to see to it (`Follows`).
* **Chart.** `ChartInv` has three parts: the tooltip is about a datum of the chart and a timer that outlived its chart has no data left
  (`Sound`), a chart that is shown and laid out has a width (`Ready`), and once drawn it is sorted by the positions it was last told (`Current`), which
  are those of the racks unless they changed while it was hidden. Below it are facts about whole numbers. No power of ten lies between another and its
  tenfold (`FactorsApart`), so the first division that is not too narrow has a label on the axis and keeps the labels apart (`LabelsAre`). Each turn of
  the search has found the datum or shortens what is left, and never steps over it (`Turn`), so that the bar under the mouse, and the points next to it on
  either side, are among the three candidates (`BarIsFound`, `PointsAreLookedAt`), of which one is the nearest (`OneIsNearest`). That the data can be put in order at all counts, for each, those up to it (`RanksRise`, `ArrangedIs`).

**Model-checked only:**

* Liveness, which is beyond the prover.
* Live updates (`Safety`, `PageOpens`): the handlers fold over lists and sets of racks and images with operators as arguments, and `RackView`
  instantiates `RackLoading` with an operator. What a fold computes for every input needs an induction the provers cannot do.
* The drawing (`Safety`, `SpacesFadeAway`, `HighlightsPulse`): a frame folds the handlers of its assets and animations over each layer, and a
  handler may change the lists it is called from.

## 5. Disagreements seen while modelling

Where the code does something else than a comment or a page of documentation says of it. The properties above state what does
hold, with these cases excepted by name.

1. **Devices can overlap** (`location.rb:215`). Only `start_u` is looked up when a location is
   validated: a 2U device can be put with its start below another device. `docs/api/examples/README.md:148-150` speaks of avoiding
   overlapping devices. `OneUnitDevicesDoNotOverlap` shows that it takes a taller template.
2. **A rack can be deleted with devices although `recurse` was not given**
   (`racks_controller.rb:66`): a node committed between `empty?` and the load by `destroy`. `docs/api/examples/README.md:120-121`: "If recurse is not
   given this will fail on non-empty racks."
3. **A password changed during a sign-up never reaches the cloud** (`user.rb:133`). The account
   exists, `cloud_user_id` is not saved yet, and the change goes where no job looks. `user.rb:124-125`: updates "performed via the UserUpdateJob".
4. **A user deleted during their sign-up leaves an account nobody knows of**
   (`user_deletion_job.rb:50`), against the comment two lines above it. A team without a project that is destroyed while
   its `CreateTeamJob` waits leaves a project the same way (`delete_team_job.rb:50`; `unlinked`). It even leaves one the row names:
   the ids are looked at in the copy loaded with the job, and `destroy!` follows with neither lock nor `reload`, so what
   `CreateTeamJob` saves in between is destroyed with the row. `delete_team_job.rb:47-48`: "If the team doesn't have any project or billing IDs
   we can just delete it". `DestroyedAfterItsProject` excepts exactly the deletions that loaded such a copy.
5. **A deleted rack stays in view** (`IRVController.js:318`). The id is stored where an array of ids is
   iterated (`RackSpace.js:636-638`: "each an array of rack ids"), and the characters of a UUID are nobody's ids. It leaves when all racks are sent again.
6. **A page that is sent the racks twice before it opens may never open**
   (`IRVController.js:1440`; line 539: `init` is "triggered when all initialisation data and rack images have loaded"). The images of both messages are
   listed, and those loaded before the second one are never counted.
7. **The flip of an empty rack space never ends** (`RackSpace.js:1034`), and its message stays: no rack
   completes the count the comment in line 1028 speaks of.
8. **A filter is active before any data has come** (`FilterBar.js:665`), and nothing passes it. `IRVController.js:2118`: "in these cases we should
   set activeFilter to false".
9. **What was deselected is selected again by the next live update** (`RackSpace.js:711`): the loop that shall "Remove any
   previously selected items that are no longer present" (line 700) takes `false` for a selection.
10. **Free spaces of a drag are removed from the wrong layer** (`Rack.js:504`): `evSpaceHidden` uses an id of
    `RACK_INFO_GFX` on `INFO_GFX`, where it may belong to the bar of a device. `RackSpace.js:206-207` keeps the layers apart.
11. **A device can be dropped in another rack** although "a device/chassis can be dragged only in its own
    rack" (`DragPolicy.js:3-4`): nothing enforces the policy. The server does not read the `rack_id` that is sent (`location.rb:169-171`): it
    moves the device to that U of its own rack.
12. **A double click is lost after a live update** (`IRVController.js:329-331`): `cancelDragging` clears the timer of the first
    click and leaves `clickAssigned` false, against the comment at 1799-1804.
13. **The arrangement of the split view ignores its pairs** (`RackSpace.js:1794-1795`): `front_and_rear` is read before it is
    assigned in line 1808, so `BOTH_VIEW_PAIR_PADDING` is never added.
14. **A list of presets undoes a save in the page** (`PresetManager.js:116-127`): the page asks for the list when it opens and at each reconnection. A preset
    that is saved meanwhile, and whose answer comes first, is replaced by the list's older copy; if it is new and selected, it
    disappears and the empty preset is loaded, which clears the metric. Lines 220-222 keep the change
    "to maintain synchonisation locally without re-requesting the presets from the server".
15. **The nearest point of a line is often not found** (`SimpleChart.js:791-793`): only the point where the binary search ends and its two
    neighbours are compared with the mouse. A line has, by the configuration, less than 2 pixels for each datum (`barChartMinDatumWidth`) and a
    radius of 10 (`lineDatumHoverRadius`), so a point further to the left or right may be nearer where the line is steep, and the tooltip is about another or
    none. Line 782: "finds the nearest datum to the mouse coordinates and displays the tooltip if within a particular distance".
    `HoverFindsTheDatum` says what holds: of the points next to the mouse none is missed.

Smaller observations, for whoever works on these files:

* *Scene.* `quickZoom` clamped at the largest scale sets the index of the preset to 0 (`RackSpace.js:1223-1224`). A change from both faces to
  one, after full data and before its images, halves the racks. A rebuild during a flip makes its count miss; `resetZoom` at the
  first scale announces the end of a zoom that still runs. `IRVController.js:655-661` names `this.loadMetrics` without calling it.
* *Mouse.* A drop may go to a chassis that an update replaced (the comment at `IRVController.js:1819-1821` knows of it).
* *Metrics and presets.* Each reconnection adds a `PresetManager`. A preset saved without a map takes the metric's map away when it is
  loaded (`PresetManager.js:246`); a late answer of the metric before stays until the next poll; a failed poll blanks the
  picture; `getSelectedPreset` reads an undefined name (`FilterBar.js:204-217`).
* *Selection.* An empty rack's selection is lost at the next poll. Racks that were discarded come back with their next update.
* *Combo box.* A list that is emptied while open keeps its last lit option, which Enter still chooses (230-232); the key Down after the mouse has
  left the lit option throws (327-335); a list dismissed within 100 ms of a key opens again.
* *Drawing.* `Metric.fadeIn` during a fade-out draws a second asset; a drag dropped before its first frame leaves its spaces. The spaces of a
  later drag share their region, and when they fade it is cleared and the space left behind is not drawn again (`RackSpaceObject.js:25-44`,
  `SimpleRenderer.js:460-461` and 502); `PictureIsCurrent` excepts that region. A live update leaves the objects it destroys in
  `RackSpace.highlighted` (720-739); the next move of the mouse deselects them and, with them, the new instances of their device (`RackObject.js:240-252`),
  also one that the chart's tooltip has highlighted meanwhile.
  The chart's pending mouse timer outlives the chart; one bar alone throws when its label is hovered.
* *Teams.* The lost answer of a role's change leaves a role that can be neither changed nor removed; `CreateTeamThenRoleJob` does not
  test `deleted_at`, which `create_team_job_spec.rb:44` expects of `CreateTeamJob`.

## 6. Not modelled, and why

* Rack occupancy: blade servers (`move_blade`), statuses, costs and metadata of devices, and
  data source maps beyond what makes a save raise.
* Accounts: sessions and tokens; `cloud_user_id` set by an administrator; the steps within a
  request before its commit (one request of one user does not race itself) and within `user.destroy!`, which is one
  transaction. A call that times out and is served later is served before the client learns of the timeout. That a second
  team of a single user can come is counted, not excluded.
* Teams: project or billing account set by an administrator; names, quotas and credits of a team.
* Live updates: one page of one user who may see every rack; a web process that dies between
  commit and broadcast (that change is lost until the next one); devices outside racks; the
  holding area. The websocket delivers in order while it lasts. A rack and
  what it holds is one version, since the page replaces it as a whole.
* A page in which `executeAll` never returns (`hung`) is a state of the model. The properties of the page
  except it, since the page is lost then; hazard `FunctionQueue.js:18` tells how it comes about.
* Scene: the arrangement of the view of a single rack, chassis outside racks, the thumbnail. Mouse: the rubber band
  that selects, blades, the hints that hover.
* Presets: a default preset (`default`, which the page never sets, or `data-preset`, which `show.html.erb` fills from a variable
  that no controller sets) is not selected when
  the list comes. A list that never comes is a request that failed, which nothing handles.
* Metrics: colours and gradients; the server's queries for values. The page of a device's metrics
  (`src/app/javascript/metrics`), whose state is one request at a time. Selection: whether a chassis can be seen from the face shown, the view modes.
* Combo box: scrolling, positions, the metric taken from the URL, metrics excluded from the list.
* Drawing: what an asset looks like (`Primitives.js`), labels, images of racks, the context menu's entries; charts of several series and values that
  are no numbers.
* Clusters and cluster types: the cache asks for what changed since its newest version. A change would be missed in two orders of events: a
  newer version of one type is stored alone before the older change of another was asked for, or a type failed to be saved while a newer one was
  saved; whether it is depends on how the cluster builder compares versions, which nothing in this repository fixes.
* Status changes, invoices, credits, key pairs, cloud statistics: one call each, nothing stored. `Ability` is a pure function
  that its unit tests enumerate. Tables, searches and presenters keep no state.

## 7. Plan

Done: racks and their registry, accounts, teams, live updates, the scene and the arrangement of racks, mouse and drags, metrics and presets,
selection, combo box, drawing and chart. What could follow:

1. Proofs: the types of `LiveUpdates`; the layers that have no callback
   in `RackDrawing`.
2. Composition of `Accounts` and `Teams` at `InsertTeam`, for two users and one team.
3. `RackMouse` over `RackView` in place of its whole-layout updates.
4. `ClusterTypes`, once the cluster builder's comparison of versions is fixed by a document.
