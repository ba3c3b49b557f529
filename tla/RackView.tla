------------------------------- MODULE RackView -------------------------------
(***************************************************************************)
(* The page that shows the racks: IRVController with its FunctionQueue,    *)
(* the part of RackSpace that takes in changes, and the AssetManager.      *)
(*                                                                         *)
(* A page is a record.  Everything JavaScript does between two events is   *)
(* one operator from page to page, with the calls it nests: a callback of  *)
(* the loader tests the progress, which draws the racks or opens the page, *)
(* which runs the queue, which handles messages, which load images.        *)
(***************************************************************************)
EXTENDS RackPage

(* Loading on a page that is open: testLoadProgress draws. *)
Open == INSTANCE RackLoading WITH Progress <- Refresh

(* modifiedRackDataReceived.  change.deleted is the id itself; the loop over it
   sees the characters of the id. *)
LostByChange(page, msg, images) ==
    LET overwritten == {page.modified.rack} \cap Racks
        undrawn == /\ msg.action # "deleted"
                   /\ Broken(page, images) \/ (images = {} /\ page.assetCount # 0)
        lost == page.lost \cup overwritten \cup msg.stale \cup (IF undrawn THEN {msg.rack} ELSE {})
    IN IF msg.action = "deleted" \/ msg.rack \in msg.stale \/ undrawn THEN lost
       ELSE lost \ {msg.rack}

DeletedIds(msg) == IF msg.action = "deleted" THEN Letters ELSE {}

ModifiedRackDataReceived(page, msg) ==
    LET images == IF msg.action = "deleted" THEN {} ELSE ImagesOf[msg.rack][msg.version]
        noted == [page EXCEPT !.deleted = DeletedIds(msg), !.late = CallsDue(page),
                              !.lost = LostByChange(page, msg, images)]
        defined == [noted EXCEPT !.assetList = Listed(images),
                                 !.modified = [rack |-> msg.rack, version |-> msg.version]]
    IN CASE msg.action = "deleted" -> Open!SynchroniseChanges([noted EXCEPT !.modified = NoRack])
         [] msg.action # "deleted" /\ images = {} -> Refresh(defined)
         [] OTHER -> Open!SynchroniseChanges(defined)

(* The guards at the head of both handlers. *)
Postponed(page, msg) ==
    \/ page.zooming
    \/ (~page.initialised \/ page.spaceZooming) /\ msg.action # "latest_full_data"

HandleMessage(page, msg) ==
    IF msg.action = "latest_full_data" THEN Open!FullRackDataReceived(page, msg)
    ELSE ModifiedRackDataReceived(page, msg)

(* Mutant of ExecuteAll: the queue is taken from its end. *)
ExecuteFromTheEnd(page) ==
    IF \E k \in DOMAIN page.queue : Postponed(page, page.queue[k])
    THEN [page EXCEPT !.hung = TRUE]
    ELSE FoldLeft(HandleMessage, [page EXCEPT !.queue = <<>>], Reverse(page.queue))

(* FunctionQueue.executeAll: a function that postpones itself is put back into
   the queue that the loop waits to see empty. *)
ExecuteAll(page) ==
    IF \E k \in DOMAIN page.queue : Postponed(page, page.queue[k])
    THEN [page EXCEPT !.hung = TRUE]
    ELSE FoldLeft(HandleMessage, [page EXCEPT !.queue = <<>>], page.queue)

(* init *)
Initialise(page) == ExecuteAll([page EXCEPT !.initialised = TRUE, !.shown = page.racks])

(* testLoadProgress *)
TestLoadProgress(page) ==
    IF page.initialised THEN Refresh(page)
    ELSE IF AllLoaded(page) THEN Initialise([page EXCEPT !.assetCount = 0]) ELSE page

(* Loading on a page that may not be open yet. *)
Opening == INSTANCE RackLoading WITH Progress <- TestLoadProgress
-------------------------------------------------------------------------------
(* What msg says of r, and the queue after msg has gone past it: the messages
   that will be handled later although they are older. *)
About(msg, r) == \/ msg.action = "latest_full_data"
                 \/ msg.action \in {"added", "modified"} /\ msg.rack = r
VersionIn(msg, r) == IF msg.action = "latest_full_data" THEN msg.racks[r] ELSE msg.version
Overtaken(queue, msg) ==
    [k \in DOMAIN queue |->
        [queue[k] EXCEPT !.stale = @ \cup {r \in Racks :
            /\ About(queue[k], r) /\ About(msg, r)
            /\ VersionIn(queue[k], r) # VersionIn(msg, r)}]]

(* LiveUpdates.received.  Only a page that is not zooming lets a message pass
   the queue: before it is open, while the rack space zooms on its own, and until
   the timer set at the end of a zoom fires. *)
ReceiveMessage(page, msg) ==
    LET passed == IF page.zooming THEN page ELSE [page EXCEPT !.queue = Overtaken(@, msg)]
    IN CASE Postponed(page, msg) -> [page EXCEPT !.queue = Append(@, msg)]
         [] ~Postponed(page, msg) /\ page.initialised -> HandleMessage(passed, msg)
         [] OTHER -> Opening!FullRackDataReceived(passed, msg)

(* Mutant of ReceiveAnswer: the answer is counted and the progress not tested. *)
AnswerUntested(page, kind) ==
    [page EXCEPT !.answers[kind] = @ - 1, !.resourceCount = @ + 1]

(* The answers to the page's own requests: RBAC, recievedNonrackDeviceDefs
   (there are no such devices), receivedMetricTemplates. *)
ReceiveAnswer(page, kind) ==
    LET counted == [page EXCEPT !.answers[kind] = @ - 1, !.resourceCount = @ + 1]
        emptied == [counted EXCEPT !.assetList = NoAssets, !.late = CallsDue(page),
                       !.lost = IF page.assetCount = 0 THEN @ ELSE @ \cup Undrawn(page)]
    IN TestLoadProgress(IF kind = "nonrack" /\ page.initialised THEN emptied ELSE counted)

(* metricTemplatesPoller *)
PollMetricTemplates(page) ==
    [page EXCEPT !.resourceCount = @ - 1, !.answers["templates"] = @ + 1]

(* The load of an image ends well. *)
ReceiveImage(page, path) ==
    LET called == Opening!AssetsLoaded([page EXCEPT !.loader = Received(@, path)],
                               page.loader.calls[path])
    IN [called EXCEPT !.loader = NextLoad(@)]

(* evAssetFailed asks for the image at the second place; evAssetDoubleFailed
   takes it out of the list and does not test the progress. *)
FailImage(page, path) ==
    LET n == page.loader.calls[path]
        failed == [page EXCEPT !.loader = Failed(@, path)]
        scrapped == [failed EXCEPT !.assetList[path[2]] = IF @ > n THEN @ - n ELSE 0,
                                   !.lost = Racks]
    IN IF path[1] = "primary"
       THEN Opening!Load(failed, [NoAssets EXCEPT ![path[2]] = n], "secondary")
       ELSE scrapped

(* stepZoom and zoomToPreset: the rack space ignores a zoom during another one.
   resetZoom does not tell the controller that a zoom has begun. *)
BeginZoom(page) == [page EXCEPT !.zooming = TRUE, !.spaceZooming = TRUE]
BeginResetZoom(page) == [page EXCEPT !.spaceZooming = TRUE]
(* rackSpaceZoomComplete, also sent for a zoom that has nothing to do. *)
ZoomComplete(page) == [page EXCEPT !.zooming = FALSE, !.timer = TRUE]
EndZoom(page) == ZoomComplete([page EXCEPT !.spaceZooming = FALSE])

(* The timer that evZoomComplete has set. *)
TimerFires(page) == ExecuteAll([page EXCEPT !.timer = FALSE])
===============================================================================
