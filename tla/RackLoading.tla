----------------------------- MODULE RackLoading ------------------------------
(***************************************************************************)
(* Loading the images of racks.  Every image that is there, now or later,  *)
(* calls testLoadProgress, which draws the racks of an open page and opens *)
(* one that is not.  Progress stands for it: opening runs the queue, whose *)
(* messages load images in turn, on a page that is open by then.           *)
(***************************************************************************)
EXTENDS RackPage

CONSTANT Progress(_)   \* testLoadProgress

(* evAssetLoaded, n times.  Callbacks of earlier messages count too, and a count
   that has gone past the length of the list never meets it again: what waits to
   be drawn is lost. *)
AssetLoaded(page) ==
    LET counted == [page EXCEPT !.assetCount = @ + 1]
    IN Progress(IF page.late /\ counted.assetCount > Listing(page.assetList)
                THEN [counted EXCEPT !.lost = @ \cup Undrawn(page)] ELSE counted)
AssetsLoaded(page, n) ==
    FoldLeft(LAMBDA p, k : AssetLoaded(p), page, [k \in 1..n |-> k])

(* AssetManager.get for every image of a list, with evAssetLoaded. *)
Load(page, assetList, location) ==
    LET listed == {i \in Images : assetList[i] > 0}
        ready == {i \in listed : page.loader.cache[<<location, i>>] = "ready"}
        asked == FoldSet(LAMBDA i, loader : Get(loader, <<location, i>>, assetList[i]),
                         page.loader, listed)
    IN AssetsLoaded([page EXCEPT !.loader = asked],
                    SumFunctionOnSet(assetList, ready))

(* synchroniseChanges() *)
SynchroniseChanges(page) ==
    Load([page EXCEPT !.assetCount = 0], page.assetList, "primary")
(* fullRackDataReceived with initialiseRackDefs: the list of images grows by
   those of the message, and the racks of the model are replaced.  A page that
   is open then asks for the images a second time. *)
LostByFullData(page, msg) ==
    msg.stale
      \cup (IF page.modified # NoRack /\ msg.racks[page.modified.rack] # page.modified.version
            THEN {page.modified.rack} ELSE {})
      \cup (IF Broken(page, ImagesIn(msg.racks) \cup {i \in Images : page.assetList[i] > 0})
            THEN Racks ELSE {})

FullRackDataReceived(page, msg) ==
    LET images == Listed(ImagesIn(msg.racks))
        counted == [page EXCEPT !.assetCount = 0, !.resourceCount = @ + 1,
                                !.assetList = [i \in Images |-> images[i] + @[i]],
                                !.late = CallsDue(page), !.lost = LostByFullData(page, msg)]
        loading == Load(counted, images, "primary")
        placed == Progress([loading EXCEPT !.racks = msg.racks])
        twice == [placed EXCEPT !.late = @ \/ CallsDue(placed)]
        synchronised == IF placed.initialised THEN SynchroniseChanges(twice)
                        ELSE Progress(placed)
    IN [synchronised EXCEPT !.answers["templates"] = @ + 1]
===============================================================================
