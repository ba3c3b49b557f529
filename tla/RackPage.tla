------------------------------- MODULE RackPage -------------------------------
(***************************************************************************)
(* The record of a page that shows the racks: what IRVController, its      *)
(* FunctionQueue, RackSpace and the AssetManager keep, and how the racks   *)
(* are drawn anew once the images of a change are there.                   *)
(*                                                                         *)
(* What a rack looks like is its version; 0 is a rack that is not there.   *)
(* page.late and page.lost are not in the code.  They record which racks   *)
(* the page is known to show wrongly, and are set where the code drops or  *)
(* mixes up the newest change of a rack.                                   *)
(***************************************************************************)
EXTENDS Naturals, Sequences, FiniteSets, SequencesExt

CONSTANTS
    Racks,         \* ids of racks
    Letters,       \* the characters ids are made of
    MaxVersion,    \* bound: versions of a rack
    Images,        \* files that a rack and its devices are drawn with
    ImagesOf,      \* ImagesOf[r][v]: those of version v of rack r
    Concurrent,    \* NUM_CONCURRENT_LOADS
    NumResources   \* NUM_RESOURCES: RBAC, non-rack devices, racks, metric templates

Paths == {"primary", "secondary"} \X Images

INSTANCE AssetManager

Versions == 0..MaxVersion
NoRack == [rack |-> "none", version |-> 0]
Resources == {"rbac", "nonrack", "templates"}

ASSUME RackViewAssumption ==
    /\ Letters \cap Racks = {} /\ "none" \notin Racks
    /\ MaxVersion \in Nat \ {0} /\ NumResources \in Nat /\ Concurrent \in Nat \ {0}
    /\ ImagesOf \in [Racks -> [1..MaxVersion -> SUBSET Images]]

(* Messages.  stale is part of lost: the racks for which the message holds
   something older than what the page will have been told. *)
FullData == [action : {"latest_full_data"}, racks : [Racks -> Versions], stale : SUBSET Racks]
RackChange == [action : {"added", "modified", "deleted"}, rack : Racks, version : Versions,
               stale : SUBSET Racks]
Message == FullData \cup RackChange

Page == [initialised : BOOLEAN,
         zooming : BOOLEAN,                     \* IRVController.zooming
         spaceZooming : BOOLEAN,                \* RackSpace.zooming
         timer : BOOLEAN,                       \* executeAll is due
         hung : BOOLEAN,                        \* executeAll does not return
         queue : Seq(Message),                  \* FunctionQueue
         resourceCount : Nat,
         assetCount : Nat,
         assetList : [Images -> Nat],           \* how often each image is listed
         racks : [Racks -> Versions],           \* model.racks
         shown : [Racks -> Versions],           \* the racks as last drawn
         modified : {NoRack} \cup [rack : Racks, version : 1..MaxVersion],   \* modifiedRackDefs
         deleted : SUBSET (Racks \cup Letters), \* what iterating changeSetRacks.deleted gives
         answers : [Resources -> Nat],          \* requests without an answer
         loader : Loader,
         late : BOOLEAN,                        \* images of earlier messages will still call back
         lost : SUBSET Racks]

NoAssets == [i \in Images |-> 0]
Listed(images) == [i \in Images |-> IF i \in images THEN 1 ELSE 0]
ImagesIn(racks) == UNION {ImagesOf[r][racks[r]] : r \in {q \in Racks : racks[q] > 0}}
Listing(assetList) == SumFunction(assetList)

(* IRVController.start, up to its first requests. *)
NewPage == [initialised |-> FALSE, zooming |-> FALSE, spaceZooming |-> FALSE, timer |-> FALSE,
            hung |-> FALSE, queue |-> <<>>, resourceCount |-> 0, assetCount |-> 0,
            assetList |-> NoAssets, racks |-> [r \in Racks |-> 0], shown |-> [r \in Racks |-> 0],
            modified |-> NoRack, deleted |-> {}, loader |-> EmptyLoader,
            late |-> FALSE, lost |-> {},
            answers |-> [k \in Resources |-> IF k = "templates" THEN 0 ELSE 1]]
-------------------------------------------------------------------------------
(* synchroniseRacks and resetRackSpace: the racks in change.deleted leave, the
   modified one comes or is replaced, and everything is drawn anew. *)
Synchronise(page) ==
    LET racks == [r \in Racks |-> CASE r = page.modified.rack -> page.modified.version
                                    [] r # page.modified.rack /\ r \in page.deleted -> 0
                                    [] OTHER -> page.racks[r]]
    IN [page EXCEPT !.racks = racks, !.shown = racks, !.modified = NoRack]

AllLoaded(page) == /\ page.resourceCount >= NumResources
                   /\ page.assetCount = Listing(page.assetList)

(* testLoadProgress once the page is initialised. *)
Refresh(page) ==
    IF AllLoaded(page) THEN Synchronise([page EXCEPT !.assetCount = 0]) ELSE page

(* What has come in and not been drawn. *)
Undrawn(page) == {r \in Racks : r = page.modified.rack \/ page.racks[r] # page.shown[r]}

(* Images that will still call back, and images that never will. *)
CallsDue(page) == \E path \in Paths : page.loader.calls[path] > 0
Broken(page, images) == \E i \in images : Stuck(page.loader, <<"primary", i>>)
===============================================================================
