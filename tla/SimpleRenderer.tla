---------------------------- MODULE SimpleRenderer ----------------------------
(* The canvas engine of the rack view: a layer keeps a directory of assets, the
   animations that run on them, and what the next frame has to clear and to
   draw again. A canvas is what is painted in each region; an asset has its
   region and two attributes, its opacity and the value it shows. The drawing
   primitives and the coordinates are abstracted to the region. *)
EXTENDS Integers, Sequences, SequencesExt, Functions, TLC

CONSTANTS Region,   \* the places of a canvas where an asset is drawn
          Frames,   \* frames of an animation
          Between   \* an attribute halfway through an animation

ASSUME FramesAssumption == Frames \in Nat \ {0}

NewLayer == [assetId |-> 0, assetDir |-> <<>>, anims |-> <<>>, clearList |-> {}, drawList |-> {},
             canvas |-> [r \in Region |-> {}], paused |-> FALSE, dead |-> FALSE]

Has(L, id) == id \in DOMAIN L.assetDir

Animated(L) == {L.anims[k].id : k \in DOMAIN L.anims}

(* What an asset leaves on the canvas: nothing when it is transparent. *)
Look(a) == IF a.alpha = 0 THEN {} ELSE {[alpha |-> a.alpha, val |-> a.val]}

Looks(L, ids, r) == UNION {Look(L.assetDir[id]) : id \in {i \in ids : L.assetDir[i].region = r}}

add(L, asset) ==
    LET id == L.assetId + 1
    IN  [L EXCEPT !.assetId = id, !.assetDir = (id :> asset) @@ @, !.drawList = @ \cup {id}]

stopAnim(L, id) == [L EXCEPT !.anims = SelectSeq(@, LAMBDA anim : anim.id # id)]

\* Mutant: an asset is removed while its animation goes on
RemoveLeavesAnim(L, id) ==
    IF Has(L, id)
    THEN [L EXCEPT !.clearList = @ \cup {L.assetDir[id].region}, !.assetDir = Restrict(@, (DOMAIN @) \ {id})]
    ELSE L

remove(L, id) ==
    IF Has(L, id)
    THEN [stopAnim(L, id) EXCEPT !.clearList = @ \cup {L.assetDir[id].region},
                                 !.assetDir = Restrict(@, (DOMAIN @) \ {id})]
    ELSE L

setAttributes(L, id, to) ==
    [L EXCEPT !.clearList = @ \cup {L.assetDir[id].region}, !.assetDir[id] = to @@ @, !.drawList = @ \cup {id}]

(* The attributes an animation would change; with none it is not valid. *)
Changing(L, id, to) == {i \in DOMAIN to : L.assetDir[id][i] # to[i]}

(* A valid animation takes the place of the one that runs on the asset, whose
   callback is lost. *)
animate(L, id, to, onComplete, owner) ==
    [L EXCEPT !.anims = Append(SelectSeq(@, LAMBDA anim : anim.id # id),
                               [id |-> id, frameIdx |-> 0, attributes |-> Restrict(to, Changing(L, id, to)),
                                onComplete |-> onComplete, owner |-> owner])]

(* One frame of the k-th animation, which leaves the list when it ends. *)
Step(L, k) ==
    LET anim == L.anims[k]
        last == anim.frameIdx + 1 = Frames
        now == IF last THEN anim.attributes ELSE [i \in DOMAIN anim.attributes |-> Between]
    IN  [setAttributes(L, anim.id, now) EXCEPT !.anims = IF last THEN RemoveAt(@, k) ELSE [@ EXCEPT ![k].frameIdx = @ + 1]]

(* The second half of a frame: the regions on the clear list are emptied, the
   assets on the draw list that still exist are drawn. *)
drawFrame(L) ==
    [L EXCEPT !.canvas = [r \in Region |-> (IF r \in L.clearList THEN {} ELSE @[r])
                                           \cup Looks(L, L.drawList \cap DOMAIN L.assetDir, r)],
              !.clearList = {}, !.drawList = {}]

redraw(L) ==
    [L EXCEPT !.canvas = [r \in Region |-> Looks(L, DOMAIN L.assetDir, r)], !.clearList = {}, !.drawList = {}]

(* Nothing is left for the next frames to change. *)
Settled(L) == L.anims = <<>> /\ L.clearList = {} /\ L.drawList = {} /\ ~L.paused

IsLayer(L) ==
    /\ DOMAIN L.assetDir \subseteq 1 .. L.assetId
    /\ Animated(L) \subseteq 1 .. L.assetId
    /\ L.clearList \subseteq Region
    /\ L.drawList \subseteq 1 .. L.assetId
    /\ \A k \in DOMAIN L.anims : L.anims[k].frameIdx \in 0 .. Frames - 1
==============================================================================
