----------------------------- MODULE AssetManager -----------------------------
(***************************************************************************)
(* AssetManager.js: the loader of images behind the rack view.  It keeps   *)
(* what it has loaded, the callbacks that wait for a load, and a queue of  *)
(* loads that begin when fewer than Concurrent are under way.              *)
(*                                                                         *)
(* A loader is a record and an operation maps it to the next one.  The     *)
(* callbacks belong to the caller: calls[path] says how many are due when  *)
(* path is there, and a path that is ready calls back at once.             *)
(***************************************************************************)
EXTENDS Naturals, Sequences, FiniteSets

CONSTANTS
    Paths,         \* what can be loaded
    Concurrent     \* NUM_CONCURRENT_LOADS

Loader == [cache : [Paths -> {"none", "pending", "ready"}],
           calls : [Paths -> Nat], waiting : Seq(Paths), loading : SUBSET Paths]

EmptyLoader == [cache |-> [path \in Paths |-> "none"],
                calls |-> [path \in Paths |-> 0], waiting |-> <<>>, loading |-> {}]

(* getAsset: the head of the queue is fetched. *)
GetAsset(loader) == [loader EXCEPT !.loading = @ \cup {Head(loader.waiting)},
                                   !.waiting = Tail(@)]

(* get, n times in a row.  A path that has failed once stays pending: it is
   never fetched again, and the callbacks that are added wait in vain. *)
Get(loader, path, n) ==
    LET asked == [loader EXCEPT !.cache[path] = "pending", !.calls[path] = @ + n]
        queued == [asked EXCEPT !.waiting = Append(@, path)]
    IN CASE loader.cache[path] = "ready" -> loader
         [] loader.cache[path] = "pending" -> asked
         [] loader.cache[path] = "none" ->
                IF Cardinality(queued.loading) < Concurrent THEN GetAsset(queued) ELSE queued

(* assetReceived up to the callbacks, and what it does after them. *)
Received(loader, path) == [loader EXCEPT !.cache[path] = "ready", !.calls[path] = 0,
                                         !.loading = @ \ {path}]
NextLoad(loader) == IF loader.waiting = <<>> THEN loader ELSE GetAsset(loader)

(* assetFailed: neither the cache nor the queue is touched. *)
Failed(loader, path) == [loader EXCEPT !.calls[path] = 0, !.loading = @ \ {path}]

(* A load that has failed and that nobody will ever hear of again. *)
GivenUp(loader, path) ==
    /\ loader.cache[path] = "pending"
    /\ path \notin loader.loading
    /\ \A k \in DOMAIN loader.waiting : loader.waiting[k] # path

(* Nor does a queue move on that a failure has stopped. *)
Stuck(loader, path) ==
    loader.cache[path] = "pending" /\ (loader.loading = {} \/ GivenUp(loader, path))
===============================================================================
