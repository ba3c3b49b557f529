----------------------------- MODULE LiveUpdates ------------------------------
(***************************************************************************)
(* The racks of a user and the page that shows them, with what lies        *)
(* between: the after_commit hooks that broadcast each change, the jobs    *)
(* that read what they broadcast, the websocket, and the page's events.    *)
(*                                                                         *)
(* A job runs in the process of the request that caused it (perform_now),  *)
(* reads the database and only then sends: two jobs may send in the other  *)
(* order.  A change that nobody is connected to hear is lost; the page     *)
(* asks for everything when it connects again (all_racks_sync).            *)
(***************************************************************************)
EXTENDS RackView

CONSTANTS
    Processes,     \* web processes that broadcast
    Idle,          \* a process with nothing to broadcast
    InitialRacks,  \* the racks that are there when the page is opened
    MaxChanges,    \* bound: changes of racks and of roles
    MaxMishaps     \* bound: disconnections, zooms, failed images and polls

VARIABLES
    db,            \* db[r]: the committed version of rack r
    gone,          \* the racks that have been deleted
    jobs,          \* jobs[p]: the broadcast that process p is performing
    connected,     \* the page has its websocket
    channel,       \* messages on their way to the page
    page,
    changes, mishaps

vars == <<db, gone, jobs, connected, channel, page, changes, mishaps>>

Job == [action : {"added", "modified", "deleted"}, rack : Racks, read : BOOLEAN, version : Versions]
         \cup [action : {"latest_full_data"}, to : {"user", "socket"}, read : BOOLEAN,
               racks : [Racks -> Versions]]

ASSUME LiveUpdatesAssumption ==
    /\ InitialRacks \subseteq Racks /\ Idle \notin Job
    /\ MaxChanges \in Nat /\ MaxMishaps \in Nat

(* Every variable, and every field of the page, keeps its shape: no handler
   finds a record it cannot read. *)
TypeOK ==
    /\ db \in [Racks -> Versions] /\ gone \subseteq Racks
    /\ jobs \in [Processes -> Job \cup {Idle}]
    /\ connected \in BOOLEAN
    /\ channel \in Seq(Message)
    /\ page \in Page
    /\ changes \in 0..MaxChanges /\ mishaps \in 0..MaxMishaps

Init ==
    /\ db = [r \in Racks |-> IF r \in InitialRacks THEN 1 ELSE 0]
    /\ gone = {}
    /\ jobs = [p \in Processes |-> Idle]
    /\ connected = FALSE
    /\ channel = <<>>
    /\ page = NewPage
    /\ changes = 0 /\ mishaps = 0
-------------------------------------------------------------------------------
(* A rack, or what is in it, is committed as version v, and the after_commit
   hook begins to broadcast it. *)
Commit(p, r, v, action) ==
    /\ jobs[p] = Idle /\ changes < MaxChanges
    /\ db' = [db EXCEPT ![r] = v]
    /\ gone' = IF v = 0 THEN gone \cup {r} ELSE gone
    /\ jobs' = [jobs EXCEPT ![p] = [action |-> action, rack |-> r, read |-> FALSE, version |-> 0]]
    /\ changes' = changes + 1
    /\ UNCHANGED <<connected, channel, page, mishaps>>

AddRack(p, r) == db[r] = 0 /\ r \notin gone /\ Commit(p, r, 1, "added")
ModifyRack(p, r) == db[r] \in 1..(MaxVersion - 1) /\ Commit(p, r, db[r] + 1, "modified")
DeleteRack(p, r) == db[r] > 0 /\ Commit(p, r, 0, "deleted")

FullDataJob(to) == [action |-> "latest_full_data", to |-> to, read |-> FALSE,
                    racks |-> [r \in Racks |-> 0]]

(* A role of the user has been committed (TeamRole#broadcast_change). *)
ChangeRole(p) ==
    /\ jobs[p] = Idle /\ changes < MaxChanges
    /\ jobs' = [jobs EXCEPT ![p] = FullDataJob("user")]
    /\ changes' = changes + 1
    /\ UNCHANGED <<db, gone, connected, channel, page, mishaps>>

(* The subscription is confirmed and the page performs all_racks_sync. *)
Connect(p) ==
    /\ ~connected /\ jobs[p] = Idle
    /\ connected' = TRUE
    /\ jobs' = [jobs EXCEPT ![p] = FullDataJob("socket")]
    /\ UNCHANGED <<db, gone, channel, page, changes, mishaps>>

(* The job reads what it will send.  A rack that is gone by then makes it raise. *)
Read(p) ==
    /\ jobs[p] # Idle /\ ~jobs[p].read /\ jobs[p].action # "deleted"
    /\ LET job == jobs[p]
           full == [job EXCEPT !.read = TRUE, !.racks = db]
           change == IF db[job.rack] = 0 THEN Idle
                     ELSE [job EXCEPT !.read = TRUE, !.version = db[job.rack]]
       IN jobs' = [jobs EXCEPT ![p] = IF job.action = "latest_full_data" THEN full ELSE change]
    /\ UNCHANGED <<db, gone, connected, channel, page, changes, mishaps>>

(* For which racks a message of p is old news that no other job will correct. *)
Brings(job, r) == About(job, r) /\ (~job.read \/ VersionIn(job, r) = db[r])
StaleIn(p) == {r \in Racks : /\ About(jobs[p], r) /\ VersionIn(jobs[p], r) # db[r]
                             /\ \A q \in Processes \ {p} : jobs[q] # Idle => ~Brings(jobs[q], r)}

MessageOf(p) ==
    IF jobs[p].action = "latest_full_data"
    THEN [action |-> "latest_full_data", racks |-> jobs[p].racks, stale |-> StaleIn(p)]
    ELSE [action |-> jobs[p].action, rack |-> jobs[p].rack, version |-> jobs[p].version,
          stale |-> StaleIn(p)]

Send(p) ==
    /\ jobs[p] # Idle /\ (jobs[p].read \/ jobs[p].action = "deleted")
    /\ jobs' = [jobs EXCEPT ![p] = Idle]
    /\ channel' = IF connected THEN Append(channel, MessageOf(p)) ELSE channel
    /\ UNCHANGED <<db, gone, connected, page, changes, mishaps>>

Mishap == mishaps < MaxMishaps /\ mishaps' = mishaps + 1

(* The websocket breaks with all that is under way to the page. *)
Disconnect ==
    /\ connected /\ Mishap
    /\ connected' = FALSE
    /\ channel' = <<>>
    /\ jobs' = [p \in Processes |-> IF jobs[p] # Idle /\ jobs[p].action = "latest_full_data" /\ jobs[p].to = "socket"
                                    THEN Idle ELSE jobs[p]]
    /\ UNCHANGED <<db, gone, page, changes>>
-------------------------------------------------------------------------------
(* The events of the page. *)
Turn(next) == /\ ~page.hung
              /\ page' = next
              /\ UNCHANGED <<db, gone, jobs, connected, changes>>

Receive == /\ channel # <<>>
           /\ channel' = Tail(channel)
           /\ Turn(ReceiveMessage(page, Head(channel))) /\ UNCHANGED mishaps

Answer(kind) == /\ page.answers[kind] > 0
                /\ Turn(ReceiveAnswer(page, kind)) /\ UNCHANGED <<channel, mishaps>>

ImageLoads(path) == /\ path \in page.loader.loading
                    /\ Turn(ReceiveImage(page, path)) /\ UNCHANGED <<channel, mishaps>>

ImageFails(path) == /\ path \in page.loader.loading /\ Mishap
                    /\ Turn(FailImage(page, path)) /\ UNCHANGED channel

Poll == /\ page.initialised /\ Mishap
        /\ Turn(PollMetricTemplates(page)) /\ UNCHANGED channel

Zoom == /\ page.initialised /\ Mishap
        /\ \/ Turn(BeginZoom(page))
           \/ ~page.spaceZooming /\ Turn(ZoomComplete(page))
        /\ UNCHANGED channel

ResetZoom == /\ page.initialised /\ Mishap
             /\ Turn(BeginResetZoom(page)) \/ Turn(ZoomComplete(page))
             /\ UNCHANGED channel

ZoomEnds == /\ page.spaceZooming
            /\ Turn(EndZoom(page)) /\ UNCHANGED <<channel, mishaps>>

Timer == /\ page.timer
         /\ Turn(TimerFires(page)) /\ UNCHANGED <<channel, mishaps>>

Next ==
    \/ \E p \in Processes : \/ \E r \in Racks : AddRack(p, r) \/ ModifyRack(p, r) \/ DeleteRack(p, r)
                             \/ ChangeRole(p) \/ Connect(p) \/ Read(p) \/ Send(p)
    \/ Disconnect
    \/ Receive
    \/ \E kind \in Resources : Answer(kind)
    \/ \E path \in Paths : ImageLoads(path) \/ ImageFails(path)
    \/ Poll \/ Zoom \/ ResetZoom \/ ZoomEnds \/ Timer

Spec == Init /\ [][Next]_vars
-------------------------------------------------------------------------------
(* Nothing is under way any more, on the server or in the page. *)
Quiet ==
    /\ connected /\ page.initialised /\ ~page.hung
    /\ \A p \in Processes : jobs[p] = Idle
    /\ channel = <<>>
    /\ page.loader.loading = {} /\ \A kind \in Resources : page.answers[kind] = 0
    /\ ~page.zooming /\ ~page.spaceZooming /\ ~page.timer

(* When nothing is under way any more, the page shows each rack as the database
   has it.  Excepted are the racks whose newest change is known to be lost: it
   was overwritten while images were loading, or dealt with before an older one
   that was queued or sent late, or needs an image that has failed. *)
ViewIsCurrent == Quiet => \A r \in Racks \ (gone \cup page.lost) : page.shown[r] = db[r]

(* No update is left in the queue of a page that is doing nothing. *)
QueueIsEmptied == Quiet => page.queue = <<>>

(* Everything the page needs to open has arrived. *)
Arrived == /\ page.resourceCount >= NumResources
           /\ \A i \in Images : page.assetList[i] > 0 =>
                \E location \in {"primary", "secondary"} : page.loader.cache[<<location, i>>] = "ready"

(* The page opens when everything has arrived, but for two cases: the racks have
   been sent more than once by then, and an image has failed at both places. *)
SentAgain == page.resourceCount + SumFunction(page.answers) > NumResources
PageOpens == Arrived /\ ~page.initialised =>
                 SentAgain \/ \E i \in Images : GivenUp(page.loader, <<"secondary", i>>)

(* The page at rest is up to date and has nothing left to do. *)
Safety == TypeOK /\ ViewIsCurrent /\ QueueIsEmptied

===============================================================================
