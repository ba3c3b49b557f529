-------------------------------- MODULE Teams --------------------------------
(***************************************************************************)
(* One team, its project in the cloud, and the roles of its users: the     *)
(* background jobs CreateTeamJob (CreateTeamThenRoleJob for the team of a  *)
(* single user), CreateTeamRoleJob and DeleteTeamJob, and the requests of  *)
(* TeamRolesController, which run their jobs while the user waits.         *)
(*                                                                         *)
(* As in Accounts, a job reads the team's row when it starts, waits for    *)
(* the middleware and then writes what it was answered; GoodJob runs it    *)
(* again when its process dies.  The middleware is not part of the         *)
(* repository: Served says what can be met there.                          *)
(***************************************************************************)
EXTENDS Naturals, FiniteSets

CONSTANTS
  Users,         \* users who have a cloud id
  Owner,         \* the user of a single user team
  Roles,         \* VALID_ROLES
  Projects,      \* projects the cloud may make
  NoProject,     \* project_id is nil
  Absent,        \* team = Absent: not created yet
  Destroyed,     \* team = Destroyed: the row has been deleted
  NoJob,         \* jobs[s] = NoJob: the slot is free
  MaxAttempts,   \* attempts of retry_on (10 in the code)
  Room,          \* bound: Room[kind] unfinished jobs of a kind
  MaxRequests,   \* bound on the requests about roles and for a deletion
  MaxCrashes     \* bound on the processes that die

Row == [single : BOOLEAN, deleted : BOOLEAN, project : Projects \cup {NoProject},
        billing : BOOLEAN]
Kinds == {"create", "grant", "delete", "role"}
Slots == UNION {{kind} \X (1..Room[kind]) : kind \in Kinds}
Held == Users \X Roles                         \* a user's role
Call == [op : {"create", "delete"}, project : Projects \cup {NoProject}]
        \cup [op : {"add", "remove", "change"}, project : Projects, user : Users,
              old : Roles, new : Roles]
Job == [at : {"written", "queued", "read", "sent", "answered", "linked"},
        tries : 0..(MaxAttempts - 1), call : Call \cup {NoJob}]

ASSUME TeamsAssumption ==
  /\ Owner \in Users /\ "admin" \in Roles
  /\ MaxAttempts \in Nat \ {0} /\ MaxRequests \in Nat /\ MaxCrashes \in Nat
  /\ Room \in [Kinds -> Nat] /\ Room["create"] # 0 /\ Room["grant"] # 0
  /\ NoProject \notin Projects /\ Absent \notin Row /\ Destroyed \notin Row
  /\ Absent # Destroyed /\ NoJob \notin Job /\ NoJob \notin Call

VARIABLES
  team,      \* the team's row, Absent or Destroyed
  roles,     \* the rows of team_roles
  live,      \* the projects that exist in the cloud
  made,      \* all projects the cloud ever made
  granted,   \* the roles users have in projects
  jobs,      \* jobs[s]: the job or request in slot s, or NoJob
  requests,  \* requests about roles, or for the deletion, so far
  crashes,   \* processes that died so far
  noticed,   \* history: somebody was told that a request about a role failed
  gaveUp,    \* history: kinds of jobs that ended without doing their work
  lost,      \* history: an answer of the middleware was lost, or came to no one
  unlinked,  \* history: destroyed without the middleware although a creation
             \* was under way, or had come between the look and the deletion
  crossed    \* history: a request was made while another about its user was
             \* under way that had been made for another role

vars == <<team, roles, live, made, granted, jobs, requests, crashes, noticed,
          gaveUp, lost, unlinked, crossed>>
cloud == <<live, made, granted>>
history == <<noticed, gaveUp, lost, unlinked, crossed>>
---------------------------------------------------------------------------
Exists == team \in Row
Running(s) == jobs[s] # NoJob /\ jobs[s].at \notin {"written", "queued"}
At(s, step) == jobs[s] # NoJob /\ jobs[s].at = step
New(step) == [at |-> step, tries |-> 0, call |-> NoJob]
Free(kind) == {s \in Slots : s[1] = kind /\ jobs[s] = NoJob}
With(js, kind, step) == [js EXCEPT ![CHOOSE s \in Free(kind) : TRUE] = New(step)]
RoleOf(u) == {r \in Roles : <<u, r>> \in roles}

Init ==
  /\ team = Absent /\ roles = {} /\ live = {} /\ made = {} /\ granted = {}
  /\ jobs = [s \in Slots |-> NoJob]
  /\ requests = 0 /\ crashes = 0
  /\ noticed = FALSE /\ gaveUp = {} /\ lost = FALSE /\ unlinked = FALSE /\ crossed = FALSE

(* Teams: TeamsController and CreateSingleUserTeamJob *)

\* the row is written, with its only role if it is the team of a single user
CreateTeam ==
  /\ team = Absent
  /\ \E single \in BOOLEAN :
       /\ team' = [single |-> single, deleted |-> FALSE, project |-> NoProject,
                   billing |-> FALSE]
       /\ roles' = IF single THEN {<<Owner, "admin">>} ELSE {}
  /\ jobs' = With(jobs, "create", "written")
  /\ UNCHANGED <<cloud, requests, crashes, history>>

DeleteTeam ==
  /\ Exists /\ Free("delete") # {}
  /\ requests < MaxRequests /\ requests' = requests + 1
  /\ team' = [team EXCEPT !.deleted = TRUE]
  /\ jobs' = With(jobs, "delete", "written")
  /\ UNCHANGED <<roles, cloud, crashes, history>>

\* perform_later, with the enqueue_limit of DeleteTeamJob
Schedule(s) ==
  /\ At(s, "written")
  /\ jobs' = IF s[1] = "delete" /\ \E t \in Slots : t[1] = "delete" /\ At(t, "queued")
             THEN [jobs EXCEPT ![s] = NoJob]
             ELSE [jobs EXCEPT ![s].at = "queued"]
  /\ UNCHANGED <<team, roles, cloud, requests, crashes, history>>

Ends(s) == jobs' = [jobs EXCEPT ![s] = NoJob]
Goes(s, step, call) == jobs' = [jobs EXCEPT ![s].at = step, ![s].call = call]
Sends(s, call) == Goes(s, "sent", call)

\* mutant: a team that has its project needs no further answer
StartUnlinked(s) ==
  /\ s[1] = "create" /\ At(s, "queued")
  /\ CASE ~Exists -> Ends(s) /\ gaveUp' = gaveUp \cup {"create"}
       [] Exists /\ (team.deleted \/ team.project # NoProject) -> Ends(s) /\ UNCHANGED gaveUp
       [] OTHER -> Sends(s, [op |-> "create", project |-> team.project]) /\ UNCHANGED gaveUp
  /\ UNCHANGED <<team, roles, cloud, requests, crashes, noticed, lost, unlinked, crossed>>
\* CreateTeamJob looks for deleted_at, CreateTeamThenRoleJob does not
StartCreate(s) ==
  /\ s[1] = "create" /\ At(s, "queued")
  /\ CASE ~Exists -> Ends(s) /\ gaveUp' = gaveUp \cup {"create"}
       [] Exists /\ team.deleted /\ ~team.single -> Ends(s) /\ UNCHANGED gaveUp
       [] OTHER -> Sends(s, [op |-> "create", project |-> team.project]) /\ UNCHANGED gaveUp
  /\ UNCHANGED <<team, roles, cloud, requests, crashes, noticed, lost, unlinked, crossed>>

\* mutant: a team without a billing account is not in the cloud either
DeleteUnbilled(s) ==
  /\ s[1] = "delete" /\ At(s, "queued")
  /\ \A t \in Slots : t[1] = "delete" => ~Running(t)
  /\ IF Exists
     THEN /\ Goes(s, IF team.billing THEN "sent" ELSE "read",
                  [op |-> "delete", project |-> team.project])
          /\ UNCHANGED gaveUp
     ELSE Ends(s) /\ gaveUp' = gaveUp \cup {"delete"}
  /\ UNCHANGED <<team, roles, cloud, requests, crashes, noticed, lost, unlinked, crossed>>
\* mutant: a deletion that waits counts towards perform_limit
DeleteAlone(s) ==
  /\ \A t \in Slots : t[1] = "delete" /\ t # s => jobs[t] = NoJob
  /\ DeleteUnbilled(s)
\* One deletion runs at a time.  It loads the team, and looks at that copy:
\* one without ids needs no middleware.
StartDelete(s) ==
  /\ s[1] = "delete" /\ At(s, "queued")
  /\ \A t \in Slots : t[1] = "delete" => ~Running(t)
  /\ IF Exists
     THEN /\ Goes(s, IF team.project = NoProject /\ ~team.billing THEN "read" ELSE "sent",
                  [op |-> "delete", project |-> team.project])
          /\ UNCHANGED gaveUp
     ELSE Ends(s) /\ gaveUp' = gaveUp \cup {"delete"}
  /\ UNCHANGED <<team, roles, cloud, requests, crashes, noticed, lost, unlinked, crossed>>

\* destroy! of the copy, whatever the row has become since it was loaded
DestroyUnlinked(s) ==
  /\ s[1] = "delete" /\ At(s, "read")
  /\ team' = Destroyed /\ roles' = {} /\ Ends(s)
  /\ unlinked' = (\/ unlinked \/ (Exists /\ team.project # NoProject)
                  \/ \E t \in Slots : t[1] = "create" /\ jobs[t] # NoJob)
  /\ UNCHANGED <<cloud, requests, crashes, noticed, gaveUp, lost, crossed>>

\* CreateTeamRoleJob for the role CreateSingleUserTeamJob wrote
StartGrant(s) ==
  /\ s[1] = "grant" /\ At(s, "queued")
  /\ IF Exists /\ team.project # NoProject
     THEN /\ Sends(s, [op |-> "add", project |-> team.project, user |-> Owner,
                       old |-> "admin", new |-> "admin"])
          /\ UNCHANGED gaveUp
     ELSE Ends(s) /\ gaveUp' = gaveUp \cup {"grant"}
  /\ UNCHANGED <<team, roles, cloud, requests, crashes, noticed, lost, unlinked, crossed>>

(* Roles: TeamRolesController; nobody manages those of a single user team *)

Asks(s, op, u, old, new) ==
  jobs' = [jobs EXCEPT ![s] = [New("sent") EXCEPT !.call =
             [op |-> op, project |-> team.project, user |-> u, old |-> old, new |-> new]]]
\* a request about the user that began when u had another role, or none
BegunBefore(t, u) ==
  /\ t[1] = "role" /\ Running(t) /\ jobs[t].call.user = u
  /\ jobs[t].call.op = "add" \/ RoleOf(u) # {jobs[t].call.old}

RoleRequest ==
  /\ Exists /\ ~team.single /\ team.project # NoProject
  /\ requests < MaxRequests /\ Free("role") # {} /\ requests' = requests + 1
  /\ \E s \in {CHOOSE t \in Free("role") : TRUE}, u \in Users, new \in Roles :
       /\ \/ RoleOf(u) = {} /\ Asks(s, "add", u, new, new)
          \/ \E old \in RoleOf(u) : Asks(s, IF old = new THEN "remove" ELSE "change", u, old, new)
       /\ crossed' = (crossed \/ \E t \in Slots : BegunBefore(t, u))
  /\ UNCHANGED <<team, roles, cloud, crashes, noticed, gaveUp, lost, unlinked>>

(* The middleware *)

\* It makes a project unless it is given one, deletes one also when it is
\* gone, and knows the role it is to change or to revoke.
Served(call) ==
  CASE call.op = "create" ->
         /\ \E p \in IF call.project = NoProject THEN Projects \ made ELSE {call.project} :
              made' = made \cup {p} /\ live' = live \cup (IF p \in made THEN {} ELSE {p})
         /\ UNCHANGED granted
    [] call.op = "delete" ->
         /\ live' = live \ {call.project}
         /\ granted' = {g \in granted : g[1] # call.project}
         /\ UNCHANGED made
    [] OTHER ->
         /\ call.project \in live
         /\ call.op = "add" \/ <<call.project, call.user, call.old>> \in granted
         /\ granted' = (IF call.op = "add" THEN granted
                        ELSE granted \ {<<call.project, call.user, call.old>>})
                       \cup (IF call.op = "remove" THEN {}
                             ELSE {<<call.project, call.user, call.new>>})
         /\ UNCHANGED <<live, made>>

Answered(s, call) ==
  jobs' = [jobs EXCEPT ![s].at = "answered", ![s].call =
             IF call.op = "create" /\ call.project = NoProject
             THEN [call EXCEPT !.project = CHOOSE p \in made' : p \notin made] ELSE call]
Answer(s) ==
  /\ At(s, "sent") /\ Served(jobs[s].call) /\ Answered(s, jobs[s].call)
  /\ UNCHANGED <<team, roles, requests, crashes, history>>

\* mutant: an error is taken for an answer
FailUnnoticed(s) ==
  /\ At(s, "sent")
  /\ \/ UNCHANGED cloud /\ UNCHANGED lost
     \/ Served(jobs[s].call) /\ lost' = TRUE
  /\ jobs[s].call.op # "create"
  /\ jobs' = [jobs EXCEPT ![s].at = "answered"]
  /\ UNCHANGED <<team, roles, requests, crashes, noticed, gaveUp, unlinked, crossed>>

\* retry_on Faraday::Error and ActiveModel::ValidationError
TriedAgain(s) ==
  IF jobs[s].tries + 1 < MaxAttempts
  THEN /\ jobs' = [jobs EXCEPT ![s] = [New("queued") EXCEPT !.tries = jobs[s].tries + 1]]
       /\ UNCHANGED gaveUp
  ELSE Ends(s) /\ gaveUp' = gaveUp \cup {s[1]}

\* The middleware refuses, or its answer is lost.  What CreateTeamRoleJob
\* returns is shown to the user, and read by nobody in the background.
Fail(s) ==
  /\ At(s, "sent")
  /\ \/ UNCHANGED <<cloud, lost>>
     \/ Served(jobs[s].call) /\ lost' = TRUE
  /\ IF s[1] \in {"create", "delete"} THEN TriedAgain(s) /\ UNCHANGED noticed
     ELSE /\ Ends(s) /\ noticed' = (noticed \/ s[1] = "role")
          /\ gaveUp' = IF s[1] = "grant" THEN gaveUp \cup {"grant"} ELSE gaveUp
  /\ UNCHANGED <<team, roles, requests, crashes, unlinked, crossed>>

(* What is written after the answer *)

\* the project is saved before the billing account is looked at
LinkProject(s) ==
  /\ s[1] = "create" /\ At(s, "answered")
  /\ team' = IF Exists THEN [team EXCEPT !.project = jobs[s].call.project] ELSE team
  /\ \/ jobs' = [jobs EXCEPT ![s].at = "linked"] /\ UNCHANGED gaveUp
     \/ TriedAgain(s)
  /\ UNCHANGED <<roles, cloud, requests, crashes, noticed, lost, unlinked, crossed>>

LinkBilling(s) ==
  /\ s[1] = "create" /\ At(s, "linked")
  /\ team' = IF Exists THEN [team EXCEPT !.billing = TRUE] ELSE team
  /\ IF Exists /\ team.single /\ Free("grant") # {}
     THEN jobs' = [With(jobs, "grant", "queued") EXCEPT ![s] = NoJob] ELSE Ends(s)
  /\ UNCHANGED <<roles, cloud, requests, crashes, history>>

DestroyTeam(s) ==
  /\ s[1] = "delete" /\ At(s, "answered")
  /\ team' = Destroyed /\ roles' = {} /\ Ends(s)
  /\ UNCHANGED <<cloud, requests, crashes, history>>

GrantSaved(s) ==
  /\ s[1] = "grant" /\ At(s, "answered")
  /\ Ends(s)
  /\ UNCHANGED <<team, roles, cloud, requests, crashes, history>>

\* save, update or destroy! of the role; a user has one role in a team
SaveRole(s) ==
  LET call == jobs[s].call
      row == <<call.user, call.old>>
  IN /\ s[1] = "role" /\ At(s, "answered")
     /\ \/ /\ call.op = "add" /\ Exists /\ RoleOf(call.user) = {}
           /\ roles' = roles \cup {<<call.user, call.new>>} /\ UNCHANGED noticed
        \/ /\ call.op = "add" /\ (~Exists \/ RoleOf(call.user) # {})
           /\ noticed' = TRUE /\ UNCHANGED roles
        \/ /\ call.op = "remove"
           /\ roles' = {h \in roles : h[1] # call.user} /\ UNCHANGED noticed
        \/ /\ call.op = "change"
           /\ roles' = IF RoleOf(call.user) = {} THEN roles
                       ELSE {h \in roles : h[1] # call.user} \cup {<<call.user, call.new>>}
           /\ UNCHANGED noticed
     /\ Ends(s)
     /\ UNCHANGED <<team, cloud, requests, crashes, gaveUp, lost, unlinked, crossed>>

\* A job is run again from its start; a request ends, and so does what it
\* had not yet scheduled.
Crash(s) ==
  /\ crashes < MaxCrashes /\ crashes' = crashes + 1
  /\ jobs[s] # NoJob /\ jobs[s].at # "queued"
  /\ lost' = (lost \/ (s[1] # "delete" /\ Running(s)))
  /\ IF s[1] = "role" \/ At(s, "written")
     THEN /\ Ends(s) /\ gaveUp' = gaveUp \cup {s[1]}
          /\ noticed' = (noticed \/ s[1] = "role")
     ELSE /\ jobs' = [jobs EXCEPT ![s] = [New("queued") EXCEPT !.tries = jobs[s].tries]]
          /\ UNCHANGED <<gaveUp, noticed>>
  /\ UNCHANGED <<team, roles, cloud, requests, unlinked, crossed>>

Run(s) ==
  \/ StartCreate(s) \/ StartDelete(s) \/ StartGrant(s) \/ Answer(s) \/ Fail(s)
  \/ LinkProject(s) \/ LinkBilling(s) \/ DestroyUnlinked(s) \/ DestroyTeam(s)
  \/ GrantSaved(s) \/ SaveRole(s)
Next ==
  \/ CreateTeam \/ DeleteTeam \/ RoleRequest
  \/ \E s \in Slots : Schedule(s) \/ Run(s) \/ Crash(s)

Spec == Init /\ [][Next]_vars
\* A web request comes to its end and GoodJob takes up every job it stored;
\* what the properties need of that is said of creations and deletions.
FairSpec ==
  Spec /\ \A s \in Slots : s[1] \in {"create", "delete"} => WF_vars(Schedule(s) \/ Run(s))
---------------------------------------------------------------------------
TypeOK ==
  /\ team \in Row \cup {Absent, Destroyed} /\ roles \subseteq Held
  /\ live \subseteq made /\ made \subseteq Projects
  /\ granted \subseteq live \X Users \X Roles
  /\ jobs \in [Slots -> Job \cup {NoJob}]
  /\ requests \in 0..MaxRequests /\ crashes \in 0..MaxCrashes
  /\ gaveUp \subseteq Kinds
  /\ noticed \in BOOLEAN /\ lost \in BOOLEAN /\ unlinked \in BOOLEAN /\ crossed \in BOOLEAN

Quiet == \A s \in Slots : jobs[s] = NoJob

\* Requests about the roles of one user may overlap, and both sides are
\* written one after the other.  When all is done the cloud grants what
\* team_roles says, or somebody was told that a request failed.  The role of
\* a single user may be missing with nobody told; and so may the agreement
\* when a request was made while another one was still under way that had
\* been made for another role: once that role is back, the old request is
\* served, and the two write their rows in any order.
RolesAgree ==
  Quiet /\ Exists /\ team.project \in live /\ ~noticed /\ ~crossed =>
    \/ {<<g[2], g[3]>> : g \in {h \in granted : h[1] = team.project}} = roles
    \/ team.single /\ gaveUp # {}

\* The cloud keeps no project the team does not know, but for the two ways
\* the code leaves open: an answer was lost before the project was saved, or
\* the team was destroyed without the middleware, from a copy without ids,
\* although it was being created or had been since that copy was loaded.
ProjectsAreKnown ==
  Quiet /\ ~lost /\ ~unlinked => live \subseteq (IF Exists THEN {team.project} ELSE {})

\* Cloud and database agree on roles and projects when no job is left.
Safety == TypeOK /\ RolesAgree /\ ProjectsAreKnown

\* A team whose row names a project is only destroyed once that is gone,
\* but for a deletion that loaded the team before it had one: it neither
\* locks nor reloads the row, which may name a living project by then.  A
\* deletion that saw a project takes it along, whatever failed in between.
DestroyedAfterItsProject ==
  [][Exists /\ team' = Destroyed =>
       \/ team.project \notin live
       \/ \E s \in Slots : /\ s[1] = "delete" /\ Running(s)
                           /\ jobs[s].call.project = NoProject]_vars

\* A team gets its project and its billing account, is deleted, or its job
\* was lost or used up its attempts.
TeamSettles ==
  Exists ~> \/ team = Destroyed
            \/ Exists /\ (team.deleted \/ (team.project # NoProject /\ team.billing))
            \/ "create" \in gaveUp

\* A team that was marked is destroyed, unless its jobs were lost or gave up.
DeletionSettles == (Exists /\ team.deleted) ~> (team = Destroyed \/ "delete" \in gaveUp)
=============================================================================
