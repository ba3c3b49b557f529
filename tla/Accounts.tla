------------------------------- MODULE Accounts -------------------------------
(***************************************************************************)
(* One user, the account the cloud holds for them, and the background jobs *)
(* that keep the two together: UserSignupJob, UserUpdateJob and            *)
(* UserDeletionJob, and the jobs that schedule them or follow them.        *)
(*                                                                         *)
(* GoodJob runs jobs in processes of their own and runs a job again when   *)
(* its process dies.  A job reads the user's row when it starts, waits for *)
(* the middleware, and then writes the attributes in which its copy of the *)
(* row has changed: seen is that copy.                                     *)
(*                                                                         *)
(* The middleware is not part of the repository: Accepted and Respond say  *)
(* what the jobs can meet there.                                           *)
(***************************************************************************)
EXTENDS Integers, FiniteSets

CONSTANTS
    Passwords,     \* passwords a user may choose
    NoPassword,    \* nil
    Nobody,        \* user = Nobody: nobody has signed up yet
    Destroyed,     \* user = Destroyed: the row has been deleted
    NoAccount,     \* account = NoAccount: the cloud knows no such user
    NoJob,         \* jobs[s] = NoJob: the slot is free
    MaxAttempts,   \* attempts of retry_on (10 in the code)
    Room,          \* bound: Room[kind] unfinished jobs of a kind
    MaxChanges,    \* bound: how often the password is changed
    MaxCrashes     \* bound: how often a process dies

Row == [deleted : BOOLEAN,                                \* deleted_at is set
        cloud : BOOLEAN,                                  \* cloud_user_id is set
        password : Passwords,                             \* what encrypted_password digests
        foreign : Passwords \cup {NoPassword},            \* foreign_password
        pending : Passwords \cup {NoPassword}]            \* pending_foreign_password

Kinds == {"configCreated", "signup", "update", "delete", "team"}
Callers == {"signup", "update", "delete"}      \* the jobs that call the middleware
Slots == UNION {{kind} \X (1..Room[kind]) : kind \in Kinds}
(* What a job uses of the row it has read. *)
Seen(kind, row) ==
    CASE kind = "signup" -> [cloud |-> row.cloud, foreign |-> row.foreign]
      [] kind = "update" -> [foreign |-> row.foreign, pending |-> row.pending]
      [] kind = "delete" -> Nobody

Copies == {Nobody} \cup {Seen(kind, row) : kind \in {"signup", "update"}, row \in Row}

Job == [at : {"queued", "sent", "answered", "linked", "validated"},
        attempts : 0..(MaxAttempts - 1), seen : Copies]

ASSUME BoundsAssumption ==
    /\ MaxAttempts \in Nat \ {0} /\ MaxChanges \in Nat /\ MaxCrashes \in Nat
    /\ Room \in [Kinds -> Nat]
ASSUME DistinctAssumption ==
    /\ Nobody \notin Row /\ Destroyed \notin Row /\ Nobody # Destroyed
    /\ NoPassword \notin Passwords /\ NoJob \notin Job
    /\ NoAccount \notin Passwords

VARIABLES
    config,    \* there is a CloudServiceConfig
    user,      \* the user's committed row, Nobody or Destroyed
    account,   \* the password of the cloud's account, or NoAccount
    teams,     \* the single user teams of this user
    jobs,      \* jobs[s]: the job in slot s, or NoJob
    web,       \* the requests that have written a row and not yet scheduled its job
    gaveUp,    \* the kinds of job that were discarded or never scheduled
    changes,   \* how often the password has been changed
    crashes    \* how often a process has died

vars == <<config, user, account, teams, jobs, web, gaveUp, changes, crashes>>

(* Every variable keeps its shape, whatever a job finds when it comes back. *)
TypeOK ==
    /\ config \in BOOLEAN
    /\ user \in Row \cup {Nobody, Destroyed}
    /\ account \in Passwords \cup {NoAccount}
    /\ teams \in Nat
    /\ jobs \in [Slots -> Job \cup {NoJob}]
    /\ web \subseteq {"signup", "delete", "configCreated"}
    /\ gaveUp \subseteq Kinds
    /\ changes \in 0..MaxChanges
    /\ crashes \in 0..MaxCrashes

Init ==
    /\ config = FALSE
    /\ user = Nobody
    /\ account = NoAccount
    /\ teams = 0
    /\ jobs = [s \in Slots |-> NoJob]
    /\ web = {}
    /\ gaveUp = {}
    /\ changes = 0
    /\ crashes = 0

-----------------------------------------------------------------------------
Exists == user \in Row
At(s, step) == jobs[s] # NoJob /\ jobs[s].at = step
\* Mutant: a job that waits counts towards perform_limit.
Unfinished(s) == jobs[s] # NoJob
Running(s) == jobs[s] # NoJob /\ jobs[s].at # "queued"
QueuedJob == [at |-> "queued", attempts |-> 0, seen |-> Nobody]
SlotsOf(kind) == {s \in Slots : s[1] = kind}
FreeSlots(js, kind) == {s \in SlotsOf(kind) : js[s] = NoJob}
HasRoom(js, kind) == FreeSlots(js, kind) # {}

(* perform_later: one more job, in a free slot. *)
With(js, kind) == [js EXCEPT ![CHOOSE s \in FreeSlots(js, kind) : TRUE] = QueuedJob]

(* The job in slot s has done its work and left the jobs js.  GoodJob runs *)
(* it again when its process dies before that is recorded.                 *)
Ends(s, js) ==
    \/ /\ jobs' = [js EXCEPT ![s] = NoJob]
       /\ UNCHANGED crashes
    \/ /\ crashes < MaxCrashes
       /\ crashes' = crashes + 1
       /\ jobs' = [js EXCEPT ![s].at = "queued", ![s].seen = Nobody]

(* retry_on: the job is queued again until its attempts are used up. *)
IsTriedAgain(s) ==
    IF jobs[s].attempts + 1 < MaxAttempts
    THEN /\ jobs' = [jobs EXCEPT ![s] = [QueuedJob EXCEPT !.attempts = jobs[s].attempts + 1]]
         /\ UNCHANGED gaveUp
    ELSE /\ jobs' = [jobs EXCEPT ![s] = NoJob]
         /\ gaveUp' = gaveUp \cup {s[1]}

(* An error no retry_on names, and a job whose user is gone, are not tried again. *)
Discarded(s) ==
    /\ jobs' = [jobs EXCEPT ![s] = NoJob]
    /\ gaveUp' = gaveUp \cup {s[1]}

-----------------------------------------------------------------------------
(* Requests to the web application. *)

(* Devise's RegistrationsController#create saves the user, and only then   *)
(* looks for the config.                                                   *)
Register(p) ==
    /\ user = Nobody
    /\ user' = [deleted |-> FALSE, cloud |-> FALSE, password |-> p, foreign |-> p,
                pending |-> NoPassword]
    /\ web' = web \cup {"signup"}
    /\ UNCHANGED <<config, account, teams, jobs, gaveUp, changes, crashes>>

CreateConfig ==
    /\ ~config
    /\ config' = TRUE
    /\ web' = web \cup {"configCreated"}
    /\ UNCHANGED <<user, account, teams, jobs, gaveUp, changes, crashes>>

(* User#password=: where the password goes depends on cloud_user_id. *)
Changed(row, p) ==
    IF row.cloud THEN [row EXCEPT !.password = p, !.pending = p]
                 ELSE [row EXCEPT !.password = p, !.foreign = p]

(* The user changes their password, or an administrator does it for them.  *)
(* Only a change of pending_foreign_password schedules a job.              *)
ChangePassword(p) ==
    /\ Exists /\ changes < MaxChanges
    /\ changes' = changes + 1
    /\ user' = Changed(user, p)
    /\ IF config /\ user'.pending # user.pending
       THEN HasRoom(jobs, "update") /\ jobs' = With(jobs, "update")
       ELSE UNCHANGED jobs
    /\ UNCHANGED <<config, account, teams, web, gaveUp, crashes>>

(* UserServices::Delete marks the user; without a config it refuses. *)
DeleteUser ==
    /\ Exists /\ config
    /\ user' = [user EXCEPT !.deleted = TRUE]
    /\ web' = web \cup {"delete"}
    /\ UNCHANGED <<config, account, teams, jobs, gaveUp, changes, crashes>>

(* enqueue_limit: one UserDeletionJob may wait, beside one that runs. *)
IsOverEnqueueLimit(kind) == kind = "delete" /\ \E s \in SlotsOf(kind) : At(s, "queued")

(* The request schedules its job; a sign-up before there is a config needs *)
(* none, CloudServiceConfigCreatedJob will find the user.                  *)
Schedule(kind) ==
    /\ kind \in web
    /\ web' = web \ {kind}
    /\ IF (kind = "signup" /\ ~config) \/ IsOverEnqueueLimit(kind)
       THEN UNCHANGED jobs
       ELSE HasRoom(jobs, kind) /\ jobs' = With(jobs, kind)
    /\ UNCHANGED <<config, user, account, teams, gaveUp, changes, crashes>>

WebCrash(kind) ==
    /\ kind \in web /\ crashes < MaxCrashes
    /\ web' = web \ {kind}
    /\ gaveUp' = gaveUp \cup {kind}
    /\ crashes' = crashes + 1
    /\ UNCHANGED <<config, user, account, teams, jobs, changes>>

-----------------------------------------------------------------------------
(* The jobs. *)

(* Mutant: only users who have an account already. *)
SignUpLinkedUsers(s) ==
    /\ s[1] = "configCreated" /\ At(s, "queued")
    /\ IF Exists /\ user.cloud THEN HasRoom(jobs, "signup") /\ Ends(s, With(jobs, "signup"))
                               ELSE Ends(s, jobs)
    /\ UNCHANGED <<config, user, account, teams, web, gaveUp, changes>>

(* CloudServiceConfigCreatedJob schedules a sign-up for every user there is. *)
SignUpUsers(s) ==
    /\ s[1] = "configCreated" /\ At(s, "queued")
    /\ IF Exists THEN HasRoom(jobs, "signup") /\ Ends(s, With(jobs, "signup"))
                 ELSE Ends(s, jobs)
    /\ UNCHANGED <<config, user, account, teams, web, gaveUp, changes>>

(* Mutant: a sign-up that finds its user linked has nothing left to do. *)
DecisionStopsWhenLinked(kind, row) ==
    CASE kind = "signup" -> IF row.deleted \/ row.cloud THEN "stop" ELSE "send"
      [] kind = "update" -> IF row.cloud THEN "send" ELSE "stop"
      [] kind = "delete" -> IF row.cloud THEN "send" ELSE "skip"

(* What a job does with the row it has read: "send" a request to the       *)
(* middleware, "skip" the middleware and go on, or "stop".                 *)
Decision(kind, row) ==
    CASE kind = "signup" -> IF row.deleted THEN "stop" ELSE "send"
      [] kind = "update" -> IF row.cloud THEN "send" ELSE "stop"
      [] kind = "delete" -> IF row.cloud THEN "send" ELSE "skip"

(* perform reads the row.  One deletion runs at a time (perform_limit); a  *)
(* job whose user has been destroyed cannot be deserialised.               *)
Start(s) ==
    /\ s[1] \in Callers /\ At(s, "queued")
    /\ s[1] = "delete" => \A t \in SlotsOf("delete") : ~Running(t)
    /\ \/ Exists /\ Decision(s[1], user) = "stop" /\ Ends(s, jobs) /\ UNCHANGED gaveUp
       \/ /\ Exists /\ Decision(s[1], user) # "stop"
          /\ jobs' = [jobs EXCEPT ![s].seen = Seen(s[1], user), ![s].at =
                         IF Decision(s[1], user) = "send" THEN "sent" ELSE "answered"]
          /\ UNCHANGED <<gaveUp, crashes>>
       \/ ~Exists /\ Discarded(s) /\ UNCHANGED crashes
    /\ UNCHANGED <<config, user, account, teams, web, changes>>

(* The accounts a request the middleware accepts may leave.  It answers a  *)
(* sign-up for an account it has with that account, and has to know the    *)
(* account of an update.                                                   *)
Accepted(kind, row) ==
    CASE kind = "signup" -> IF account # NoAccount THEN {account}
                            ELSE {row.foreign} \ {NoPassword}
      [] kind = "update" -> IF account = NoAccount THEN {}
                            ELSE {IF row.pending = NoPassword THEN account ELSE row.pending}
      [] kind = "delete" -> {NoAccount}

(* The middleware serves the request and its answer arrives ... *)
Answer(s) ==
    /\ s[1] \in Callers /\ At(s, "sent")
    /\ account' \in Accepted(s[1], jobs[s].seen)
    /\ jobs' = [jobs EXCEPT ![s].at = "answered"]
    /\ UNCHANGED <<config, user, teams, web, gaveUp, changes, crashes>>

(* Mutant: without raise_error, a refusal is taken for an answer. *)
FailUnnoticed(s) ==
    /\ s[1] \in Callers /\ At(s, "sent")
    /\ jobs' = [jobs EXCEPT ![s].at = "answered"]
    /\ UNCHANGED <<config, user, account, teams, web, gaveUp, changes, crashes>>

(* ... or raises a Faraday::Error in the job: it was refused, or timed out *)
(* before it was served or after.                                          *)
Fail(s) ==
    /\ s[1] \in Callers /\ At(s, "sent")
    /\ account' \in {account} \cup Accepted(s[1], jobs[s].seen)
    /\ IsTriedAgain(s)
    /\ UNCHANGED <<config, user, teams, web, changes, crashes>>

(* Mutant: save! writes the whole copy, which nobody had asked to delete. *)
LinkedAsRead(row, seen) == [row EXCEPT !.cloud = TRUE, !.deleted = FALSE]

(* What save! writes of the row a job has read as seen: the attributes the *)
(* job changed.  An UPDATE of a row that is gone changes nothing.          *)
Linked(row, seen) == IF seen.cloud THEN row ELSE [row EXCEPT !.cloud = TRUE]

PasswordMoved(row, seen) ==
    [row EXCEPT !.foreign = IF seen.foreign # seen.pending THEN seen.pending ELSE @,
                !.pending = IF seen.pending # NoPassword THEN NoPassword ELSE @]

(* UserSignupJob: result.sync saves the cloud_user_id. *)
Link(s) ==
    /\ s[1] = "signup" /\ At(s, "answered")
    /\ user' = IF Exists THEN Linked(user, jobs[s].seen) ELSE user
    /\ jobs' = [jobs EXCEPT ![s].at = "linked", ![s].seen = Nobody]
    /\ UNCHANGED <<config, account, teams, web, gaveUp, changes, crashes>>

FollowWithTeam(s) ==
    /\ s[1] = "signup" /\ At(s, "linked")
    /\ HasRoom(jobs, "team")
    /\ Ends(s, With(jobs, "team"))
    /\ UNCHANGED <<config, user, account, teams, web, gaveUp, changes>>

(* UserUpdateJob: the pending password becomes the foreign one. *)
MovePassword(s) ==
    /\ s[1] = "update" /\ At(s, "answered")
    /\ user' = IF Exists THEN PasswordMoved(user, jobs[s].seen) ELSE user
    /\ Ends(s, jobs)
    /\ UNCHANGED <<config, account, teams, web, gaveUp, changes>>

(* UserDeletionJob: user.destroy!, with the user's roles but not their team. *)
DestroyUser(s) ==
    /\ s[1] = "delete" /\ At(s, "answered")
    /\ user' = Destroyed
    /\ Ends(s, jobs)
    /\ UNCHANGED <<config, account, teams, web, gaveUp, changes>>

(* CreateSingleUserTeamJob checks that the team's name is free and inserts *)
(* the team with the user's role; nothing in the database forbids a second *)
(* team of that name, and the role needs its user.                         *)
ValidateTeam(s) ==
    /\ s[1] = "team" /\ At(s, "queued")
    /\ IF Exists /\ teams = 0
       THEN jobs' = [jobs EXCEPT ![s].at = "validated"] /\ UNCHANGED gaveUp
       ELSE Discarded(s)
    /\ UNCHANGED <<config, user, account, teams, web, changes, crashes>>

InsertTeam(s) ==
    /\ s[1] = "team" /\ At(s, "validated")
    /\ IF Exists
       THEN teams' = teams + 1 /\ Ends(s, jobs) /\ UNCHANGED gaveUp
       ELSE UNCHANGED <<teams, crashes>> /\ Discarded(s)
    /\ UNCHANGED <<config, user, account, web, changes>>

(* The process of a running job dies: the job is run again from its start. *)
Crash(s) ==
    /\ Running(s) /\ crashes < MaxCrashes
    /\ jobs' = [jobs EXCEPT ![s].at = "queued", ![s].seen = Nobody]
    /\ crashes' = crashes + 1
    /\ UNCHANGED <<config, user, account, teams, web, gaveUp, changes>>

Run(s) ==
    \/ SignUpUsers(s) \/ Start(s) \/ Answer(s) \/ Fail(s)
    \/ Link(s) \/ FollowWithTeam(s) \/ MovePassword(s) \/ DestroyUser(s)
    \/ ValidateTeam(s) \/ InsertTeam(s)

Next ==
    \/ \E p \in Passwords : Register(p) \/ ChangePassword(p)
    \/ CreateConfig
    \/ DeleteUser
    \/ \E kind \in Kinds : Schedule(kind) \/ WebCrash(kind)
    \/ \E s \in Slots : Run(s) \/ Crash(s)

(* A request that has written its row comes to its end, GoodJob takes up   *)
(* every job it has stored, and a call ends within its timeout.            *)
Fairness ==
    /\ \A kind \in Kinds : WF_vars(Schedule(kind))
    /\ \A s \in Slots : WF_vars(Run(s))

Spec == Init /\ [][Next]_vars
FairSpec == Spec /\ Fairness

-----------------------------------------------------------------------------
(* Properties. *)

(* A user the application shows as linked to the cloud, and whom nobody    *)
(* has asked to delete, has an account there: an answer that failed, or a  *)
(* sign-up that was run twice, never leaves a link to nothing.             *)
LinkedAccountExists == Exists /\ user.cloud /\ ~user.deleted => account # NoAccount

(* A job saves a row it has read before a wait of up to a minute.  Still,  *)
(* no job undoes what a request wrote meanwhile: a deletion that has been  *)
(* asked for stays asked for, a link stays, the password the user logs in  *)
(* with is the last one chosen, and only a marked row is ever destroyed.   *)
StaleJobsKeepTheRow ==
    [][/\ Exists /\ user' \in Row =>
            /\ user.deleted => user'.deleted
            /\ user.cloud => user'.cloud
            /\ user'.password # user.password => changes' # changes
       /\ Exists /\ user' \notin Row => user' = Destroyed /\ user.deleted]_vars

(* Whichever is first, the sign-up or the config, some job signs the user  *)
(* up: RegistrationsController looks for the config after the user is      *)
(* saved, and CloudServiceConfigCreatedJob for users after the config is.  *)
SignupSettles ==
    Exists /\ config ~>
        \/ Exists /\ (user.cloud \/ user.deleted)
        \/ user = Destroyed
        \/ gaveUp \cap {"signup", "configCreated"} # {}

(* A user marked for deletion is destroyed in the end, unless the deletion *)
(* was never scheduled or its attempts are used up.                        *)
DeletionSettles == Exists /\ user.deleted ~> user = Destroyed \/ "delete" \in gaveUp

(* A user who has been linked gets their own team, unless they are deleted *)
(* or a job has given up.                                                  *)
TeamFollows ==
    Exists /\ user.cloud ~>
        \/ teams > 0 \/ user = Destroyed
        \/ Exists /\ user.deleted
        \/ gaveUp \cap {"signup", "team"} # {}

=============================================================================
