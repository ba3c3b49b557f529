----------------------------- MODULE TeamsProofs -----------------------------
(***************************************************************************)
(* Theorems about Teams, for every number of jobs, attempts, crashes,      *)
(* users, roles and projects: a team is not destroyed while its project    *)
(* lives, unless the deletion loaded it before it had one, and cloud and   *)
(* database agree when nothing is under way.                               *)
(***************************************************************************)
EXTENDS Teams, TLAPS

(* A job that runs makes a call of its kind.                               *)
OpOf(kind) == CASE kind = "create" -> {"create"}
                [] kind = "delete" -> {"delete"}
                [] OTHER -> {"add", "remove", "change"}
OpsFit ==
  \A s \in Slots : Running(s) => jobs[s].call \in Call /\ jobs[s].call.op \in OpOf(s[1])

(* One creation for one team, and what its answer names is the project the *)
(* row has, if it has one.                                                 *)
OneCreation ==
  /\ team = Absent => \A s \in Slots : jobs[s] = NoJob
  /\ \A s, t \in Slots :
       s[1] = "create" /\ t[1] = "create" /\ jobs[s] # NoJob /\ jobs[t] # NoJob => s = t
  /\ \A s \in Slots : s[1] = "create" /\ Running(s) =>
       /\ At(s, "answered") \/ At(s, "linked") => jobs[s].call.project \in made
       /\ At(s, "sent") => jobs[s].call.project \in made \cup {NoProject}
       /\ Exists /\ team.project # NoProject => jobs[s].call.project = team.project
       /\ At(s, "linked") /\ Exists => team.project # NoProject

KnownProject ==
  Exists => /\ team.project # NoProject => team.project \in made
            /\ team.billing => team.project # NoProject

(* A deletion that is under way loaded a team without a project, or is     *)
(* that of the project in the row, and its answer means that it is gone.   *)
TrueDeletions ==
  \A s \in Slots : s[1] = "delete" /\ Running(s) /\ Exists =>
    \/ At(s, "read") /\ jobs[s].call.project = NoProject
    \/ /\ team.project # NoProject /\ jobs[s].call.project = team.project
       /\ At(s, "sent") \/ At(s, "answered")
       /\ At(s, "answered") => team.project \notin live

Tracked == TypeOK /\ OpsFit /\ OneCreation /\ KnownProject /\ TrueDeletions
---------------------------------------------------------------------------
LEMMA SlotKinds == \A s \in Slots : s[1] \in Kinds
BY DEF Slots, Kinds

LEMMA CallShape ==
  \A call \in Call :
    /\ call.op \in {"create", "delete"} =>
         /\ call.project \in Projects \cup {NoProject}
         /\ \A p \in Projects : /\ [call EXCEPT !.project = p] \in Call
                               /\ [call EXCEPT !.project = p].project = p
                               /\ [call EXCEPT !.project = p].op = call.op
    /\ call.op \notin {"create", "delete"} =>
         /\ call.project \in Projects /\ call.user \in Users
         /\ call.old \in Roles /\ call.new \in Roles
         /\ call.op \in {"add", "remove", "change"}
BY DEF Call

LEMMA JobShape ==
  ASSUME TypeOK, NEW s \in Slots, jobs[s] # NoJob
  PROVE  jobs[s] \in Job /\ jobs[s].tries \in 0..(MaxAttempts - 1)
BY DEF TypeOK, Job

LEMMA StepShape ==
  ASSUME NEW j \in Job, NEW step \in {"queued", "sent", "answered", "linked"}, NEW c \in Call
  PROVE  /\ [j EXCEPT !.at = step] \in Job \ {NoJob}
         /\ [j EXCEPT !.at = step].at = step /\ [j EXCEPT !.at = step].call = j.call
         /\ [j EXCEPT !.at = step, !.call = c] \in Job \ {NoJob}
         /\ [j EXCEPT !.at = step, !.call = c].at = step
         /\ [j EXCEPT !.at = step, !.call = c].call = c
BY TeamsAssumption DEF Job

LEMMA GoShape ==
  ASSUME TypeOK, NEW s \in Slots, jobs[s] # NoJob, NEW c \in Call,
         NEW step \in {"read", "sent"}, Goes(s, step, c)
  PROVE  \E x \in Job \ {NoJob} :
           x.at = step /\ x.call = c /\ jobs' = [jobs EXCEPT ![s] = x]
<1> DEFINE x == [jobs[s] EXCEPT !.at = step, !.call = c]
<1>1. jobs[s] \in Job BY JobShape
<1>2. x \in Job \ {NoJob} /\ x.at = step /\ x.call = c BY <1>1, TeamsAssumption DEF Job
<1>3. jobs' = [jobs EXCEPT ![s] = x] BY DEF Goes
<1> QED BY <1>2, <1>3

LEMMA SendShape ==
  ASSUME TypeOK, NEW s \in Slots, jobs[s] # NoJob, NEW c \in Call, Sends(s, c)
  PROVE  \E x \in Job \ {NoJob} :
           x.at = "sent" /\ x.call = c /\ jobs' = [jobs EXCEPT ![s] = x]
<1>1. Goes(s, "sent", c) BY DEF Sends
<1> QED BY <1>1, GoShape

LEMMA NewShape ==
  /\ \A step \in {"written", "queued", "sent"} : New(step) \in Job
  /\ \A c \in Call : [New("sent") EXCEPT !.call = c] \in Job
  /\ \A n \in 0..(MaxAttempts - 1) : [New("queued") EXCEPT !.tries = n] \in Job
BY TeamsAssumption DEF New, Job

\* A job put into a free slot changes no other.
LEMMA WithShape ==
  ASSUME TypeOK, NEW kind \in Kinds, Free(kind) # {},
         NEW step \in {"written", "queued"}
  PROVE  \E t \in Slots : /\ t[1] = kind /\ jobs[t] = NoJob
                          /\ With(jobs, kind, step) = [jobs EXCEPT ![t] = New(step)]
BY DEF Free, With

\* The cloud never forgets a project, and never makes one again.
Grows == made \subseteq made' /\ \A p \in made : p \notin live => p \notin live'

\* What makes a slot free, or makes it wait, disturbs nothing.
LEMMA Idle ==
  ASSUME Tracked, NEW s \in Slots, NEW x \in Job \cup {NoJob},
         jobs[s] # NoJob, x # NoJob => x.at \in {"written", "queued"},
         jobs' = [jobs EXCEPT ![s] = x], UNCHANGED team, Grows
  PROVE  OpsFit' /\ OneCreation' /\ KnownProject' /\ TrueDeletions'
<1> USE DEF Exists, Running, At, Grows
<1>1. OpsFit' BY DEF Tracked, OpsFit, TypeOK
<1>2. OneCreation' BY DEF Tracked, OneCreation, TypeOK
<1>3. KnownProject' BY DEF Tracked, KnownProject
<1>4. TrueDeletions' BY DEF Tracked, TrueDeletions, TypeOK, KnownProject
<1> QED BY <1>1, <1>2, <1>3, <1>4

\* A role that is granted, changed or revoked disturbs no project.
LEMMA RoleStep ==
  ASSUME Tracked, NEW s \in Slots, s[1] \in {"grant", "role"}, NEW x \in Job,
         x.call \in Call, x.call.op \in {"add", "remove", "change"},
         jobs' = [jobs EXCEPT ![s] = x], UNCHANGED <<team, live, made>>, team # Absent
  PROVE  OpsFit' /\ OneCreation' /\ KnownProject' /\ TrueDeletions'
<1> USE DEF Exists, Running, At
<1>1. OpsFit' BY DEF Tracked, OpsFit, TypeOK, OpOf
<1>2. OneCreation' BY DEF Tracked, OneCreation, TypeOK
<1>3. KnownProject' BY DEF Tracked, KnownProject
<1>4. TrueDeletions' BY DEF Tracked, TrueDeletions, TypeOK
<1> QED BY <1>1, <1>2, <1>3, <1>4

\* A job that failed waits again, or is gone.
Waits(s) ==
  \E x \in Job \cup {NoJob} : jobs' = [jobs EXCEPT ![s] = x] /\ (x # NoJob => x.at = "queued")
LEMMA TriedAgainShape ==
  ASSUME TypeOK, NEW s \in Slots, jobs[s] # NoJob, TriedAgain(s)
  PROVE  /\ gaveUp' \subseteq Kinds /\ Waits(s)
         /\ gaveUp' # {} \/ \E x \in Job : jobs' = [jobs EXCEPT ![s] = x] /\ x.at = "queued"
<1>1. jobs[s].tries \in 0..(MaxAttempts - 1) BY JobShape
<1>2. s[1] \in Kinds BY SlotKinds
<1>3. CASE jobs[s].tries + 1 < MaxAttempts
  <2> DEFINE x == [New("queued") EXCEPT !.tries = jobs[s].tries + 1]
  <2>1. jobs[s].tries + 1 \in 0..(MaxAttempts - 1) BY <1>1, <1>3, TeamsAssumption
  <2>2. x \in Job /\ x.at = "queued" BY <2>1 DEF New, Job
  <2>3. jobs' = [jobs EXCEPT ![s] = x] BY <1>3 DEF TriedAgain
  <2> HIDE DEF x
  <2> QED BY <1>3, <2>2, <2>3 DEF TriedAgain, TypeOK, Waits
<1>4. CASE ~(jobs[s].tries + 1 < MaxAttempts)
  <2>1. Waits(s) BY <1>4 DEF TriedAgain, Waits, Ends
  <2> QED BY <1>2, <1>4, <2>1 DEF TriedAgain, TypeOK
<1> QED BY <1>3, <1>4

\* What the middleware does.
LEMMA ServedShape ==
  ASSUME TypeOK, NEW c \in Call, Served(c)
  PROVE  /\ live' \subseteq made' /\ made' \subseteq Projects
         /\ granted' \subseteq live' \X Users \X Roles
         /\ Grows
         /\ c.op = "delete" => c.project \notin live'
         /\ c.op = "create" /\ c.project = NoProject =>
              (CHOOSE p \in made' : p \notin made) \in made' \ made
<1> USE DEF TypeOK, Grows
<1>1. CASE c.op = "create"
  <2>1. PICK p \in IF c.project = NoProject THEN Projects \ made ELSE {c.project} :
          made' = made \cup {p} /\ live' = live \cup (IF p \in made THEN {} ELSE {p})
    BY <1>1 DEF Served
  <2>2. p \in Projects BY <1>1, CallShape, <2>1
  <2>3. UNCHANGED granted BY <1>1 DEF Served
  <2>4. c.project = NoProject => p \in made' /\ p \notin made BY <2>1
  <2>5. live' \subseteq made' /\ made' \subseteq Projects /\ Grows BY <2>1, <2>2
  <2>6. granted' \subseteq live' \X Users \X Roles BY <2>1, <2>3
  <2> QED BY <1>1, <2>4, <2>5, <2>6
<1>2. CASE c.op = "delete"
  <2>1. /\ live' = live \ {c.project} /\ made' = made
        /\ granted' = {g \in granted : g[1] # c.project}
    BY <1>2 DEF Served
  <2>2. granted' \subseteq live' \X Users \X Roles BY <2>1
  <2> QED BY <1>2, <2>1, <2>2
<1>3. CASE c.op \notin {"create", "delete"}
  <2>1. UNCHANGED <<live, made>> /\ c.project \in live
        /\ granted' \subseteq granted \cup {<<c.project, c.user, c.new>>}
    BY <1>3 DEF Served
  <2>2. c.user \in Users /\ c.new \in Roles BY <1>3, CallShape
  <2>3. granted' \subseteq live' \X Users \X Roles BY <2>1, <2>2
  <2> QED BY <1>3, <2>1, <2>3
<1> QED BY <1>1, <1>2, <1>3
---------------------------------------------------------------------------
LEMMA InitTracked == ASSUME Init PROVE Tracked
<1> USE DEF Init, Running
<1>1. TypeOK
  <2>1. roles \subseteq Held /\ granted \subseteq live \X Users \X Roles /\ gaveUp \subseteq Kinds
    OBVIOUS
  <2>2. requests \in 0..MaxRequests /\ crashes \in 0..MaxCrashes BY TeamsAssumption
  <2> QED BY <2>1, <2>2 DEF TypeOK
<1>2. ~Exists BY TeamsAssumption DEF Exists
<1>3. OpsFit BY DEF OpsFit
<1>4. OneCreation BY DEF OneCreation
<1>5. KnownProject /\ TrueDeletions BY <1>2 DEF KnownProject, TrueDeletions
<1> QED BY <1>1, <1>3, <1>4, <1>5 DEF Tracked

\* The team is created once: no slot was in use before.
LEMMA CreateTeamTracked == ASSUME Tracked, CreateTeam PROVE Tracked'
<1> USE DEF Running, At
<1> TypeOK BY DEF Tracked
<1>1. \A s \in Slots : jobs[s] = NoJob BY DEF Tracked, OneCreation, CreateTeam
<1>2. <<"create", 1>> \in Slots BY TeamsAssumption DEF Slots, Kinds
<1>3. Free("create") # {} BY <1>1, <1>2 DEF Free
<1>4. PICK t \in Slots : /\ t[1] = "create"
                         /\ jobs' = [jobs EXCEPT ![t] = New("written")]
  BY <1>3, WithShape DEF CreateTeam, Kinds
<1>5. team' \in Row /\ team'.project = NoProject /\ ~team'.billing
  BY DEF CreateTeam, Row
<1>6. New("written") \in Job /\ New("written").at = "written" BY NewShape DEF New
<1>7. TypeOK'
  <2>1. roles' \subseteq Held
    BY TeamsAssumption DEF CreateTeam, Held
  <2> QED BY <2>1, <1>4, <1>5, <1>6 DEF CreateTeam, TypeOK, cloud, history
<1>8. \A s \in Slots : s # t => jobs'[s] = NoJob BY <1>1, <1>4 DEF TypeOK
<1>9. jobs'[t].at = "written" BY <1>4, <1>6 DEF TypeOK
<1>10. OpsFit' BY <1>8, <1>9 DEF OpsFit
<1>11. OneCreation'
  BY <1>5, <1>8, <1>9, TeamsAssumption DEF OneCreation
<1>12. KnownProject' BY <1>5 DEF KnownProject, Exists
<1>13. TrueDeletions' BY <1>8, <1>9 DEF TrueDeletions
<1> QED BY <1>7, <1>10, <1>11, <1>12, <1>13 DEF Tracked

LEMMA DeleteTeamTracked == ASSUME Tracked, DeleteTeam PROVE Tracked'
<1> USE DEF Running, At, Exists
<1> TypeOK BY DEF Tracked
<1>1. PICK t \in Slots : /\ t[1] = "delete" /\ jobs[t] = NoJob
                         /\ jobs' = [jobs EXCEPT ![t] = New("written")]
  BY WithShape DEF DeleteTeam, Kinds
<1>2. /\ team' \in Row /\ team \in Row
      /\ team'.project = team.project /\ team'.billing = team.billing
  BY DEF DeleteTeam, Row
<1>3. New("written") \in Job /\ New("written").at = "written" BY NewShape DEF New
<1>4. TypeOK'
  <2>1. requests' \in 0..MaxRequests BY TeamsAssumption DEF DeleteTeam, TypeOK
  <2>2. UNCHANGED <<roles, live, made, granted, crashes, noticed, gaveUp, lost, unlinked, crossed>>
    BY DEF DeleteTeam, cloud, history
  <2> QED BY <1>1, <1>2, <1>3, <2>1, <2>2 DEF TypeOK
<1>5. \A s \in Slots : s # t => jobs'[s] = jobs[s] BY <1>1 DEF TypeOK
<1>6. jobs'[t].at = "written" BY <1>1, <1>3 DEF TypeOK
<1>7. OpsFit' BY <1>5, <1>6 DEF Tracked, OpsFit
<1>8. OneCreation'
  BY <1>1, <1>2, <1>5, <1>6, TeamsAssumption DEF Tracked, OneCreation, DeleteTeam, cloud
<1>9. KnownProject' BY <1>2 DEF Tracked, KnownProject, DeleteTeam, cloud
<1>10. TrueDeletions'
  BY <1>2, <1>5, <1>6 DEF Tracked, TrueDeletions, DeleteTeam, cloud
<1> QED BY <1>4, <1>7, <1>8, <1>9, <1>10 DEF Tracked

LEMMA ScheduleTracked ==
  ASSUME Tracked, NEW s \in Slots, Schedule(s) PROVE Tracked'
<1> TypeOK BY DEF Tracked
<1>1. PICK x \in Job \cup {NoJob} :
        jobs' = [jobs EXCEPT ![s] = x] /\ (x # NoJob => x.at = "queued")
  <2>1. [jobs[s] EXCEPT !.at = "queued"] \in Job /\ [jobs[s] EXCEPT !.at = "queued"].at = "queued"
    <3>1. [op |-> "create", project |-> NoProject] \in Call BY DEF Call
    <3>2. jobs[s] \in Job BY JobShape DEF Schedule, At
    <3> QED BY <3>1, <3>2, StepShape
  <2> QED BY <2>1 DEF Schedule
<1>2. UNCHANGED <<team, roles, live, made, granted, requests, crashes, noticed, gaveUp, lost,
                  unlinked, crossed>> /\ jobs[s] # NoJob
  BY DEF Schedule, cloud, history, At
<1>3. TypeOK' BY <1>1, <1>2 DEF TypeOK
<1>4. OpsFit' /\ OneCreation' /\ KnownProject' /\ TrueDeletions' BY <1>1, <1>2, Idle DEF Grows
<1> QED BY <1>3, <1>4 DEF Tracked

LEMMA StartCreateTracked ==
  ASSUME Tracked, NEW s \in Slots, StartCreate(s) PROVE Tracked'
<1> USE DEF Running, At, Exists
<1> TypeOK BY DEF Tracked
<1>1. CASE Ends(s)
  <2>1. TypeOK' BY <1>1 DEF TypeOK, StartCreate, Ends, cloud, Kinds
  <2>2. OpsFit' /\ OneCreation' /\ KnownProject' /\ TrueDeletions'
    BY <1>1, Idle DEF StartCreate, Ends, cloud, Grows
  <2> QED BY <2>1, <2>2 DEF Tracked
<1>2. CASE Exists /\ Sends(s, [op |-> "create", project |-> team.project])
  <2> DEFINE c == [op |-> "create", project |-> team.project]
  <2>1. c \in Call BY <1>2 DEF Call, Row
  <2> HIDE DEF c
  <2>2. jobs[s] # NoJob BY DEF StartCreate
  <2>3. PICK x \in Job \ {NoJob} :
          x.at = "sent" /\ x.call = c /\ jobs' = [jobs EXCEPT ![s] = x]
    BY <1>2, <2>1, <2>2, SendShape DEF c
  <2>4. UNCHANGED <<team, live, made, roles, requests, crashes, noticed, lost, unlinked, crossed,
                    granted>>
        /\ gaveUp' \subseteq Kinds
    BY DEF StartCreate, cloud, TypeOK, Kinds
  <2>5. TypeOK' BY <2>3, <2>4 DEF TypeOK
  <2>6. \A t \in Slots : t # s => jobs'[t] = jobs[t] BY <2>3 DEF TypeOK
  <2>7. jobs'[s] = x BY <2>3 DEF TypeOK
  <2>8. s[1] = "create" /\ jobs[s] # NoJob BY DEF StartCreate
  <2>9. OpsFit' BY <2>1, <2>3, <2>6, <2>7, <2>8 DEF Tracked, OpsFit, OpOf, c
  <2>10. OneCreation'
    <3>1. team.project \in made \cup {NoProject}
      BY <1>2 DEF Tracked, KnownProject
    <3> QED BY <1>2, <2>3, <2>4, <2>6, <2>7, <2>8, <3>1 DEF Tracked, OneCreation, c
  <2>11. KnownProject' BY <2>4 DEF Tracked, KnownProject
  <2>12. TrueDeletions' BY <2>4, <2>6, <2>8 DEF Tracked, TrueDeletions
  <2> QED BY <2>5, <2>9, <2>10, <2>11, <2>12 DEF Tracked
<1> QED BY <1>1, <1>2 DEF StartCreate

LEMMA StartDeleteTracked ==
  ASSUME Tracked, NEW s \in Slots, StartDelete(s) PROVE Tracked'
<1> USE DEF Running, At, Exists
<1> TypeOK BY DEF Tracked
<1> DEFINE step == IF team.project = NoProject /\ ~team.billing THEN "read" ELSE "sent"
           c == [op |-> "delete", project |-> team.project]
<1>1. CASE ~Exists /\ Ends(s) /\ gaveUp' = gaveUp \cup {"delete"}
  <2>1. TypeOK' BY <1>1 DEF TypeOK, StartDelete, Ends, cloud, Kinds
  <2>2. OpsFit' /\ OneCreation' /\ KnownProject' /\ TrueDeletions'
    BY <1>1, Idle DEF StartDelete, Ends, cloud, Grows
  <2> QED BY <2>1, <2>2 DEF Tracked
<1>2. CASE Exists /\ Goes(s, step, c) /\ UNCHANGED gaveUp
  <2>1. c \in Call /\ c.op = "delete" /\ c.project = team.project BY <1>2 DEF Call, Row
  <2>2. jobs[s] # NoJob /\ step \in {"read", "sent"} BY DEF StartDelete
  <2> HIDE DEF c
  <2>3. PICK x \in Job \ {NoJob} :
          x.at = step /\ x.call = c /\ jobs' = [jobs EXCEPT ![s] = x]
    <3> HIDE DEF step
    <3> QED BY <1>2, <2>1, <2>2, GoShape
  <2>4. UNCHANGED <<team, live, made, granted, roles, requests, crashes, noticed, lost, unlinked,
                    crossed, gaveUp>>
    BY <1>2 DEF StartDelete, cloud
  <2>5. TypeOK' BY <2>3, <2>4 DEF TypeOK
  <2>6. \A t \in Slots : t # s => jobs'[t] = jobs[t] BY <2>3 DEF TypeOK
  <2>7. jobs'[s] = x BY <2>3 DEF TypeOK
  <2>8. s[1] = "delete" /\ jobs[s] # NoJob BY DEF StartDelete
  <2>9. OpsFit' BY <2>1, <2>3, <2>6, <2>7, <2>8 DEF Tracked, OpsFit, OpOf
  <2>10. OneCreation'
    BY <1>2, <2>4, <2>6, <2>8, TeamsAssumption DEF Tracked, OneCreation
  <2>11. KnownProject' BY <2>4 DEF Tracked, KnownProject
  <2>12. TrueDeletions'
    <3>1. step = "sent" => team.project # NoProject BY <1>2 DEF Tracked, KnownProject
    <3>2. step = "read" => team.project = NoProject OBVIOUS
    <3> HIDE DEF step
    <3>3. \/ At(s, "read")' /\ jobs'[s].call.project = NoProject
          \/ At(s, "sent")' /\ team.project # NoProject
             /\ jobs'[s].call.project = team.project
      BY <2>1, <2>2, <2>3, <2>7, <3>1, <3>2
    <3> QED BY <3>3, <2>4, <2>6 DEF Tracked, TrueDeletions
  <2> QED BY <2>5, <2>9, <2>10, <2>11, <2>12 DEF Tracked
<1> QED BY <1>1, <1>2 DEF StartDelete

LEMMA DestroyUnlinkedTracked ==
  ASSUME Tracked, NEW s \in Slots, DestroyUnlinked(s) PROVE Tracked'
<1> USE DEF Running, At, Exists
<1> TypeOK BY DEF Tracked
<1>1. /\ team' = Destroyed /\ roles' = {} /\ jobs' = [jobs EXCEPT ![s] = NoJob]
      /\ UNCHANGED <<live, made, granted, requests, crashes, noticed, gaveUp, lost, crossed>>
      /\ unlinked' \in BOOLEAN
  BY DEF DestroyUnlinked, Ends, cloud, TypeOK
<1>2. TypeOK' BY <1>1 DEF TypeOK
<1>3. \A t \in Slots : jobs'[t] = NoJob \/ jobs'[t] = jobs[t] BY <1>1 DEF TypeOK
<1>4. team' # Absent /\ team' \notin Row BY <1>1, TeamsAssumption
<1>5. OpsFit' BY <1>3 DEF Tracked, OpsFit
<1>6. OneCreation' BY <1>1, <1>3, <1>4 DEF Tracked, OneCreation
<1>7. KnownProject' /\ TrueDeletions' BY <1>4 DEF KnownProject, TrueDeletions
<1> QED BY <1>2, <1>5, <1>6, <1>7 DEF Tracked

LEMMA StartGrantTracked ==
  ASSUME Tracked, NEW s \in Slots, StartGrant(s) PROVE Tracked'
<1> TypeOK BY DEF Tracked
<1>1. UNCHANGED <<team, roles, live, made, granted, requests, crashes, noticed, lost, unlinked,
                  crossed>> /\ jobs[s] # NoJob /\ s[1] = "grant" /\ gaveUp' \subseteq Kinds
  BY DEF StartGrant, cloud, At, TypeOK, Kinds
<1>2. CASE Exists /\ team.project # NoProject
  <2> DEFINE c == [op |-> "add", project |-> team.project, user |-> Owner,
                   old |-> "admin", new |-> "admin"]
  <2>1. c \in Call /\ c.op = "add" BY <1>2, TeamsAssumption DEF Call, Row, Exists
  <2>2. Sends(s, c) BY <1>2 DEF StartGrant
  <2> HIDE DEF c
  <2>3. PICK x \in Job \ {NoJob} :
          x.at = "sent" /\ x.call = c /\ jobs' = [jobs EXCEPT ![s] = x]
    BY <1>1, <2>1, <2>2, SendShape
  <2>4. TypeOK' BY <1>1, <2>3 DEF TypeOK
  <2>5. team # Absent BY <1>2, TeamsAssumption DEF Exists
  <2>6. OpsFit' /\ OneCreation' /\ KnownProject' /\ TrueDeletions'
    BY <1>1, <2>1, <2>3, <2>5, RoleStep
  <2> QED BY <2>4, <2>6 DEF Tracked
<1>3. CASE ~(Exists /\ team.project # NoProject)
  <2>1. jobs' = [jobs EXCEPT ![s] = NoJob] BY <1>3 DEF StartGrant, Ends
  <2>2. TypeOK' BY <1>1, <2>1 DEF TypeOK
  <2>3. OpsFit' /\ OneCreation' /\ KnownProject' /\ TrueDeletions'
    BY <1>1, <2>1, Idle DEF Grows
  <2> QED BY <2>2, <2>3 DEF Tracked
<1> QED BY <1>2, <1>3

LEMMA RoleRequestTracked == ASSUME Tracked, RoleRequest PROVE Tracked'
<1> TypeOK BY DEF Tracked
<1>1. Exists /\ team.project \in Projects /\ team # Absent
  BY TeamsAssumption DEF RoleRequest, Exists, Row
<1>2. Free("role") # {} BY DEF RoleRequest
<1>3. (CHOOSE t \in Free("role") : TRUE) \in Free("role") BY <1>2
<1>4. PICK s \in Free("role"), u \in Users, new \in Roles, old \in Roles,
          op \in {"add", "remove", "change"} : Asks(s, op, u, old, new)
  BY <1>3 DEF RoleRequest, RoleOf
<1> DEFINE c == [op |-> op, project |-> team.project, user |-> u, old |-> old, new |-> new]
           x == [New("sent") EXCEPT !.call = c]
<1>5. c \in Call /\ c.op \in {"add", "remove", "change"} BY <1>1 DEF Call
<1>6. s \in Slots /\ s[1] = "role" BY DEF Free
<1>7. jobs' = [jobs EXCEPT ![s] = x] BY <1>4 DEF Asks
<1> HIDE DEF c
<1>8. x \in Job /\ x.call = c BY <1>5, TeamsAssumption DEF New, Job
<1> HIDE DEF x
<1>9. TypeOK'
  <2>1. requests' \in 0..MaxRequests BY TeamsAssumption DEF RoleRequest, TypeOK
  <2>3. crossed' \in BOOLEAN
    <3>1. crossed \in BOOLEAN BY DEF TypeOK
    <3>2. \E Q \in BOOLEAN : crossed' = (crossed \/ Q) BY <3>1 DEF RoleRequest
    <3> QED BY <3>1, <3>2
  <2>2. UNCHANGED <<team, roles, live, made, granted, crashes, noticed, gaveUp, lost, unlinked>>
    BY DEF RoleRequest, cloud
  <2> QED BY <1>6, <1>7, <1>8, <2>1, <2>2, <2>3 DEF TypeOK
<1>10. UNCHANGED <<team, live, made>> BY DEF RoleRequest, cloud
<1>11. OpsFit' /\ OneCreation' /\ KnownProject' /\ TrueDeletions'
  BY <1>1, <1>5, <1>6, <1>7, <1>8, <1>10, RoleStep
<1> QED BY <1>9, <1>11 DEF Tracked

LEMMA FailTracked == ASSUME Tracked, NEW s \in Slots, Fail(s) PROVE Tracked'
<1> TypeOK BY DEF Tracked
<1>1. jobs[s] # NoJob /\ jobs[s].call \in Call
  BY DEF Fail, At, Tracked, OpsFit, Running
<1>2. /\ Grows /\ live' \subseteq made' /\ made' \subseteq Projects /\ lost' \in BOOLEAN
      /\ granted' \subseteq live' \X Users \X Roles
  <2>1. CASE UNCHANGED <<cloud, lost>> BY <2>1 DEF cloud, Grows, TypeOK
  <2>2. CASE Served(jobs[s].call) /\ lost' = TRUE BY <1>1, <2>2, ServedShape
  <2> QED BY <2>1, <2>2 DEF Fail
<1>3. gaveUp' \subseteq Kinds /\ noticed' \in BOOLEAN
  <2>1. CASE s[1] \in {"create", "delete"}
    BY <1>1, <2>1, TriedAgainShape DEF Fail, TypeOK
  <2>2. CASE s[1] \notin {"create", "delete"} BY <2>2 DEF Fail, TypeOK, Kinds
  <2> QED BY <2>1, <2>2
<1>4. Waits(s)
  <2>1. CASE s[1] \in {"create", "delete"} BY <1>1, <2>1, TriedAgainShape DEF Fail
  <2>2. CASE s[1] \notin {"create", "delete"} BY <2>2 DEF Fail, Ends, Waits
  <2> QED BY <2>1, <2>2
<1>5. UNCHANGED <<team, roles, requests, crashes, unlinked, crossed>> BY DEF Fail
<1>6. TypeOK' BY <1>2, <1>3, <1>5, <1>4 DEF TypeOK, Waits
<1>7. OpsFit' /\ OneCreation' /\ KnownProject' /\ TrueDeletions'
  BY <1>1, <1>2, <1>5, <1>4, Idle DEF Waits
<1> QED BY <1>6, <1>7 DEF Tracked

LEMMA CrashTracked == ASSUME Tracked, NEW s \in Slots, Crash(s) PROVE Tracked'
<1> TypeOK BY DEF Tracked
<1>1. jobs[s] # NoJob /\ jobs[s].tries \in 0..(MaxAttempts - 1) BY JobShape DEF Crash
<1>2. gaveUp' \subseteq Kinds /\ noticed' \in BOOLEAN
  <2>1. gaveUp' \subseteq gaveUp \cup {s[1]} BY DEF Crash
  <2>2. ASSUME s[1] = "role" PROVE noticed' \in BOOLEAN BY <2>2 DEF Crash, TypeOK
  <2>3. ASSUME s[1] # "role" PROVE noticed' \in BOOLEAN BY <2>3 DEF Crash, TypeOK
  <2>4. noticed' \in BOOLEAN BY <2>2, <2>3
  <2> QED BY <2>1, <2>4, SlotKinds DEF TypeOK
<1>3. Waits(s)
  <2>1. CASE s[1] = "role" \/ At(s, "written") BY <2>1 DEF Crash, Ends, Waits
  <2>2. CASE ~(s[1] = "role" \/ At(s, "written"))
    <3> DEFINE x == [New("queued") EXCEPT !.tries = jobs[s].tries]
    <3>1. x \in Job /\ x.at = "queued" BY <1>1 DEF New, Job
    <3>2. jobs' = [jobs EXCEPT ![s] = x] BY <2>2 DEF Crash
    <3> QED BY <3>1, <3>2 DEF Waits
  <2> QED BY <2>1, <2>2
<1>4. crashes' \in 0..MaxCrashes /\ lost' \in BOOLEAN
  BY TeamsAssumption DEF Crash, TypeOK
<1>5. UNCHANGED <<team, roles, live, made, granted, requests, unlinked, crossed>>
  BY DEF Crash, cloud
<1>6. TypeOK' BY <1>2, <1>4, <1>5, <1>3 DEF TypeOK, Waits
<1>7. OpsFit' /\ OneCreation' /\ KnownProject' /\ TrueDeletions'
  BY <1>1, <1>5, <1>3, Idle DEF Grows, Waits
<1> QED BY <1>6, <1>7 DEF Tracked

LEMMA GrantSavedTracked ==
  ASSUME Tracked, NEW s \in Slots, GrantSaved(s) PROVE Tracked'
<1> TypeOK BY DEF Tracked
<1>1. jobs[s] # NoJob /\ jobs' = [jobs EXCEPT ![s] = NoJob] BY DEF GrantSaved, At, Ends
<1>2. UNCHANGED <<team, roles, live, made, granted, requests, crashes, noticed, gaveUp, lost,
                  unlinked, crossed>>
  BY DEF GrantSaved, cloud, history
<1>3. TypeOK' BY <1>1, <1>2 DEF TypeOK
<1>4. OpsFit' /\ OneCreation' /\ KnownProject' /\ TrueDeletions'
  BY <1>1, <1>2, Idle DEF Grows
<1> QED BY <1>3, <1>4 DEF Tracked

LEMMA SaveRoleTracked == ASSUME Tracked, NEW s \in Slots, SaveRole(s) PROVE Tracked'
<1> TypeOK BY DEF Tracked
<1>1. /\ jobs[s] # NoJob /\ s[1] = "role" /\ jobs[s].call \in Call
      /\ jobs[s].call.op \in {"add", "remove", "change"}
  BY DEF SaveRole, At, Tracked, OpsFit, Running, OpOf
<1>2. jobs' = [jobs EXCEPT ![s] = NoJob] BY DEF SaveRole, Ends
<1>3. UNCHANGED <<team, live, made, granted, requests, crashes, gaveUp, lost, unlinked, crossed>>
  BY DEF SaveRole, cloud
<1>4. jobs[s].call.user \in Users /\ jobs[s].call.new \in Roles BY <1>1, CallShape
<1>5. roles' \subseteq Held /\ noticed' \in BOOLEAN
  <2>1. noticed' = noticed \/ noticed' = TRUE BY DEF SaveRole
  <2>2. roles' \subseteq roles \cup {<<jobs[s].call.user, jobs[s].call.new>>}
    BY DEF SaveRole
  <2>3. <<jobs[s].call.user, jobs[s].call.new>> \in Held BY <1>4 DEF Held
  <2> QED BY <2>1, <2>2, <2>3 DEF TypeOK
<1>6. TypeOK' BY <1>2, <1>3, <1>5 DEF TypeOK
<1>7. OpsFit' /\ OneCreation' /\ KnownProject' /\ TrueDeletions'
  BY <1>1, <1>2, <1>3, Idle DEF Grows
<1> QED BY <1>6, <1>7 DEF Tracked

\* What a job keeps of an answer: the project that was made, if it had none.
LEMMA AnswerShape ==
  ASSUME Tracked, NEW s \in Slots, Answer(s)
  PROVE  \E d \in Call, x \in Job \ {NoJob} :
           /\ x.at = "answered" /\ x.call = d /\ jobs' = [jobs EXCEPT ![s] = x]
           /\ d.op = jobs[s].call.op
           /\ \/ d = jobs[s].call /\ ~(d.op = "create" /\ d.project = NoProject)
              \/ /\ jobs[s].call.op = "create" /\ jobs[s].call.project = NoProject
                 /\ d.project \in made' \ made
<1> TypeOK BY DEF Tracked
<1> DEFINE c == jobs[s].call
<1>1. jobs[s] \in Job /\ jobs[s] # NoJob /\ c \in Call
  BY JobShape DEF Answer, Tracked, OpsFit, At, Running
<1>2. /\ made' \subseteq Projects
      /\ c.op = "create" /\ c.project = NoProject =>
           (CHOOSE p \in made' : p \notin made) \in made' \ made
  BY <1>1, ServedShape DEF Answer
<1> DEFINE d == IF c.op = "create" /\ c.project = NoProject
                THEN [c EXCEPT !.project = CHOOSE p \in made' : p \notin made] ELSE c
<1>3. /\ d \in Call /\ d.op = c.op
      /\ c.op = "create" /\ c.project = NoProject => d.project \in made' \ made
      /\ ~(c.op = "create" /\ c.project = NoProject) => d = c
  <2>1. CASE c.op = "create" /\ c.project = NoProject
    <3>1. (CHOOSE p \in made' : p \notin made) \in Projects BY <1>2, <2>1
    <3> QED BY <1>1, <1>2, <2>1, <3>1, CallShape
  <2>2. CASE ~(c.op = "create" /\ c.project = NoProject) BY <1>1, <2>2
  <2> QED BY <2>1, <2>2
<1> DEFINE x == [jobs[s] EXCEPT !.at = "answered", !.call = d]
<1>4. jobs' = [jobs EXCEPT ![s].at = "answered", ![s].call = d]
  BY DEF Answer, Answered
<1> HIDE DEF d
<1>5. jobs' = [jobs EXCEPT ![s] = x] BY <1>4
<1>6. x \in Job \ {NoJob} /\ x.at = "answered" /\ x.call = d
  BY <1>1, <1>3, TeamsAssumption DEF Job
<1> QED BY <1>3, <1>5, <1>6

\* The answer to a deletion comes when the project is gone.
LEMMA AnswerTracked == ASSUME Tracked, NEW s \in Slots, Answer(s) PROVE Tracked'
<1> USE DEF Running, At, Exists
<1> TypeOK BY DEF Tracked
<1> DEFINE c == jobs[s].call
<1>1. jobs[s] \in Job /\ jobs[s] # NoJob /\ jobs[s].at = "sent" /\ c \in Call
      /\ c.op \in OpOf(s[1])
  BY JobShape DEF Answer, Tracked, OpsFit
<1>2. /\ Grows /\ live' \subseteq made' /\ made' \subseteq Projects
      /\ granted' \subseteq live' \X Users \X Roles
      /\ c.op = "delete" => c.project \notin live'
  BY <1>1, ServedShape DEF Answer
<1>3. PICK d \in Call, x \in Job \ {NoJob} :
        /\ x.at = "answered" /\ x.call = d /\ jobs' = [jobs EXCEPT ![s] = x]
        /\ d.op = c.op
        /\ c.op = "create" /\ c.project = NoProject => d.project \in made'
        /\ ~(c.op = "create" /\ c.project = NoProject) => d.project = c.project
  BY AnswerShape
<1>4. x \in Job /\ x # NoJob /\ x.at = "answered" /\ x.call = d
      /\ jobs' = [jobs EXCEPT ![s] = x]
  BY <1>3
<1>5. UNCHANGED <<team, roles, requests, crashes, noticed, gaveUp, lost, unlinked, crossed>>
  BY DEF Answer, history
<1>6. TypeOK' BY <1>2, <1>4, <1>5 DEF TypeOK
<1>7. (\A t \in Slots : t # s => jobs'[t] = jobs[t]) /\ jobs'[s] = x BY <1>4 DEF TypeOK
<1>8. OpsFit' BY <1>1, <1>3, <1>4, <1>7 DEF Tracked, OpsFit
<1>9. OneCreation'
  <2>1. s[1] = "create" => c.op = "create" BY <1>1 DEF OpOf
  <2>2. s[1] = "create" =>
          /\ c.project \in made \cup {NoProject}
          /\ Exists /\ team.project # NoProject => c.project = team.project
    BY <1>1 DEF Tracked, OneCreation
  <2>3. s[1] = "create" =>
          /\ d.project \in made'
          /\ Exists /\ team.project # NoProject => d.project = team.project
    BY <1>2, <1>3, <2>1, <2>2 DEF Grows
  <2> QED BY <1>1, <1>2, <1>4, <1>5, <1>7, <2>3 DEF Tracked, OneCreation, Grows
<1>10. KnownProject' BY <1>2, <1>5 DEF Tracked, KnownProject, Grows
<1>11. TrueDeletions'
  <2>1. s[1] = "delete" => c.op = "delete" BY <1>1 DEF OpOf
  <2>2. Exists /\ team.project # NoProject => team.project \in made
    BY DEF Tracked, KnownProject
  <2> QED BY <1>1, <1>2, <1>3, <1>4, <1>5, <1>7, <2>1, <2>2 DEF Tracked, TrueDeletions, Grows
<1> QED BY <1>6, <1>8, <1>9, <1>10, <1>11 DEF Tracked

LEMMA LinkProjectTracked ==
  ASSUME Tracked, NEW s \in Slots, LinkProject(s) PROVE Tracked'
<1> USE DEF Running, At, Exists
<1> TypeOK BY DEF Tracked
<1>1. /\ jobs[s] \in Job /\ jobs[s] # NoJob /\ s[1] = "create" /\ jobs[s].call \in Call
      /\ jobs[s].at = "answered" /\ jobs[s].call.project \in made /\ jobs[s].call.project \in Projects
      /\ Exists /\ team.project # NoProject => jobs[s].call.project = team.project
  BY JobShape DEF LinkProject, Tracked, OpsFit, OneCreation, TypeOK
<1>2. UNCHANGED <<roles, live, made, granted, requests, crashes, noticed, lost, unlinked, crossed>>
  BY DEF LinkProject, cloud
<1> DEFINE y == [jobs[s] EXCEPT !.at = "linked"]
<1>3. jobs' = [jobs EXCEPT ![s] = y] \/ Waits(s)
  BY <1>1, TriedAgainShape DEF LinkProject
<1>4. y \in Job /\ y.at = "linked" /\ y.call = jobs[s].call BY <1>1 DEF Job
<1> HIDE DEF y
<1>5. PICK x \in Job \cup {NoJob} :
        /\ jobs' = [jobs EXCEPT ![s] = x]
        /\ (x # NoJob => x.at = "queued" \/ (x.at = "linked" /\ x.call = jobs[s].call))
  BY <1>3, <1>4 DEF Waits
<1>6. gaveUp' \subseteq Kinds
  <2>1. CASE UNCHANGED gaveUp BY <2>1 DEF TypeOK
  <2>2. CASE TriedAgain(s) BY <1>1, <2>2, TriedAgainShape
  <2> QED BY <2>1, <2>2 DEF LinkProject
<1>7. /\ team \in Row => /\ team' \in Row /\ team'.project = jobs[s].call.project
                         /\ team'.billing = team.billing
      /\ team \notin Row => team' = team
  BY <1>1 DEF LinkProject, Row
<1>8. NoProject \notin Projects BY TeamsAssumption
<1>9. TypeOK' BY <1>2, <1>5, <1>6, <1>7 DEF TypeOK
<1>10. (\A t \in Slots : t # s => jobs'[t] = jobs[t]) /\ jobs'[s] = x BY <1>5 DEF TypeOK
<1>11. OpsFit' BY <1>1, <1>5, <1>10 DEF Tracked, OpsFit
<1>12. OneCreation'
  <2>1. team # Absent BY <1>1 DEF Tracked, OneCreation
  <2>2. team' # Absent BY <1>7, <2>1, TeamsAssumption
  <2> QED BY <1>1, <1>2, <1>5, <1>7, <1>8, <1>10, <2>2 DEF Tracked, OneCreation
<1>13. KnownProject' BY <1>1, <1>2, <1>7, <1>8 DEF KnownProject
<1>14. TrueDeletions'
  BY <1>1, <1>2, <1>7, <1>10 DEF Tracked, TrueDeletions
<1> QED BY <1>9, <1>11, <1>12, <1>13, <1>14 DEF Tracked

LEMMA LinkBillingTracked ==
  ASSUME Tracked, NEW s \in Slots, LinkBilling(s) PROVE Tracked'
<1> USE DEF Running, At, Exists
<1> TypeOK BY DEF Tracked
<1>1. /\ jobs[s] # NoJob /\ s[1] = "create" /\ jobs[s].at = "linked"
      /\ Exists => team.project # NoProject
  BY DEF LinkBilling, Tracked, OneCreation
<1>2. UNCHANGED <<roles, live, made, granted, requests, crashes, noticed, gaveUp, lost, unlinked,
                  crossed>>
  BY DEF LinkBilling, cloud, history
<1>3. /\ jobs' \in [Slots -> Job \cup {NoJob}]
      /\ jobs'[s] = NoJob
      /\ \A t \in Slots : t # s /\ jobs'[t] # jobs[t] =>
           t[1] = "grant" /\ jobs'[t] # NoJob /\ jobs'[t].at = "queued"
  <2>1. CASE Exists /\ team.single /\ Free("grant") # {}
    <3>1. PICK t \in Slots : /\ t[1] = "grant" /\ jobs[t] = NoJob
                             /\ With(jobs, "grant", "queued") = [jobs EXCEPT ![t] = New("queued")]
      BY <2>1, WithShape DEF Kinds
    <3>2. jobs' = [[jobs EXCEPT ![t] = New("queued")] EXCEPT ![s] = NoJob]
      BY <2>1, <3>1 DEF LinkBilling
    <3>3. New("queued") \in Job /\ New("queued").at = "queued" /\ New("queued") # NoJob
      BY NewShape, TeamsAssumption DEF New
    <3> QED BY <1>1, <3>1, <3>2, <3>3 DEF TypeOK
  <2>2. CASE Ends(s) BY <2>2 DEF Ends, TypeOK
  <2> QED BY <2>1, <2>2 DEF LinkBilling
<1>4. /\ team \in Row => /\ team' \in Row /\ team'.project = team.project
      /\ team \notin Row => team' = team
  BY DEF LinkBilling, Row
<1>5. TypeOK' BY <1>2, <1>3, <1>4 DEF TypeOK
<1>6. OpsFit' BY <1>3 DEF Tracked, OpsFit
<1>7. OneCreation'
  <2>1. team # Absent /\ team' # Absent
    BY <1>1, <1>4, TeamsAssumption DEF Tracked, OneCreation
  <2> QED BY <1>2, <1>3, <1>4, <2>1 DEF Tracked, OneCreation
<1>8. KnownProject' BY <1>1, <1>2, <1>4 DEF Tracked, KnownProject
<1>9. TrueDeletions' BY <1>2, <1>3, <1>4 DEF Tracked, TrueDeletions
<1> QED BY <1>5, <1>6, <1>7, <1>8, <1>9 DEF Tracked

LEMMA DestroyTeamTracked ==
  ASSUME Tracked, NEW s \in Slots, DestroyTeam(s) PROVE Tracked'
<1> USE DEF Running, At, Exists
<1> TypeOK BY DEF Tracked
<1>1. /\ team' = Destroyed /\ roles' = {} /\ jobs' = [jobs EXCEPT ![s] = NoJob]
      /\ UNCHANGED <<live, made, granted, requests, crashes, noticed, gaveUp, lost, unlinked,
                     crossed>>
  BY DEF DestroyTeam, Ends, cloud, history
<1>2. TypeOK' BY <1>1 DEF TypeOK
<1>3. \A t \in Slots : jobs'[t] = NoJob \/ jobs'[t] = jobs[t] BY <1>1 DEF TypeOK
<1>4. team' # Absent /\ team' \notin Row BY <1>1, TeamsAssumption
<1>5. OpsFit' BY <1>3 DEF Tracked, OpsFit
<1>6. OneCreation' BY <1>1, <1>3, <1>4 DEF Tracked, OneCreation
<1>7. KnownProject' /\ TrueDeletions' BY <1>4 DEF KnownProject, TrueDeletions
<1> QED BY <1>2, <1>5, <1>6, <1>7 DEF Tracked
---------------------------------------------------------------------------
LEMMA TrackedStep == ASSUME Tracked, [Next]_vars PROVE Tracked'
<1>1. CASE UNCHANGED vars
  <2>1. UNCHANGED <<team, roles, live, made, granted, jobs, requests, crashes, noticed, gaveUp,
                    lost, unlinked, crossed>>
    BY <1>1 DEF vars
  <2>2. TypeOK' BY <2>1 DEF Tracked, TypeOK
  <2>3. OpsFit' BY <2>1 DEF Tracked, OpsFit, Running
  <2>4. OneCreation' BY <2>1 DEF Tracked, OneCreation, Running, At, Exists
  <2>5. KnownProject' BY <2>1 DEF Tracked, KnownProject, Exists
  <2>6. TrueDeletions' BY <2>1 DEF Tracked, TrueDeletions, Running, At, Exists
  <2> QED BY <2>2, <2>3, <2>4, <2>5, <2>6 DEF Tracked
<1>2. CASE CreateTeam BY <1>2, CreateTeamTracked
<1>3. CASE DeleteTeam BY <1>3, DeleteTeamTracked
<1>4. CASE RoleRequest BY <1>4, RoleRequestTracked
<1>5. ASSUME NEW s \in Slots, Schedule(s) \/ Run(s) \/ Crash(s) PROVE Tracked'
  <2>1. CASE Schedule(s) BY <2>1, ScheduleTracked
  <2>2. CASE Crash(s) BY <2>2, CrashTracked
  <2>3. CASE Run(s)
    BY <2>3, StartCreateTracked, StartDeleteTracked, StartGrantTracked, AnswerTracked, FailTracked,
       LinkProjectTracked, LinkBillingTracked, DestroyUnlinkedTracked, DestroyTeamTracked,
       GrantSavedTracked, SaveRoleTracked DEF Run
  <2> QED BY <1>5, <2>1, <2>2, <2>3
<1> QED BY <1>1, <1>2, <1>3, <1>4, <1>5 DEF Next

(***************************************************************************)
(* A team's row goes only when the project it names is gone from the       *)
(* cloud, whatever jobs cross and whichever processes die: DeleteTeamJob   *)
(* destroys the team after the middleware answered for the project the     *)
(* row still has (delete_team_job.rb:73-80), unless the job loaded the row *)
(* before it had a project: it then destroys the team whatever was saved   *)
(* there since (delete_team_job.rb:49-52).                                 *)
(***************************************************************************)
THEOREM TeamOutlivesItsProject == Spec => DestroyedAfterItsProject
<1>1. Init => Tracked BY InitTracked
<1>2. Tracked /\ [Next]_vars => Tracked' BY TrackedStep
<1> DEFINE Unaware == \E s \in Slots : /\ s[1] = "delete" /\ Running(s)
                                       /\ jobs[s].call.project = NoProject
<1>3. Tracked /\ [Next]_vars =>
        [Exists /\ team' = Destroyed => team.project \notin live \/ Unaware]_vars
  <2> SUFFICES ASSUME Tracked, Next, Exists, team' = Destroyed
               PROVE  team.project \notin live \/ Unaware
    OBVIOUS
  <2>1. team \in Row /\ team # Destroyed BY TeamsAssumption DEF Exists
  <2>2. PICK s \in Slots : DestroyUnlinked(s) \/ DestroyTeam(s)
    <3>1. CreateTeam => team' \in Row BY DEF CreateTeam, Row
    <3>2. DeleteTeam => team' \in Row BY DEF DeleteTeam, Exists, Row
    <3>3. RoleRequest => UNCHANGED team BY DEF RoleRequest
    <3>4. team' \notin Row /\ team' # team BY <2>1, TeamsAssumption
    <3>5. PICK s \in Slots : Schedule(s) \/ Run(s) \/ Crash(s)
      BY <3>1, <3>2, <3>3, <3>4 DEF Next
    <3>6. ~Schedule(s) /\ ~Crash(s) BY <3>4 DEF Schedule, Crash
    <3>7. ~StartCreate(s) /\ ~StartDelete(s) /\ ~StartGrant(s)
      BY <3>4 DEF StartCreate, StartDelete, StartGrant
    <3>8. ~Answer(s) /\ ~Fail(s) /\ ~GrantSaved(s) /\ ~SaveRole(s)
      BY <3>4 DEF Answer, Fail, GrantSaved, SaveRole
    <3>9. ~LinkProject(s)
      <4>1. LinkProject(s) => jobs[s].call.project \in Projects
        BY DEF LinkProject, Tracked, TypeOK, OneCreation, Running, At
      <4>2. LinkProject(s) => team' = [team EXCEPT !.project = jobs[s].call.project]
        BY <2>1 DEF LinkProject, Exists
      <4> QED BY <2>1, <3>4, <4>1, <4>2 DEF Row
    <3>10. ~LinkBilling(s)
      <4>1. LinkBilling(s) => team' = [team EXCEPT !.billing = TRUE]
        BY <2>1 DEF LinkBilling, Exists
      <4> QED BY <2>1, <3>4, <4>1 DEF Row
    <3> QED BY <3>5, <3>6, <3>7, <3>8, <3>9, <3>10 DEF Run
  <2>3. s[1] = "delete" /\ Running(s) /\ (At(s, "read") \/ At(s, "answered"))
    BY <2>2 DEF DestroyUnlinked, DestroyTeam, Running, At
  <2>4. CASE At(s, "read") BY <2>3, <2>4 DEF Tracked, TrueDeletions, At
  <2>5. CASE At(s, "answered") BY <2>3, <2>5 DEF Tracked, TrueDeletions, At
  <2> QED BY <2>3, <2>4, <2>5
<1> QED BY <1>1, <1>2, <1>3, PTL DEF Spec, DestroyedAfterItsProject

(* Every state of Teams has the shape TypeOK gives it.                     *)
THEOREM TeamsTypeCorrect == Spec => []TypeOK
<1>1. Init => Tracked BY InitTracked
<1>2. Tracked /\ [Next]_vars => Tracked' BY TrackedStep
<1>3. Tracked => TypeOK BY DEF Tracked
<1> QED BY <1>1, <1>2, <1>3, PTL DEF Spec
---------------------------------------------------------------------------
(***************************************************************************)
(* Agreement.  ProjectsAreKnown and RolesAgree speak of the moment when no *)
(* job is left; what leads there follows each call until its answer has    *)
(* been written.                                                           *)
(***************************************************************************)

\* A project that lives is in the row, or in the answer that is about to be
\* written there; and once the team is gone no creation makes one.
NoStrays ==
  ~lost /\ ~unlinked =>
    /\ \A p \in live : Exists /\ \/ team.project = p
                                 \/ \E s \in Slots : /\ s[1] = "create" /\ At(s, "answered")
                                                     /\ jobs[s].call.project = p
    /\ ~Exists => \A s \in Slots : s[1] = "create" /\ Running(s) =>
                    jobs[s].call.project \in made \ live

\* Roles are granted in the team's project, by the calls made for it.
CallsKnown ==
  \A s \in Slots : s[1] \in {"grant", "role"} /\ Running(s) =>
    /\ At(s, "sent") \/ At(s, "answered")
    /\ Exists => team.project # NoProject /\ jobs[s].call.project = team.project
    /\ s[1] = "grant" => jobs[s].call.op = "add" /\ jobs[s].call.user = Owner
                           /\ jobs[s].call.new = "admin"
    /\ jobs[s].call.op = "change" => jobs[s].call.old # jobs[s].call.new
GrantsKnown ==
  /\ team = Absent => made = {}
  /\ Exists => \A g \in granted : g[1] = team.project /\ g[1] # NoProject

\* The only role of a single user's team is granted, given up, or still to
\* be granted.
Sole == <<team.project, Owner, "admin">>
SingleRole ==
  Exists /\ team.single =>
    /\ roles = {<<Owner, "admin">>}
    /\ \A s \in Slots : s[1] = "role" => jobs[s] = NoJob
    /\ granted \subseteq {Sole}
    /\ \A s \in Slots : s[1] = "grant" /\ At(s, "answered") /\ team.project \in live =>
         Sole \in granted
    /\ \/ gaveUp # {}
       \/ \E s \in Slots : s[1] \in {"create", "grant"} /\ jobs[s] # NoJob
       \/ team.project \in live => Sole \in granted

\* Requests about a user that are under way at the same time were made for
\* the same role: one of them is answered at most, and while its row is not
\* written that is what tells the cloud and the table apart.
About(s, u) == s[1] = "role" /\ Running(s) /\ jobs[s].call.user = u
GrantOf(u) == {r \in Roles : <<team.project, u, r>> \in granted}
SameRound(u) ==
  \A s, t \in Slots : About(s, u) /\ About(t, u) =>
    \/ s = t
    \/ /\ jobs[s].call.op # "add" /\ jobs[t].call.op # "add"
       /\ jobs[s].call.old = jobs[t].call.old
Settled(u) ==
  /\ \A s \in Slots : About(s, u) => At(s, "sent")
  /\ GrantOf(u) = RoleOf(u)
  /\ RoleOf(u) = {} \/ \E r \in Roles : RoleOf(u) = {r}
  /\ \A s \in Slots : About(s, u) /\ jobs[s].call.op = "add" => RoleOf(u) = {}
AnsweredFirst(s, u) ==
  LET call == jobs[s].call
  IN /\ About(s, u) /\ At(s, "answered")
     /\ \A t \in Slots : About(t, u) /\ t # s => At(t, "sent")
     /\ RoleOf(u) = IF call.op = "add" THEN {} ELSE {call.old}
     /\ GrantOf(u) = IF call.op = "remove" THEN {} ELSE {call.new}
InStep(u) == SameRound(u) /\ (Settled(u) \/ \E s \in Slots : AnsweredFirst(s, u))
SharedRoles ==
  Exists /\ ~team.single =>
    /\ \A s \in Slots : s[1] = "grant" => jobs[s] = NoJob
    /\ team.project = NoProject => roles = {}
    /\ ~noticed /\ ~crossed /\ team.project \in live => \A u \in Users : InStep(u)

Agreed == NoStrays /\ CallsKnown /\ GrantsKnown /\ SingleRole /\ SharedRoles
---------------------------------------------------------------------------
\* The row stays, with its project, or stays away.
SameTeam ==
  /\ (team \in Row) <=> (team' \in Row)
  /\ team \in Row => team'.project = team.project /\ team'.single = team.single
  /\ team' = Absent => team = Absent

\* What happens to a slot without touching what the invariant follows: it is
\* filled or emptied, or a call about the project is sent.
Moved(s) ==
  /\ Running(s)' => /\ s[1] \in {"create", "delete"} /\ Exists
                    /\ jobs'[s].at # "answered"
  /\ s[1] = "create" /\ At(s, "answered") => lost'
  /\ s[1] = "role" => (Running(s) => noticed') /\ (jobs[s] = NoJob => jobs'[s] = NoJob)
  /\ s[1] = "grant" /\ jobs[s] = NoJob => jobs'[s] = NoJob \/ (Exists /\ team.single)
Passing ==
  /\ SameTeam /\ UNCHANGED <<roles, live, made, granted>>
  /\ (lost => lost') /\ (unlinked => unlinked')
  /\ (noticed => noticed') /\ (crossed => crossed')
  /\ gaveUp \subseteq gaveUp'
  /\ \A s \in Slots : jobs'[s] = jobs[s] \/ Moved(s)
Grantable == \/ gaveUp # {}
             \/ \E s \in Slots : s[1] \in {"create", "grant"} /\ jobs[s] # NoJob
             \/ team.project \in live => Sole \in granted

\* What the calls about other users do leaves this one in step.
LEMMA StillInStep ==
  ASSUME NEW u, InStep(u), GrantOf(u)' = GrantOf(u), RoleOf(u)' = RoleOf(u),
         \A s \in Slots : jobs'[s] = jobs[s] \/ (~About(s, u) /\ ~About(s, u)')
  PROVE  InStep(u)'
<1>1. \A s \in Slots : About(s, u)' <=> About(s, u) BY DEF About, Running
<1>2. \A s \in Slots : About(s, u) => jobs'[s] = jobs[s] OBVIOUS
<1>3. SameRound(u)' BY <1>1, <1>2 DEF InStep, SameRound
<1>4. Settled(u) => Settled(u)' BY <1>1, <1>2 DEF Settled, At
<1>5. \A s \in Slots : AnsweredFirst(s, u) => AnsweredFirst(s, u)'
  BY <1>1, <1>2 DEF AnsweredFirst, At
<1> QED BY <1>3, <1>4, <1>5 DEF InStep

LEMMA Undisturbed ==
  ASSUME Tracked, Agreed, Passing, Exists /\ team.single => Grantable'
  PROVE  Agreed'
<1> USE DEF Exists, Running, At
<1> SameTeam /\ UNCHANGED <<roles, live, made, granted>> BY DEF Passing
<1>1. NoStrays'
  <2>1. \A s \in Slots : s[1] = "create" /\ At(s, "answered") => lost' \/ jobs'[s] = jobs[s]
    BY DEF Passing, Moved
  <2>2. \A s \in Slots : s[1] = "create" /\ Running(s)' => Exists \/ jobs'[s] = jobs[s]
    BY DEF Passing, Moved
  <2> SUFFICES ASSUME ~lost', ~unlinked' PROVE NoStrays' BY DEF NoStrays
  <2>3. NoStrays /\ ~lost /\ ~unlinked BY DEF Agreed, Passing
  <2>4. \A p \in live' :
          /\ Exists'
          /\ \/ team'.project = p
             \/ \E s \in Slots : /\ s[1] = "create" /\ At(s, "answered")'
                                 /\ jobs'[s].call.project = p
    BY <2>1, <2>3 DEF NoStrays, SameTeam
  <2>5. ~Exists' => \A s \in Slots : s[1] = "create" /\ Running(s)' =>
                      jobs'[s].call.project \in made' \ live'
    BY <2>2, <2>3 DEF NoStrays, SameTeam
  <2> QED BY <2>4, <2>5 DEF NoStrays
<1>2. CallsKnown'
  <2>1. \A s \in Slots : s[1] \in {"grant", "role"} /\ Running(s)' => jobs'[s] = jobs[s]
    BY DEF Passing, Moved
  <2> QED BY <2>1 DEF Agreed, CallsKnown, SameTeam
<1>3. GrantsKnown' BY DEF Agreed, GrantsKnown, SameTeam
<1>4. SingleRole'
  <2>1. \A s \in Slots : s[1] = "role" /\ jobs[s] = NoJob => jobs'[s] = NoJob
    BY DEF Passing, Moved
  <2>2. \A s \in Slots : s[1] = "grant" /\ At(s, "answered")' => jobs'[s] = jobs[s]
    BY DEF Passing, Moved
  <2> QED BY <2>1, <2>2 DEF Agreed, SingleRole, SameTeam, Sole, Grantable
<1>5. SharedRoles'
  <2> SUFFICES ASSUME Exists, ~team.single PROVE SharedRoles'
    BY DEF SharedRoles, SameTeam
  <2>1. \A s \in Slots : s[1] = "grant" /\ jobs[s] = NoJob => jobs'[s] = NoJob
    BY DEF Passing, Moved
  <2>2. ASSUME ~noticed', NEW s \in Slots, s[1] = "role" 
        PROVE  jobs'[s] = jobs[s] \/ (~Running(s) /\ ~Running(s)')
    BY <2>2 DEF Passing, Moved
  <2>3. ASSUME ~noticed', NEW u \in Users, InStep(u) PROVE InStep(u)'
    <3>1. \A s \in Slots : jobs'[s] = jobs[s] \/ (~About(s, u) /\ ~About(s, u)')
      BY <2>2, <2>3 DEF About
    <3>2. GrantOf(u)' = GrantOf(u) /\ RoleOf(u)' = RoleOf(u) BY DEF GrantOf, RoleOf, SameTeam
    <3> QED BY <2>3, <3>1, <3>2, StillInStep
  <2>4. SharedRoles /\ (noticed => noticed') /\ (crossed => crossed') BY DEF Agreed, Passing
  <2> HIDE DEF Running, At
  <2> QED BY <2>1, <2>3, <2>4 DEF SharedRoles, SameTeam
<1> QED BY <1>1, <1>2, <1>3, <1>4, <1>5 DEF Agreed

\* One slot is emptied, or waits.
LEMMA SlotRests ==
  ASSUME Tracked, Agreed, NEW s \in Slots, NEW x \in Job \cup {NoJob}, jobs[s] # NoJob,
         x # NoJob => x.at \in {"written", "queued"}, jobs' = [jobs EXCEPT ![s] = x],
         SameTeam, UNCHANGED <<roles, live, made, granted, crossed, unlinked>>,
         lost => lost', noticed => noticed', gaveUp \subseteq gaveUp',
         s[1] = "create" /\ At(s, "answered") => lost', s[1] = "role" /\ Running(s) => noticed',
         \/ x # NoJob \/ gaveUp' # {} \/ s[1] \notin {"create", "grant"}
         \/ s[1] = "grant" /\ At(s, "answered")
         \/ s[1] = "create" /\ (~Exists \/ ~team.single)
  PROVE  Agreed'
<1>1. (\A t \in Slots : t # s => jobs'[t] = jobs[t]) /\ jobs'[s] = x BY DEF Tracked, TypeOK
<1>2. Moved(s) BY <1>1 DEF Moved, Running
<1>3. Passing BY <1>1, <1>2 DEF Passing
<1>4. ASSUME Exists, team.single PROVE Grantable'
  <2>1. Grantable BY <1>4 DEF Agreed, SingleRole, Grantable
  <2>2. team'.project = team.project BY <1>4 DEF SameTeam, Exists
  <2>3. (team.project \in live => Sole \in granted) => Grantable'
    BY <2>2 DEF Grantable, Sole
  <2>4. gaveUp # {} => Grantable' BY DEF Grantable
  <2>5. CASE s[1] = "grant" /\ At(s, "answered") BY <1>4, <2>3, <2>5 DEF Agreed, SingleRole
  <2>6. CASE gaveUp' # {} BY <2>6 DEF Grantable
  <2>7. CASE \E t \in Slots : t[1] \in {"create", "grant"} /\ jobs'[t] # NoJob
    BY <2>7 DEF Grantable
  <2>8. CASE x # NoJob \/ s[1] \notin {"create", "grant"}
    <3>1. ASSUME NEW t \in Slots, t[1] \in {"create", "grant"}, jobs[t] # NoJob
          PROVE  Grantable'
      <4>1. jobs'[t] # NoJob BY <1>1, <2>8, <3>1
      <4> QED BY <3>1, <4>1 DEF Grantable
    <3> QED BY <2>1, <2>3, <2>4, <3>1 DEF Grantable
  <2> QED BY <1>4, <2>5, <2>6, <2>8
<1> QED BY <1>3, <1>4, Undisturbed

LEMMA ScheduleAgreed == ASSUME Tracked, Agreed, NEW s \in Slots, Schedule(s) PROVE Agreed'
<1> TypeOK BY DEF Tracked
<1>1. jobs[s] # NoJob /\ jobs[s] \in Job /\ jobs[s].at = "written"
  BY JobShape DEF Schedule, At
<1>2. [op |-> "create", project |-> NoProject] \in Call BY DEF Call
<1>3. [jobs[s] EXCEPT !.at = "queued"] \in Job \ {NoJob} /\ [jobs[s] EXCEPT !.at = "queued"].at = "queued"
  BY <1>1, <1>2, StepShape
<1>4. PICK x \in Job \cup {NoJob} :
        /\ jobs' = [jobs EXCEPT ![s] = x]
        /\ (x # NoJob => x.at = "queued") /\ (x = NoJob => s[1] = "delete")
  BY <1>3 DEF Schedule
<1>5. SameTeam BY DEF Schedule, SameTeam
<1>6. /\ UNCHANGED <<roles, live, made, granted, crossed, unlinked>>
      /\ (lost => lost') /\ (noticed => noticed') /\ gaveUp \subseteq gaveUp'
  BY DEF Schedule, cloud, history
<1>7. ~At(s, "answered") /\ ~Running(s) BY <1>1 DEF At, Running
<1>8. x # NoJob \/ s[1] \notin {"create", "grant"} BY <1>4
<1> QED BY <1>1, <1>4, <1>5, <1>6, <1>7, <1>8, SlotRests

LEMMA GrantSavedAgreed == ASSUME Tracked, Agreed, NEW s \in Slots, GrantSaved(s) PROVE Agreed'
<1>1. SameTeam BY DEF GrantSaved, SameTeam
<1>2. /\ UNCHANGED <<roles, live, made, granted, crossed, unlinked>>
      /\ (lost => lost') /\ (noticed => noticed') /\ gaveUp \subseteq gaveUp'
  BY DEF GrantSaved, cloud, history
<1>3. s[1] = "grant" /\ At(s, "answered") /\ jobs[s] # NoJob BY DEF GrantSaved, At
<1>4. PICK x \in Job \cup {NoJob} :
        jobs' = [jobs EXCEPT ![s] = x] /\ (x # NoJob => x.at \in {"written", "queued"})
  BY DEF GrantSaved, Ends
<1>5. s[1] # "create" /\ s[1] # "role" BY <1>3
<1> QED BY <1>1, <1>2, <1>3, <1>4, <1>5, SlotRests

LEMMA CrashAgreed == ASSUME Tracked, Agreed, NEW s \in Slots, Crash(s) PROVE Agreed'
<1> TypeOK BY DEF Tracked
<1>1. jobs[s] # NoJob /\ s[1] \in Kinds /\ jobs[s].tries \in 0..(MaxAttempts - 1)
  BY JobShape, SlotKinds DEF Crash
<1>2. [New("queued") EXCEPT !.tries = jobs[s].tries] \in Job
  BY <1>1, NewShape
<1>3. SameTeam BY DEF Crash, SameTeam
<1>4. /\ UNCHANGED <<roles, live, made, granted, crossed, unlinked>>
      /\ (lost => lost') /\ (noticed => noticed') /\ gaveUp \subseteq gaveUp'
  BY DEF Crash, cloud
<1>5. s[1] = "create" /\ At(s, "answered") => lost' BY DEF Crash, Running, At
<1>6. CASE s[1] = "role" \/ At(s, "written")
  <2>1. jobs' = [jobs EXCEPT ![s] = NoJob] /\ gaveUp' # {} /\ (s[1] = "role" => noticed')
    BY <1>6 DEF Crash, Ends
  <2> QED BY <1>1, <1>3, <1>4, <1>5, <2>1, SlotRests
<1>7. CASE ~(s[1] = "role" \/ At(s, "written"))
  <2>1. PICK x \in Job : jobs' = [jobs EXCEPT ![s] = x] /\ x.at = "queued"
    BY <1>2, <1>7 DEF Crash, New
  <2>2. NoJob \notin Job BY TeamsAssumption
  <2> QED BY <1>1, <1>3, <1>4, <1>5, <1>7, <2>1, <2>2, SlotRests
<1> QED BY <1>6, <1>7

\* A call about the project is sent.
LEMMA CallSent ==
  ASSUME Tracked, Agreed, NEW s \in Slots, s[1] \in {"create", "delete"}, At(s, "queued"),
         NEW c \in Call, NEW step \in {"read", "sent"}, Goes(s, step, c), Exists,
         UNCHANGED <<team, roles, live, made, granted, noticed, lost, unlinked, crossed>>,
         gaveUp \subseteq gaveUp'
  PROVE  Agreed'
<1>1. jobs[s] # NoJob /\ jobs[s].at = "queued" BY DEF At
<1>2. PICK x \in Job \ {NoJob} : x.at = step /\ jobs' = [jobs EXCEPT ![s] = x]
  BY <1>1, GoShape DEF Tracked
<1>3. (\A t \in Slots : t # s => jobs'[t] = jobs[t]) /\ jobs'[s] = x
  BY <1>2 DEF Tracked, TypeOK
<1>4. Moved(s) BY <1>1, <1>2, <1>3 DEF Moved, At
<1>5. Passing BY <1>3, <1>4 DEF Passing, SameTeam
<1>6. Exists /\ team.single => Grantable'
  <2>1. \A t \in Slots : jobs[t] # NoJob => jobs'[t] # NoJob BY <1>2, <1>3
  <2> QED BY <2>1 DEF Agreed, SingleRole, Grantable, Sole
<1> QED BY <1>5, <1>6, Undisturbed

LEMMA StartCreateAgreed ==
  ASSUME Tracked, Agreed, NEW s \in Slots, StartCreate(s) PROVE Agreed'
<1>1. s[1] = "create" /\ At(s, "queued") /\ jobs[s] # NoJob /\ jobs[s].at = "queued"
  BY DEF StartCreate, At
<1>2. /\ UNCHANGED <<team, roles, live, made, granted, noticed, lost, unlinked, crossed>>
      /\ gaveUp \subseteq gaveUp'
  BY DEF StartCreate, cloud
<1>3. CASE Ends(s) /\ (~Exists \/ ~team.single)
  <2>1. PICK x \in Job \cup {NoJob} : x = NoJob /\ jobs' = [jobs EXCEPT ![s] = x]
    BY <1>3 DEF Ends
  <2>2. ~At(s, "answered") /\ s[1] # "role" BY <1>1 DEF At
  <2>3. SameTeam BY <1>2 DEF SameTeam
  <2> QED BY <1>1, <1>2, <1>3, <2>1, <2>2, <2>3, SlotRests
<1>4. CASE Exists /\ Sends(s, [op |-> "create", project |-> team.project])
  <2>1. [op |-> "create", project |-> team.project] \in Call BY <1>4 DEF Call, Row, Exists
  <2>2. Goes(s, "sent", [op |-> "create", project |-> team.project]) BY <1>4 DEF Sends
  <2> QED BY <1>1, <1>2, <1>4, <2>1, <2>2, CallSent
<1> QED BY <1>3, <1>4 DEF StartCreate

LEMMA StartGrantAgreed ==
  ASSUME Tracked, Agreed, NEW s \in Slots, StartGrant(s) PROVE Agreed'
<1> TypeOK BY DEF Tracked
<1>1. s[1] = "grant" /\ At(s, "queued") /\ jobs[s] # NoJob /\ jobs[s].at = "queued"
  BY DEF StartGrant, At
<1>2. /\ UNCHANGED <<team, roles, live, made, granted, noticed, lost, unlinked, crossed>>
      /\ gaveUp \subseteq gaveUp'
  BY DEF StartGrant, cloud
<1>3. CASE Ends(s) /\ gaveUp' = gaveUp \cup {"grant"}
  <2>1. PICK x \in Job \cup {NoJob} : x = NoJob /\ jobs' = [jobs EXCEPT ![s] = x]
    BY <1>3 DEF Ends
  <2>2. ~At(s, "answered") /\ s[1] # "role" /\ gaveUp' # {} BY <1>1, <1>3 DEF At
  <2>3. SameTeam BY <1>2 DEF SameTeam
  <2> QED BY <1>1, <1>2, <2>1, <2>2, <2>3, SlotRests
<1> DEFINE c == [op |-> "add", project |-> team.project, user |-> Owner,
                 old |-> "admin", new |-> "admin"]
<1>4. CASE Exists /\ team.project # NoProject /\ Sends(s, c)
  <2>1. c \in Call BY <1>4, TeamsAssumption DEF Exists, Row, Call
  <2>2. /\ c.op = "add" /\ c.project = team.project /\ c.user = Owner /\ c.new = "admin"
    OBVIOUS
  <2> HIDE DEF c
  <2>3. PICK x \in Job \ {NoJob} :
          x.at = "sent" /\ x.call = c /\ jobs' = [jobs EXCEPT ![s] = x]
    BY <1>1, <1>4, <2>1, SendShape
  <2>4. (\A t \in Slots : t # s => jobs'[t] = jobs[t]) /\ jobs'[s] = x BY <2>3 DEF TypeOK
  <2>5. team.single
    BY <1>1, <1>4 DEF Agreed, SharedRoles
  <2>6. NoStrays' BY <1>1, <1>2, <1>4, <2>3, <2>4 DEF Agreed, NoStrays, Exists, Running, At
  <2>7. CallsKnown'
    BY <1>1, <1>2, <1>4, <2>2, <2>3, <2>4 DEF Agreed, CallsKnown, Exists, Running, At
  <2>8. GrantsKnown' BY <1>2 DEF Agreed, GrantsKnown, Exists
  <2>9. SingleRole'
    <3>1. SingleRole /\ Exists /\ team.single BY <1>4, <2>5 DEF Agreed
    <3>2. \A t \in Slots : t[1] = "role" => jobs'[t] = NoJob BY <1>1, <2>4, <3>1 DEF SingleRole
    <3>3. \A t \in Slots : At(t, "answered")' => jobs'[t] = jobs[t] BY <2>3, <2>4 DEF At
    <3> QED BY <1>1, <1>2, <2>3, <2>4, <3>1, <3>2, <3>3 DEF SingleRole, Sole, Exists, At
  <2>10. SharedRoles' BY <1>2, <2>5 DEF SharedRoles
  <2> QED BY <2>6, <2>7, <2>8, <2>9, <2>10 DEF Agreed
<1> QED BY <1>3, <1>4 DEF StartGrant

LEMMA StartDeleteAgreed ==
  ASSUME Tracked, Agreed, NEW s \in Slots, StartDelete(s) PROVE Agreed'
<1>1. s[1] = "delete" /\ At(s, "queued") /\ jobs[s] # NoJob /\ jobs[s].at = "queued"
  BY DEF StartDelete, At
<1>2. UNCHANGED <<team, roles, live, made, granted, noticed, lost, unlinked, crossed>>
  BY DEF StartDelete, cloud
<1> DEFINE step == IF team.project = NoProject /\ ~team.billing THEN "read" ELSE "sent"
           c == [op |-> "delete", project |-> team.project]
<1>3. CASE Ends(s) /\ ~Exists /\ gaveUp' = gaveUp \cup {"delete"}
  <2>1. PICK x \in Job \cup {NoJob} : x = NoJob /\ jobs' = [jobs EXCEPT ![s] = x]
    BY <1>3 DEF Ends
  <2>2. s[1] # "create" /\ s[1] # "role" /\ s[1] \notin {"create", "grant"} BY <1>1
  <2>3. SameTeam BY <1>2 DEF SameTeam
  <2> QED BY <1>1, <1>2, <1>3, <2>1, <2>2, <2>3, SlotRests
<1>4. CASE Exists /\ Goes(s, step, c) /\ UNCHANGED gaveUp
  <2>1. c \in Call /\ step \in {"read", "sent"} BY <1>4 DEF Call, Row, Exists
  <2> HIDE DEF c, step
  <2> QED BY <1>1, <1>2, <1>4, <2>1, CallSent
<1> QED BY <1>3, <1>4 DEF StartDelete

\* Destroyed without the middleware: where no creation was under way and the
\* row has no project, nothing lives; else unlinked says so.
LEMMA DestroyUnlinkedAgreed ==
  ASSUME Tracked, Agreed, NEW s \in Slots, DestroyUnlinked(s) PROVE Agreed'
<1>1. /\ team' = Destroyed /\ roles' = {} /\ jobs' = [jobs EXCEPT ![s] = NoJob]
      /\ UNCHANGED <<live, made, granted, noticed, lost, crossed>>
  BY DEF DestroyUnlinked, Ends, cloud
<1>2. ~Exists' /\ team' # Absent BY <1>1, TeamsAssumption DEF Exists
<1>3. \A t \in Slots : jobs'[t] = NoJob \/ jobs'[t] = jobs[t] BY <1>1 DEF Tracked, TypeOK
<1>4. NoStrays'
  <2> SUFFICES ASSUME ~lost', ~unlinked' PROVE NoStrays' BY DEF NoStrays
  <2>1. /\ ~unlinked /\ (Exists => team.project = NoProject)
        /\ \A t \in Slots : t[1] = "create" => jobs[t] = NoJob
    BY DEF DestroyUnlinked
  <2>2. NoStrays /\ ~lost BY <1>1 DEF Agreed
  <2>3. live \subseteq Projects /\ NoProject \notin Projects
    BY TeamsAssumption DEF Tracked, TypeOK
  <2>4. live = {} BY <2>1, <2>2, <2>3 DEF NoStrays, At
  <2> QED BY <1>1, <1>3, <2>1, <2>4 DEF NoStrays, Running
<1>5. CallsKnown' BY <1>2, <1>3 DEF Agreed, CallsKnown, Running, At
<1>6. GrantsKnown' /\ SingleRole' /\ SharedRoles'
  BY <1>2 DEF GrantsKnown, SingleRole, SharedRoles
<1> QED BY <1>4, <1>5, <1>6 DEF Agreed

\* What was answered names the project, and that is gone: so nothing lives
\* that the team does not know, and no creation brings anything back.
LEMMA DestroyTeamAgreed ==
  ASSUME Tracked, Agreed, NEW s \in Slots, DestroyTeam(s) PROVE Agreed'
<1>1. /\ s[1] = "delete" /\ At(s, "answered") /\ Running(s)
      /\ team' = Destroyed /\ roles' = {} /\ jobs' = [jobs EXCEPT ![s] = NoJob]
      /\ UNCHANGED <<live, made, granted, noticed, lost, unlinked, crossed>>
  BY DEF DestroyTeam, Ends, cloud, history, At, Running
<1>2. ~Exists' /\ team' # Absent BY <1>1, TeamsAssumption DEF Exists
<1>3. \A t \in Slots : jobs'[t] = NoJob \/ jobs'[t] = jobs[t] BY <1>1 DEF Tracked, TypeOK
<1>4. NoStrays'
  <2> SUFFICES ASSUME ~lost', ~unlinked' PROVE NoStrays' BY DEF NoStrays
  <2>1. NoStrays /\ ~lost /\ ~unlinked BY <1>1 DEF Agreed
  <2>2. CASE ~Exists BY <1>1, <1>2, <1>3, <2>1, <2>2 DEF NoStrays, Running
  <2>3. CASE Exists
    <3>1. team.project # NoProject /\ team.project \notin live /\ team.project \in made
      BY <1>1, <2>3 DEF Tracked, TrueDeletions, KnownProject, At
    <3>2. \A t \in Slots : t[1] = "create" /\ Running(t) => jobs[t].call.project = team.project
      BY <2>3, <3>1 DEF Tracked, OneCreation
    <3>3. live = {} BY <2>1, <3>1, <3>2 DEF NoStrays, At, Running
    <3> QED BY <1>1, <1>3, <3>1, <3>2, <3>3 DEF NoStrays, Running
  <2> QED BY <2>2, <2>3
<1>5. CallsKnown' BY <1>2, <1>3 DEF Agreed, CallsKnown, Running, At
<1>6. GrantsKnown' /\ SingleRole' /\ SharedRoles'
  BY <1>2 DEF GrantsKnown, SingleRole, SharedRoles
<1> QED BY <1>4, <1>5, <1>6 DEF Agreed

LEMMA DeleteTeamAgreed == ASSUME Tracked, Agreed, DeleteTeam PROVE Agreed'
<1> TypeOK BY DEF Tracked
<1>1. PICK t \in Slots : /\ t[1] = "delete" /\ jobs[t] = NoJob
                         /\ jobs' = [jobs EXCEPT ![t] = New("written")]
  BY WithShape DEF DeleteTeam, Kinds
<1>2. New("written").at = "written" /\ New("written") # NoJob
  BY NewShape, TeamsAssumption DEF New
<1>3. (\A s \in Slots : s # t => jobs'[s] = jobs[s]) /\ jobs'[t] = New("written")
  BY <1>1 DEF TypeOK
<1>4. Moved(t) BY <1>1, <1>2, <1>3 DEF Moved, Running, At
<1>5. SameTeam
  <2>1. team \in Row /\ team' = [team EXCEPT !.deleted = TRUE] BY DEF DeleteTeam, Exists
  <2> QED BY <2>1, TeamsAssumption DEF SameTeam, Row
<1>6. /\ UNCHANGED <<roles, live, made, granted, noticed, lost, unlinked, crossed>>
      /\ gaveUp \subseteq gaveUp'
  BY DEF DeleteTeam, cloud, history
<1>7. Passing BY <1>3, <1>4, <1>5, <1>6 DEF Passing
<1>8. Exists /\ team.single => Grantable'
  <2>1. \A s \in Slots : jobs[s] # NoJob => jobs'[s] # NoJob BY <1>2, <1>3
  <2> QED BY <1>5, <1>6, <2>1 DEF Agreed, SingleRole, Grantable, Sole, SameTeam, Exists
<1> QED BY <1>7, <1>8, Undisturbed

\* The project and the billing account are there: the job of the only role
\* follows.
LEMMA LinkBillingAgreed ==
  ASSUME Tracked, Agreed, NEW s \in Slots, LinkBilling(s) PROVE Agreed'
<1> TypeOK BY DEF Tracked
<1>1. s[1] = "create" /\ jobs[s] # NoJob /\ jobs[s].at = "linked" BY DEF LinkBilling, At
<1>2. /\ UNCHANGED <<roles, live, made, granted, noticed, lost, unlinked, crossed>>
      /\ gaveUp \subseteq gaveUp'
  BY DEF LinkBilling, cloud, history
<1>3. SameTeam
  <2>1. team' = IF Exists THEN [team EXCEPT !.billing = TRUE] ELSE team BY DEF LinkBilling
  <2> QED BY <2>1, TeamsAssumption DEF SameTeam, Row, Exists
<1>4. CASE Exists /\ team.single /\ Free("grant") # {}
  <2>1. PICK t \in Slots : /\ t[1] = "grant" /\ jobs[t] = NoJob
                           /\ With(jobs, "grant", "queued") = [jobs EXCEPT ![t] = New("queued")]
    BY <1>4, WithShape DEF Kinds
  <2>2. jobs' = [[jobs EXCEPT ![t] = New("queued")] EXCEPT ![s] = NoJob]
    BY <1>4, <2>1 DEF LinkBilling
  <2>3. New("queued").at = "queued" /\ New("queued") # NoJob
    BY NewShape, TeamsAssumption DEF New
  <2>4. /\ \A r \in Slots : r # s /\ r # t => jobs'[r] = jobs[r]
        /\ jobs'[s] = NoJob /\ jobs'[t] = New("queued")
    BY <1>1, <2>1, <2>2 DEF TypeOK
  <2>5. Moved(s) BY <1>1, <2>4 DEF Moved, Running, At
  <2>6. Moved(t) BY <1>4, <2>1, <2>3, <2>4 DEF Moved, Running, At
  <2>7. Passing BY <1>2, <1>3, <2>4, <2>5, <2>6 DEF Passing
  <2>8. Grantable' BY <2>1, <2>3, <2>4 DEF Grantable
  <2> QED BY <2>7, <2>8, Undisturbed
<1>5. CASE ~(Exists /\ team.single /\ Free("grant") # {})
  <2>1. jobs' = [jobs EXCEPT ![s] = NoJob] BY <1>5 DEF LinkBilling, Ends
  <2>2. (\A t \in Slots : t # s => jobs'[t] = jobs[t]) /\ jobs'[s] = NoJob
    BY <2>1 DEF TypeOK
  <2>3. Moved(s) BY <1>1, <2>2 DEF Moved, Running, At
  <2>4. Passing BY <1>2, <1>3, <2>2, <2>3 DEF Passing
  <2>5. Exists /\ team.single => Grantable'
    <3>1. <<"grant", 1>> \in Slots BY TeamsAssumption DEF Slots, Kinds
    <3>2. Exists /\ team.single => jobs[<<"grant", 1>>] # NoJob BY <1>5, <3>1 DEF Free
    <3>3. <<"grant", 1>> # s /\ <<"grant", 1>>[1] = "grant" BY <1>1
    <3> QED BY <2>2, <3>1, <3>2, <3>3 DEF Grantable
  <2> QED BY <2>4, <2>5, Undisturbed
<1> QED BY <1>4, <1>5

LEMMA CreateTeamAgreed == ASSUME Tracked, Agreed, CreateTeam PROVE Agreed'
<1> TypeOK BY DEF Tracked
<1>1. \A s \in Slots : jobs[s] = NoJob BY DEF Tracked, OneCreation, CreateTeam
<1>2. <<"create", 1>> \in Slots BY TeamsAssumption DEF Slots, Kinds
<1>3. Free("create") # {} BY <1>1, <1>2 DEF Free
<1>4. PICK t \in Slots : /\ t[1] = "create"
                         /\ jobs' = [jobs EXCEPT ![t] = New("written")]
  BY <1>3, WithShape DEF CreateTeam, Kinds
<1>5. New("written") # NoJob /\ New("written").at = "written"
  BY NewShape, TeamsAssumption DEF New
<1>6. (\A s \in Slots : s # t => jobs'[s] = NoJob) /\ jobs'[t] = New("written")
  BY <1>1, <1>4 DEF TypeOK
<1>7. \A s \in Slots : ~Running(s)' BY <1>5, <1>6 DEF Running
<1>8. /\ Exists' /\ team' # Absent /\ team'.project = NoProject
      /\ roles' = IF team'.single THEN {<<Owner, "admin">>} ELSE {}
  <2>1. PICK single \in BOOLEAN :
          /\ team' = [single |-> single, deleted |-> FALSE, project |-> NoProject,
                      billing |-> FALSE]
          /\ roles' = IF single THEN {<<Owner, "admin">>} ELSE {}
    BY DEF CreateTeam
  <2>2. team' \in Row BY <2>1 DEF Row
  <2>3. team'.single = single /\ team'.project = NoProject BY <2>1
  <2> QED BY <2>1, <2>2, <2>3, TeamsAssumption DEF Exists
<1>9. made = {} /\ live = {} /\ granted = {} BY DEF Agreed, GrantsKnown, CreateTeam, TypeOK
<1>10. made' = {} /\ live' = {} /\ granted' = {} BY <1>9 DEF CreateTeam, cloud
<1>11. NoStrays' BY <1>8, <1>10 DEF NoStrays
<1>12. CallsKnown' BY <1>7 DEF CallsKnown
<1>13. GrantsKnown' BY <1>10 DEF GrantsKnown
<1>14. SingleRole'
  <2>1. \A s \in Slots : s[1] \in {"grant", "role"} => jobs'[s] = NoJob BY <1>4, <1>6
  <2> QED BY <1>8, <1>10, <2>1 DEF SingleRole, At
<1>15. SharedRoles'
  <2>1. \A s \in Slots : s[1] = "grant" => jobs'[s] = NoJob BY <1>4, <1>6
  <2> QED BY <1>8, <1>10, <2>1 DEF SharedRoles
<1> QED BY <1>11, <1>12, <1>13, <1>14, <1>15 DEF Agreed

\* What a call does in the cloud while the team is there: it is about the
\* team's project, and only the deletion takes that away.
LEMMA ServedTeam ==
  ASSUME Tracked, Agreed, NEW s \in Slots, At(s, "sent"), Served(jobs[s].call), Exists
  PROVE  /\ \A g \in granted' : g[1] = team.project /\ g[1] # NoProject
         /\ team.project \in live' => team.project \in live /\ s[1] # "delete"
         /\ s[1] \in {"grant", "role"} => jobs[s].call.project = team.project
         /\ s[1] = "create" => granted' = granted
         /\ s[1] = "delete" => granted' \subseteq granted
         /\ s[1] = "grant" => granted' = granted \cup {Sole}
<1> DEFINE c == jobs[s].call
<1> TypeOK BY DEF Tracked
<1>1. Running(s) /\ c \in Call /\ c.op \in OpOf(s[1]) /\ s[1] \in Kinds
  BY SlotKinds DEF At, Running, Tracked, OpsFit
<1>2. \A g \in granted : g[1] = team.project /\ g[1] # NoProject
  BY DEF Agreed, GrantsKnown
<1>3. CASE s[1] = "create"
  <2>1. c.op = "create" BY <1>1, <1>3 DEF OpOf
  <2>2. PICK p \in IF c.project = NoProject THEN Projects \ made ELSE {c.project} :
          live' = live \cup (IF p \in made THEN {} ELSE {p}) /\ granted' = granted
    BY <2>1 DEF Served
  <2>3. /\ c.project \in made \cup {NoProject}
        /\ team.project # NoProject => c.project = team.project
    BY <1>1, <1>3 DEF Tracked, OneCreation
  <2>4. NoProject \notin Projects BY TeamsAssumption
  <2>5. team.project \in live' => team.project \in live
    BY <2>2, <2>3, <2>4 DEF TypeOK
  <2> QED BY <1>2, <1>3, <2>2, <2>5
<1>4. CASE s[1] = "delete"
  <2>1. c.op = "delete" BY <1>1, <1>4 DEF OpOf
  <2>2. live' = live \ {c.project} /\ granted' \subseteq granted BY <2>1 DEF Served
  <2>3. c.project = team.project BY <1>1, <1>4 DEF Tracked, TrueDeletions, At
  <2> QED BY <1>2, <1>4, <2>2, <2>3
<1>5. CASE s[1] \in {"grant", "role"}
  <2>1. c.op \notin {"create", "delete"} BY <1>1, <1>5 DEF OpOf
  <2>2. /\ live' = live
        /\ granted' = (IF c.op = "add" THEN granted
                       ELSE granted \ {<<c.project, c.user, c.old>>})
                      \cup (IF c.op = "remove" THEN {} ELSE {<<c.project, c.user, c.new>>})
    BY <2>1 DEF Served
  <2>3. /\ team.project # NoProject /\ c.project = team.project
        /\ s[1] = "grant" => c.op = "add" /\ c.user = Owner /\ c.new = "admin"
    BY <1>1, <1>5 DEF Agreed, CallsKnown
  <2>4. \A g \in granted' : g[1] = team.project /\ g[1] # NoProject BY <1>2, <2>2, <2>3
  <2>5. s[1] = "grant" => granted' = granted \cup {Sole} BY <2>2, <2>3 DEF Sole
  <2> QED BY <1>5, <2>2, <2>3, <2>4, <2>5
<1> QED BY <1>1, <1>3, <1>4, <1>5 DEF Kinds

\* After the team is gone no call makes a project.
LEMMA ServedGone ==
  ASSUME Tracked, Agreed, NEW s \in Slots, At(s, "sent"), Served(jobs[s].call), ~Exists,
         ~lost, ~unlinked
  PROVE  made' = made /\ live' \subseteq live
<1> DEFINE c == jobs[s].call
<1>1. Running(s) /\ c \in Call /\ c.op \in OpOf(s[1])
  BY DEF At, Running, Tracked, OpsFit
<1>2. s[1] = "create" => c.project \in made BY <1>1 DEF Agreed, NoStrays
<1>3. CASE c.op = "create"
  <2>1. c.project \in made BY <1>1, <1>2, <1>3 DEF OpOf
  <2>2. c.project # NoProject BY <2>1, TeamsAssumption DEF Tracked, TypeOK
  <2>3. PICK p \in {c.project} :
          made' = made \cup {p} /\ live' = live \cup (IF p \in made THEN {} ELSE {p})
    BY <1>3, <2>2 DEF Served
  <2> QED BY <2>1, <2>3
<1>4. CASE c.op # "create" BY <1>4 DEF Served
<1> QED BY <1>3, <1>4

\* Of the calls made for one role the middleware serves one.
LEMMA RoleAnswered ==
  ASSUME Tracked, Agreed, NEW s \in Slots, Answer(s), s[1] = "role",
         Exists, ~team.single, ~noticed, ~crossed, team.project \in live, NEW u \in Users
  PROVE  InStep(u)'
<1> DEFINE c == jobs[s].call
<1> TypeOK BY DEF Tracked
<1>1. /\ Running(s) /\ At(s, "sent") /\ Served(c) /\ c \in Call /\ c.op \in OpOf(s[1])
      /\ UNCHANGED <<team, roles>>
  BY DEF Answer, At, Running, Tracked, OpsFit
<1>2. c.op \in {"add", "remove", "change"} /\ c.user \in Users /\ c.new \in Roles
  BY <1>1, CallShape DEF OpOf
<1>3. /\ c.project = team.project /\ (c.op = "change" => c.old # c.new)
      /\ \A t \in Slots : t[1] = "role" /\ Running(t) =>
           /\ At(t, "sent") \/ At(t, "answered")
           /\ jobs[t].call.op = "change" => jobs[t].call.old # jobs[t].call.new
  BY <1>1 DEF Agreed, CallsKnown
<1>4. /\ c.op = "add" \/ <<team.project, c.user, c.old>> \in granted
      /\ granted' = (IF c.op = "add" THEN granted
                     ELSE granted \ {<<team.project, c.user, c.old>>})
                    \cup (IF c.op = "remove" THEN {} ELSE {<<team.project, c.user, c.new>>})
  BY <1>1, <1>2, <1>3 DEF Served
<1>5. PICK x \in Job \ {NoJob} :
        x.at = "answered" /\ x.call = c /\ jobs' = [jobs EXCEPT ![s] = x]
  BY <1>2, AnswerShape
<1>6. (\A t \in Slots : t # s => jobs'[t] = jobs[t]) /\ jobs'[s] = x BY <1>5 DEF TypeOK
<1>7. InStep(u) BY DEF Agreed, SharedRoles
<1>8. RoleOf(u)' = RoleOf(u) BY <1>1 DEF RoleOf
<1>9. \A t \in Slots :
        /\ About(t, u)' <=> About(t, u)
        /\ About(t, u) => jobs'[t].call = jobs[t].call
  BY <1>1, <1>5, <1>6 DEF About, Running
<1> HIDE DEF c
<1>10. CASE u # c.user
  <2>1. ~About(s, u) BY <1>10 DEF About, c
  <2>2. GrantOf(u)' = GrantOf(u) BY <1>1, <1>4, <1>10 DEF GrantOf
  <2> QED BY <1>6, <1>7, <1>8, <1>9, <2>1, <2>2, StillInStep
<1>11. CASE u = c.user
  <2>1. About(s, u) BY <1>1, <1>11 DEF About, c
  <2>2. SameRound(u) BY <1>7 DEF InStep
  <2>3. Settled(u)
    <3>1. ASSUME NEW r \in Slots, AnsweredFirst(r, u) PROVE FALSE
      <4>1. /\ About(r, u) /\ At(r, "answered") /\ r # s
            /\ RoleOf(u) = IF jobs[r].call.op = "add" THEN {} ELSE {jobs[r].call.old}
            /\ GrantOf(u) = IF jobs[r].call.op = "remove" THEN {} ELSE {jobs[r].call.new}
        BY <1>1, <3>1 DEF AnsweredFirst, At
      <4>2. c.op # "add" /\ jobs[r].call.op # "add" /\ c.old = jobs[r].call.old
        BY <2>1, <2>2, <4>1 DEF SameRound, c
      <4>3. c.old \in Roles BY <1>1, <1>2, CallShape
      <4>4. c.old \in GrantOf(u) BY <1>4, <1>11, <4>2, <4>3 DEF GrantOf
      <4>5. jobs[r].call.op # "remove" /\ jobs[r].call.new = jobs[r].call.old
        BY <4>1, <4>2, <4>4
      <4>6. Running(r) /\ jobs[r].call \in Call /\ jobs[r].call.op \in OpOf("role")
        BY <4>1 DEF About, Tracked, OpsFit
      <4>7. jobs[r].call.op = "change" BY <4>2, <4>5, <4>6 DEF OpOf
      <4> QED BY <1>3, <4>1, <4>5, <4>6, <4>7 DEF About
    <3> QED BY <1>7, <3>1 DEF InStep
  <2>4. RoleOf(u) = IF c.op = "add" THEN {} ELSE {c.old}
    <3>1. c.op # "add" => c.old \in GrantOf(u)
      BY <1>1, <1>2, <1>4, <1>11, CallShape DEF GrantOf
    <3> QED BY <2>1, <2>3, <3>1 DEF Settled, c
  <2>5. GrantOf(u)' = IF c.op = "remove" THEN {} ELSE {c.new}
    <3>1. GrantOf(u)' = (IF c.op = "add" THEN GrantOf(u) ELSE GrantOf(u) \ {c.old})
                        \cup (IF c.op = "remove" THEN {} ELSE {c.new})
      BY <1>1, <1>2, <1>4, <1>11 DEF GrantOf
    <3> QED BY <2>3, <2>4, <3>1 DEF Settled
  <2>6. AnsweredFirst(s, u)'
    <3>1. \A t \in Slots : About(t, u) => At(t, "sent") BY <2>3 DEF Settled
    <3>2. jobs'[s].call = c /\ About(s, u)' /\ At(s, "answered")'
      BY <1>5, <1>6, <1>9, <2>1 DEF At
    <3>3. \A t \in Slots : About(t, u)' /\ t # s => At(t, "sent")'
      BY <1>6, <1>9, <3>1 DEF At
    <3> QED BY <1>8, <2>4, <2>5, <3>2, <3>3 DEF AnsweredFirst
  <2>7. SameRound(u)' BY <1>9, <2>2 DEF SameRound
  <2> QED BY <2>6, <2>7 DEF InStep
<1> QED BY <1>10, <1>11

LEMMA AnswerAgreed == ASSUME Tracked, Agreed, NEW s \in Slots, Answer(s) PROVE Agreed'
<1> DEFINE c == jobs[s].call
<1> TypeOK BY DEF Tracked
<1>1. /\ Running(s) /\ At(s, "sent") /\ Served(c) /\ c \in Call /\ c.op \in OpOf(s[1])
      /\ jobs[s] # NoJob /\ jobs[s].at = "sent"
      /\ UNCHANGED <<team, roles, noticed, gaveUp, lost, unlinked, crossed>>
  BY DEF Answer, At, Running, Tracked, OpsFit, history
<1>2. PICK d \in Call, x \in Job \ {NoJob} :
        /\ x.at = "answered" /\ x.call = d /\ jobs' = [jobs EXCEPT ![s] = x]
        /\ d.op = jobs[s].call.op
        /\ \/ d = jobs[s].call /\ ~(d.op = "create" /\ d.project = NoProject)
           \/ /\ jobs[s].call.op = "create" /\ jobs[s].call.project = NoProject
              /\ d.project \in made' \ made
  BY AnswerShape
<1>3. (\A t \in Slots : t # s => jobs'[t] = jobs[t]) /\ jobs'[s] = x BY <1>2 DEF TypeOK
<1>4. s[1] # "create" => d = c /\ c.op # "create" BY <1>1, <1>2 DEF OpOf
<1>5. NoStrays'
  <2> SUFFICES ASSUME ~lost', ~unlinked' PROVE NoStrays' BY DEF NoStrays
  <2>1. NoStrays /\ ~lost /\ ~unlinked BY <1>1 DEF Agreed
  <2>2. CASE ~Exists
    <3>1. live = {} /\ made' = made /\ live' \subseteq live
      BY <1>1, <2>1, <2>2, ServedGone DEF NoStrays
    <3>2. \A t \in Slots : t[1] = "create" /\ Running(t) => jobs[t].call.project \in made \ live
      BY <2>1, <2>2 DEF NoStrays
    <3>3. \A t \in Slots : t[1] = "create" /\ Running(t)' => jobs'[t].call.project \in made
      BY <1>1, <1>2, <1>3, <3>1, <3>2 DEF Running
    <3> QED BY <1>1, <2>2, <3>1, <3>3 DEF NoStrays, Exists
  <2>3. CASE Exists
    <3>1. ASSUME NEW p \in live', p \notin live PROVE s[1] = "create" /\ d.project = p
      <4>1. c.op = "create" BY <1>1, <3>1 DEF Served
      <4>2. PICK q \in IF c.project = NoProject THEN Projects \ made ELSE {c.project} :
              made' = made \cup {q} /\ live' = live \cup (IF q \in made THEN {} ELSE {q})
        BY <1>1, <4>1 DEF Served
      <4>3. p = q /\ made' = made \cup {p} /\ p \notin made BY <3>1, <4>2
      <4>4. s[1] = "create" BY <1>4, <4>1
      <4>5. c.project \in made \cup {NoProject} BY <1>1, <4>4 DEF Tracked, OneCreation
      <4>6. c.project = NoProject BY <4>2, <4>3, <4>5
      <4> QED BY <1>2, <4>1, <4>3, <4>4, <4>6
    <3>2. ASSUME NEW p \in live, team.project # p
          PROVE  \E t \in Slots : t[1] = "create" /\ At(t, "answered")' /\ jobs'[t].call.project = p
      <4>1. PICK t \in Slots : t[1] = "create" /\ At(t, "answered") /\ jobs[t].call.project = p
        BY <2>1, <3>2 DEF NoStrays
      <4>2. jobs'[t] = jobs[t] BY <1>1, <1>3, <4>1 DEF At
      <4> QED BY <4>1, <4>2 DEF At
    <3>3. At(s, "answered")' /\ jobs'[s].call = d BY <1>2, <1>3 DEF At
    <3> QED BY <1>1, <2>3, <3>1, <3>2, <3>3 DEF NoStrays, Exists
  <2> QED BY <2>2, <2>3
<1>6. CallsKnown'
  <2>1. \A t \in Slots : t[1] \in {"grant", "role"} /\ Running(t)' =>
          Running(t) /\ jobs'[t].call = jobs[t].call /\ (jobs'[t] = jobs[t] \/ At(t, "answered")')
    BY <1>1, <1>2, <1>3, <1>4 DEF Running, At
  <2> QED BY <1>1, <2>1 DEF Agreed, CallsKnown, Exists, At
<1>7. GrantsKnown'
  <2>1. team # Absent BY <1>1 DEF Tracked, OneCreation
  <2> QED BY <1>1, <2>1, ServedTeam DEF GrantsKnown, Exists
<1>8. SingleRole'
  <2> SUFFICES ASSUME Exists, team.single PROVE SingleRole' BY <1>1 DEF SingleRole, Exists
  <2>1. SingleRole /\ s[1] # "role" /\ s[1] \in Kinds
    BY <1>1, SlotKinds DEF Agreed, SingleRole
  <2>2. /\ team.project \in live' => team.project \in live /\ s[1] # "delete"
        /\ granted' \subseteq {Sole} /\ (s[1] = "grant" => Sole \in granted')
        /\ Sole \in granted => Sole \in granted' \/ team.project \notin live'
    BY <1>1, <2>1, ServedTeam DEF SingleRole, Kinds
  <2>3. \A t \in Slots : t[1] = "role" => jobs'[t] = NoJob BY <1>3, <2>1 DEF SingleRole
  <2>4. \A t \in Slots : jobs[t] # NoJob => jobs'[t] # NoJob BY <1>2, <1>3
  <2>5. \A t \in Slots : t[1] = "grant" /\ At(t, "answered")' => At(t, "answered") \/ t = s
    BY <1>3 DEF At
  <2>6. Sole' = Sole BY <1>1 DEF Sole
  <2> QED BY <1>1, <2>1, <2>2, <2>3, <2>4, <2>5, <2>6 DEF SingleRole, Exists
<1>9. SharedRoles'
  <2> SUFFICES ASSUME Exists, ~team.single PROVE SharedRoles' BY <1>1 DEF SharedRoles, Exists
  <2>1. SharedRoles BY DEF Agreed
  <2>2. \A t \in Slots : t[1] = "grant" => jobs[t] = NoJob /\ t # s
    BY <1>1, <2>1 DEF SharedRoles
  <2>3. \A t \in Slots : t[1] = "grant" => jobs'[t] = NoJob BY <1>3, <2>2
  <2>4. ASSUME ~noticed, ~crossed, team.project \in live', NEW u \in Users PROVE InStep(u)'
    <3>1. team.project \in live /\ s[1] \in {"create", "role"}
      BY <1>1, <2>2, <2>4, SlotKinds, ServedTeam DEF Kinds
    <3>2. CASE s[1] = "role" BY <2>4, <3>1, <3>2, RoleAnswered
    <3>3. CASE s[1] = "create"
      <4>1. InStep(u) BY <2>1, <2>4, <3>1 DEF SharedRoles
      <4>2. granted' = granted BY <1>1, <3>3, ServedTeam
      <4>3. GrantOf(u)' = GrantOf(u) /\ RoleOf(u)' = RoleOf(u)
        BY <1>1, <4>2 DEF GrantOf, RoleOf
      <4>4. ~About(s, u) /\ ~About(s, u)' BY <3>3 DEF About
      <4> QED BY <1>3, <4>1, <4>3, <4>4, StillInStep
    <3> QED BY <3>1, <3>2, <3>3
  <2> QED BY <1>1, <2>1, <2>3, <2>4 DEF SharedRoles, Exists
<1> QED BY <1>5, <1>6, <1>7, <1>8, <1>9 DEF Agreed

\* A failed call may have been served, but then its answer is lost.
LEMMA FailAgreed == ASSUME Tracked, Agreed, NEW s \in Slots, Fail(s) PROVE Agreed'
<1> TypeOK BY DEF Tracked
<1>1. /\ At(s, "sent") /\ jobs[s] # NoJob /\ jobs[s].at = "sent" /\ ~At(s, "answered")
      /\ UNCHANGED <<team, roles, unlinked, crossed>> /\ s[1] \in Kinds
  BY SlotKinds DEF Fail, At
<1>2. /\ s[1] = "role" => noticed'
      /\ noticed => noticed'
      /\ gaveUp \subseteq gaveUp'
      /\ s[1] = "grant" => gaveUp' # {}
  BY DEF Fail, TriedAgain
<1>3. PICK x \in Job \cup {NoJob} :
        /\ jobs' = [jobs EXCEPT ![s] = x] /\ (x # NoJob => x.at = "queued")
        /\ s[1] = "create" => x # NoJob \/ gaveUp' # {}
  <2>1. CASE s[1] \in {"create", "delete"}
    <3>1. TriedAgain(s) BY <2>1 DEF Fail
    <3>2. Waits(s) BY <1>1, <3>1, TriedAgainShape
    <3>3. gaveUp' # {} \/ \E x \in Job : jobs' = [jobs EXCEPT ![s] = x] /\ x.at = "queued"
      BY <1>1, <3>1, TriedAgainShape
    <3> QED BY <3>2, <3>3, TeamsAssumption DEF Waits
  <2>2. CASE s[1] \notin {"create", "delete"} BY <2>2 DEF Fail, Ends
  <2> QED BY <2>1, <2>2
<1>4. (\A t \in Slots : t # s => jobs'[t] = jobs[t]) /\ jobs'[s] = x BY <1>3 DEF TypeOK
<1>5. ~Running(s)' BY <1>3, <1>4 DEF Running
<1>6. CASE UNCHANGED <<cloud, lost>>
  <2>1. UNCHANGED <<live, made, granted>> /\ (lost => lost') BY <1>6 DEF cloud
  <2>2. SameTeam BY <1>1 DEF SameTeam
  <2>3. x # NoJob \/ gaveUp' # {} \/ s[1] \notin {"create", "grant"} BY <1>2, <1>3
  <2> QED BY <1>1, <1>2, <1>3, <2>1, <2>2, <2>3, SlotRests
<1>7. CASE Served(jobs[s].call) /\ lost' = TRUE
  <2>1. NoStrays' BY <1>7 DEF NoStrays
  <2>2. CallsKnown' BY <1>1, <1>4, <1>5 DEF Agreed, CallsKnown, Running, At, Exists
  <2>3. GrantsKnown'
    <3>1. team # Absent BY <1>1 DEF Tracked, OneCreation
    <3> QED BY <1>1, <1>7, <3>1, ServedTeam DEF GrantsKnown, Exists
  <2>4. SingleRole'
    <3> SUFFICES ASSUME Exists, team.single PROVE SingleRole' BY <1>1 DEF SingleRole, Exists
    <3>1. SingleRole /\ s[1] # "role" BY <1>1 DEF Agreed, SingleRole
    <3>2. /\ team.project \in live' => team.project \in live /\ s[1] # "delete"
          /\ granted' \subseteq {Sole}
          /\ Sole \in granted => Sole \in granted' \/ team.project \notin live'
      BY <1>1, <1>7, <3>1, ServedTeam DEF SingleRole, Kinds
    <3>3. \A t \in Slots : t[1] = "role" => jobs'[t] = NoJob BY <1>4, <3>1 DEF SingleRole
    <3>4. \A t \in Slots : At(t, "answered")' => At(t, "answered") BY <1>4, <1>5 DEF At, Running
    <3>5. Sole' = Sole BY <1>1 DEF Sole
    <3>6. \/ gaveUp' # {}
          \/ \E t \in Slots : t[1] \in {"create", "grant"} /\ jobs'[t] # NoJob
          \/ team.project \in live => Sole \in granted
      <4>1. ASSUME NEW t \in Slots, t[1] \in {"create", "grant"}, jobs[t] # NoJob, gaveUp' = {}
            PROVE  jobs'[t] # NoJob
        BY <1>2, <1>3, <1>4, <4>1
      <4> QED BY <1>2, <3>1, <4>1 DEF SingleRole
    <3> QED BY <1>1, <3>1, <3>2, <3>3, <3>4, <3>5, <3>6 DEF SingleRole, Exists
  <2>5. SharedRoles'
    <3> SUFFICES ASSUME Exists, ~team.single PROVE SharedRoles' BY <1>1 DEF SharedRoles, Exists
    <3>1. SharedRoles BY DEF Agreed
    <3>2. \A t \in Slots : t[1] = "grant" => jobs[t] = NoJob /\ t # s
      BY <1>1, <3>1 DEF SharedRoles
    <3>3. \A t \in Slots : t[1] = "grant" => jobs'[t] = NoJob BY <1>4, <3>2
    <3>4. ASSUME ~noticed', ~crossed, team.project \in live', NEW u \in Users PROVE InStep(u)'
      <4>1. team.project \in live /\ s[1] = "create"
        BY <1>1, <1>2, <1>7, <3>2, <3>4, ServedTeam DEF Kinds
      <4>2. InStep(u) BY <1>2, <3>1, <3>4, <4>1 DEF SharedRoles
      <4>3. granted' = granted BY <1>1, <1>7, <4>1, ServedTeam
      <4>4. GrantOf(u)' = GrantOf(u) /\ RoleOf(u)' = RoleOf(u)
        BY <1>1, <4>3 DEF GrantOf, RoleOf
      <4>5. ~About(s, u) /\ ~About(s, u)' BY <4>1 DEF About
      <4> QED BY <1>4, <4>2, <4>4, <4>5, StillInStep
    <3> QED BY <1>1, <3>1, <3>3, <3>4 DEF SharedRoles, Exists
  <2> QED BY <2>1, <2>2, <2>3, <2>4, <2>5 DEF Agreed
<1> QED BY <1>6, <1>7 DEF Fail

\* The project is written into the row; before it was, there were no roles.
LEMMA LinkProjectAgreed ==
  ASSUME Tracked, Agreed, NEW s \in Slots, LinkProject(s) PROVE Agreed'
<1> DEFINE c == jobs[s].call
<1> TypeOK BY DEF Tracked
<1>1. /\ s[1] = "create" /\ jobs[s] # NoJob /\ jobs[s].at = "answered" /\ Running(s)
      /\ jobs[s] \in Job /\ c \in Call
      /\ UNCHANGED <<roles, live, made, granted, noticed, lost, unlinked, crossed>>
  BY JobShape DEF LinkProject, At, Running, cloud, Tracked, OpsFit
<1>2. /\ c.project \in made /\ c.project \in Projects /\ c.project # NoProject
      /\ Exists /\ team.project # NoProject => c.project = team.project
      /\ team # Absent
  BY <1>1, TeamsAssumption DEF Tracked, OneCreation, TypeOK, At
<1>3. /\ Exists' <=> Exists
      /\ Exists => team'.project = c.project /\ team'.single = team.single
      /\ ~Exists => team' = team
      /\ team' # Absent
  <2>1. team' = IF Exists THEN [team EXCEPT !.project = c.project] ELSE team BY DEF LinkProject
  <2> QED BY <1>2, <2>1, TeamsAssumption DEF Exists, Row
<1>4. PICK x \in Job \cup {NoJob} :
        /\ jobs' = [jobs EXCEPT ![s] = x]
        /\ x # NoJob => x.at = "queued" \/ (x.at = "linked" /\ x.call = c)
        /\ x # NoJob \/ gaveUp' # {}
  <2>1. CASE jobs' = [jobs EXCEPT ![s].at = "linked"]
    <3> DEFINE y == [jobs[s] EXCEPT !.at = "linked"]
    <3>1. y \in Job \ {NoJob} /\ y.at = "linked" /\ y.call = c BY <1>1, StepShape
    <3>2. jobs' = [jobs EXCEPT ![s] = y] BY <2>1
    <3> QED BY <3>1, <3>2
  <2>2. CASE TriedAgain(s)
    <3>1. Waits(s) BY <1>1, <2>2, TriedAgainShape
    <3>2. gaveUp' # {} \/ \E x \in Job : jobs' = [jobs EXCEPT ![s] = x] /\ x.at = "queued"
      BY <1>1, <2>2, TriedAgainShape
    <3> QED BY <3>1, <3>2, TeamsAssumption DEF Waits
  <2> QED BY <2>1, <2>2 DEF LinkProject
<1>5. (\A t \in Slots : t # s => jobs'[t] = jobs[t]) /\ jobs'[s] = x BY <1>4 DEF TypeOK
<1>6. \A t \in Slots : t[1] # "create" => jobs'[t] = jobs[t] BY <1>1, <1>5
<1>7. Exists /\ team.project = NoProject =>
        /\ granted = {}
        /\ \A t \in Slots : t[1] \in {"grant", "role"} => ~Running(t)
  BY DEF Agreed, GrantsKnown, CallsKnown
<1>8. NoStrays'
  <2> SUFFICES ASSUME ~lost', ~unlinked' PROVE NoStrays' BY DEF NoStrays
  <2>1. NoStrays /\ ~lost /\ ~unlinked BY <1>1 DEF Agreed
  <2>2. ASSUME NEW p \in live PROVE Exists /\ c.project = p
    <3>1. p # NoProject BY TeamsAssumption DEF TypeOK
    <3>2. ASSUME NEW t \in Slots, t[1] = "create", At(t, "answered") PROVE t = s
      BY <1>1, <3>2 DEF Tracked, OneCreation, At
    <3> QED BY <1>2, <2>1, <3>1, <3>2 DEF NoStrays
  <2>3. ASSUME ~Exists, NEW t \in Slots, t[1] = "create", Running(t)'
        PROVE  jobs'[t].call.project \in made \ live
    <3>1. Running(t) /\ jobs'[t].call = jobs[t].call BY <1>1, <1>4, <1>5, <2>3 DEF Running
    <3> QED BY <2>1, <2>3, <3>1 DEF NoStrays
  <2> QED BY <1>1, <1>3, <2>2, <2>3 DEF NoStrays
<1>9. CallsKnown' BY <1>2, <1>3, <1>6, <1>7 DEF Agreed, CallsKnown, Running, At
<1>10. GrantsKnown' BY <1>1, <1>2, <1>3, <1>7 DEF Agreed, GrantsKnown
<1>11. SingleRole'
  <2> SUFFICES ASSUME Exists, team.single PROVE SingleRole' BY <1>3 DEF SingleRole
  <2>1. SingleRole BY DEF Agreed
  <2>2. \/ gaveUp' # {}
        \/ \E t \in Slots : t[1] \in {"create", "grant"} /\ jobs'[t] # NoJob
    BY <1>1, <1>4, <1>5
  <2>3. granted' \subseteq {Sole}' BY <1>1, <1>2, <1>3, <1>7, <2>1 DEF SingleRole, Sole
  <2>4. \A t \in Slots : t[1] = "role" => jobs'[t] = NoJob BY <1>6, <2>1 DEF SingleRole
  <2>5. ASSUME NEW t \in Slots, t[1] = "grant", At(t, "answered")', team'.project \in live'
        PROVE  Sole' \in granted'
    <3>1. At(t, "answered") /\ Running(t) BY <1>6, <2>5 DEF At, Running
    <3>2. team.project # NoProject BY <1>7, <2>5, <3>1
    <3> QED BY <1>1, <1>2, <1>3, <2>1, <2>5, <3>1, <3>2 DEF SingleRole, Sole
  <2> QED BY <1>1, <2>1, <2>2, <2>3, <2>4, <2>5 DEF SingleRole
<1>12. SharedRoles'
  <2> SUFFICES ASSUME Exists, ~team.single PROVE SharedRoles' BY <1>3 DEF SharedRoles
  <2>1. SharedRoles BY DEF Agreed
  <2>2. \A t \in Slots : t[1] = "grant" => jobs'[t] = NoJob BY <1>6, <2>1 DEF SharedRoles
  <2>3. ASSUME ~noticed, ~crossed, team'.project \in live, NEW u \in Users PROVE InStep(u)'
    <3>1. CASE team.project = NoProject
      <4>1. roles = {} /\ granted = {} /\ \A t \in Slots : t[1] = "role" => ~Running(t)'
        BY <1>6, <1>7, <2>1, <3>1 DEF SharedRoles, Running
      <4>2. \A t \in Slots : ~About(t, u)' BY <4>1 DEF About
      <4>3. GrantOf(u)' = {} /\ RoleOf(u)' = {} BY <1>1, <4>1 DEF GrantOf, RoleOf
      <4> QED BY <4>2, <4>3 DEF InStep, SameRound, Settled
    <3>2. CASE team.project # NoProject
      <4>1. team'.project = team.project BY <1>2, <1>3, <3>2
      <4>2. InStep(u) BY <2>1, <2>3, <4>1 DEF SharedRoles
      <4>3. GrantOf(u)' = GrantOf(u) /\ RoleOf(u)' = RoleOf(u)
        BY <1>1, <4>1 DEF GrantOf, RoleOf
      <4>4. ~About(s, u) /\ ~About(s, u)' BY <1>1 DEF About
      <4> QED BY <1>5, <4>2, <4>3, <4>4, StillInStep
    <3> QED BY <3>1, <3>2
  <2> QED BY <1>1, <1>2, <1>3, <2>2, <2>3 DEF SharedRoles
<1> QED BY <1>8, <1>9, <1>10, <1>11, <1>12 DEF Agreed

\* The row follows the cloud; whoever else asked about the user waits yet.
LEMMA RoleSaved ==
  ASSUME Tracked, Agreed, NEW s \in Slots, SaveRole(s),
         Exists, ~team.single, ~noticed', ~crossed, team.project \in live, NEW u \in Users
  PROVE  InStep(u)'
<1> DEFINE c == jobs[s].call
<1> TypeOK BY DEF Tracked
<1>1. /\ s[1] = "role" /\ Running(s) /\ At(s, "answered") /\ ~At(s, "sent")
      /\ c \in Call /\ c.op \in OpOf(s[1]) /\ jobs' = [jobs EXCEPT ![s] = NoJob]
      /\ UNCHANGED <<team, granted>>
  BY DEF SaveRole, Ends, At, Running, Tracked, OpsFit, cloud
<1>2. c.op \in {"add", "remove", "change"} /\ c.user \in Users /\ c.new \in Roles
  BY <1>1, CallShape DEF OpOf
<1>3. (\A t \in Slots : t # s => jobs'[t] = jobs[t]) /\ jobs'[s] = NoJob BY <1>1 DEF TypeOK
<1>4. /\ ~noticed
      /\ c.op = "add" => roles' = roles \cup {<<c.user, c.new>>}
      /\ c.op = "remove" => roles' = {h \in roles : h[1] # c.user}
      /\ c.op = "change" => roles' = IF RoleOf(c.user) = {} THEN roles
                             ELSE {h \in roles : h[1] # c.user} \cup {<<c.user, c.new>>}
  BY DEF SaveRole
<1>5. InStep(u) BY <1>4 DEF Agreed, SharedRoles
<1>6. GrantOf(u)' = GrantOf(u) BY <1>1 DEF GrantOf
<1>7. \A t \in Slots : About(t, u)' => About(t, u) /\ t # s /\ jobs'[t] = jobs[t]
  BY <1>3 DEF About, Running
<1> HIDE DEF c
<1>8. CASE u # c.user
  <2>1. ~About(s, u) /\ ~About(s, u)' BY <1>7, <1>8 DEF About, c
  <2>2. RoleOf(u)' = RoleOf(u) BY <1>2, <1>4, <1>8 DEF RoleOf
  <2> QED BY <1>3, <1>5, <1>6, <2>1, <2>2, StillInStep
<1>9. CASE u = c.user
  <2>1. About(s, u) BY <1>1, <1>9 DEF About, c
  <2>2. AnsweredFirst(s, u)
    <3>1. ~Settled(u) BY <1>1, <2>1 DEF Settled
    <3>2. PICK r \in Slots : AnsweredFirst(r, u) BY <1>5, <3>1 DEF InStep
    <3>3. r = s BY <1>1, <2>1, <3>2 DEF AnsweredFirst
    <3> QED BY <3>2, <3>3
  <2>3. /\ RoleOf(u) = IF c.op = "add" THEN {} ELSE {c.old}
        /\ GrantOf(u) = IF c.op = "remove" THEN {} ELSE {c.new}
        /\ \A t \in Slots : About(t, u) /\ t # s => At(t, "sent")
    BY <2>2 DEF AnsweredFirst, c
  <2>4. RoleOf(u)' = IF c.op = "remove" THEN {} ELSE {c.new}
    <3>1. CASE c.op = "add"
      <4>1. RoleOf(u)' = RoleOf(u) \cup {c.new} BY <1>2, <1>4, <1>9, <3>1 DEF RoleOf
      <4> QED BY <2>3, <3>1, <4>1
    <3>2. CASE c.op = "remove" BY <1>4, <1>9, <3>2 DEF RoleOf
    <3>3. CASE c.op = "change"
      <4>1. roles' = {h \in roles : h[1] # c.user} \cup {<<c.user, c.new>>}
        BY <1>4, <1>9, <2>3, <3>3
      <4> QED BY <1>2, <1>9, <3>3, <4>1 DEF RoleOf
    <3> QED BY <1>2, <3>1, <3>2, <3>3
  <2>5. SameRound(u) BY <1>5 DEF InStep
  <2>6. SameRound(u)' BY <1>7, <2>5 DEF SameRound
  <2>7. \A t \in Slots : About(t, u)' => At(t, "sent")' /\ jobs'[t].call.op # "add"
    BY <1>7, <2>1, <2>3, <2>5 DEF SameRound, At
  <2>8. Settled(u)' BY <1>2, <1>6, <2>3, <2>4, <2>7 DEF Settled
  <2> QED BY <2>6, <2>8 DEF InStep
<1> QED BY <1>8, <1>9

LEMMA SaveRoleAgreed == ASSUME Tracked, Agreed, NEW s \in Slots, SaveRole(s) PROVE Agreed'
<1> TypeOK BY DEF Tracked
<1>1. /\ s[1] = "role" /\ Running(s) /\ jobs[s] # NoJob
      /\ jobs' = [jobs EXCEPT ![s] = NoJob]
      /\ UNCHANGED <<team, live, made, granted, gaveUp, lost, unlinked, crossed>>
      /\ noticed => noticed'
  BY DEF SaveRole, Ends, At, Running, cloud
<1>2. (\A t \in Slots : t # s => jobs'[t] = jobs[t]) /\ jobs'[s] = NoJob BY <1>1 DEF TypeOK
<1>3. NoStrays'
  <2>1. \A t \in Slots : t[1] = "create" => jobs'[t] = jobs[t] BY <1>1, <1>2
  <2> QED BY <1>1, <2>1 DEF Agreed, NoStrays, Exists, Running, At
<1>4. CallsKnown' BY <1>1, <1>2 DEF Agreed, CallsKnown, Exists, Running, At
<1>5. GrantsKnown' BY <1>1 DEF Agreed, GrantsKnown, Exists
<1>6. SingleRole' BY <1>1 DEF Agreed, SingleRole, Exists
<1>7. SharedRoles'
  <2> SUFFICES ASSUME Exists, ~team.single PROVE SharedRoles' BY <1>1 DEF SharedRoles, Exists
  <2>1. \A t \in Slots : t[1] = "grant" => jobs'[t] = NoJob
    BY <1>1, <1>2 DEF Agreed, SharedRoles
  <2>2. team.project # NoProject BY <1>1 DEF Agreed, CallsKnown
  <2> QED BY <1>1, <2>1, <2>2, RoleSaved DEF SharedRoles, Exists
<1> QED BY <1>3, <1>4, <1>5, <1>6, <1>7 DEF Agreed

\* A request joins those made for the role the user has, or crosses them.
LEMMA RoleRequestAgreed == ASSUME Tracked, Agreed, RoleRequest PROVE Agreed'
<1> TypeOK BY DEF Tracked
<1>1. /\ Exists /\ ~team.single /\ team.project # NoProject /\ team.project \in Projects
      /\ UNCHANGED <<team, roles, live, made, granted, noticed, gaveUp, lost, unlinked>>
  BY DEF RoleRequest, Exists, Row, cloud
<1>2. (CHOOSE t \in Free("role") : TRUE) \in Free("role") BY DEF RoleRequest
<1>3. PICK s \in Free("role"), v \in Users, new \in Roles, old \in Roles,
          op \in {"add", "remove", "change"} :
        /\ Asks(s, op, v, old, new)
        /\ \/ op = "add" /\ RoleOf(v) = {}
           \/ op # "add" /\ old \in RoleOf(v) /\ (op = "change" => old # new)
        /\ crossed' = (crossed \/ \E t \in Slots : BegunBefore(t, v))
  BY <1>2 DEF RoleRequest, RoleOf
<1> DEFINE c == [op |-> op, project |-> team.project, user |-> v, old |-> old, new |-> new]
           x == [New("sent") EXCEPT !.call = c]
<1>4. /\ c \in Call /\ c.op = op /\ c.project = team.project /\ c.user = v
      /\ c.old = old /\ c.new = new
  BY <1>1, <1>3 DEF Call
<1>5. s \in Slots /\ s[1] = "role" /\ jobs[s] = NoJob BY <1>3 DEF Free
<1>6. jobs' = [jobs EXCEPT ![s] = x] BY <1>3 DEF Asks
<1> HIDE DEF c
<1>7. x \in Job \ {NoJob} /\ x.call = c /\ x.at = "sent"
  BY <1>4, NewShape, TeamsAssumption DEF New
<1> HIDE DEF x
<1>8. (\A t \in Slots : t # s => jobs'[t] = jobs[t]) /\ jobs'[s] = x BY <1>5, <1>6 DEF TypeOK
<1>9. NoStrays'
  <2>1. \A t \in Slots : t[1] = "create" => jobs'[t] = jobs[t] BY <1>5, <1>8
  <2> QED BY <1>1, <2>1 DEF Agreed, NoStrays, Exists, Running, At
<1>10. CallsKnown'
  BY <1>1, <1>3, <1>4, <1>5, <1>7, <1>8 DEF Agreed, CallsKnown, Exists, Running, At
<1>11. GrantsKnown' BY <1>1 DEF Agreed, GrantsKnown, Exists
<1>12. SingleRole' BY <1>1 DEF SingleRole
<1>13. SharedRoles'
  <2>1. \A t \in Slots : t[1] = "grant" => jobs'[t] = NoJob
    BY <1>1, <1>5, <1>8 DEF Agreed, SharedRoles
  <2>2. ASSUME ~noticed, ~crossed', team.project \in live, NEW u \in Users PROVE InStep(u)'
    <3>1. InStep(u) /\ SameRound(u) BY <1>1, <1>3, <2>2 DEF Agreed, SharedRoles, InStep
    <3>2. GrantOf(u)' = GrantOf(u) /\ RoleOf(u)' = RoleOf(u) BY <1>1 DEF GrantOf, RoleOf
    <3>3. CASE u # v
      <4>1. ~About(s, u) /\ ~About(s, u)' BY <1>4, <1>5, <1>7, <1>8, <3>3 DEF About, Running
      <4> QED BY <1>8, <3>1, <3>2, <4>1, StillInStep
    <3>4. CASE u = v
      <4>1. ASSUME NEW t \in Slots, About(t, u)
            PROVE  jobs[t].call.op # "add" /\ RoleOf(u) = {jobs[t].call.old}
        <5>1. ~BegunBefore(t, v) BY <1>3, <2>2
        <5> QED BY <3>4, <4>1, <5>1 DEF BegunBefore, About
      <4>2. \A t \in Slots : About(t, u)' => t = s \/ (About(t, u) /\ jobs'[t] = jobs[t])
        BY <1>8 DEF About, Running
      <4>3. jobs'[s].call = c /\ At(s, "sent")' /\ ~At(s, "answered")'
        BY <1>7, <1>8 DEF At
      <4>4. \A t \in Slots : About(t, u) => op # "add" /\ jobs[t].call.old = old
        BY <1>3, <3>4, <4>1
      <4>5. SameRound(u)' BY <1>4, <4>1, <4>2, <4>3, <4>4 DEF SameRound
      <4>6. ASSUME Settled(u) PROVE Settled(u)'
        <5>1. \A t \in Slots : About(t, u)' => At(t, "sent")'
          BY <4>2, <4>3, <4>6 DEF Settled, At
        <5>2. \A t \in Slots : About(t, u)' /\ jobs'[t].call.op = "add" => RoleOf(u)' = {}
          BY <1>3, <1>4, <3>2, <3>4, <4>1, <4>2, <4>3
        <5> QED BY <3>2, <4>6, <5>1, <5>2 DEF Settled
      <4>7. ASSUME NEW r \in Slots, AnsweredFirst(r, u) PROVE AnsweredFirst(r, u)'
        <5>1. r # s /\ jobs'[r] = jobs[r] /\ About(r, u)' /\ At(r, "answered")'
          BY <1>5, <1>8, <4>7 DEF AnsweredFirst, About, Running, At
        <5>2. \A t \in Slots : About(t, u)' /\ t # r => At(t, "sent")'
          BY <4>2, <4>3, <4>7 DEF AnsweredFirst, At
        <5> QED BY <3>2, <4>7, <5>1, <5>2 DEF AnsweredFirst
      <4> QED BY <3>1, <4>5, <4>6, <4>7 DEF InStep
    <3> QED BY <3>3, <3>4
  <2> QED BY <1>1, <2>1, <2>2 DEF SharedRoles
<1> QED BY <1>9, <1>10, <1>11, <1>12, <1>13 DEF Agreed
---------------------------------------------------------------------------
LEMMA InitAgreed == ASSUME Init PROVE Agreed
<1>1. ~Exists /\ live = {} /\ made = {} /\ \A s \in Slots : ~Running(s)
  BY TeamsAssumption DEF Init, Exists, Running
<1>2. NoStrays /\ CallsKnown /\ GrantsKnown BY <1>1 DEF NoStrays, CallsKnown, GrantsKnown
<1>3. SingleRole /\ SharedRoles BY <1>1 DEF SingleRole, SharedRoles
<1> QED BY <1>2, <1>3 DEF Agreed

LEMMA AgreedStep == ASSUME Tracked, Agreed, [Next]_vars PROVE Agreed'
<1>1. CASE UNCHANGED vars
  <2>1. Passing BY <1>1 DEF vars, Passing, SameTeam
  <2>2. Exists /\ team.single => Grantable'
    BY <1>1 DEF vars, Agreed, SingleRole, Grantable, Sole
  <2> QED BY <2>1, <2>2, Undisturbed
<1>2. CASE CreateTeam BY <1>2, CreateTeamAgreed
<1>3. CASE DeleteTeam BY <1>3, DeleteTeamAgreed
<1>4. CASE RoleRequest BY <1>4, RoleRequestAgreed
<1>5. ASSUME NEW s \in Slots, Schedule(s) \/ Run(s) \/ Crash(s) PROVE Agreed'
  <2>1. CASE Schedule(s) BY <2>1, ScheduleAgreed
  <2>2. CASE Crash(s) BY <2>2, CrashAgreed
  <2>3. CASE Run(s)
    BY <2>3, StartCreateAgreed, StartDeleteAgreed, StartGrantAgreed, AnswerAgreed, FailAgreed,
       LinkProjectAgreed, LinkBillingAgreed, DestroyUnlinkedAgreed, DestroyTeamAgreed,
       GrantSavedAgreed, SaveRoleAgreed DEF Run
  <2> QED BY <1>5, <2>1, <2>2, <2>3
<1> QED BY <1>1, <1>2, <1>3, <1>4, <1>5 DEF Next

LEMMA AgreedIsSafe == ASSUME Tracked, Agreed PROVE Safety
<1> TypeOK BY DEF Tracked
<1>1. ProjectsAreKnown
  BY DEF ProjectsAreKnown, Agreed, NoStrays, Quiet, At
<1>2. RolesAgree
  <2> DEFINE inCloud == {<<g[2], g[3]>> : g \in {h \in granted : h[1] = team.project}}
  <2> SUFFICES ASSUME Quiet, Exists, team.project \in live, ~noticed, ~crossed
               PROVE  inCloud = roles \/ (team.single /\ gaveUp # {})
    BY DEF RolesAgree
  <2>1. CASE team.single
    <3>1. CASE gaveUp # {} BY <2>1, <3>1
    <3>2. CASE gaveUp = {}
      <4>1. granted = {Sole} /\ roles = {<<Owner, "admin">>}
        BY <2>1, <3>2 DEF Agreed, SingleRole, Quiet
      <4> DEFINE here == {h \in granted : h[1] = team.project}
      <4>2. here = {Sole} /\ Sole[2] = Owner /\ Sole[3] = "admin" BY <4>1 DEF Sole
      <4> HIDE DEF here
      <4>3. {<<g[2], g[3]>> : g \in here} = {<<Sole[2], Sole[3]>>} BY <4>2
      <4> QED BY <4>1, <4>2, <4>3 DEF here
    <3> QED BY <3>1, <3>2
  <2>2. CASE ~team.single
    <3>1. \A u \in Users : GrantOf(u) = RoleOf(u)
      BY <2>2 DEF Agreed, SharedRoles, InStep, Settled, AnsweredFirst, At, Quiet
    <3>2. ASSUME NEW u \in Users, NEW r \in Roles
          PROVE  <<u, r>> \in roles <=> <<team.project, u, r>> \in granted
      BY <3>1 DEF GrantOf, RoleOf
    <3>3. inCloud = {h \in Held : <<team.project, h[1], h[2]>> \in granted}
      BY DEF TypeOK, Held
    <3>4. \A h \in Held : h \in roles <=> <<team.project, h[1], h[2]>> \in granted
      BY <3>2 DEF Held
    <3> HIDE DEF inCloud
    <3>5. \A h : h \in inCloud <=> h \in roles BY <3>3, <3>4 DEF TypeOK
    <3> QED BY <3>5
  <2> QED BY <2>1, <2>2
<1> QED BY <1>1, <1>2 DEF Safety

(***************************************************************************)
(* Cloud and database agree once no job is left, for every number of       *)
(* users, roles, requests, retries and crashes: the roles of a team are    *)
(* those the cloud grants in its project, unless a request failed or was   *)
(* made while an older one was open, and the cloud keeps no project the    *)
(* team does not know, unless an answer was lost or the team was destroyed *)
(* without the middleware although it was being created, or had been since *)
(* the deletion loaded it.                                                 *)
(***************************************************************************)
THEOREM TeamsSafety == Spec => []Safety
<1>1. Init => Tracked /\ Agreed BY InitTracked, InitAgreed
<1>2. Tracked /\ Agreed /\ [Next]_vars => Tracked' /\ Agreed' BY TrackedStep, AgreedStep
<1>3. Tracked /\ Agreed => Safety BY AgreedIsSafe
<1> QED BY <1>1, <1>2, <1>3, PTL DEF Spec
==============================================================================
