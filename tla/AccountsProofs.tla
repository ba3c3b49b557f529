---------------------------- MODULE AccountsProofs ----------------------------
(***************************************************************************)
(* For every number of jobs, attempts, password changes and crashes: the   *)
(* types of Accounts, LinkedAccountExists and StaleJobsKeepTheRow.         *)
(*                                                                         *)
(* LinkedAccountExists is not inductive.  A link is saved when an answer   *)
(* has been received, so an answered sign-up has to know its account       *)
(* (AnswerKnown); an account goes away only for a deletion, so a deletion  *)
(* under way has to have its mark (DeletionsMarked); and both hold of a    *)
(* new user because nothing is under way for nobody (NothingForNobody).    *)
(***************************************************************************)
EXTENDS Accounts, TLAPS

Waits(j) == j = NoJob \/ (j \in Job /\ j.at = "queued")

(* A job that runs has seen a row of the kind it works with. *)
SeenFits(s, j) ==
    s[1] \in {"signup", "update"} /\ j.at \in {"sent", "answered"} =>
        \E row \in Row : j.seen = Seen(s[1], row)

JobFits(s, j) == j = NoJob \/ (j \in Job /\ SeenFits(s, j))
JobsFit == \A s \in Slots : JobFits(s, jobs[s])

DeletionsMarked ==
    Exists /\ ("delete" \in web \/ \E s \in Slots : s[1] = "delete" /\ jobs[s] # NoJob) =>
        user.deleted

AnswerKnown ==
    \A s \in Slots : s[1] = "signup" /\ At(s, "answered") /\ Exists /\ ~user.deleted =>
        account # NoAccount

NothingForNobody ==
    user = Nobody =>
        /\ web \subseteq {"configCreated"}
        /\ \A s \in Slots : jobs[s] # NoJob => s[1] = "configCreated"

Good ==
    /\ TypeOK /\ JobsFit
    /\ DeletionsMarked /\ AnswerKnown /\ NothingForNobody /\ LinkedAccountExists

-----------------------------------------------------------------------------
(* A slot belongs to a kind of job. *)
LEMMA SlotKinds == \A s \in Slots : s[1] \in Kinds
BY DEF Slots

LEMMA NobodyIsACopy == Nobody \in Copies
BY DEF Copies

LEMMA SeenIsACopy == \A kind \in {"signup", "update", "delete"}, row \in Row : Seen(kind, row) \in Copies
<1> TAKE kind \in {"signup", "update", "delete"}, row \in Row
<1>1. CASE kind = "delete" BY <1>1 DEF Seen, Copies
<1>2. CASE kind \in {"signup", "update"} BY <1>2 DEF Copies
<1> QED BY <1>1, <1>2

LEMMA QueuedWaits == QueuedJob \in Job /\ QueuedJob.at = "queued" /\ QueuedJob # NoJob
BY BoundsAssumption, DistinctAssumption, NobodyIsACopy DEF QueuedJob, Job

(* With adds a waiting job of its kind and leaves the others alone. *)
LEMMA WithAdds ==
    ASSUME NEW js \in [Slots -> Job \cup {NoJob}], NEW kind, HasRoom(js, kind)
    PROVE  \E t \in Slots : /\ t[1] = kind /\ js[t] = NoJob
                            /\ With(js, kind) = [js EXCEPT ![t] = QueuedJob]
<1> DEFINE t == CHOOSE s \in FreeSlots(js, kind) : TRUE
<1>1. t \in FreeSlots(js, kind) BY DEF HasRoom
<1>2. t \in Slots /\ t[1] = kind /\ js[t] = NoJob BY <1>1 DEF FreeSlots, SlotsOf
<1>3. With(js, kind) = [js EXCEPT ![t] = QueuedJob] BY DEF With
<1> QED BY <1>2, <1>3

(* A job that ends leaves its slot, or waits in it to be run again. *)
LEMMA EndsLeaves ==
    ASSUME NEW js \in [Slots -> Job \cup {NoJob}], NEW s \in Slots, js[s] # NoJob,
           crashes \in 0..MaxCrashes, Ends(s, js)
    PROVE  /\ \E j : Waits(j) /\ jobs' = [js EXCEPT ![s] = j]
           /\ crashes' \in 0..MaxCrashes
<1>1. CASE jobs' = [js EXCEPT ![s] = NoJob] /\ UNCHANGED crashes
  BY <1>1 DEF Waits
<1>2. CASE /\ crashes < MaxCrashes
           /\ crashes' = crashes + 1
           /\ jobs' = [js EXCEPT ![s].at = "queued", ![s].seen = Nobody]
  <2> DEFINE j == [js[s] EXCEPT !.at = "queued", !.seen = Nobody]
  <2>1. js[s] \in Job OBVIOUS
  <2>2. j \in Job /\ j.at = "queued" BY <2>1, NobodyIsACopy DEF Job
  <2>3. jobs' = [js EXCEPT ![s] = j] BY <1>2, <2>1
  <2>4. crashes' \in 0..MaxCrashes BY <1>2, BoundsAssumption
  <2> QED BY <2>2, <2>3, <2>4 DEF Waits
<1> QED BY <1>1, <1>2 DEF Ends

(* One slot changes. *)
LEMMA OneSlot ==
    ASSUME NEW js \in [Slots -> Job \cup {NoJob}], NEW s \in Slots,
           NEW j \in Job \cup {NoJob}, jobs' = [js EXCEPT ![s] = j]
    PROVE  /\ jobs' \in [Slots -> Job \cup {NoJob}]
           /\ jobs'[s] = j
           /\ \A t \in Slots : t # s => jobs'[t] = js[t]
OBVIOUS

-----------------------------------------------------------------------------
(* What no step but a registration breaks.  A slot is calm when its new    *)
(* job fits, has its account if it is an answered sign-up, and is only     *)
(* there at all for a request that has called for it.                      *)
Calm(t) ==
    \/ jobs'[t] = jobs[t]
    \/ /\ JobFits(t, jobs'[t])
       /\ t[1] = "signup" /\ At(t, "answered")' => account' # NoAccount
       /\ jobs'[t] # NoJob /\ jobs[t] = NoJob =>
            /\ t[1] = "delete" => "delete" \in web
            /\ user' = Nobody => t[1] = "configCreated"

UserKept ==
    \/ user' = user
    \/ user' = Destroyed
    \/ /\ Exists /\ user' \in Row
       /\ user.deleted => user'.deleted
       /\ user'.cloud /\ ~user'.deleted => user.cloud \/ account # NoAccount

WebKept ==
    /\ "delete" \in web' => "delete" \in web \/ (user' \in Row => user'.deleted)
    /\ user' = Nobody => web' \subseteq web \cup {"configCreated"}

AccountKept == account' # NoAccount \/ account' = account \/ ~Exists \/ user.deleted

LEMMA CalmStep ==
    ASSUME Good, TypeOK', \A t \in Slots : Calm(t), UserKept, WebKept, AccountKept
    PROVE  Good'
<1> USE DEF Good
<1>1. JobsFit'
  BY DEF JobsFit, JobFits, SeenFits, Calm
<1>2. DeletionsMarked'
  <2> SUFFICES ASSUME user' \in Row, ~user'.deleted,
                      "delete" \in web' \/ \E s \in Slots : s[1] = "delete" /\ jobs'[s] # NoJob
               PROVE  FALSE
    BY DEF DeletionsMarked, Exists
  <2>1. user \in Row /\ ~user.deleted
    BY DistinctAssumption DEF UserKept, Exists
  <2>2. "delete" \notin web BY <2>1 DEF DeletionsMarked, Exists
  <2>3. "delete" \notin web' BY <2>2 DEF WebKept
  <2>4. PICK s \in Slots : s[1] = "delete" /\ jobs'[s] # NoJob BY <2>3
  <2>5. jobs[s] # NoJob BY <2>2, <2>4 DEF Calm
  <2> QED BY <2>1, <2>4, <2>5 DEF DeletionsMarked, Exists
<1>3. AnswerKnown'
  <2> SUFFICES ASSUME NEW s \in Slots, s[1] = "signup", At(s, "answered")',
                      user' \in Row, ~user'.deleted, account' = NoAccount
               PROVE  FALSE
    BY DEF AnswerKnown, Exists
  <2>1. user \in Row /\ ~user.deleted
    BY DistinctAssumption DEF UserKept, Exists
  <2>2. jobs'[s] = jobs[s] BY DEF Calm
  <2>3. account # NoAccount BY <2>1, <2>2 DEF AnswerKnown, At, Exists
  <2> QED BY <2>1, <2>3 DEF AccountKept, Exists
<1>4. NothingForNobody'
  <2> SUFFICES ASSUME user' = Nobody
               PROVE  /\ web' \subseteq {"configCreated"}
                      /\ \A s \in Slots : jobs'[s] # NoJob => s[1] = "configCreated"
    BY DEF NothingForNobody
  <2>1. user = Nobody BY DistinctAssumption DEF UserKept
  <2>2. web' \subseteq {"configCreated"} BY <2>1 DEF WebKept, NothingForNobody
  <2>3. \A s \in Slots : jobs'[s] # NoJob => s[1] = "configCreated"
    BY <2>1 DEF Calm, NothingForNobody
  <2> QED BY <2>2, <2>3
<1>5. LinkedAccountExists'
  <2> SUFFICES ASSUME user' \in Row, user'.cloud, ~user'.deleted, account' = NoAccount
               PROVE  FALSE
    BY DEF LinkedAccountExists, Exists
  <2>1. user \in Row /\ ~user.deleted
    BY DistinctAssumption DEF UserKept, Exists
  <2>2. account # NoAccount BY <2>1, DistinctAssumption DEF UserKept, LinkedAccountExists, Exists
  <2> QED BY <2>1, <2>2 DEF AccountKept, Exists
<1> QED BY <1>1, <1>2, <1>3, <1>4, <1>5

-----------------------------------------------------------------------------
(* Steps of the web application. *)
LEMMA RegisterGood == ASSUME Good, NEW p \in Passwords, Register(p) PROVE Good'
<1> USE DEF Good
<1>1. user' \in Row /\ ~user'.deleted /\ ~user'.cloud BY DEF Register, Row
<1>2. user = Nobody /\ jobs' = jobs /\ web' = web \cup {"signup"} BY DEF Register
<1>3. TypeOK' BY <1>1 DEF Register, TypeOK
<1>4. JobsFit' BY <1>2 DEF JobsFit, JobFits, SeenFits
<1>5. \A s \in Slots : jobs'[s] # NoJob => s[1] = "configCreated"
  BY <1>2 DEF NothingForNobody
<1>6. "delete" \notin web' BY <1>2 DEF NothingForNobody
<1>7. DeletionsMarked' BY <1>5, <1>6 DEF DeletionsMarked
<1>8. AnswerKnown' BY <1>5 DEF AnswerKnown, At
<1>9. NothingForNobody' BY <1>1, DistinctAssumption DEF NothingForNobody
<1>10. LinkedAccountExists' BY <1>1 DEF LinkedAccountExists
<1> QED BY <1>3, <1>4, <1>7, <1>8, <1>9, <1>10

LEMMA CreateConfigGood == ASSUME Good, CreateConfig PROVE Good'
<1>1. TypeOK' BY DEF Good, CreateConfig, TypeOK
<1>2. \A t \in Slots : Calm(t) BY DEF CreateConfig, Calm
<1>3. UserKept /\ WebKept /\ AccountKept
  BY DEF CreateConfig, UserKept, WebKept, AccountKept
<1> QED BY <1>1, <1>2, <1>3, CalmStep

(* A new job in a free slot is calm for any kind but a deletion. *)
LEMMA NewJobIsCalm ==
    ASSUME TypeOK, NEW kind \in Kinds, HasRoom(jobs, kind), jobs' = With(jobs, kind),
           kind = "delete" => "delete" \in web,
           user' # Nobody \/ kind = "configCreated"
    PROVE  jobs' \in [Slots -> Job \cup {NoJob}] /\ \A t \in Slots : Calm(t)
<1>1. jobs \in [Slots -> Job \cup {NoJob}] BY DEF TypeOK
<1>2. PICK s \in Slots : /\ s[1] = kind /\ jobs[s] = NoJob
                         /\ jobs' = [jobs EXCEPT ![s] = QueuedJob]
  BY <1>1, WithAdds
<1>3. /\ jobs' \in [Slots -> Job \cup {NoJob}]
      /\ jobs'[s] = QueuedJob
      /\ \A t \in Slots : t # s => jobs'[t] = jobs[t]
  BY <1>1, <1>2, QueuedWaits, OneSlot
<1>4. JobFits(s, jobs'[s]) BY <1>3, QueuedWaits DEF JobFits, SeenFits
<1>5. ~At(s, "answered")' BY <1>3, QueuedWaits DEF At
<1>6. Calm(s) BY <1>2, <1>4, <1>5 DEF Calm
<1>7. \A t \in Slots : t # s => Calm(t) BY <1>3 DEF Calm
<1> QED BY <1>3, <1>6, <1>7

LEMMA ChangePasswordGood == ASSUME Good, NEW p \in Passwords, ChangePassword(p) PROVE Good'
<1>1. user \in Row /\ user' = Changed(user, p) /\ user # Nobody
  BY DistinctAssumption DEF ChangePassword, Exists
<1>2. user' \in Row /\ user'.deleted = user.deleted /\ user'.cloud = user.cloud
  BY <1>1 DEF Changed, Row
<1>3. user' # Nobody BY <1>2, DistinctAssumption
<1>4. jobs' \in [Slots -> Job \cup {NoJob}] /\ \A t \in Slots : Calm(t)
  <2>1. CASE UNCHANGED jobs BY <2>1 DEF Calm, Good, TypeOK
  <2>2. CASE HasRoom(jobs, "update") /\ jobs' = With(jobs, "update")
    BY <2>2, <1>3, NewJobIsCalm DEF Good, Kinds
  <2> QED BY <2>1, <2>2 DEF ChangePassword
<1>5. TypeOK'
  <2>1. changes' \in 0..MaxChanges BY BoundsAssumption DEF ChangePassword, Good, TypeOK
  <2> QED BY <1>2, <1>4, <2>1 DEF ChangePassword, Good, TypeOK
<1>6. UserKept /\ WebKept /\ AccountKept
  BY <1>1, <1>2, <1>3 DEF ChangePassword, UserKept, WebKept, AccountKept, Exists
<1> QED BY <1>4, <1>5, <1>6, CalmStep

LEMMA DeleteUserGood == ASSUME Good, DeleteUser PROVE Good'
<1>1. user \in Row /\ user' = [user EXCEPT !.deleted = TRUE] BY DEF DeleteUser, Exists
<1>2. user' \in Row /\ user'.deleted /\ user'.cloud = user.cloud BY <1>1 DEF Row
<1>3. user' # Nobody BY <1>2, DistinctAssumption
<1>4. TypeOK' BY <1>2 DEF DeleteUser, Good, TypeOK
<1>5. \A t \in Slots : Calm(t) BY DEF DeleteUser, Calm
<1>6. UserKept /\ WebKept /\ AccountKept
  BY <1>1, <1>2, <1>3 DEF DeleteUser, UserKept, WebKept, AccountKept, Exists
<1> QED BY <1>4, <1>5, <1>6, CalmStep

LEMMA ScheduleGood == ASSUME Good, NEW kind \in Kinds, Schedule(kind) PROVE Good'
<1>1. jobs' \in [Slots -> Job \cup {NoJob}] /\ \A t \in Slots : Calm(t)
  <2>1. CASE UNCHANGED jobs BY <2>1 DEF Calm, Good, TypeOK
  <2>2. CASE HasRoom(jobs, kind) /\ jobs' = With(jobs, kind)
    <3>1. user' # Nobody \/ kind = "configCreated"
      BY DEF Schedule, Good, NothingForNobody
    <3> QED BY <2>2, <3>1, NewJobIsCalm DEF Schedule, Good
  <2> QED BY <2>1, <2>2 DEF Schedule
<1>2. TypeOK' BY <1>1 DEF Schedule, Good, TypeOK
<1>3. UserKept /\ WebKept /\ AccountKept
  BY DEF Schedule, UserKept, WebKept, AccountKept
<1> QED BY <1>1, <1>2, <1>3, CalmStep

LEMMA WebCrashGood == ASSUME Good, NEW kind \in Kinds, WebCrash(kind) PROVE Good'
<1>1. TypeOK'
  <2>1. crashes' \in 0..MaxCrashes BY BoundsAssumption DEF WebCrash, Good, TypeOK
  <2> QED BY <2>1 DEF WebCrash, Good, TypeOK
<1>2. \A t \in Slots : Calm(t) BY DEF WebCrash, Calm
<1>3. UserKept /\ WebKept /\ AccountKept
  BY DEF WebCrash, UserKept, WebKept, AccountKept
<1> QED BY <1>1, <1>2, <1>3, CalmStep

-----------------------------------------------------------------------------
(* Steps of the jobs. *)

(* A job that changes is calm unless it becomes an answered sign-up. *)
LEMMA ChangedJobIsCalm ==
    ASSUME TypeOK, NEW s \in Slots, jobs[s] # NoJob, NEW j, JobFits(s, j),
           jobs' = [jobs EXCEPT ![s] = j],
           s[1] = "signup" /\ j # NoJob /\ j.at = "answered" => account' # NoAccount
    PROVE  jobs' \in [Slots -> Job \cup {NoJob}] /\ \A t \in Slots : Calm(t)
<1>1. j \in Job \cup {NoJob} BY DEF JobFits
<1>2. /\ jobs' \in [Slots -> Job \cup {NoJob}]
      /\ jobs'[s] = j
      /\ \A t \in Slots : t # s => jobs'[t] = jobs[t]
  BY <1>1, OneSlot DEF TypeOK
<1>3. Calm(s) BY <1>2 DEF Calm, At
<1>4. \A t \in Slots : t # s => Calm(t) BY <1>2 DEF Calm
<1> QED BY <1>2, <1>3, <1>4

LEMMA WaitsFits == \A s, j : Waits(j) => JobFits(s, j) /\ (j # NoJob => j.at = "queued")
BY DEF Waits, JobFits, SeenFits

LEMMA EndedJobIsCalm ==
    ASSUME TypeOK, NEW s \in Slots, jobs[s] # NoJob, Ends(s, jobs)
    PROVE  /\ jobs' \in [Slots -> Job \cup {NoJob}] /\ \A t \in Slots : Calm(t)
           /\ crashes' \in 0..MaxCrashes
<1>1. PICK j : Waits(j) /\ jobs' = [jobs EXCEPT ![s] = j] BY EndsLeaves DEF TypeOK
<1>2. JobFits(s, j) /\ (j # NoJob => j.at = "queued") BY <1>1, WaitsFits
<1>3. crashes' \in 0..MaxCrashes BY EndsLeaves DEF TypeOK
<1> QED BY <1>1, <1>2, <1>3, ChangedJobIsCalm

LEMMA EndedJobWithAnotherIsCalm ==
    ASSUME TypeOK, NEW s \in Slots, jobs[s] # NoJob, NEW kind \in Kinds \ {"delete"},
           HasRoom(jobs, kind), Ends(s, With(jobs, kind)), user' # Nobody
    PROVE  /\ jobs' \in [Slots -> Job \cup {NoJob}] /\ \A t \in Slots : Calm(t)
           /\ crashes' \in 0..MaxCrashes
<1> DEFINE js == With(jobs, kind)
<1>1. PICK r \in Slots : r[1] = kind /\ jobs[r] = NoJob /\ js = [jobs EXCEPT ![r] = QueuedJob]
  BY WithAdds DEF TypeOK
<1>2. js \in [Slots -> Job \cup {NoJob}] /\ js[s] = jobs[s] /\ js[r] = QueuedJob
      /\ \A t \in Slots : t # r => js[t] = jobs[t]
  BY <1>1, QueuedWaits DEF TypeOK
<1>3. PICK j : Waits(j) /\ jobs' = [js EXCEPT ![s] = j]
  <2> HIDE DEF js
  <2> QED BY <1>2, EndsLeaves DEF TypeOK, js
<1>4. j \in Job \cup {NoJob} BY <1>3 DEF Waits
<1>5. /\ jobs' \in [Slots -> Job \cup {NoJob}]
      /\ jobs'[s] = j
      /\ \A t \in Slots : t # s => jobs'[t] = js[t]
  <2> HIDE DEF js
  <2> QED BY <1>2, <1>3, <1>4, OneSlot
<1>6. Calm(s) BY <1>3, <1>5, WaitsFits DEF Calm, At
<1>7. Calm(r)
  <2>1. jobs'[r] = QueuedJob /\ r # s BY <1>1, <1>2, <1>5
  <2>2. Waits(QueuedJob) BY QueuedWaits DEF Waits
  <2> QED BY <1>1, <2>1, <2>2, WaitsFits, QueuedWaits DEF Calm, At
<1>8. \A t \in Slots : t # s /\ t # r => Calm(t)
  <2> HIDE DEF js
  <2> QED BY <1>2, <1>5 DEF Calm
<1>9. crashes' \in 0..MaxCrashes
  <2> HIDE DEF js
  <2> QED BY <1>2, EndsLeaves DEF TypeOK, js
<1> QED BY <1>5, <1>6, <1>7, <1>8, <1>9

LEMMA RetriedJobIsCalm ==
    ASSUME TypeOK, NEW s \in Slots, jobs[s] # NoJob, IsTriedAgain(s)
    PROVE  /\ jobs' \in [Slots -> Job \cup {NoJob}] /\ \A t \in Slots : Calm(t)
           /\ gaveUp' \subseteq Kinds
<1>1. jobs[s] \in Job BY DEF TypeOK
<1>2. CASE jobs[s].attempts + 1 < MaxAttempts
  <2> DEFINE j == [QueuedJob EXCEPT !.attempts = jobs[s].attempts + 1]
  <2>1. jobs[s].attempts + 1 \in 0..(MaxAttempts - 1)
    BY <1>1, <1>2, BoundsAssumption DEF Job
  <2>2. j \in Job /\ j.at = "queued"
    BY <2>1, NobodyIsACopy DEF QueuedJob, Job
  <2>3. jobs' = [jobs EXCEPT ![s] = j] /\ gaveUp' = gaveUp BY <1>2 DEF IsTriedAgain
  <2> HIDE DEF j
  <2>4. JobFits(s, j) BY <2>2, WaitsFits DEF Waits
  <2> QED BY <2>2, <2>3, <2>4, ChangedJobIsCalm DEF TypeOK
<1>3. CASE ~(jobs[s].attempts + 1 < MaxAttempts)
  <2>1. jobs' = [jobs EXCEPT ![s] = NoJob] /\ gaveUp' = gaveUp \cup {s[1]}
    BY <1>3 DEF IsTriedAgain
  <2>2. JobFits(s, NoJob) BY DEF JobFits
  <2> QED BY <2>1, <2>2, ChangedJobIsCalm, SlotKinds DEF TypeOK
<1> QED BY <1>2, <1>3

LEMMA DiscardedJobIsCalm ==
    ASSUME TypeOK, NEW s \in Slots, jobs[s] # NoJob, Discarded(s)
    PROVE  /\ jobs' \in [Slots -> Job \cup {NoJob}] /\ \A t \in Slots : Calm(t)
           /\ gaveUp' \subseteq Kinds
<1>1. JobFits(s, NoJob) BY DEF JobFits
<1> QED BY <1>1, ChangedJobIsCalm, SlotKinds DEF Discarded, TypeOK

(* A job that is there belongs to somebody, unless it is configCreated. *)
LEMMA JobsHaveUsers ==
    ASSUME Good, NEW s \in Slots, jobs[s] # NoJob, s[1] # "configCreated"
    PROVE  user # Nobody
BY DEF Good, NothingForNobody

LEMMA SignUpUsersGood == ASSUME Good, NEW s \in Slots, SignUpUsers(s) PROVE Good'
<1>1. jobs[s] # NoJob /\ TypeOK BY DEF SignUpUsers, At, Good
<1>2. /\ jobs' \in [Slots -> Job \cup {NoJob}] /\ \A t \in Slots : Calm(t)
      /\ crashes' \in 0..MaxCrashes
  <2>1. CASE Exists /\ HasRoom(jobs, "signup") /\ Ends(s, With(jobs, "signup"))
    <3>1. user' # Nobody BY <2>1, DistinctAssumption DEF SignUpUsers, Exists
    <3>2. "signup" \in Kinds \ {"delete"} BY DEF Kinds
    <3> QED BY <1>1, <2>1, <3>1, <3>2, EndedJobWithAnotherIsCalm
  <2>2. CASE Ends(s, jobs) BY <1>1, <2>2, EndedJobIsCalm
  <2> QED BY <2>1, <2>2 DEF SignUpUsers
<1>3. TypeOK' BY <1>1, <1>2 DEF SignUpUsers, TypeOK
<1>4. UserKept /\ WebKept /\ AccountKept
  BY DEF SignUpUsers, UserKept, WebKept, AccountKept
<1> QED BY <1>2, <1>3, <1>4, CalmStep

LEMMA StartGood == ASSUME Good, NEW s \in Slots, Start(s) PROVE Good'
<1>1. jobs[s] # NoJob /\ TypeOK /\ jobs[s] \in Job BY DEF Start, At, Good, TypeOK
<1>2. s[1] \in {"signup", "update", "delete"} BY DEF Start, Callers
<1>3. /\ jobs' \in [Slots -> Job \cup {NoJob}] /\ \A t \in Slots : Calm(t)
      /\ crashes' \in 0..MaxCrashes /\ gaveUp' \subseteq Kinds
  <2>1. CASE Ends(s, jobs) /\ UNCHANGED gaveUp
    BY <1>1, <2>1, EndedJobIsCalm DEF TypeOK
  <2>2. CASE /\ Exists /\ Decision(s[1], user) # "stop"
             /\ jobs' = [jobs EXCEPT ![s].seen = Seen(s[1], user), ![s].at =
                            IF Decision(s[1], user) = "send" THEN "sent" ELSE "answered"]
             /\ UNCHANGED <<gaveUp, crashes>>
    <3> DEFINE a == IF Decision(s[1], user) = "send" THEN "sent" ELSE "answered"
               j == [jobs[s] EXCEPT !.seen = Seen(s[1], user), !.at = a]
    <3>1. Seen(s[1], user) \in Copies BY <1>2, <2>2, SeenIsACopy DEF Exists
    <3>2. j \in Job /\ j.at = a /\ j.seen = Seen(s[1], user) BY <1>1, <3>1 DEF Job
    <3>3. jobs' = [jobs EXCEPT ![s] = j] BY <1>1, <2>2 DEF TypeOK
    <3>4. s[1] = "signup" => a = "sent" BY <2>2 DEF Decision
    <3> HIDE DEF j
    <3>5. JobFits(s, j) BY <2>2, <3>2 DEF JobFits, SeenFits, Exists
    <3> QED BY <1>1, <2>2, <3>2, <3>3, <3>4, <3>5, ChangedJobIsCalm DEF TypeOK
  <2>3. CASE Discarded(s) /\ UNCHANGED crashes
    BY <1>1, <2>3, DiscardedJobIsCalm DEF TypeOK
  <2> QED BY <2>1, <2>2, <2>3 DEF Start
<1>4. TypeOK' BY <1>1, <1>3 DEF Start, TypeOK
<1>5. UserKept /\ WebKept /\ AccountKept
  BY DEF Start, UserKept, WebKept, AccountKept
<1> QED BY <1>3, <1>4, <1>5, CalmStep

(* Only a deletion may leave no account. *)
LEMMA AcceptedAccounts ==
    ASSUME Good, NEW s \in Slots, s[1] \in Callers, At(s, "sent"),
           NEW a \in Accepted(s[1], jobs[s].seen)
    PROVE  /\ a \in Passwords \cup {NoAccount}
           /\ a # NoAccount \/ (s[1] = "delete" /\ (Exists => user.deleted))
<1>1. s[1] \in {"signup", "update", "delete"} BY DEF Callers
<1>2. SeenFits(s, jobs[s]) /\ jobs[s] # NoJob BY DEF Good, JobsFit, JobFits, At
<1>3. account \in Passwords \cup {NoAccount} BY DEF Good, TypeOK
<1>4. CASE s[1] = "signup"
  <2>1. PICK row \in Row : jobs[s].seen = Seen("signup", row) BY <1>2, <1>4 DEF SeenFits, At
  <2>2. jobs[s].seen.foreign \in Passwords \cup {NoPassword} BY <2>1 DEF Seen, Row
  <2>3. a \in Passwords \/ (a = account /\ account # NoAccount) BY <1>4, <2>2 DEF Accepted
  <2> QED BY <1>3, <2>3, DistinctAssumption
<1>5. CASE s[1] = "update"
  <2>1. PICK row \in Row : jobs[s].seen = Seen("update", row) BY <1>2, <1>5 DEF SeenFits, At
  <2>2. jobs[s].seen.pending \in Passwords \cup {NoPassword} BY <2>1 DEF Seen, Row
  <2>3. a \in Passwords \/ (a = account /\ account # NoAccount) BY <1>5, <2>2 DEF Accepted
  <2> QED BY <1>3, <2>3, DistinctAssumption
<1>6. CASE s[1] = "delete"
  <2>1. Exists => user.deleted BY <1>2, <1>6 DEF Good, DeletionsMarked
  <2>2. a = NoAccount BY <1>6 DEF Accepted
  <2> QED BY <1>6, <2>1, <2>2
<1> QED BY <1>1, <1>4, <1>5, <1>6

LEMMA AnswerGood == ASSUME Good, NEW s \in Slots, Answer(s) PROVE Good'
<1>1. jobs[s] # NoJob /\ TypeOK /\ jobs[s] \in Job /\ jobs[s].at = "sent"
  BY DEF Answer, At, Good, TypeOK
<1>2. /\ account' \in Passwords \cup {NoAccount}
      /\ account' # NoAccount \/ (s[1] = "delete" /\ (Exists => user.deleted))
  BY AcceptedAccounts DEF Answer
<1>3. jobs' \in [Slots -> Job \cup {NoJob}] /\ \A t \in Slots : Calm(t)
  <2> DEFINE j == [jobs[s] EXCEPT !.at = "answered"]
  <2>1. j \in Job /\ j.seen = jobs[s].seen BY <1>1 DEF Job
  <2>2. jobs' = [jobs EXCEPT ![s] = j] BY <1>1 DEF Answer, TypeOK
  <2>3. SeenFits(s, jobs[s]) BY <1>1 DEF Good, JobsFit, JobFits
  <2> HIDE DEF j
  <2>4. JobFits(s, j) BY <1>1, <2>1, <2>3 DEF JobFits, SeenFits
  <2> QED BY <1>1, <1>2, <2>2, <2>4, ChangedJobIsCalm
<1>4. TypeOK' BY <1>1, <1>2, <1>3 DEF Answer, TypeOK
<1>5. UserKept /\ WebKept /\ AccountKept
  BY <1>2 DEF Answer, UserKept, WebKept, AccountKept
<1> QED BY <1>3, <1>4, <1>5, CalmStep

LEMMA FailGood == ASSUME Good, NEW s \in Slots, Fail(s) PROVE Good'
<1>1. jobs[s] # NoJob /\ TypeOK BY DEF Fail, At, Good
<1>2. /\ account' \in Passwords \cup {NoAccount}
      /\ \/ account' # NoAccount \/ account' = account
         \/ s[1] = "delete" /\ (Exists => user.deleted)
  BY <1>1, AcceptedAccounts DEF Fail, TypeOK
<1>3. /\ jobs' \in [Slots -> Job \cup {NoJob}] /\ \A t \in Slots : Calm(t)
      /\ gaveUp' \subseteq Kinds
  BY <1>1, RetriedJobIsCalm DEF Fail
<1>4. TypeOK' BY <1>1, <1>2, <1>3 DEF Fail, TypeOK
<1>5. UserKept /\ WebKept /\ AccountKept
  BY <1>2 DEF Fail, UserKept, WebKept, AccountKept
<1> QED BY <1>3, <1>4, <1>5, CalmStep

LEMMA LinkGood == ASSUME Good, NEW s \in Slots, Link(s) PROVE Good'
<1>1. jobs[s] # NoJob /\ TypeOK /\ jobs[s] \in Job /\ s[1] = "signup"
  BY DEF Link, At, Good, TypeOK
<1>2. user # Nobody BY <1>1, JobsHaveUsers
<1>3. \/ user' = user
      \/ /\ Exists /\ user' \in Row /\ user'.deleted = user.deleted
         /\ user.deleted \/ account # NoAccount
  <2>1. CASE Exists /\ user' = [user EXCEPT !.cloud = TRUE]
    <3>1. user' \in Row /\ user'.deleted = user.deleted BY <2>1 DEF Exists, Row
    <3>2. user.deleted \/ account # NoAccount BY <2>1 DEF Link, Good, AnswerKnown
    <3> QED BY <2>1, <3>1, <3>2
  <2>2. CASE user' = user BY <2>2
  <2> QED BY <2>1, <2>2 DEF Link, Linked
<1>4. jobs' \in [Slots -> Job \cup {NoJob}] /\ \A t \in Slots : Calm(t)
  <2> DEFINE j == [jobs[s] EXCEPT !.at = "linked", !.seen = Nobody]
  <2>1. j \in Job /\ j.at = "linked" BY <1>1, NobodyIsACopy DEF Job
  <2>2. jobs' = [jobs EXCEPT ![s] = j] BY <1>1 DEF Link, TypeOK
  <2> HIDE DEF j
  <2>3. JobFits(s, j) BY <2>1 DEF JobFits, SeenFits
  <2> QED BY <1>1, <2>1, <2>2, <2>3, ChangedJobIsCalm
<1>5. TypeOK' BY <1>1, <1>3, <1>4 DEF Link, TypeOK
<1>6. UserKept /\ WebKept /\ AccountKept
  BY <1>2, <1>3, DistinctAssumption DEF Link, UserKept, WebKept, AccountKept
<1> QED BY <1>4, <1>5, <1>6, CalmStep

LEMMA FollowWithTeamGood == ASSUME Good, NEW s \in Slots, FollowWithTeam(s) PROVE Good'
<1>1. jobs[s] # NoJob /\ TypeOK /\ s[1] = "signup" BY DEF FollowWithTeam, At, Good
<1>2. user' # Nobody BY <1>1, JobsHaveUsers DEF FollowWithTeam
<1>3. "team" \in Kinds \ {"delete"} BY DEF Kinds
<1>4. /\ jobs' \in [Slots -> Job \cup {NoJob}] /\ \A t \in Slots : Calm(t)
      /\ crashes' \in 0..MaxCrashes
  BY <1>1, <1>2, <1>3, EndedJobWithAnotherIsCalm DEF FollowWithTeam
<1>5. TypeOK' BY <1>1, <1>4 DEF FollowWithTeam, TypeOK
<1>6. UserKept /\ WebKept /\ AccountKept
  BY DEF FollowWithTeam, UserKept, WebKept, AccountKept
<1> QED BY <1>4, <1>5, <1>6, CalmStep

LEMMA PasswordMovedOnly ==
    ASSUME Good, NEW s \in Slots, MovePassword(s), Exists
    PROVE  /\ user' \in Row
           /\ user'.deleted = user.deleted /\ user'.cloud = user.cloud
           /\ user'.password = user.password
<1>1. PICK row \in Row : jobs[s].seen = Seen("update", row)
  BY DEF MovePassword, At, Good, JobsFit, JobFits, SeenFits
<1>2. /\ jobs[s].seen.foreign \in Passwords \cup {NoPassword}
      /\ jobs[s].seen.pending \in Passwords \cup {NoPassword}
  BY <1>1 DEF Seen, Row
<1>3. user' = PasswordMoved(user, jobs[s].seen) BY DEF MovePassword
<1> QED BY <1>2, <1>3 DEF PasswordMoved, Exists, Row

LEMMA MovePasswordGood == ASSUME Good, NEW s \in Slots, MovePassword(s) PROVE Good'
<1>1. jobs[s] # NoJob /\ TypeOK /\ s[1] = "update" /\ jobs[s].at = "answered"
  BY DEF MovePassword, At, Good
<1>2. user # Nobody BY <1>1, JobsHaveUsers
<1>3. \/ user' = user
      \/ /\ Exists /\ user' \in Row
         /\ user'.deleted = user.deleted /\ user'.cloud = user.cloud
  <2>1. CASE Exists BY <2>1, PasswordMovedOnly
  <2>2. CASE ~Exists BY <2>2 DEF MovePassword
  <2> QED BY <2>1, <2>2
<1>4. /\ jobs' \in [Slots -> Job \cup {NoJob}] /\ \A t \in Slots : Calm(t)
      /\ crashes' \in 0..MaxCrashes
  BY <1>1, EndedJobIsCalm DEF MovePassword
<1>5. TypeOK' BY <1>1, <1>3, <1>4 DEF MovePassword, TypeOK
<1>6. UserKept /\ WebKept /\ AccountKept
  BY <1>2, <1>3, DistinctAssumption DEF MovePassword, UserKept, WebKept, AccountKept
<1> QED BY <1>4, <1>5, <1>6, CalmStep

LEMMA DestroyUserGood == ASSUME Good, NEW s \in Slots, DestroyUser(s) PROVE Good'
<1>1. jobs[s] # NoJob /\ TypeOK BY DEF DestroyUser, At, Good
<1>2. /\ jobs' \in [Slots -> Job \cup {NoJob}] /\ \A t \in Slots : Calm(t)
      /\ crashes' \in 0..MaxCrashes
  BY <1>1, EndedJobIsCalm DEF DestroyUser
<1>3. TypeOK' BY <1>1, <1>2 DEF DestroyUser, TypeOK
<1>4. UserKept /\ WebKept /\ AccountKept
  BY DistinctAssumption DEF DestroyUser, UserKept, WebKept, AccountKept
<1> QED BY <1>2, <1>3, <1>4, CalmStep

LEMMA ValidateTeamGood == ASSUME Good, NEW s \in Slots, ValidateTeam(s) PROVE Good'
<1>1. jobs[s] # NoJob /\ TypeOK /\ jobs[s] \in Job /\ s[1] = "team"
  BY DEF ValidateTeam, At, Good, TypeOK
<1>2. /\ jobs' \in [Slots -> Job \cup {NoJob}] /\ \A t \in Slots : Calm(t)
      /\ gaveUp' \subseteq Kinds
  <2>1. CASE jobs' = [jobs EXCEPT ![s].at = "validated"] /\ UNCHANGED gaveUp
    <3> DEFINE j == [jobs[s] EXCEPT !.at = "validated"]
    <3>1. j \in Job BY <1>1 DEF Job
    <3>2. jobs' = [jobs EXCEPT ![s] = j] BY <1>1, <2>1 DEF TypeOK
    <3> HIDE DEF j
    <3>3. JobFits(s, j) BY <1>1, <3>1 DEF JobFits, SeenFits
    <3> QED BY <1>1, <2>1, <3>2, <3>3, ChangedJobIsCalm DEF TypeOK
  <2>2. CASE Discarded(s) BY <1>1, <2>2, DiscardedJobIsCalm
  <2> QED BY <2>1, <2>2 DEF ValidateTeam
<1>3. TypeOK' BY <1>1, <1>2 DEF ValidateTeam, TypeOK
<1>4. UserKept /\ WebKept /\ AccountKept
  BY DEF ValidateTeam, UserKept, WebKept, AccountKept
<1> QED BY <1>2, <1>3, <1>4, CalmStep

LEMMA InsertTeamGood == ASSUME Good, NEW s \in Slots, InsertTeam(s) PROVE Good'
<1>1. jobs[s] # NoJob /\ TypeOK BY DEF InsertTeam, At, Good
<1>2. /\ jobs' \in [Slots -> Job \cup {NoJob}] /\ \A t \in Slots : Calm(t)
      /\ crashes' \in 0..MaxCrashes /\ gaveUp' \subseteq Kinds /\ teams' \in Nat
  <2>1. CASE teams' = teams + 1 /\ Ends(s, jobs) /\ UNCHANGED gaveUp
    BY <1>1, <2>1, EndedJobIsCalm DEF TypeOK
  <2>2. CASE UNCHANGED <<teams, crashes>> /\ Discarded(s)
    BY <1>1, <2>2, DiscardedJobIsCalm DEF TypeOK
  <2> QED BY <2>1, <2>2 DEF InsertTeam
<1>3. TypeOK' BY <1>1, <1>2 DEF InsertTeam, TypeOK
<1>4. UserKept /\ WebKept /\ AccountKept
  BY DEF InsertTeam, UserKept, WebKept, AccountKept
<1> QED BY <1>2, <1>3, <1>4, CalmStep

LEMMA CrashGood == ASSUME Good, NEW s \in Slots, Crash(s) PROVE Good'
<1>1. jobs[s] # NoJob /\ TypeOK /\ jobs[s] \in Job BY DEF Crash, Running, Good, TypeOK
<1>2. Ends(s, jobs) BY DEF Crash, Ends
<1>3. /\ jobs' \in [Slots -> Job \cup {NoJob}] /\ \A t \in Slots : Calm(t)
      /\ crashes' \in 0..MaxCrashes
  BY <1>1, <1>2, EndedJobIsCalm
<1>4. TypeOK' BY <1>1, <1>3 DEF Crash, TypeOK
<1>5. UserKept /\ WebKept /\ AccountKept
  BY DEF Crash, UserKept, WebKept, AccountKept
<1> QED BY <1>3, <1>4, <1>5, CalmStep

-----------------------------------------------------------------------------
LEMMA InitGood == Init => Good
<1> SUFFICES ASSUME Init PROVE Good OBVIOUS
<1> USE DEF Init
<1>1. TypeOK
  <2>1. changes \in 0..MaxChanges /\ crashes \in 0..MaxCrashes BY BoundsAssumption
  <2>2. jobs \in [Slots -> Job \cup {NoJob}] OBVIOUS
  <2> QED BY <2>1, <2>2 DEF TypeOK
<1>2. user \notin Row BY DistinctAssumption
<1>3. \A s \in Slots : jobs[s] = NoJob OBVIOUS
<1> QED BY <1>1, <1>2, <1>3 DEF Good, JobsFit, JobFits, DeletionsMarked, AnswerKnown,
                               At, NothingForNobody, LinkedAccountExists, Exists

LEMMA NextGood == Good /\ [Next]_vars => Good'
<1> SUFFICES ASSUME Good, [Next]_vars PROVE Good' OBVIOUS
<1>1. CASE \E p \in Passwords : Register(p) \/ ChangePassword(p)
  BY <1>1, RegisterGood, ChangePasswordGood
<1>2. CASE CreateConfig BY <1>2, CreateConfigGood
<1>3. CASE DeleteUser BY <1>3, DeleteUserGood
<1>4. CASE \E kind \in Kinds : Schedule(kind) \/ WebCrash(kind)
  BY <1>4, ScheduleGood, WebCrashGood
<1>5. CASE \E s \in Slots : Run(s) \/ Crash(s)
  BY <1>5, SignUpUsersGood, StartGood, AnswerGood, FailGood, LinkGood, FollowWithTeamGood,
     MovePasswordGood, DestroyUserGood, ValidateTeamGood, InsertTeamGood, CrashGood DEF Run
<1>6. CASE UNCHANGED vars
  BY <1>6 DEF vars, Good, TypeOK, JobsFit, JobFits, SeenFits, DeletionsMarked, AnswerKnown,
              At, NothingForNobody, LinkedAccountExists, Exists
<1> QED BY <1>1, <1>2, <1>3, <1>4, <1>5, <1>6 DEF Next

LEMMA AlwaysGood == Spec => []Good
BY InitGood, NextGood, PTL DEF Spec

(* Every variable keeps its type, whatever fails, is run again or is late. *)
THEOREM AccountsTypeCorrect == Spec => []TypeOK
<1>1. Good => TypeOK BY DEF Good
<1> QED BY <1>1, AlwaysGood, PTL

(* A user who is shown as linked and not to be deleted has an account. *)
THEOREM LinksAreTrue == Spec => []LinkedAccountExists
<1>1. Good => LinkedAccountExists BY DEF Good
<1> QED BY <1>1, AlwaysGood, PTL

(* What a job saves of an old copy of the row takes back neither a mark, a *)
(* link nor a password, and nothing but a marked row is destroyed.         *)
THEOREM RowsAreKept == Spec => StaleJobsKeepTheRow
<1> DEFINE Kept ==
      /\ Exists /\ user' \in Row =>
            /\ user.deleted => user'.deleted
            /\ user.cloud => user'.cloud
            /\ user'.password # user.password => changes' # changes
      /\ Exists /\ user' \notin Row => user' = Destroyed /\ user.deleted
<1>1. Good /\ [Next]_vars => [Kept]_vars
  <2> SUFFICES ASSUME Good, Next, Exists PROVE Kept BY DEF Exists
  <2> USE DEF Exists
  <2>1. user # Nobody /\ changes \in Nat
    BY DistinctAssumption, BoundsAssumption DEF Good, TypeOK
  <2>2. ASSUME NEW p \in Passwords, ChangePassword(p) PROVE Kept
    <3>1. user \in Row /\ user' = Changed(user, p) BY <2>2 DEF ChangePassword
    <3>2. user' \in Row /\ user'.deleted = user.deleted /\ user'.cloud = user.cloud
      BY <3>1 DEF Changed, Row
    <3>3. changes' # changes BY <2>1, <2>2 DEF ChangePassword
    <3> QED BY <3>2, <3>3
  <2>3. CASE DeleteUser BY <2>3 DEF DeleteUser, Row
  <2>4. ASSUME NEW s \in Slots, Link(s) PROVE Kept
    BY <2>4 DEF Link, Linked, Row
  <2>5. ASSUME NEW s \in Slots, MovePassword(s) PROVE Kept
    BY <2>5, PasswordMovedOnly
  <2>6. ASSUME NEW s \in Slots, DestroyUser(s) PROVE Kept
    <3>1. user.deleted BY <2>6 DEF DestroyUser, At, Good, DeletionsMarked
    <3>2. user' = Destroyed /\ user' \notin Row BY <2>6, DistinctAssumption DEF DestroyUser
    <3> QED BY <3>1, <3>2
  <2>7. CASE user' = user BY <2>7
  <2>8. ASSUME NEW p \in Passwords, Register(p) PROVE FALSE BY <2>1, <2>8 DEF Register
  <2>9. CASE CreateConfig \/ \E kind \in Kinds : Schedule(kind) \/ WebCrash(kind)
    BY <2>7, <2>9 DEF CreateConfig, Schedule, WebCrash
  <2>10. ASSUME NEW s \in Slots, Run(s) \/ Crash(s) PROVE Kept
    BY <2>4, <2>5, <2>6, <2>7, <2>10 DEF Run, Crash, SignUpUsers, Start, Answer, Fail,
       FollowWithTeam, ValidateTeam, InsertTeam
  <2> QED BY <2>2, <2>3, <2>8, <2>9, <2>10 DEF Next
<1> QED BY <1>1, AlwaysGood, PTL DEF Spec, StaleJobsKeepTheRow

=============================================================================
