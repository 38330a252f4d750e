--------------------------- MODULE ReminderProofs ----------------------------
(***************************************************************************)
(* The poll deletes reminders by id from a snapshot, and yet no reminder   *)
(* goes before it is due unless its owner deletes it, for any number of    *)
(* users, tasks, prompts and faults.                                       *)
(***************************************************************************)
EXTENDS Reminders, FiniteSetTheorems, TLAPS

\* A task about to delete has looked a reminder up.
JobsFit == \A t \in Tasks : pc[t] = "delete" => job[t].id \in Reminders

\* What is in the poll's hands has been handed out and was due.
PollDue ==
    /\ \A id \in poll.rows : reminders[id].state # "unused" /\ reminders[id].at <= clock
    /\ poll.pc = "delete" =>
          /\ poll.id \in Reminders
          /\ reminders[poll.id].state # "unused" /\ reminders[poll.id].at <= clock

IInv == TypeOK /\ JobsFit /\ PollDue /\ GoneForAReason

\* What a task may do to a reminder: hand its id out, or delete it for its owner.
RemindersKeep ==
    /\ dropped \subseteq dropped'
    /\ \A id \in Reminders :
          \/ reminders'[id] = reminders[id]
          \/ reminders[id].state = "unused" /\ reminders'[id].state = "active"
          \/ /\ reminders[id].state = "active" /\ reminders'[id].state = "gone"
             /\ reminders'[id].at = reminders[id].at
             /\ id \in dropped'

LEMMA CountType == ASSUME NEW u PROVE CountOf(u) \in Nat
<1>1. IsFiniteSet(OwnedBy(u))
  BY ReminderConstants, FS_Subset DEF OwnedBy
<1> QED
  BY <1>1, FS_CardinalityType DEF CountOf

LEMMA InvariantInit == Init => IInv
<1> SUFFICES ASSUME Init PROVE IInv
  OBVIOUS
<1>1. /\ NoReminder \in Rows /\ NoJob \in Jobs /\ Asleep \in Polls
      /\ NoSession \in [owner : Users \cup {None}, at : Nat]
      /\ NotShown \in [state : {"none", "open", "done"}, author : Users \cup {None}, since : Nat]
  BY DEF NoReminder, NoSession, NotShown, NoJob, Job, Asleep, Rows, Jobs, Polls
<1>2. TypeOK
  <2>1. /\ reminders \in [Reminders -> Rows] /\ shown \in [Prompts ->
               [state : {"none", "open", "done"}, author : Users \cup {None}, since : Nat]]
        /\ pending \in [Prompts -> [owner : Users \cup {None}, at : Nat]]
        /\ pc \in [Tasks -> Steps] /\ job \in [Tasks -> Jobs] /\ poll \in Polls
    BY <1>1 DEF Init, Steps
  <2>2. /\ counts \in [Users -> [row : Nat, redis : Nat]] /\ clock \in Nat
        /\ budget \in [commands : Nat, faults : Nat]
        /\ got \in [Reminders -> Nat] /\ dropped \subseteq Reminders
        /\ made \in [Prompts -> SUBSET Reminders]
    BY ReminderConstants DEF Init
  <2> QED
    BY <2>1, <2>2 DEF TypeOK
<1>3. JobsFit /\ PollDue /\ GoneForAReason
  BY DEF Init, JobsFit, PollDue, GoneForAReason, Asleep, NoReminder
<1> QED
  BY <1>2, <1>3 DEF IInv

LEMMA KeepsInvariant ==
    ASSUME IInv, TypeOK', JobsFit', RemindersKeep, UNCHANGED <<poll, clock>>
    PROVE  IInv'
<1>0. poll' = poll /\ clock' = clock /\ poll.rows \subseteq Reminders
  BY DEF IInv, TypeOK, Polls
<1>1. PollDue'
  <2>1. ASSUME NEW id \in Reminders, reminders[id].state # "unused", reminders[id].at <= clock
        PROVE  reminders'[id].state # "unused" /\ reminders'[id].at <= clock
    BY <2>1 DEF RemindersKeep
  <2> QED
    BY <1>0, <2>1 DEF IInv, PollDue
<1>2. GoneForAReason'
  BY <1>0 DEF IInv, TypeOK, GoneForAReason, RemindersKeep
<1> QED
  BY <1>1, <1>2 DEF IInv

-----------------------------------------------------------------------------
(***************************************************************************)
(* Control flow of the tasks.                                              *)
(***************************************************************************)
\* A step of a task goes on to a step with locals that fit it.
Proceeds(t) ==
    \E next \in Steps, j \in Jobs :
        Goto(t, next, j) /\ (next = "delete" => j.id \in Reminders)

LEMMA ProceedsTypes ==
    ASSUME TypeOK, JobsFit, NEW t \in Tasks, Proceeds(t)
    PROVE  /\ pc' \in [Tasks -> Steps] /\ job' \in [Tasks -> Jobs]
           /\ JobsFit'
<1>1. NoJob \in Jobs
  BY DEF NoJob, Job, Jobs
<1> QED
  BY <1>1 DEF TypeOK, JobsFit, Proceeds, Goto

LEMMA JobType ==
    ASSUME NEW u \in Users \cup {None}, NEW at \in Nat, NEW p \in Prompts \cup {None},
           NEW id \in Reminders \cup {None}
    PROVE  Job(u, at, p, id) \in Jobs
  BY DEF Job, Jobs

LEMMA ArrivalProceeds ==
    ASSUME TypeOK, NEW t \in Tasks,
           Remind(t) \/ ShowPrompt(t) \/ Confirm(t) \/ Cancel(t) \/ Delete(t)
    PROVE  Proceeds(t)
<1>1. CASE Remind(t)
  <2>1. PICK u \in Users : \E d \in Lengths : Goto(t, "count", Job(u, clock + d, None, None))
    BY <1>1 DEF Remind
  <2>2. PICK d \in Lengths : Goto(t, "count", Job(u, clock + d, None, None))
    BY <2>1
  <2>3. clock + d \in Nat
    BY ReminderConstants DEF TypeOK
  <2>4. Job(u, clock + d, None, None) \in Jobs
    BY <2>3, JobType
  <2> QED
    BY <2>2, <2>4 DEF Proceeds, Steps
<1>2. CASE ShowPrompt(t)
  <2>1. PICK u \in Users : Goto(t, "register", Job(u, 0, First(Unsent), None))
    BY <1>2 DEF ShowPrompt
  <2>2. First(Unsent) \in Prompts
    BY <1>2 DEF ShowPrompt, First, Unsent
  <2>3. Job(u, 0, First(Unsent), None) \in Jobs
    BY <2>2, JobType
  <2> QED
    BY <2>1, <2>3 DEF Proceeds, Steps
<1>3. CASE Confirm(t)
  <2>1. PICK u \in Users : \E p \in Sessions : Goto(t, "count", Job(u, pending[p].at, p, None))
    BY <1>3 DEF Confirm
  <2>2. PICK p \in Sessions : Goto(t, "count", Job(u, pending[p].at, p, None))
    BY <2>1
  <2>3. p \in Prompts /\ pending[p].at \in Nat
    BY DEF Sessions, TypeOK
  <2>4. Job(u, pending[p].at, p, None) \in Jobs
    BY <2>3, JobType
  <2> QED
    BY <2>2, <2>4 DEF Proceeds, Steps
<1>4. CASE Cancel(t)
  <2>1. PICK u \in Users : \E p \in Prompts : Goto(t, "respond", Job(u, 0, p, None))
    BY <1>4 DEF Cancel
  <2>2. PICK p \in Prompts : Goto(t, "respond", Job(u, 0, p, None))
    BY <2>1
  <2>3. Job(u, 0, p, None) \in Jobs
    BY JobType
  <2> QED
    BY <2>2, <2>3 DEF Proceeds, Steps
<1>5. CASE Delete(t)
  <2>1. PICK u \in Users : \E id \in OwnedBy(u) : Goto(t, "delete", Job(u, 0, None, id))
    BY <1>5 DEF Delete
  <2>2. PICK id \in OwnedBy(u) : Goto(t, "delete", Job(u, 0, None, id))
    BY <2>1
  <2>3. id \in Reminders /\ Job(u, 0, None, id).id = id
    BY DEF OwnedBy, Job
  <2>4. Job(u, 0, None, id) \in Jobs
    BY <2>3, JobType
  <2> QED
    BY <2>2, <2>3, <2>4 DEF Proceeds, Steps
<1> QED
  BY <1>1, <1>2, <1>3, <1>4, <1>5

LEMMA TaskProceeds == ASSUME TypeOK, NEW t \in Tasks, TaskStep(t) PROVE Proceeds(t)
<1>1. job[t] \in Jobs /\ NoJob \in Jobs
  BY DEF TypeOK, NoJob, Job, Jobs
<1>2. \A next \in Steps \ {"delete"} : \A j \in Jobs : Goto(t, next, j) => Proceeds(t)
  BY DEF Proceeds
<1>3. Answer(t) => Proceeds(t)
  BY <1>1, <1>2 DEF Answer, Steps
<1>4. CASE Register(t) \/ Respond(t) \/ Forget(t) \/ SyncRow(t)
  BY <1>1, <1>2, <1>4 DEF Register, Respond, Forget, SyncRow, Steps
<1>5. CASE SyncRedis(t)
  BY <1>3, <1>5 DEF SyncRedis
<1>6. CASE CheckLimit(t)
  BY <1>1, <1>2, <1>3, <1>6 DEF CheckLimit, Steps
<1>7. CASE DeleteRow(t)
  BY <1>1, <1>2, <1>7 DEF DeleteRow, Steps
<1>8. CASE Insert(t)
  <2>1. CASE Answer(t)
    BY <1>3, <2>1
  <2>2. CASE Unused # {} /\ Goto(t, "readCount", [job[t] EXCEPT !.id = First(Unused)])
    <3>1. First(Unused) \in Reminders
      BY <2>2 DEF First, Unused
    <3>2. [job[t] EXCEPT !.id = First(Unused)] \in Jobs
      BY <1>1, <3>1 DEF Jobs
    <3> QED
      BY <1>2, <2>2, <3>2 DEF Steps
  <2> QED
    BY <1>8, <2>1, <2>2 DEF Insert
<1>9. CASE SyncRead(t)
  <2>1. \A n \in Nat : [job[t] EXCEPT !.n = n] \in Jobs
    BY <1>1 DEF Jobs
  <2>2. CountOf(job[t].user) \in Nat
    BY CountType
  <2> QED
    BY <1>2, <1>9, <2>1, <2>2 DEF SyncRead, Steps
<1> QED
  BY <1>4, <1>5, <1>6, <1>7, <1>8, <1>9 DEF TaskStep

-----------------------------------------------------------------------------
(***************************************************************************)
(* Steps of tasks: the tables, the prompts and the sessions.               *)
(***************************************************************************)
LEMMA BudgetType ==
    ASSUME TypeOK, NEW t \in Tasks, Arrival(t) \/ TaskStep(t)
    PROVE  budget' \in [commands : Nat, faults : Nat]
<1>1. \/ UNCHANGED budget
      \/ budget.faults > 0 /\ budget' = [budget EXCEPT !.faults = @ - 1]
      \/ budget.commands > 0 /\ budget' = [budget EXCEPT !.commands = @ - 1]
  <2>1. CASE Arrival(t)
    BY <2>1 DEF Arrival, Remind, ShowPrompt, Select, Confirm, Cancel, Delete, Asks
  <2>2. CASE TaskStep(t)
    BY <2>2 DEF TaskStep, Register, Respond, Forget, CheckLimit, Insert, DeleteRow, SyncRead,
       SyncRow, SyncRedis, MirrorRow, MirrorRedis, Fault
  <2> QED
    BY <2>1, <2>2
<1> QED
  BY <1>1 DEF TypeOK

LEMMA PromptTypes ==
    ASSUME TypeOK, NEW t \in Tasks, Arrival(t) \/ TaskStep(t)
    PROVE  /\ shown' \in [Prompts -> [state : {"none", "open", "done"},
                                      author : Users \cup {None}, since : Nat]]
           /\ pending' \in [Prompts -> [owner : Users \cup {None}, at : Nat]]
<1>1. CASE UNCHANGED <<shown, pending>>
  BY <1>1 DEF TypeOK
<1>2. CASE ShowPrompt(t)
  <2> DEFINE p == First(Unsent)
  <2>1. PICK u \in Users :
           shown' = [shown EXCEPT ![p] = [state |-> "open", author |-> u, since |-> clock]]
    BY <1>2 DEF ShowPrompt
  <2>2. UNCHANGED pending
    BY <1>2 DEF ShowPrompt
  <2> HIDE DEF p
  <2> QED
    BY <2>1, <2>2 DEF TypeOK
<1>3. CASE Respond(t)
  BY <1>3 DEF Respond, TypeOK
<1>4. CASE Register(t)
  <2>1. job[t].user \in Users \cup {None}
    BY DEF TypeOK, Jobs
  <2>2. \A p \in Prompts : pending[p] \in [owner : Users \cup {None}, at : Nat]
    BY DEF TypeOK
  <2>3. UNCHANGED shown
    BY <1>4 DEF Register
  <2>4. CASE UNCHANGED pending
    BY <2>3, <2>4 DEF TypeOK
  <2>5. CASE AddSession(job[t].prompt, [owner |-> job[t].user, at |-> 0])
    BY <2>1, <2>2, <2>3, <2>5 DEF AddSession, TypeOK, NoSession
  <2> QED
    BY <1>4, <2>4, <2>5 DEF Register
<1>5. CASE Forget(t)
  BY <1>5 DEF Forget, TypeOK, NoSession
<1>6. CASE Select(t)
  <2>1. PICK p \in Sessions : \E d \in Lengths :
           pending' = [pending EXCEPT ![p].at = shown[p].since + d] /\ UNCHANGED shown
    BY <1>6 DEF Select
  <2>2. PICK d \in Lengths :
           pending' = [pending EXCEPT ![p].at = shown[p].since + d] /\ UNCHANGED shown
    BY <2>1
  <2>3. p \in Prompts /\ shown[p].since + d \in Nat
    BY ReminderConstants DEF Sessions, TypeOK
  <2> QED
    BY <2>2, <2>3 DEF TypeOK
<1>7. CASE Remind(t) \/ Confirm(t) \/ Cancel(t) \/ Delete(t)
  BY <1>1, <1>7 DEF Remind, Confirm, Cancel, Delete
<1>8. CASE \/ CheckLimit(t) \/ Insert(t) \/ DeleteRow(t)
           \/ SyncRead(t) \/ SyncRow(t) \/ SyncRedis(t)
  BY <1>1, <1>8 DEF CheckLimit, Insert, DeleteRow, SyncRead, SyncRow, SyncRedis
<1> QED
  BY <1>2, <1>3, <1>4, <1>5, <1>6, <1>7, <1>8 DEF Arrival, TaskStep

LEMMA CountsType ==
    ASSUME TypeOK, NEW u \in Users \cup {None}, NEW n \in Nat,
           MirrorRow(u, n) \/ MirrorRedis(u, n)
    PROVE  counts' \in [Users -> [row : Nat, redis : Nat]]
  BY DEF TypeOK, MirrorRow, MirrorRedis

LEMMA TableTypes ==
    ASSUME TypeOK, JobsFit, NEW t \in Tasks, Arrival(t) \/ TaskStep(t)
    PROVE  /\ reminders' \in [Reminders -> Rows] /\ dropped' \subseteq Reminders
           /\ made' \in [Prompts -> SUBSET Reminders] /\ got' \in [Reminders -> Nat]
           /\ counts' \in [Users -> [row : Nat, redis : Nat]]
           /\ RemindersKeep
<1>1. CASE UNCHANGED <<reminders, dropped, made, got, counts>>
  BY <1>1 DEF TypeOK, RemindersKeep
<1>2. CASE Insert(t) /\ reminders' # reminders
  <2> DEFINE id == First(Unused)
             new == [state |-> "active", owner |-> job[t].user, at |-> job[t].at]
  <2>1. /\ Unused # {} /\ reminders' = [reminders EXCEPT ![id] = new]
        /\ made' = [p \in Prompts |-> IF p = job[t].prompt THEN made[p] \cup {id} ELSE made[p]]
        /\ UNCHANGED <<counts, got, dropped>>
    BY <1>2 DEF Insert
  <2>2. id \in Reminders /\ reminders[id].state = "unused"
    BY <2>1 DEF First, Unused
  <2>3. job[t].user \in Users \cup {None} /\ job[t].at \in Nat
    BY DEF TypeOK, Jobs
  <2>4. new \in Rows
    BY <2>3 DEF Rows
  <2>5. new.state = "active"
    OBVIOUS
  <2> HIDE DEF id, new
  <2> QED
    <3>1. reminders' \in [Reminders -> Rows] /\ RemindersKeep
      BY <2>1, <2>2, <2>4, <2>5 DEF TypeOK, RemindersKeep
    <3>2. made' \in [Prompts -> SUBSET Reminders]
      BY <2>1, <2>2 DEF TypeOK
    <3> QED
      BY <2>1, <3>1, <3>2 DEF TypeOK
<1>3. CASE Insert(t) /\ reminders' = reminders
  <2>1. made' \in [Prompts -> SUBSET Reminders]
    <3>1. Unused # {} => First(Unused) \in Reminders
      BY DEF First, Unused
    <3> QED
      BY <1>3, <3>1 DEF Insert, TypeOK
  <2> QED
    BY <1>3, <2>1 DEF Insert, TypeOK, RemindersKeep
<1>4. CASE DeleteRow(t) /\ Active(job[t].id) /\ reminders' # reminders
  <2> DEFINE id == job[t].id
  <2>1. id \in Reminders /\ reminders[id].state = "active"
    BY <1>4 DEF JobsFit, DeleteRow, Active
  <2>2. /\ reminders' = [reminders EXCEPT ![id].state = "gone"]
        /\ dropped' = dropped \cup {id} /\ UNCHANGED <<counts, got, made>>
    BY <1>4 DEF DeleteRow
  <2> HIDE DEF id
  <2>3. reminders' \in [Reminders -> Rows]
    <3> DEFINE new == [reminders[id] EXCEPT !.state = "gone"]
    <3>1. reminders' = [reminders EXCEPT ![id] = new]
      BY <2>2
    <3>2. reminders[id] \in Rows
      BY <2>1 DEF TypeOK
    <3>3. new \in Rows
      BY <3>2 DEF Rows
    <3> HIDE DEF new
    <3> QED
      BY <2>1, <3>1, <3>3 DEF TypeOK
  <2>4. RemindersKeep
    <3>1. \A r \in Reminders : r # id => reminders'[r] = reminders[r]
      BY <2>1, <2>2 DEF TypeOK
    <3>2. reminders'[id].state = "gone" /\ reminders'[id].at = reminders[id].at
      BY <2>1, <2>2 DEF TypeOK, Rows
    <3> QED
      BY <2>1, <2>2, <3>1, <3>2 DEF RemindersKeep
  <2> QED
    BY <2>1, <2>2, <2>3, <2>4 DEF TypeOK
<1>5. CASE DeleteRow(t) /\ reminders' = reminders
  <2>1. job[t].id \in Reminders /\ UNCHANGED <<counts, got, made>>
        /\ dropped' \in {dropped, dropped \cup {job[t].id}}
    BY <1>5 DEF JobsFit, DeleteRow
  <2> QED
    BY <1>5, <2>1 DEF TypeOK, RemindersKeep
<1>6. CASE DeleteRow(t) /\ ~Active(job[t].id)
  BY <1>1, <1>5, <1>6 DEF DeleteRow
<1>7. CASE SyncRow(t) \/ SyncRedis(t)
  <2>1. job[t].user \in Users \cup {None} /\ job[t].n \in Nat
    BY DEF TypeOK, Jobs
  <2>2. counts' \in [Users -> [row : Nat, redis : Nat]]
    BY <1>7, <2>1, CountsType DEF SyncRow, SyncRedis
  <2> QED
    BY <1>7, <2>2 DEF SyncRow, SyncRedis, historyVars, TypeOK, RemindersKeep
<1>8. CASE Arrival(t)
  BY <1>1, <1>8 DEF Arrival, Remind, ShowPrompt, Select, Confirm, Cancel, Delete, dbVars,
     historyVars
<1>9. CASE Register(t) \/ Respond(t) \/ Forget(t) \/ CheckLimit(t) \/ SyncRead(t)
  BY <1>1, <1>9 DEF Register, Respond, Forget, CheckLimit, SyncRead, dbVars, historyVars
<1> QED
  BY <1>2, <1>3, <1>4, <1>5, <1>6, <1>7, <1>8, <1>9 DEF TaskStep

LEMMA TasksKeep == ASSUME IInv, NEW t \in Tasks, Arrival(t) \/ TaskStep(t) PROVE IInv'
<1>1. TypeOK /\ JobsFit
  BY DEF IInv
<1>2. UNCHANGED <<clock, poll>>
  <2>1. CASE Arrival(t)
    BY <2>1 DEF Arrival, Remind, ShowPrompt, Select, Confirm, Cancel, Delete
  <2>2. CASE TaskStep(t)
    BY <2>2 DEF TaskStep, Register, Respond, Forget, CheckLimit, Insert, DeleteRow, SyncRead,
       SyncRow, SyncRedis
  <2> QED
    BY <2>1, <2>2
<1>3. pc' \in [Tasks -> Steps] /\ job' \in [Tasks -> Jobs] /\ JobsFit'
  <2>1. CASE Select(t)
    BY <1>1, <2>1 DEF Select, TypeOK, JobsFit
  <2>2. CASE Proceeds(t)
    BY <1>1, <2>2, ProceedsTypes
  <2> QED
    BY <1>1, <2>1, <2>2, ArrivalProceeds, TaskProceeds DEF Arrival
<1>4. TypeOK'
  BY <1>1, <1>2, <1>3, BudgetType, PromptTypes, TableTypes DEF TypeOK
<1> QED
  BY <1>1, <1>2, <1>3, <1>4, TableTypes, KeepsInvariant

-----------------------------------------------------------------------------
(***************************************************************************)
(* Steps of the poll.                                                      *)
(***************************************************************************)
\* The poll leaves tasks and prompts alone.
LEMMA PollTypes ==
    ASSUME IInv, PollStep, poll' \in Polls, reminders' \in [Reminders -> Rows]
    PROVE  TypeOK' /\ JobsFit'
<1>1. UNCHANGED <<shown, clock, pending, pc, job, dropped, made>>
  BY DEF PollStep, Scan, Send, DeleteFired, PollSyncRead, PollSyncRow, PollSyncRedis, dbVars,
     historyVars
<1>2. budget' \in [commands : Nat, faults : Nat]
  <2>1. UNCHANGED budget \/ (budget.faults > 0 /\ budget' = [budget EXCEPT !.faults = @ - 1])
    BY DEF PollStep, Scan, Send, DeleteFired, PollSyncRead, PollSyncRow, PollSyncRedis, Fault,
       MirrorRow, MirrorRedis
  <2> QED
    BY <2>1 DEF IInv, TypeOK
<1>3. got' \in [Reminders -> Nat]
  <2>1. poll.rows \subseteq Reminders
    BY DEF IInv, TypeOK, Polls
  <2>2. CASE Send
    <3>1. PICK id \in poll.rows : UNCHANGED got \/ Arrives(id)
      BY <2>2 DEF Send
    <3> QED
      BY <2>1, <3>1 DEF Arrives, IInv, TypeOK
  <2>3. CASE UNCHANGED got
    BY <2>3 DEF IInv, TypeOK
  <2> QED
    BY <2>2, <2>3 DEF PollStep, Scan, DeleteFired, PollSyncRead, PollSyncRow, PollSyncRedis,
       historyVars
<1>4. counts' \in [Users -> [row : Nat, redis : Nat]]
  <2>1. poll.user \in Users \cup {None} /\ poll.n \in Nat
    BY DEF IInv, TypeOK, Polls
  <2>2. CASE PollSyncRow \/ PollSyncRedis
    BY <2>1, <2>2, CountsType DEF PollSyncRow, PollSyncRedis, IInv
  <2>3. CASE UNCHANGED counts
    BY <2>3 DEF IInv, TypeOK
  <2> QED
    BY <2>2, <2>3 DEF PollStep, Scan, Send, DeleteFired, PollSyncRead, dbVars
<1> QED
  BY <1>1, <1>2, <1>3, <1>4 DEF IInv, TypeOK, JobsFit

LEMMA PollKeeps == ASSUME IInv, PollStep PROVE IInv'
<1>1. /\ TypeOK /\ PollDue /\ GoneForAReason
      /\ poll = [pc |-> poll.pc, rows |-> poll.rows, id |-> poll.id, users |-> poll.users,
                 user |-> poll.user, n |-> poll.n]
      /\ poll.rows \subseteq Reminders /\ poll.users \subseteq Users \cup {None}
      /\ poll.user \in Users \cup {None} /\ poll.n \in Nat
      /\ poll.id \in Reminders \cup {None}
  BY DEF IInv, TypeOK, Polls
<1>2. CASE poll' = poll /\ Scan
  BY <1>1, <1>2, PollTypes
     DEF PollStep, Scan, dbVars, historyVars, IInv, TypeOK, PollDue, GoneForAReason
<1>3. CASE Scan /\ poll' = [Asleep EXCEPT !.pc = "send", !.rows = Due]
  <2>1. poll' = [pc |-> "send", rows |-> Due, id |-> None, users |-> {}, user |-> None, n |-> 0]
    BY <1>3 DEF Asleep
  <2>2. UNCHANGED <<reminders, clock, dropped>>
    BY <1>3 DEF Scan, dbVars, historyVars
  <2>3. \A id \in Due : id \in Reminders /\ reminders[id].state = "active"
                        /\ reminders[id].at <= clock
    BY DEF Due, Active
  <2>4. TypeOK' /\ JobsFit'
    BY <1>1, <1>3, <2>1, <2>2, <2>3, PollTypes DEF PollStep, Polls, TypeOK
  <2> QED
    BY <1>1, <2>1, <2>2, <2>3, <2>4 DEF IInv, PollDue, GoneForAReason
<1>4. CASE Send
  <2>1. PICK id \in poll.rows :
           poll' = [poll EXCEPT !.pc = "delete", !.rows = @ \ {id}, !.id = id]
    BY <1>4 DEF Send
  <2>2. poll' = [pc |-> "delete", rows |-> poll.rows \ {id}, id |-> id, users |-> poll.users,
                 user |-> poll.user, n |-> poll.n]
    BY <1>1, <2>1
  <2>3. UNCHANGED <<reminders, clock, dropped>>
    BY <1>4 DEF Send, dbVars
  <2>4. TypeOK' /\ JobsFit'
    BY <1>1, <1>4, <2>2, <2>3, PollTypes DEF PollStep, Polls, TypeOK
  <2> QED
    BY <1>1, <2>2, <2>3, <2>4 DEF IInv, PollDue, GoneForAReason
<1>5. CASE DeleteFired
  <2> DEFINE g == poll.id
  <2>1. /\ g \in Reminders /\ reminders[g].state # "unused" /\ reminders[g].at <= clock
        /\ UNCHANGED <<clock, dropped>>
    BY <1>1, <1>5 DEF PollDue, DeleteFired, historyVars
  <2>2. reminders[g].owner \in Users \cup {None} /\ reminders[g] \in Rows
    BY <1>1, <2>1 DEF TypeOK, Rows
  <2>3. /\ reminders' \in [Reminders -> Rows]
        /\ \A r \in Reminders : r # g => reminders'[r] = reminders[r]
        /\ reminders'[g].at = reminders[g].at /\ reminders'[g].state # "unused"
    <3> DEFINE new == [reminders[g] EXCEPT !.state = "gone"]
    <3>1. new \in Rows /\ new.at = reminders[g].at /\ new.state = "gone"
      BY <2>2 DEF Rows
    <3>2. reminders' = reminders \/ reminders' = [reminders EXCEPT ![g] = new]
      BY <1>5 DEF DeleteFired
    <3> HIDE DEF new, g
    <3> QED
      BY <1>1, <2>1, <3>1, <3>2 DEF TypeOK
  <2>4. poll' = [pc |-> IF poll.rows = {} THEN "count" ELSE "send", rows |-> poll.rows,
                 id |-> None, users |-> poll.users \cup {reminders[g].owner},
                 user |-> poll.user, n |-> poll.n]
    BY <1>1, <1>5 DEF DeleteFired
  <2>5. poll' \in Polls
    BY <1>1, <2>2, <2>4 DEF Polls
  <2>6. TypeOK' /\ JobsFit'
    BY <1>5, <2>3, <2>5, PollTypes DEF PollStep
  <2> HIDE DEF g
  <2>7. PollDue'
    BY <1>1, <2>1, <2>3, <2>4 DEF PollDue
  <2>8. GoneForAReason'
    BY <1>1, <2>1, <2>3 DEF GoneForAReason
  <2> QED
    BY <2>6, <2>7, <2>8 DEF IInv
<1>6. ASSUME PollSyncRead \/ PollSyncRow \/ PollSyncRedis,
             poll' \in Polls, poll'.pc # "delete", poll'.rows \subseteq poll.rows
      PROVE  IInv'
  <2>1. UNCHANGED <<reminders, clock, dropped>>
    BY <1>6 DEF PollSyncRead, PollSyncRow, PollSyncRedis, dbVars, historyVars
  <2>2. TypeOK' /\ JobsFit'
    BY <1>1, <1>6, <2>1, PollTypes DEF PollStep, TypeOK
  <2> QED
    BY <1>1, <1>6, <2>1, <2>2 DEF IInv, PollDue, GoneForAReason
<1>7. CASE PollSyncRead
  <2>1. PICK u \in poll.users : \E n \in Nat :
           poll' = [poll EXCEPT !.pc = "row", !.users = @ \ {u}, !.user = u, !.n = n]
    <3>1. \A u \in poll.users : CountOf(u) \in Nat
      BY CountType
    <3> QED
      BY <1>7, <3>1 DEF PollSyncRead
  <2>2. PICK n \in Nat :
           poll' = [poll EXCEPT !.pc = "row", !.users = @ \ {u}, !.user = u, !.n = n]
    BY <2>1
  <2>3. poll' = [pc |-> "row", rows |-> poll.rows, id |-> poll.id, users |-> poll.users \ {u},
                 user |-> u, n |-> n]
    BY <1>1, <2>2
  <2>4. poll' \in Polls
    BY <1>1, <2>3 DEF Polls
  <2> QED
    BY <1>6, <1>7, <2>3, <2>4
<1>8. CASE PollSyncRow
  <2>1. poll' = [pc |-> "redis", rows |-> poll.rows, id |-> poll.id, users |-> poll.users,
                 user |-> poll.user, n |-> poll.n]
    BY <1>1, <1>8 DEF PollSyncRow
  <2>2. poll' \in Polls
    BY <1>1, <2>1 DEF Polls
  <2> QED
    BY <1>6, <1>8, <2>1, <2>2
<1>9. CASE PollSyncRedis
  <2>1. \E step \in {"sleep", "count"}, users \in {{}, poll.users} :
           poll' = [pc |-> step, rows |-> {}, id |-> None, users |-> users,
                    user |-> None, n |-> 0]
    BY <1>9 DEF PollSyncRedis, Asleep
  <2>2. poll' \in Polls /\ poll'.pc # "delete" /\ poll'.rows = {}
    BY <1>1, <2>1 DEF Polls
  <2> QED
    BY <1>6, <1>9, <2>2
<1> QED
  BY <1>2, <1>3, <1>4, <1>5, <1>7, <1>8, <1>9 DEF PollStep, Scan

-----------------------------------------------------------------------------
LEMMA InvariantStep == IInv /\ [Next]_vars => IInv'
<1> SUFFICES ASSUME IInv, [Next]_vars PROVE IInv'
  OBVIOUS
<1>1. CASE \E t \in Tasks : Arrival(t) \/ TaskStep(t)
  BY <1>1, TasksKeep
<1>2. CASE PollStep
  BY <1>2, PollKeeps
<1>3. CASE Tick
  <2>1. clock' = clock + 1 /\ UNCHANGED <<dbVars, shown, pending, pc, job, poll, budget, historyVars>>
    BY <1>3 DEF Tick
  <2>2. \A n \in Nat : n <= clock => n <= clock'
    BY <2>1 DEF IInv, TypeOK
  <2>3. \A id \in Reminders : reminders[id].at \in Nat
    BY DEF IInv, TypeOK, Rows
  <2>4. TypeOK' /\ JobsFit'
    BY <2>1 DEF dbVars, historyVars, IInv, TypeOK, JobsFit
  <2>5. PollDue' /\ GoneForAReason'
    BY <2>1, <2>2, <2>3 DEF dbVars, historyVars, IInv, TypeOK, Polls, PollDue, GoneForAReason
  <2> QED
    BY <2>4, <2>5 DEF IInv
<1>4. CASE Crash
  <2>1. NoJob \in Jobs /\ Asleep \in Polls /\ Asleep.rows = {} /\ Asleep.pc = "sleep"
        /\ NoSession \in [owner : Users \cup {None}, at : Nat] /\ "idle" \in Steps
    BY DEF NoJob, Job, Jobs, Asleep, Polls, NoSession, Steps
  <2>2. /\ pc' = [t \in Tasks |-> "idle"] /\ job' = [t \in Tasks |-> NoJob] /\ poll' = Asleep
        /\ pending' = [p \in Prompts |-> NoSession]
        /\ UNCHANGED <<reminders, counts, shown, clock, got, dropped, made>>
    BY <1>4 DEF Crash, dbVars, historyVars
  <2>3. budget' \in [commands : Nat, faults : Nat]
    BY <1>4 DEF Crash, Fault, IInv, TypeOK
  <2>4. TypeOK' /\ JobsFit'
    BY <2>1, <2>2, <2>3 DEF IInv, TypeOK, JobsFit
  <2>5. PollDue' /\ GoneForAReason'
    BY <2>1, <2>2 DEF IInv, PollDue, GoneForAReason
  <2> QED
    BY <2>4, <2>5 DEF IInv
<1>5. CASE UNCHANGED vars
  BY <1>5 DEF vars, dbVars, historyVars, IInv, TypeOK, JobsFit, PollDue, GoneForAReason
<1> QED
  BY <1>1, <1>2, <1>3, <1>4, <1>5 DEF Next

\* Every variable keeps its type, whatever fails.
THEOREM TypeCorrect == Spec => []TypeOK
<1>1. IInv => TypeOK
  BY DEF IInv
<1> QED
  BY <1>1, InvariantInit, InvariantStep, PTL DEF Spec

\* No reminder goes before its time, unless its owner deletes it.
THEOREM NoneLostEarly == Spec => []GoneForAReason
<1>1. IInv => GoneForAReason
  BY DEF IInv
<1> QED
  BY <1>1, InvariantInit, InvariantStep, PTL DEF Spec

-----------------------------------------------------------------------------
(***************************************************************************)
(* As long as nothing fails: deliveries.                                   *)
(***************************************************************************)
\* The bound on faults only ever runs down.
Spent == budget.faults <= MaxFaults

LEMMA BudgetMoves ==
    ASSUME [Next]_vars
    PROVE  \/ UNCHANGED budget
           \/ budget.commands > 0 /\ budget' = [budget EXCEPT !.commands = @ - 1]
           \/ Fault
<1>1. ASSUME NEW t \in Tasks, Arrival(t)
      PROVE  budget.commands > 0 /\ budget' = [budget EXCEPT !.commands = @ - 1]
  BY <1>1 DEF Arrival, Remind, ShowPrompt, Select, Confirm, Cancel, Delete, Asks
<1>2. ASSUME NEW t \in Tasks, TaskStep(t) PROVE UNCHANGED budget \/ Fault
  BY <1>2 DEF TaskStep, Register, Respond, Forget, CheckLimit, Insert, DeleteRow, SyncRead,
     SyncRow, SyncRedis, MirrorRow, MirrorRedis
<1>3. PollStep => UNCHANGED budget \/ Fault
  BY DEF PollStep, Scan, Send, DeleteFired, PollSyncRead, PollSyncRow, PollSyncRedis, MirrorRow,
     MirrorRedis
<1>4. Tick \/ Crash \/ UNCHANGED vars => UNCHANGED budget \/ Fault
  BY DEF Tick, Crash, vars
<1> QED
  BY <1>1, <1>2, <1>3, <1>4 DEF Next

\* A step after which nothing has failed is one that did not fail.
LEMMA StillFine ==
    ASSUME TypeOK, Spent, [Next]_vars
    PROVE  /\ Spent'
           /\ NothingFailed' => NothingFailed /\ ~Fault
<1>1. budget \in [commands : Nat, faults : Nat] /\ MaxFaults \in Nat
  BY ReminderConstants DEF TypeOK
<1>2. CASE UNCHANGED budget
  BY <1>1, <1>2 DEF Spent, NothingFailed, Fault
<1>3. CASE budget.commands > 0 /\ budget' = [budget EXCEPT !.commands = @ - 1]
  BY <1>1, <1>3 DEF Spent, NothingFailed, Fault
<1>4. CASE Fault
  BY <1>1, <1>4 DEF Spent, NothingFailed, Fault
<1> QED
  BY <1>2, <1>3, <1>4, BudgetMoves

InHand(id) == poll.pc = "delete" /\ poll.id = id

\* Nothing has arrived of a reminder that waits, in the table or in the poll's batch;
\* once sent it is in the poll's hand until its row goes.
Delivery(id) ==
    /\ got[id] <= 1
    /\ id \in poll.rows => got[id] = 0
    /\ InHand(id) => id \notin poll.rows
    /\ reminders[id].state # "gone" /\ ~InHand(id) => got[id] = 0
    /\ /\ InHand(id) \/ (reminders[id].state = "gone" /\ id \notin dropped)
       /\ reminders[id].owner \notin Unreachable
       => got[id] = 1
Deliveries == NothingFailed => \A id \in Reminders : Delivery(id)

LEMMA DeliveriesInit == Init => Spent /\ Deliveries
  BY ReminderConstants DEF Init, Spent, Deliveries, Delivery, InHand, Asleep, NoReminder

\* Tasks hand ids out and delete rows; what has arrived is the poll's business.
LEMMA TaskDelivers ==
    ASSUME IInv, NEW t \in Tasks, Arrival(t) \/ TaskStep(t),
           NEW id \in Reminders, Delivery(id)
    PROVE  Delivery(id)'
<1>1. UNCHANGED <<got, poll>> /\ dropped \subseteq dropped'
  BY TableTypes DEF RemindersKeep, IInv, Arrival, Remind, ShowPrompt, Select, Confirm, Cancel,
     Delete, TaskStep, Register, Respond, Forget, CheckLimit, Insert, DeleteRow, SyncRead,
     SyncRow, SyncRedis, historyVars
<1>2. \/ reminders'[id] = reminders[id]
      \/ reminders[id].state = "unused" /\ reminders'[id].state = "active"
      \/ /\ reminders[id].state = "active" /\ reminders'[id].state = "gone"
         /\ id \in dropped' /\ reminders'[id].owner = reminders[id].owner
  <2>1. CASE UNCHANGED reminders
    BY <2>1
  <2>2. CASE DeleteRow(t) /\ reminders' # reminders
    <3>1. reminders' = [reminders EXCEPT ![job[t].id].state = "gone"]
          /\ dropped' = dropped \cup {job[t].id} /\ Active(job[t].id)
      BY <2>2 DEF DeleteRow
    <3>2. reminders[id] \in Rows
      BY DEF IInv, TypeOK
    <3> QED
      BY <3>1, <3>2 DEF IInv, TypeOK, Active, Rows
  <2>3. CASE Insert(t) /\ reminders' # reminders
    <3> DEFINE new == First(Unused)
    <3>1. /\ Unused # {}
          /\ reminders' = [reminders EXCEPT
                 ![new] = [state |-> "active", owner |-> job[t].user, at |-> job[t].at]]
      BY <2>3 DEF Insert
    <3>2. reminders[new].state = "unused"
      BY <3>1 DEF First, Unused
    <3> HIDE DEF new
    <3> QED
      BY <3>1, <3>2 DEF IInv, TypeOK
  <2> QED
    BY <2>1, <2>2, <2>3 DEF Arrival, Remind, ShowPrompt, Select, Confirm, Cancel, Delete,
       TaskStep, Register, Respond, Forget, CheckLimit, SyncRead, SyncRow, SyncRedis, dbVars,
       Insert, DeleteRow
<1>3. reminders[id].state = "unused" => ~InHand(id) /\ id \notin poll.rows
  BY DEF IInv, PollDue, InHand
<1> QED
  BY <1>1, <1>2, <1>3 DEF Delivery, InHand

LEMMA PollDelivers ==
    ASSUME IInv, PollStep, ~Fault, NEW id \in Reminders, \A r \in Reminders : Delivery(r)
    PROVE  Delivery(id)'
<1>0. /\ TypeOK /\ poll.rows \subseteq Reminders
      /\ poll = [pc |-> poll.pc, rows |-> poll.rows, id |-> poll.id, users |-> poll.users,
                 user |-> poll.user, n |-> poll.n]
  BY DEF IInv, TypeOK, Polls
<1>1. CASE Scan
  <2>1. UNCHANGED <<reminders, got, dropped>>
    BY <1>1 DEF Scan, dbVars, historyVars
  <2>2. CASE poll' = poll
    BY <2>1, <2>2 DEF Delivery, InHand
  <2>3. CASE poll'.pc = "send" /\ poll'.rows = Due
    BY <1>1, <2>1, <2>3 DEF Scan, Delivery, InHand, Due, Active
  <2> QED
    BY <1>1, <2>2, <2>3 DEF Scan, Asleep
<1>2. CASE Send
  <2>1. PICK r \in poll.rows :
           /\ poll' = [poll EXCEPT !.pc = "delete", !.rows = @ \ {r}, !.id = r]
           /\ \/ reminders[r].owner \notin Unreachable /\ Arrives(r)
              \/ reminders[r].owner \in Unreachable /\ UNCHANGED got
    BY <1>2 DEF Send
  <2>2. poll' = [pc |-> "delete", rows |-> poll.rows \ {r}, id |-> r, users |-> poll.users,
                 user |-> poll.user, n |-> poll.n]
    BY <1>0, <2>1
  <2>3. UNCHANGED <<reminders, dropped>> /\ poll.pc = "send" /\ r \in Reminders
    BY <1>0, <1>2 DEF Send, dbVars
  <2>4. got[r] = 0 /\ Delivery(id)
    BY <2>1, <2>3 DEF Delivery
  <2>5. /\ id # r => got'[id] = got[id]
        /\ got'[r] = IF reminders[r].owner \in Unreachable THEN 0 ELSE 1
    BY <1>0, <2>1, <2>3, <2>4 DEF Arrives, TypeOK
  <2> QED
    BY <2>2, <2>3, <2>4, <2>5 DEF Delivery, InHand
<1>3. CASE DeleteFired
  <2> DEFINE g == poll.id
  <2>1. /\ g \in Reminders /\ poll.pc = "delete"
        /\ reminders' = [reminders EXCEPT ![g].state = "gone"] /\ UNCHANGED <<got, dropped>>
    BY <1>3 DEF DeleteFired, IInv, PollDue, historyVars
  <2>2. poll'.pc \in {"count", "send"} /\ poll'.rows = poll.rows
    BY <1>0, <1>3 DEF DeleteFired
  <2>3. reminders[g] \in Rows
    BY <1>0, <2>1 DEF TypeOK
  <2>4. reminders'[g].state = "gone" /\ reminders'[g].owner = reminders[g].owner
    BY <1>0, <2>1, <2>3 DEF TypeOK, Rows
  <2>5. id # g => reminders'[id] = reminders[id]
    BY <1>0, <2>1 DEF TypeOK
  <2> HIDE DEF g
  <2>6. InHand(id) <=> id = g
    BY <2>1 DEF InHand, g
  <2>7. ~InHand(id)'
    BY <2>2 DEF InHand
  <2> QED
    BY <2>1, <2>2, <2>4, <2>5, <2>6, <2>7 DEF Delivery
<1>4. CASE PollSyncRead \/ PollSyncRow \/ PollSyncRedis
  <2>1. UNCHANGED <<reminders, got, dropped>>
    BY <1>4 DEF PollSyncRead, PollSyncRow, PollSyncRedis, dbVars, historyVars
  <2>2. CASE PollSyncRead
    <3>1. PICK u \in poll.users : \E n \in Nat :
             poll' = [poll EXCEPT !.pc = "row", !.users = @ \ {u}, !.user = u, !.n = n]
      <4>1. \A u \in poll.users : CountOf(u) \in Nat
        BY CountType
      <4> QED
        BY <2>2, <4>1 DEF PollSyncRead
    <3>2. poll'.pc = "row" /\ poll'.rows = poll.rows /\ poll.pc = "count"
      BY <1>0, <2>2, <3>1 DEF PollSyncRead
    <3> QED
      BY <2>1, <3>2 DEF Delivery, InHand
  <2>3. CASE PollSyncRow
    <3>1. poll'.pc = "redis" /\ poll'.rows = poll.rows /\ poll.pc = "row"
      BY <1>0, <2>3 DEF PollSyncRow
    <3> QED
      BY <2>1, <3>1 DEF Delivery, InHand
  <2>4. CASE PollSyncRedis
    <3>1. poll'.pc # "delete" /\ poll'.rows = {} /\ poll.pc = "redis"
      BY <2>4 DEF PollSyncRedis, Asleep
    <3> QED
      BY <2>1, <3>1 DEF Delivery, InHand
  <2> QED
    BY <1>4, <2>2, <2>3, <2>4
<1> QED
  BY <1>1, <1>2, <1>3, <1>4 DEF PollStep

LEMMA DeliveriesStep == ASSUME IInv, Spent, Deliveries, [Next]_vars PROVE Deliveries'
<1> SUFFICES ASSUME NothingFailed', NEW id \in Reminders PROVE Delivery(id)'
  BY DEF Deliveries
<1>1. ~Fault /\ \A r \in Reminders : Delivery(r)
  BY StillFine DEF IInv, Deliveries
<1>2. CASE \E t \in Tasks : Arrival(t) \/ TaskStep(t)
  BY <1>1, <1>2, TaskDelivers
<1>3. CASE PollStep
  BY <1>1, <1>3, PollDelivers
<1>4. CASE Tick \/ UNCHANGED vars
  BY <1>1, <1>4 DEF Tick, vars, dbVars, historyVars, Delivery, InHand
<1> QED
  BY <1>1, <1>2, <1>3, <1>4 DEF Next, Crash

\* Unless something fails, a reminder of somebody who can be reached arrives exactly
\* once: from the poll's snapshot, although its owner may delete it meanwhile.
THEOREM ArrivesOnce == Spec => []DeliveredOnce
<1>1. Init => IInv /\ Spent /\ Deliveries
  BY InvariantInit, DeliveriesInit
<1>2. IInv /\ Spent /\ Deliveries /\ [Next]_vars => (IInv /\ Spent /\ Deliveries)'
  BY InvariantStep, DeliveriesStep, StillFine DEF IInv
<1>3. Deliveries => DeliveredOnce
  BY DEF Deliveries, Delivery, DeliveredOnce
<1> QED
  BY <1>1, <1>2, <1>3, PTL DEF Spec

-----------------------------------------------------------------------------
(***************************************************************************)
(* Prompts: at most one reminder each, for its author.                     *)
(***************************************************************************)
\* What OneEach below needs of the command framework: that the commands and presses
\* of one user are handled one after the other.  Other users' tasks are not restricted.
OneTaskPerUser == \A s, t \in Tasks : Speakers[s] \cap Speakers[t] # {} => s = t

\* Task t has made the reminder of prompt p and has not forgotten its session yet.
Finishing(t, p) ==
    /\ pc[t] \in {"readCount", "mirrorRow", "mirrorRedis", "respond", "forget"}
    /\ job[t].prompt = p /\ job[t].user = shown[p].author

\* A prompt that is being registered or confirmed is the user's own, and unused so far.
TaskFits(t) ==
    pc[t] # "idle" =>
        /\ job[t].user \in Speakers[t]
        /\ job[t].prompt \in Prompts => shown[job[t].prompt].state # "none"
        /\ pc[t] = "register" =>
              job[t].prompt \in Prompts /\ pending[job[t].prompt] = NoSession
        /\ pc[t] \in {"register", "count", "insert"} /\ job[t].prompt \in Prompts =>
              job[t].user = shown[job[t].prompt].author /\ made[job[t].prompt] = {}

\* While a prompt that has made its reminder still has a session, its author's task is
\* the one that will forget it: nobody else passes the ownership test.
PromptFits(p) ==
    /\ shown[p].state = "none" => pending[p] = NoSession /\ made[p] = {}
    /\ shown[p].state # "none" => shown[p].author \in Users
    /\ pending[p] # NoSession => pending[p].owner = shown[p].author
    /\ pending[p] # NoSession /\ made[p] # {} => \E t \in Tasks : Finishing(t, p)
    /\ \/ made[p] = {}
       \/ \E id \in Reminders : /\ made[p] = {id} /\ reminders[id].state # "unused"
                                /\ reminders[id].owner = shown[p].author

PromptsFit == (\A t \in Tasks : TaskFits(t)) /\ (\A p \in Prompts : PromptFits(p))

\* A reminder that was handed out stays its owner's.
OwnersKeep ==
    \A id \in Reminders : reminders[id].state # "unused" =>
        reminders'[id].state # "unused" /\ reminders'[id].owner = reminders[id].owner

LEMMA OwnersStep == ASSUME IInv, [Next]_vars PROVE OwnersKeep
<1>0. reminders \in [Reminders -> Rows]
  BY DEF IInv, TypeOK
<1>1. CASE UNCHANGED reminders
  BY <1>1 DEF OwnersKeep
<1>2. ASSUME NEW STATE id, reminders' = [reminders EXCEPT ![id].state = "gone"] PROVE OwnersKeep
  BY <1>0, <1>2 DEF OwnersKeep, Rows
<1>3. ASSUME NEW t \in Tasks, Insert(t), ~UNCHANGED reminders PROVE OwnersKeep
  <2> DEFINE new == First(Unused)
  <2>1. /\ Unused # {}
        /\ reminders' = [reminders EXCEPT
               ![new] = [state |-> "active", owner |-> job[t].user, at |-> job[t].at]]
    BY <1>3 DEF Insert
  <2>2. reminders[new].state = "unused"
    BY <2>1 DEF First, Unused
  <2> HIDE DEF new
  <2> QED
    BY <1>0, <2>1, <2>2 DEF OwnersKeep
<1>4. ASSUME NEW t \in Tasks, Arrival(t) \/ TaskStep(t) PROVE OwnersKeep
  BY <1>1, <1>2, <1>3, <1>4 DEF Arrival, Remind, ShowPrompt, Select, Confirm, Cancel, Delete,
     TaskStep, Register, Respond, Forget, CheckLimit, DeleteRow, SyncRead, SyncRow, SyncRedis,
     dbVars
<1>5. CASE PollStep
  <2>1. DeleteFired => OwnersKeep
    BY <1>1, <1>2 DEF DeleteFired
  <2>2. CASE Scan
    BY <1>1, <2>2 DEF Scan, dbVars
  <2>3. CASE Send
    <3>1. UNCHANGED dbVars
      BY <2>3 DEF Send
    <3> QED
      BY <1>1, <3>1 DEF dbVars
  <2>4. CASE PollSyncRead
    BY <1>1, <2>4 DEF PollSyncRead, dbVars
  <2>5. PollSyncRow \/ PollSyncRedis => UNCHANGED reminders
    BY DEF PollSyncRow, PollSyncRedis
  <2> QED
    BY <1>1, <1>5, <2>1, <2>2, <2>3, <2>4, <2>5 DEF PollStep
<1>6. Tick \/ Crash \/ UNCHANGED vars => OwnersKeep
  BY <1>1 DEF Tick, Crash, vars, dbVars
<1> QED
  BY <1>4, <1>5, <1>6 DEF Next

\* The prompts keep their authors, and sessions only end.
SessionsEnd ==
    \A p \in Prompts :
        /\ shown'[p].author = shown[p].author
        /\ shown'[p].state = "none" <=> shown[p].state = "none"
        /\ \/ pending'[p] = NoSession
           \/ pending[p] # NoSession /\ pending'[p].owner = pending[p].owner

LEMMA OthersFit ==
    ASSUME NEW s \in Tasks, TaskFits(s), SessionsEnd, UNCHANGED made,
           pc'[s] = pc[s], job'[s] = job[s]
    PROVE  TaskFits(s)'
  BY DEF TaskFits, SessionsEnd

LEMMA PromptsKeep ==
    ASSUME PromptsFit, OwnersKeep, SessionsEnd, UNCHANGED made,
           NEW p \in Prompts,
           \A s \in Tasks : Finishing(s, p) => Finishing(s, p)' \/ pending'[p] = NoSession
    PROVE  PromptFits(p)'
<1>1. PromptFits(p)
  BY DEF PromptsFit
<1>2. ASSUME pending'[p] # NoSession, made[p] # {} PROVE \E s \in Tasks : Finishing(s, p)'
  BY <1>1, <1>2 DEF PromptFits, SessionsEnd
<1> QED
  BY <1>1, <1>2 DEF PromptFits, SessionsEnd, OwnersKeep

\* A step of task t from step "from" that leaves the sessions of others alone.
LEMMA TaskMoves ==
    ASSUME TypeOK, PromptsFit, OwnersKeep, SessionsEnd, UNCHANGED made,
           NEW t \in Tasks, NEW next, NEW j, Goto(t, next, j),
           TaskFits(t)',
           \A p \in Prompts : Finishing(t, p) => Finishing(t, p)' \/ pending'[p] = NoSession
    PROVE  PromptsFit'
<1>1. \A s \in Tasks \ {t} : pc'[s] = pc[s] /\ job'[s] = job[s]
  BY DEF Goto, TypeOK
<1>2. \A s \in Tasks : TaskFits(s)'
  BY <1>1, OthersFit DEF PromptsFit
<1>3. ASSUME NEW p \in Prompts PROVE PromptFits(p)'
  <2>1. \A s \in Tasks \ {t} : Finishing(s, p) => Finishing(s, p)'
    BY <1>1 DEF Finishing, SessionsEnd
  <2> QED
    BY <2>1, PromptsKeep
<1> QED
  BY <1>2, <1>3 DEF PromptsFit

LEMMA NewcomersFit ==
    ASSUME IInv, PromptsFit, NEW t \in Tasks,
           Remind(t) \/ Cancel(t) \/ Delete(t), OwnersKeep
    PROVE  PromptsFit'
<1>0. pc[t] = "idle" /\ UNCHANGED <<shown, pending, made>> /\ TypeOK
  BY DEF IInv, Remind, Cancel, Delete, Asks, historyVars
<1>1. \E u \in Users, next \in {"count", "respond", "delete"} : \E at, p, id :
         /\ u \in Speakers[t] /\ Goto(t, next, Job(u, at, p, id))
         /\ p \in Prompts => next = "respond" /\ shown[p].state # "none"
  <2>1. CASE Remind(t)
    BY <2>1, ReminderConstants DEF Remind, Asks
  <2>2. CASE Cancel(t)
    BY <2>2 DEF Cancel, Asks, Presses
  <2>3. CASE Delete(t)
    BY <2>3, ReminderConstants DEF Delete, Asks
  <2> QED
    BY <2>1, <2>2, <2>3
<1>2. PICK u \in Users, next \in {"count", "respond", "delete"} : \E at, p, id :
         /\ u \in Speakers[t] /\ Goto(t, next, Job(u, at, p, id))
         /\ p \in Prompts => next = "respond" /\ shown[p].state # "none"
  BY <1>1
<1>3. PICK at, p, id :
         /\ u \in Speakers[t] /\ Goto(t, next, Job(u, at, p, id))
         /\ p \in Prompts => next = "respond" /\ shown[p].state # "none"
  BY <1>2
<1>4. pc'[t] = next /\ job'[t] = Job(u, at, p, id)
  BY <1>0, <1>3 DEF Goto, TypeOK
<1>5. SessionsEnd
  BY <1>0 DEF SessionsEnd
<1>6. TaskFits(t)'
  BY <1>0, <1>3, <1>4 DEF TaskFits, Job
<1>7. \A q \in Prompts : ~Finishing(t, q)
  BY <1>0 DEF Finishing
<1> QED
  BY <1>0, <1>3, <1>5, <1>6, <1>7, TaskMoves

LEMMA SelectFits ==
    ASSUME IInv, PromptsFit, NEW t \in Tasks, Select(t), OwnersKeep
    PROVE  PromptsFit'
<1>1. PICK p \in Sessions : \E d \in Lengths :
         pending' = [pending EXCEPT ![p].at = shown[p].since + d]
  BY DEF Select
<1>2. UNCHANGED <<shown, pc, job, made>> /\ p \in Prompts /\ pending[p] # NoSession
  BY <1>1 DEF Select, historyVars, Sessions
<1>3. SessionsEnd /\ \A q \in Prompts : q # p => pending'[q] = pending[q]
  BY <1>1, <1>2 DEF SessionsEnd, IInv, TypeOK
<1>4. \A s \in Tasks : TaskFits(s)'
  BY <1>2, <1>3, OthersFit DEF PromptsFit
<1>5. \A s \in Tasks, q \in Prompts : Finishing(s, q) => Finishing(s, q)'
  BY <1>2 DEF Finishing
<1> QED
  BY <1>2, <1>3, <1>4, <1>5, PromptsKeep DEF PromptsFit

\* Whoever confirms is the author, and no reminder was made: its maker would be the
\* author's only task, which is the one that confirms.
LEMMA ConfirmFits ==
    ASSUME OneTaskPerUser, IInv, PromptsFit, NEW t \in Tasks, Confirm(t), OwnersKeep
    PROVE  PromptsFit'
<1>0. pc[t] = "idle" /\ UNCHANGED <<shown, pending, made>> /\ TypeOK
  BY DEF IInv, Confirm, Asks, historyVars
<1>1. PICK u \in Users, p \in Sessions :
         /\ u \in Speakers[t] /\ Presses(u, p)
         /\ Goto(t, "count", Job(u, pending[p].at, p, None))
  BY DEF Confirm, Asks
<1>2. p \in Prompts /\ pending[p] # NoSession /\ shown[p].state = "open" /\ PromptFits(p)
  BY <1>1 DEF Sessions, Presses, PromptsFit
<1>3. shown[p].author = u
  BY <1>1, <1>2, ReminderConstants DEF PromptFits, Presses
<1>4. made[p] = {}
  <2>1. ASSUME NEW s \in Tasks, Finishing(s, p) PROVE FALSE
    <3>1. u \in Speakers[s] /\ pc[s] # "idle"
      BY <1>3, <2>1 DEF Finishing, PromptsFit, TaskFits
    <3> QED
      BY <1>0, <1>1, <3>1 DEF OneTaskPerUser
  <2> QED
    BY <1>2, <2>1 DEF PromptFits
<1>5. pc'[t] = "count" /\ job'[t] = Job(u, pending[p].at, p, None)
  BY <1>0, <1>1 DEF Goto, TypeOK
<1>6. SessionsEnd
  BY <1>0 DEF SessionsEnd
<1>7. TaskFits(t)'
  BY <1>0, <1>1, <1>2, <1>3, <1>4, <1>5 DEF TaskFits, Job
<1>8. \A q \in Prompts : ~Finishing(t, q)
  BY <1>0 DEF Finishing
<1> QED
  BY <1>0, <1>1, <1>6, <1>7, <1>8, TaskMoves

\* Steps of a confirmation, a cancellation, a deletion or a command under way.
LEMMA AnswerFits ==
    ASSUME TypeOK, NEW t \in Tasks, TaskFits(t), NEW j \in Jobs, j.user = job[t].user,
           j.prompt = job[t].prompt, SessionsEnd,
           \/ Goto(t, IF job[t].prompt = None THEN "idle" ELSE "respond", j)
           \/ /\ pc[t] \notin {"register", "count"} /\ Goto(t, "forget", j)
           \/ \E next \in {"readCount", "mirrorRow", "mirrorRedis"} : Goto(t, next, j),
           pc[t] # "idle"
    PROVE  TaskFits(t)' /\ \A p \in Prompts : Finishing(t, p) => Finishing(t, p)'
<1>1. CASE pc'[t] = "idle" /\ job[t].prompt = None
  BY <1>1, ReminderConstants DEF TaskFits, Finishing
<1>2. CASE /\ pc'[t] \in {"respond", "forget", "readCount", "mirrorRow", "mirrorRedis"}
           /\ job'[t] = j
  BY <1>2 DEF TaskFits, Finishing, SessionsEnd
<1> QED
  BY <1>1, <1>2 DEF Goto, TypeOK

LEMMA WorkFits ==
    ASSUME IInv, PromptsFit, NEW t \in Tasks, OwnersKeep,
           \/ Respond(t) \/ Forget(t) \/ CheckLimit(t) \/ DeleteRow(t)
           \/ SyncRead(t) \/ SyncRow(t) \/ SyncRedis(t)
    PROVE  PromptsFit'
<1>0. TypeOK /\ job[t] \in Jobs /\ TaskFits(t) /\ UNCHANGED made
  BY DEF IInv, TypeOK, PromptsFit, Respond, Forget, CheckLimit, DeleteRow, SyncRead, SyncRow,
     SyncRedis, historyVars
<1>1. ASSUME NEW n \in Nat PROVE [job[t] EXCEPT !.n = n] \in Jobs
  BY <1>0 DEF Jobs
<1>2. CASE Respond(t)
  <2>1. SessionsEnd
    <3>1. UNCHANGED pending /\ \A p \in Prompts : shown[p] \in
              [state : {"none", "open", "done"}, author : Users \cup {None}, since : Nat]
      BY <1>0, <1>2 DEF Respond, TypeOK
    <3>2. CASE UNCHANGED shown
      BY <3>1, <3>2 DEF SessionsEnd
    <3>3. CASE shown' = [shown EXCEPT ![job[t].prompt].state = "done"]
      BY <1>0, <1>2, <3>1, <3>3 DEF SessionsEnd, TypeOK, TaskFits, Respond
    <3> QED
      BY <1>2, <3>2, <3>3 DEF Respond
  <2>2. pc[t] = "respond" /\ Goto(t, "forget", job[t])
    BY <1>2 DEF Respond
  <2> QED
    BY <1>0, <2>1, <2>2, AnswerFits, TaskMoves
<1>3. CASE Forget(t)
  <2>1. /\ pending' = [pending EXCEPT ![job[t].prompt] = NoSession] /\ UNCHANGED shown
        /\ Goto(t, "idle", NoJob)
    BY <1>3 DEF Forget
  <2>2. SessionsEnd
    BY <1>0, <2>1 DEF SessionsEnd, TypeOK
  <2>3. TaskFits(t)'
    BY <1>0, <2>1 DEF TaskFits, Goto, TypeOK
  <2>4. \A p \in Prompts : Finishing(t, p) => pending'[p] = NoSession
    BY <1>0, <2>1 DEF Finishing, TypeOK
  <2> QED
    BY <1>0, <2>1, <2>2, <2>3, <2>4, TaskMoves
<1>4. CASE ~Respond(t) /\ ~Forget(t)
  <2>1. SessionsEnd
    <3>1. UNCHANGED <<shown, pending>>
      BY <1>4 DEF CheckLimit, DeleteRow, SyncRead, SyncRow, SyncRedis
    <3> QED
      BY <3>1 DEF SessionsEnd
  <2>2. CASE CheckLimit(t) /\ Goto(t, "insert", job[t])
    <3>1. TaskFits(t)'
      BY <1>0, <2>1, <2>2 DEF CheckLimit, TaskFits, SessionsEnd, Goto, TypeOK
    <3>2. \A p \in Prompts : ~Finishing(t, p)
      BY <2>2 DEF CheckLimit, Finishing
    <3> QED
      BY <1>0, <2>1, <2>2, <3>1, <3>2, TaskMoves
  <2>3. CASE CheckLimit(t) /\ Answer(t)
    BY <1>0, <2>1, <2>3, AnswerFits, TaskMoves DEF CheckLimit, Answer
  <2>4. CASE DeleteRow(t)
    <3>1. CASE Goto(t, "readCount", job[t])
      BY <1>0, <2>1, <2>4, <3>1, AnswerFits, TaskMoves DEF DeleteRow
    <3>2. CASE Goto(t, "idle", NoJob)
      <4>1. TaskFits(t)' /\ \A p \in Prompts : ~Finishing(t, p)
        BY <1>0, <2>4, <3>2 DEF DeleteRow, TaskFits, Finishing, Goto, TypeOK
      <4> QED
        BY <1>0, <2>1, <3>2, <4>1, TaskMoves
    <3> QED
      BY <2>4, <3>1, <3>2 DEF DeleteRow
  <2>5. CASE SyncRead(t)
    <3>1. PICK n \in Nat : Goto(t, "mirrorRow", [job[t] EXCEPT !.n = n])
      BY <2>5, CountType DEF SyncRead
    <3>2. /\ [job[t] EXCEPT !.n = n].user = job[t].user
          /\ [job[t] EXCEPT !.n = n].prompt = job[t].prompt
      BY <1>0 DEF Jobs
    <3> DEFINE j == [job[t] EXCEPT !.n = n]
    <3>3. j \in Jobs /\ Goto(t, "mirrorRow", j) /\ pc[t] # "idle"
          /\ j.user = job[t].user /\ j.prompt = job[t].prompt
      BY <1>1, <2>5, <3>1, <3>2 DEF SyncRead
    <3> HIDE DEF j
    <3> QED
      BY <1>0, <2>1, <3>3, AnswerFits, TaskMoves
  <2>6. CASE SyncRow(t)
    BY <1>0, <2>1, <2>6, AnswerFits, TaskMoves DEF SyncRow
  <2>7. CASE SyncRedis(t)
    BY <1>0, <2>1, <2>7, AnswerFits, TaskMoves DEF SyncRedis, Answer
  <2> QED
    BY <1>4, <2>2, <2>3, <2>4, <2>5, <2>6, <2>7 DEF CheckLimit
<1> QED
  BY <1>2, <1>3, <1>4

\* The new prompt is fresh: nobody works on it, and it has made nothing.
LEMMA ShowPromptFits ==
    ASSUME IInv, PromptsFit, NEW t \in Tasks, ShowPrompt(t), OwnersKeep
    PROVE  PromptsFit'
<1> DEFINE p == First(Unsent)
<1>1. PICK u \in Users :
         /\ u \in Speakers[t] /\ pc[t] = "idle"
         /\ shown' = [shown EXCEPT ![p] = [state |-> "open", author |-> u, since |-> clock]]
         /\ Goto(t, "register", Job(u, 0, p, None))
  BY DEF ShowPrompt, Asks
<1>2. p \in Prompts /\ shown[p].state = "none" /\ UNCHANGED <<pending, made>> /\ TypeOK
  BY DEF ShowPrompt, First, Unsent, historyVars, IInv
<1> HIDE DEF p
<1>3. /\ \A q \in Prompts \ {p} : shown'[q] = shown[q]
      /\ shown'[p].state = "open" /\ shown'[p].author = u
  BY <1>1, <1>2 DEF TypeOK
<1>4. /\ pc'[t] = "register" /\ job'[t] = Job(u, 0, p, None)
      /\ \A s \in Tasks \ {t} : pc'[s] = pc[s] /\ job'[s] = job[s]
  BY <1>1, <1>2 DEF Goto, TypeOK
<1>5. PromptFits(p) /\ pending[p] = NoSession /\ made[p] = {}
  BY <1>2 DEF PromptsFit, PromptFits
<1>6. ASSUME NEW s \in Tasks PROVE TaskFits(s)'
  <2>1. CASE s = t
    BY <1>1, <1>2, <1>3, <1>4, <1>5, <2>1 DEF TaskFits, Job
  <2>2. CASE s # t
    <3>1. TaskFits(s) /\ pc'[s] = pc[s] /\ job'[s] = job[s]
      BY <1>4, <2>2 DEF PromptsFit
    <3>2. pc[s] # "idle" /\ job[s].prompt \in Prompts => job[s].prompt # p
      BY <1>2, <3>1 DEF TaskFits
    <3> QED
      BY <1>2, <1>3, <3>1, <3>2 DEF TaskFits
  <2> QED
    BY <2>1, <2>2
<1>7. ASSUME NEW q \in Prompts PROVE PromptFits(q)'
  <2>1. CASE q = p
    BY <1>2, <1>3, <1>5, <2>1 DEF PromptFits
  <2>2. CASE q # p
    <3>1. PromptFits(q) /\ shown'[q] = shown[q] /\ pending'[q] = pending[q] /\ made'[q] = made[q]
      BY <1>2, <1>3, <2>2 DEF PromptsFit
    <3>2. \A s \in Tasks : Finishing(s, q) => Finishing(s, q)'
      BY <1>1, <1>4, <3>1 DEF Finishing
    <3> QED
      BY <3>1, <3>2 DEF PromptFits, OwnersKeep
  <2> QED
    BY <2>1, <2>2
<1> QED
  BY <1>6, <1>7 DEF PromptsFit

\* The session is its author's; only the author's task may be registering the prompt.
LEMMA RegisterFits ==
    ASSUME OneTaskPerUser, IInv, PromptsFit, NEW t \in Tasks, Register(t), OwnersKeep
    PROVE  PromptsFit'
<1> DEFINE p == job[t].prompt
<1>1. /\ pc[t] = "register" /\ Goto(t, "idle", NoJob) /\ UNCHANGED <<shown, made>> /\ TypeOK
      /\ TaskFits(t)
  BY DEF Register, historyVars, IInv, PromptsFit
<1>2. /\ p \in Prompts /\ shown[p].state # "none"
      /\ job[t].user = shown[p].author /\ made[p] = {}
  BY <1>1 DEF TaskFits
<1>3. \A q \in Prompts :
         \/ pending'[q] = pending[q] \/ pending'[q] = NoSession
         \/ q = p /\ pending'[q].owner = job[t].user
  BY DEF Register, AddSession
<1>4. /\ pc'[t] = "idle"
      /\ \A s \in Tasks \ {t} : pc'[s] = pc[s] /\ job'[s] = job[s]
  BY <1>1 DEF Goto, TypeOK
<1> HIDE DEF p
<1>5. ASSUME NEW s \in Tasks PROVE TaskFits(s)'
  <2>1. CASE s = t
    BY <1>4, <2>1 DEF TaskFits
  <2>2. CASE s # t
    <3>1. TaskFits(s) /\ pc'[s] = pc[s] /\ job'[s] = job[s]
      BY <1>4, <2>2 DEF PromptsFit
    <3>2. pc[s] = "register" => job[s].prompt # p
      BY <1>1, <1>2, <2>2, <3>1 DEF TaskFits, OneTaskPerUser
    <3> QED
      BY <1>1, <1>3, <3>1, <3>2 DEF TaskFits
  <2> QED
    BY <2>1, <2>2
<1>6. ASSUME NEW q \in Prompts PROVE PromptFits(q)'
  <2>1. PromptFits(q)
    BY DEF PromptsFit
  <2>2. \A s \in Tasks : Finishing(s, q) => Finishing(s, q)'
    BY <1>1, <1>4 DEF Finishing
  <2> QED
    BY <1>1, <1>2, <1>3, <2>1, <2>2 DEF PromptFits, OwnersKeep
<1> QED
  BY <1>5, <1>6 DEF PromptsFit

\* The id is new, and the prompt's only one.
LEMMA InsertFits ==
    ASSUME OneTaskPerUser, IInv, PromptsFit, NEW t \in Tasks, Insert(t), OwnersKeep
    PROVE  PromptsFit'
<1>0. TypeOK /\ pc[t] = "insert" /\ TaskFits(t) /\ UNCHANGED <<shown, pending>>
      /\ job[t] \in Jobs /\ SessionsEnd
  BY DEF IInv, TypeOK, Insert, PromptsFit, SessionsEnd
<1>1. CASE Answer(t) /\ UNCHANGED made
  BY <1>0, <1>1, AnswerFits, TaskMoves DEF Answer
<1>2. CASE ~(Answer(t) /\ UNCHANGED made)
  <2> DEFINE id == First(Unused)
             new == [state |-> "active", owner |-> job[t].user, at |-> job[t].at]
             p == job[t].prompt
  <2>1. /\ Unused # {}
        /\ reminders' = [reminders EXCEPT ![id] = new]
        /\ made' = [q \in Prompts |-> IF q = p THEN made[q] \cup {id} ELSE made[q]]
        /\ Goto(t, "readCount", [job[t] EXCEPT !.id = id])
    BY <1>2 DEF Insert
  <2>2. id \in Reminders
    BY <2>1 DEF First, Unused
  <2>3. reminders'[id].state = "active" /\ reminders'[id].owner = job[t].user
    BY <1>0, <2>1, <2>2 DEF TypeOK
  <2>4. /\ pc'[t] = "readCount" /\ job'[t].user = job[t].user /\ job'[t].prompt = p
        /\ \A s \in Tasks \ {t} : pc'[s] = pc[s] /\ job'[s] = job[s]
    BY <1>0, <2>1 DEF Goto, TypeOK, Jobs
  <2> HIDE DEF id, new, p
  <2>5. p \in Prompts => shown[p].author = job[t].user /\ made[p] = {}
    BY <1>0 DEF TaskFits, p
  <2>6. ASSUME NEW s \in Tasks PROVE TaskFits(s)'
    <3>1. CASE s = t
      BY <1>0, <2>4, <3>1 DEF TaskFits, p
    <3>2. CASE s # t
      <4>1. TaskFits(s) /\ pc'[s] = pc[s] /\ job'[s] = job[s]
        BY <2>4, <3>2 DEF PromptsFit
      <4>2. pc[s] \in {"register", "count", "insert"} /\ job[s].prompt \in Prompts =>
               job[s].prompt # p
        BY <1>0, <2>5, <3>2, <4>1 DEF TaskFits, OneTaskPerUser
      <4> QED
        BY <1>0, <2>1, <4>1, <4>2 DEF TaskFits
    <3> QED
      BY <3>1, <3>2
  <2>7. ASSUME NEW q \in Prompts PROVE PromptFits(q)'
    <3>1. PromptFits(q)
      BY DEF PromptsFit
    <3>2. \A s \in Tasks : Finishing(s, q) => Finishing(s, q)'
      BY <1>0, <2>4 DEF Finishing, p
    <3>3. CASE q # p
      <4>1. made'[q] = made[q]
        BY <2>1, <3>3
      <4> QED
        BY <1>0, <3>1, <3>2, <4>1 DEF PromptFits, OwnersKeep
    <3>4. CASE q = p
      <4>1. made'[q] = {id} /\ Finishing(t, q)'
        BY <1>0, <2>1, <2>4, <2>5, <3>4 DEF Finishing
      <4>2. shown[q].state # "none"
        BY <1>0, <3>4 DEF TaskFits, p
      <4> QED
        BY <1>0, <2>2, <2>3, <2>5, <3>1, <3>4, <4>1, <4>2 DEF PromptFits
    <3> QED
      BY <3>3, <3>4
  <2> QED
    BY <2>6, <2>7 DEF PromptsFit
<1> QED
  BY <1>1, <1>2

LEMMA PollLeaves == PollStep => UNCHANGED <<shown, pending, made, pc, job>>
<1>1. CASE Scan
  BY <1>1 DEF Scan, historyVars
<1>2. CASE Send
  BY <1>2 DEF Send
<1>3. CASE DeleteFired \/ PollSyncRow \/ PollSyncRedis
  BY <1>3 DEF DeleteFired, PollSyncRow, PollSyncRedis, historyVars
<1>4. CASE PollSyncRead
  BY <1>4 DEF PollSyncRead, historyVars
<1> QED
  BY <1>1, <1>2, <1>3, <1>4 DEF PollStep

LEMMA PromptsStep ==
    ASSUME OneTaskPerUser, IInv, PromptsFit, [Next]_vars PROVE PromptsFit'
<1>0. OwnersKeep
  BY OwnersStep
<1>1. CASE \E t \in Tasks : Arrival(t) \/ TaskStep(t)
  BY <1>0, <1>1, NewcomersFit, SelectFits, ConfirmFits, WorkFits, ShowPromptFits, RegisterFits,
     InsertFits DEF Arrival, TaskStep
<1>2. ASSUME UNCHANGED <<shown, pending, made, pc, job>> PROVE PromptsFit'
  <2>1. SessionsEnd
    BY <1>2 DEF SessionsEnd
  <2>2. \A s \in Tasks : TaskFits(s)'
    BY <1>2, <2>1, OthersFit DEF PromptsFit
  <2>3. \A s \in Tasks, q \in Prompts : Finishing(s, q) => Finishing(s, q)'
    BY <1>2 DEF Finishing
  <2> QED
    BY <1>0, <1>2, <2>1, <2>2, <2>3, PromptsKeep DEF PromptsFit
<1>3. CASE PollStep
  BY <1>2, <1>3, PollLeaves
<1>4. CASE Tick \/ UNCHANGED vars
  BY <1>2, <1>4 DEF Tick, vars, historyVars
<1>5. CASE Crash
  <2>1. /\ \A q \in Prompts : pending'[q] = NoSession
        /\ UNCHANGED <<shown, made>> /\ \A s \in Tasks : pc'[s] = "idle"
    BY <1>5 DEF Crash, historyVars
  <2> QED
    BY <1>0, <2>1 DEF PromptsFit, TaskFits, PromptFits, OwnersKeep
<1> QED
  BY <1>1, <1>3, <1>4, <1>5 DEF Next

\* A prompt creates at most one reminder, for its author, whatever fails and whoever
\* presses its controls, as long as each user's own presses are handled one by one.
THEOREM OneEach == ASSUME OneTaskPerUser PROVE Spec => []OnePerPrompt
<1>1. Init => IInv /\ PromptsFit
  BY InvariantInit DEF Init, PromptsFit, TaskFits, PromptFits, NotShown
<1>2. IInv /\ PromptsFit /\ [Next]_vars => (IInv /\ PromptsFit)'
  BY InvariantStep, PromptsStep
<1>3. PromptsFit => OnePerPrompt
  <2> SUFFICES ASSUME PromptsFit, NEW p \in Prompts
               PROVE  /\ Cardinality(made[p]) <= 1
                      /\ \A id \in made[p] : reminders[id].owner = shown[p].author
    BY DEF OnePerPrompt
  <2>1. PromptFits(p)
    BY DEF PromptsFit
  <2>2. CASE made[p] = {}
    BY <2>2, FS_EmptySet
  <2>3. CASE \E id \in Reminders : made[p] = {id} /\ reminders[id].owner = shown[p].author
    <3>1. PICK id \in Reminders : made[p] = {id} /\ reminders[id].owner = shown[p].author
      BY <2>3
    <3>2. Cardinality({id}) = 1
      BY FS_Singleton
    <3>3. Cardinality(made[p]) <= 1
      BY <3>1, <3>2
    <3> QED
      BY <3>1, <3>3
  <2> QED
    BY <2>1, <2>2, <2>3 DEF PromptFits
<1> QED
  BY <1>1, <1>2, <1>3, PTL DEF Spec

-----------------------------------------------------------------------------
(***************************************************************************)
(* The limit: counted before the insert, two steps of one task.            *)
(***************************************************************************)
\* Who is about to insert is counted in: the check that let them pass left room for one
\* more, unless it failed, and for every other handler at work for the same user.
Inserting(u) == {t \in Tasks : pc[t] = "insert" /\ job[t].user = u}

LimitKept ==
    /\ \A t \in Tasks : pc[t] # "idle" => job[t].user \in Speakers[t]
    /\ \A u \in Users : CountOf(u) + Cardinality(Inserting(u))
                        < MaxReminders + Cardinality(Serving(u)) + (MaxFaults - budget.faults)

LEMMA FewerOwned ==
    ASSUME NEW u, OwnedBy(u)' \subseteq OwnedBy(u)
    PROVE  CountOf(u) \in Nat /\ CountOf(u)' \in Nat /\ CountOf(u)' <= CountOf(u)
<1>1. IsFiniteSet(OwnedBy(u))
  BY ReminderConstants, FS_Subset DEF OwnedBy
<1> QED
  BY <1>1, FS_Subset, FS_CardinalityType DEF CountOf

LEMMA OneMoreOwned ==
    ASSUME NEW u, NEW id, OwnedBy(u)' \subseteq OwnedBy(u) \cup {id}
    PROVE  CountOf(u) \in Nat /\ CountOf(u)' \in Nat /\ CountOf(u)' <= CountOf(u) + 1
<1> DEFINE S == OwnedBy(u)
           T == OwnedBy(u)'
<1>1. IsFiniteSet(S)
  BY ReminderConstants, FS_Subset DEF OwnedBy
<1>2. T \subseteq S \cup {id} /\ CountOf(u) = Cardinality(S) /\ CountOf(u)' = Cardinality(T)
  BY DEF CountOf
<1> HIDE DEF S, T
<1>3. IsFiniteSet(S \cup {id}) /\ Cardinality(S) \in Nat
      /\ Cardinality(S \cup {id}) \in {Cardinality(S), Cardinality(S) + 1}
  BY <1>1, FS_AddElement, FS_CardinalityType
<1>4. Cardinality(T) <= Cardinality(S \cup {id}) /\ Cardinality(T) \in Nat
  BY <1>2, <1>3, FS_Subset, FS_CardinalityType
<1> QED
  BY <1>2, <1>3, <1>4

\* Only an insert adds a reminder, and to its own user's.
LEMMA OwnedStep ==
    ASSUME IInv, [Next]_vars, NEW u
    PROVE  \/ OwnedBy(u)' \subseteq OwnedBy(u)
           \/ \E t \in Tasks, id \in Reminders :
                 Insert(t) /\ job[t].user = u /\ OwnedBy(u)' \subseteq OwnedBy(u) \cup {id}
<1>0. reminders \in [Reminders -> Rows]
  BY DEF IInv, TypeOK
<1>1. CASE \E t \in Tasks : Insert(t)
  <2>1. PICK t \in Tasks : Insert(t)
    BY <1>1
  <2>2. CASE UNCHANGED reminders
    BY <2>2 DEF OwnedBy, Active
  <2>3. CASE ~UNCHANGED reminders
    <3> DEFINE new == First(Unused)
    <3>1. reminders' = [reminders EXCEPT
              ![new] = [state |-> "active", owner |-> job[t].user, at |-> job[t].at]]
          /\ Unused # {}
      BY <2>1, <2>3 DEF Insert
    <3>2. new \in Reminders
      BY <3>1 DEF First, Unused
    <3> HIDE DEF new
    <3> QED
      BY <1>0, <2>1, <3>1, <3>2 DEF OwnedBy, Active
  <2> QED
    BY <2>2, <2>3
<1>2. CASE ~\E t \in Tasks : Insert(t)
  <2>1. OwnersKeep /\ \A id \in Reminders :
           reminders[id].state # "active" => reminders'[id].state # "active"
    <3>1. CASE UNCHANGED reminders
      BY <3>1, OwnersStep
    <3>2. ASSUME NEW STATE id, reminders' = [reminders EXCEPT ![id].state = "gone"]
          PROVE  \A r \in Reminders :
                    reminders[r].state # "active" => reminders'[r].state # "active"
      BY <1>0, <3>2 DEF Rows
    <3>3. CASE \E t \in Tasks : DeleteRow(t)
      BY <3>1, <3>2, <3>3, OwnersStep DEF DeleteRow
    <3>4. CASE DeleteFired
      BY <3>1, <3>2, <3>4, OwnersStep DEF DeleteFired
    <3>5. CASE \E t \in Tasks : (Arrival(t) \/ TaskStep(t)) /\ ~Insert(t) /\ ~DeleteRow(t)
      BY <3>1, <3>5 DEF Arrival, Remind, ShowPrompt, Select, Confirm, Cancel, Delete, TaskStep,
         Register, Respond, Forget, CheckLimit, SyncRead, SyncRow, SyncRedis, dbVars
    <3>6. CASE Send
      <4>1. UNCHANGED dbVars
        BY <3>6 DEF Send
      <4> QED
        BY <3>1, <4>1 DEF dbVars
    <3>7. CASE PollStep /\ ~DeleteFired /\ ~Send
      <4>1. CASE Scan \/ PollSyncRow \/ PollSyncRedis
        BY <3>1, <4>1 DEF Scan, PollSyncRow, PollSyncRedis, dbVars
      <4>2. CASE PollSyncRead
        BY <3>1, <4>2 DEF PollSyncRead, dbVars
      <4> QED
        BY <3>7, <4>1, <4>2 DEF PollStep
    <3>8. CASE Tick \/ Crash \/ UNCHANGED vars
      BY <3>1, <3>8 DEF Tick, Crash, vars, dbVars
    <3> QED
      BY <1>2, <3>3, <3>4, <3>5, <3>6, <3>7, <3>8 DEF Next
  <2>2. \A id \in Reminders : reminders'[id].state = "active" =>
           reminders[id].state = "active" /\ reminders'[id].owner = reminders[id].owner
    BY <2>1 DEF OwnersKeep
  <2> QED
    BY <2>2 DEF OwnedBy, Active
<1> QED
  BY <1>1, <1>2

\* Who is about to insert, was already, or has just found room or failed to count.
LEMMA InsertersStep ==
    ASSUME IInv, [Next]_vars, NEW t \in Tasks, pc'[t] = "insert"
    PROVE  /\ job'[t].user = job[t].user /\ ~Insert(t)
           /\ pc[t] = "insert" \/ (CheckLimit(t) /\ (CountOf(job[t].user) < MaxReminders \/ Fault))
<1>0. TypeOK
  BY DEF IInv
<1>1. ~Insert(t)
  BY <1>0 DEF Insert, Goto, Answer, TypeOK
<1>2. ASSUME UNCHANGED <<pc, job>> PROVE pc[t] = "insert" /\ job'[t] = job[t]
  BY <1>2
<1>4. ASSUME NEW s \in Tasks, NEW next \in Steps \ {"insert"}, NEW j, Goto(s, next, j)
      PROVE  pc[t] = "insert" /\ job'[t] = job[t]
  BY <1>0, <1>4 DEF Goto, TypeOK
<1>5. ASSUME NEW s \in Tasks, Arrival(s) PROVE pc[t] = "insert" /\ job'[t] = job[t]
  BY <1>2, <1>4, <1>5 DEF Arrival, Remind, ShowPrompt, Select, Confirm, Cancel, Delete, Steps
<1>6. ASSUME NEW s \in Tasks, TaskStep(s), ~CheckLimit(s)
      PROVE  pc[t] = "insert" /\ job'[t] = job[t]
  BY <1>4, <1>6 DEF TaskStep, Register, Respond, Forget, Insert, DeleteRow, SyncRead, SyncRow,
     SyncRedis, Answer, Steps
<1>7. ASSUME NEW s \in Tasks, CheckLimit(s)
      PROVE  /\ job'[t] = job[t]
             /\ \/ pc[t] = "insert"
                \/ CheckLimit(t) /\ (CountOf(job[t].user) < MaxReminders \/ Fault)
  <2>1. CASE Answer(s)
    BY <1>4, <2>1 DEF Answer, Steps
  <2>2. CASE Goto(s, "insert", job[s]) /\ (CountOf(job[s].user) < MaxReminders \/ Fault)
    <3>1. \A r \in Tasks : job'[r] = job[r] /\ (r # s => pc'[r] = pc[r])
      BY <1>0, <2>2 DEF Goto, TypeOK
    <3> QED
      BY <1>7, <2>2, <3>1
  <2> QED
    BY <1>7, <2>1, <2>2 DEF CheckLimit
<1>8. CASE PollStep
  BY <1>1, <1>2, <1>8, PollLeaves
<1>9. CASE Tick \/ UNCHANGED vars
  BY <1>1, <1>2, <1>9 DEF Tick, vars
<1>10. CASE Crash
  BY <1>10 DEF Crash
<1> QED
  BY <1>1, <1>5, <1>6, <1>7, <1>8, <1>9, <1>10 DEF Next

\* A handler works for one of the users it serves until it is done.
LEMMA ServersStep ==
    ASSUME IInv, [Next]_vars, NEW t \in Tasks,
           pc[t] # "idle" => job[t].user \in Speakers[t], pc'[t] # "idle"
    PROVE  job'[t].user \in Speakers[t]
<1>0. /\ TypeOK /\ pc \in [Tasks -> Steps] /\ job \in [Tasks -> Jobs]
  BY DEF IInv, TypeOK
<1>1. CASE UNCHANGED <<pc, job>>
  BY <1>1
<1>2. ASSUME NEW s \in Tasks, NEW next, NEW j, Goto(s, next, j),
             s = t => j.user \in Speakers[t], s # t => pc[t] # "idle"
      PROVE  job'[t].user \in Speakers[t]
  BY <1>0, <1>2 DEF Goto
<1>3. ASSUME NEW s \in Tasks, NEW next, NEW j, Goto(s, next, j), s # t
      PROVE  pc[t] # "idle"
  BY <1>0, <1>3 DEF Goto
<1>4. ASSUME NEW s \in Tasks, NEW next, NEW u \in Speakers[s], NEW at, NEW p, NEW id,
             Goto(s, next, Job(u, at, p, id))
      PROVE  job'[t].user \in Speakers[t]
  <2>1. Job(u, at, p, id).user = u
    BY DEF Job
  <2> QED
    BY <1>2, <1>3, <1>4, <2>1
<1>5. ASSUME NEW s \in Tasks, NEW next, NEW j, Goto(s, next, j), pc[s] # "idle",
             j.user = job[s].user
      PROVE  job'[t].user \in Speakers[t]
  BY <1>2, <1>3, <1>5
<1>6. CASE \E s \in Tasks : Arrival(s)
  <2>1. PICK s \in Tasks : Arrival(s)
    BY <1>6
  <2>2. CASE Remind(s)
    BY <1>4, <2>2 DEF Remind, Asks
  <2>3. CASE ShowPrompt(s)
    BY <1>4, <2>3 DEF ShowPrompt, Asks
  <2>4. CASE Select(s)
    BY <1>1, <2>4 DEF Select
  <2>5. CASE Confirm(s)
    BY <1>4, <2>5 DEF Confirm, Asks
  <2>6. CASE Cancel(s)
    BY <1>4, <2>6 DEF Cancel, Asks
  <2>7. CASE Delete(s)
    BY <1>4, <2>7 DEF Delete, Asks
  <2> QED
    BY <2>1, <2>2, <2>3, <2>4, <2>5, <2>6, <2>7 DEF Arrival
<1>7. CASE \E s \in Tasks : TaskStep(s)
  <2>1. PICK s \in Tasks : TaskStep(s)
    BY <1>7
  <2>2. ASSUME NEW next, Goto(s, next, job[s]), pc[s] # "idle"
        PROVE  job'[t].user \in Speakers[t]
    BY <1>5, <2>2
  <2>3. ASSUME NEW next, Goto(s, next, NoJob), pc[s] # "idle", next = "idle"
        PROVE  job'[t].user \in Speakers[t]
    <3>1. t # s
      BY <1>0, <2>3 DEF Goto
    <3> QED
      BY <1>2, <1>3, <2>3, <3>1
  <2>4. ASSUME NEW next, NEW j \in Jobs, Goto(s, next, j), pc[s] # "idle", j.user = job[s].user
        PROVE  job'[t].user \in Speakers[t]
    BY <1>5, <2>4
  <2>5. CASE Register(s) \/ Respond(s) \/ Forget(s) \/ CheckLimit(s)
    BY <2>2, <2>3, <2>5 DEF Register, Respond, Forget, CheckLimit, Answer
  <2>6. \A n, id : /\ [job[s] EXCEPT !.n = n].user = job[s].user
                   /\ [job[s] EXCEPT !.id = id].user = job[s].user
    BY <1>0 DEF Jobs
  <2>7. CASE Insert(s) \/ DeleteRow(s)
    BY <1>5, <2>2, <2>3, <2>6, <2>7 DEF Insert, DeleteRow, Answer
  <2>8. CASE SyncRead(s) \/ SyncRow(s) \/ SyncRedis(s)
    BY <1>5, <2>2, <2>3, <2>6, <2>8 DEF SyncRead, SyncRow, SyncRedis, Answer
  <2> QED
    BY <2>1, <2>5, <2>7, <2>8 DEF TaskStep
<1>8. CASE PollStep
  BY <1>1, <1>8, PollLeaves
<1>9. CASE Tick \/ UNCHANGED vars
  BY <1>1, <1>9 DEF Tick, vars
<1>10. CASE Crash
  BY <1>10 DEF Crash
<1> QED
  BY <1>6, <1>7, <1>8, <1>9, <1>10 DEF Next

LEMMA InsertersFinite ==
    ASSUME LimitKept, NEW u
    PROVE  /\ Inserting(u) \subseteq Serving(u)
           /\ IsFiniteSet(Serving(u)) /\ IsFiniteSet(Inserting(u))
           /\ Cardinality(Serving(u)) \in Nat /\ Cardinality(Inserting(u)) \in Nat
           /\ Cardinality(Inserting(u)) <= Cardinality(Serving(u))
<1>1. Inserting(u) \subseteq Serving(u)
  BY DEF LimitKept, Inserting, Serving
<1>2. IsFiniteSet(Serving(u))
  BY ReminderConstants, FS_Subset DEF Serving
<1> QED
  BY <1>1, <1>2, FS_Subset, FS_CardinalityType

LEMMA LimitStep ==
    ASSUME IInv, Spent, LimitKept, [Next]_vars
    PROVE  LimitKept'
<1>1. \A t \in Tasks : pc'[t] # "idle" => job'[t].user \in Speakers[t]
  BY ServersStep DEF LimitKept
<1>2. /\ budget.faults \in Nat /\ budget'.faults \in Nat
      /\ budget'.faults <= budget.faults /\ budget.faults <= MaxFaults
      /\ Fault => budget'.faults = budget.faults - 1
      /\ MaxFaults \in Nat /\ MaxReminders \in Nat
  <2>1. budget \in [commands : Nat, faults : Nat]
    BY DEF IInv, TypeOK
  <2> QED
    BY <2>1, BudgetMoves, ReminderConstants DEF Fault, Spent
<1>3. ASSUME NEW u \in Users
      PROVE  CountOf(u)' + Cardinality(Inserting(u)')
             < MaxReminders + Cardinality(Serving(u)) + (MaxFaults - budget'.faults)
  <2> DEFINE c == CountOf(u)
             d == CountOf(u)'
             I == Inserting(u)
             J == Inserting(u)'
             room == Cardinality(Serving(u))
  <2>1. /\ J \subseteq Serving(u) /\ IsFiniteSet(Serving(u)) /\ IsFiniteSet(I)
        /\ room \in Nat /\ Cardinality(I) \in Nat
    BY <1>1, InsertersFinite DEF Inserting, Serving
  <2>2. IsFiniteSet(J) /\ Cardinality(J) \in Nat /\ Cardinality(J) <= room
    BY <2>1, FS_Subset, FS_CardinalityType
  <2>3. c + Cardinality(I) < MaxReminders + room + (MaxFaults - budget.faults)
    BY DEF LimitKept
  <2>4. c \in Nat /\ d \in Nat
    <3>1. IsFiniteSet(OwnedBy(u)) /\ IsFiniteSet(OwnedBy(u)')
      BY ReminderConstants, FS_Subset DEF OwnedBy
    <3> QED
      BY <3>1, FS_CardinalityType DEF CountOf
  <2>5. ASSUME NEW t \in J, t \notin I
        PROVE  CheckLimit(t) /\ (c < MaxReminders \/ Fault) /\ UNCHANGED reminders
    <3>1. t \in Tasks /\ pc'[t] = "insert" /\ job'[t].user = u
      BY <2>5 DEF Inserting
    <3>2. /\ job[t].user = u
          /\ pc[t] = "insert" \/ (CheckLimit(t) /\ (CountOf(job[t].user) < MaxReminders \/ Fault))
      BY <3>1, InsertersStep
    <3> QED
      BY <2>5, <3>1, <3>2 DEF Inserting, CheckLimit, dbVars
  <2>6. \A t \in Tasks : Insert(t) => t \notin J
    BY InsertersStep DEF Inserting
  <2>7. \A t \in Tasks : Insert(t) /\ job[t].user = u => t \in I
    BY DEF Insert, Inserting
  <2>8. UNCHANGED reminders => d = c
    BY DEF CountOf, OwnedBy, Active
  <2>9. CASE J \ I # {}
    <3>1. PICK t \in J : t \notin I
      BY <2>9
    <3>2. d = c /\ (c < MaxReminders \/ Fault)
      BY <2>5, <2>8, <3>1
    <3>3. CASE c < MaxReminders
      BY <1>2, <2>2, <2>4, <2>1, <3>2, <3>3
    <3>4. CASE Fault
      <4>1. \A s \in J : s = t \/ s \in I
        <5>1. ASSUME NEW s \in J, s # t, s \notin I PROVE FALSE
          <6>1. CheckLimit(s) /\ CheckLimit(t)
            BY <2>5, <3>1, <5>1
          <6>2. s \in Tasks /\ t \in Tasks /\ pc'[t] = "insert" /\ pc'[s] = "insert"
            BY <3>1, <5>1 DEF Inserting
          <6>3. PICK next, j : Goto(t, next, j)
            BY <6>1 DEF CheckLimit, Answer
          <6>4. pc'[s] = pc[s] /\ pc[s] = "count"
            BY <5>1, <6>1, <6>2, <6>3 DEF CheckLimit, Goto, IInv, TypeOK
          <6> QED
            BY <6>2, <6>4
        <5> QED
          BY <5>1
      <4>2. J \subseteq I \cup {t}
        BY <4>1
      <4>3. IsFiniteSet(I \cup {t}) /\ Cardinality(I \cup {t}) <= Cardinality(I) + 1
            /\ Cardinality(I \cup {t}) \in Nat
        <5> HIDE DEF I
        <5>1. IsFiniteSet(I \cup {t}) /\ Cardinality(I \cup {t}) = Cardinality(I) + 1
          BY <2>1, <3>1, FS_AddElement
        <5> QED
          BY <2>1, <5>1
      <4>4. Cardinality(J) <= Cardinality(I \cup {t})
        BY <4>2, <4>3, FS_Subset
      <4> QED
        BY <1>2, <2>1, <2>2, <2>3, <2>4, <3>2, <3>4, <4>3, <4>4
    <3> QED
      BY <3>2, <3>3, <3>4
  <2>10. CASE J \subseteq I
    <3>1. Cardinality(J) <= Cardinality(I)
      BY <2>1, <2>10, FS_Subset
    <3>2. CASE OwnedBy(u)' \subseteq OwnedBy(u)
      <4>1. d <= c
        BY <3>2, FewerOwned
      <4> QED
        BY <1>2, <2>1, <2>2, <2>3, <2>4, <3>1, <4>1
    <3>3. CASE \E t \in Tasks, id \in Reminders :
                  Insert(t) /\ job[t].user = u /\ OwnedBy(u)' \subseteq OwnedBy(u) \cup {id}
      <4>1. PICK t \in Tasks, id \in Reminders :
               Insert(t) /\ job[t].user = u /\ OwnedBy(u)' \subseteq OwnedBy(u) \cup {id}
        BY <3>3
      <4>2. d <= c + 1
        BY <4>1, OneMoreOwned
      <4>3. t \in I /\ t \notin J
        BY <2>6, <2>7, <4>1
      <4>4. IsFiniteSet(I \ {t}) /\ Cardinality(I \ {t}) = Cardinality(I) - 1
        BY <2>1, <4>3, FS_RemoveElement
      <4>5. Cardinality(J) <= Cardinality(I \ {t})
        BY <2>10, <4>3, <4>4, FS_Subset
      <4> QED
        BY <1>2, <2>1, <2>2, <2>3, <2>4, <4>2, <4>4, <4>5
    <3> QED
      BY <3>2, <3>3, OwnedStep
  <2> QED
    BY <2>9, <2>10
<1> QED
  BY <1>1, <1>3 DEF LimitKept, Serving

\* "Maximum active reminders a single user may hold at once": counting and inserting are
\* two steps, so handlers of one user that overlap may pass the limit together, each by
\* its own reminder, and a count that fails lets one more pass.  Nothing else does,
\* however commands, confirmations of old prompts, deletions, the poll and crashes
\* interleave; where one handler serves a user and nothing failed, the limit holds.
THEOREM LimitRespected == Spec => []LimitHeld
<1>1. Init => IInv /\ Spent /\ LimitKept
  <2> SUFFICES ASSUME Init PROVE IInv /\ Spent /\ LimitKept
    OBVIOUS
  <2>1. ASSUME NEW u \in Users PROVE CountOf(u) = 0 /\ Cardinality(Inserting(u)) = 0
    <3>1. OwnedBy(u) = {} /\ Inserting(u) = {}
      BY DEF Init, OwnedBy, Active, NoReminder, Inserting
    <3> QED
      BY <3>1, FS_EmptySet DEF CountOf
  <2>2. \A u \in Users : Cardinality(Serving(u)) \in Nat
    BY ReminderConstants, FS_Subset, FS_CardinalityType DEF Serving
  <2>3. LimitKept
    BY <2>1, <2>2, ReminderConstants DEF Init, LimitKept
  <2> QED
    BY <2>3, InvariantInit, DeliveriesInit
<1>2. /\ IInv /\ Spent /\ LimitKept /\ [Next]_vars => (IInv /\ Spent /\ LimitKept)'
  BY InvariantStep, LimitStep, StillFine DEF IInv
<1>3. IInv /\ Spent /\ LimitKept => LimitHeld
  <2> SUFFICES ASSUME IInv, LimitKept, NEW u \in Users
               PROVE  CountOf(u) < MaxReminders + Cardinality(Serving(u))
                                   + (MaxFaults - budget.faults)
    BY DEF LimitHeld
  <2>1. budget.faults \in Nat /\ MaxFaults \in Nat /\ MaxReminders \in Nat
    BY ReminderConstants DEF IInv, TypeOK
  <2> QED
    BY <2>1, CountType, InsertersFinite DEF LimitKept
<1> QED
  BY <1>1, <1>2, <1>3, PTL DEF Spec
-----------------------------------------------------------------------------
(***************************************************************************)
(* The promise is kept.                                                    *)
(***************************************************************************)
\* The poll has taken what it deletes out of its batch, and what an owner
\* deleted is gone.
TakenOut ==
    /\ poll.pc = "delete" => poll.id \notin poll.rows
    /\ \A id \in dropped : reminders[id].state = "gone"

LEMMA PollUntouched ==
    ASSUME NEW t \in Tasks, Arrival(t) \/ TaskStep(t)
    PROVE  UNCHANGED <<got, clock, poll>>
  BY DEF Arrival, Remind, ShowPrompt, Select, Confirm, Cancel, Delete, TaskStep, Register,
     Respond, Forget, CheckLimit, Insert, DeleteRow, SyncRead, SyncRow, SyncRedis, historyVars

LEMMA DropsOne ==
    ASSUME NEW t \in Tasks, Arrival(t) \/ TaskStep(t)
    PROVE  \/ UNCHANGED <<reminders, dropped>>
           \/ Insert(t) /\ reminders' # reminders
           \/ DeleteRow(t) /\ Active(job[t].id)
  BY DEF Arrival, Remind, ShowPrompt, Select, Confirm, Cancel, Delete, TaskStep, Register,
     Respond, Forget, CheckLimit, Insert, DeleteRow, SyncRead, SyncRow, SyncRedis, dbVars,
     historyVars

LEMMA PollGoesOn ==
    ASSUME IInv, Scan \/ PollSyncRead \/ PollSyncRow \/ PollSyncRedis
    PROVE  /\ poll' = poll \/ poll'.pc # "delete"
           /\ poll' = poll \/ (\A id \in poll'.rows : Active(id)) \/ poll'.rows \subseteq poll.rows
<1>0. poll = [pc |-> poll.pc, rows |-> poll.rows, id |-> poll.id, users |-> poll.users,
              user |-> poll.user, n |-> poll.n]
  BY DEF IInv, TypeOK, Polls
<1>1. CASE Scan
  BY <1>1 DEF Scan, Asleep, Due
<1>2. CASE PollSyncRead
  <2>1. PICK u \in poll.users, n \in {CountOf(v) : v \in poll.users} \cup {0} :
           poll' = [poll EXCEPT !.pc = "row", !.users = @ \ {u}, !.user = u, !.n = n]
    BY <1>2 DEF PollSyncRead
  <2> QED
    BY <1>0, <2>1
<1>3. CASE PollSyncRow
  BY <1>0, <1>3 DEF PollSyncRow
<1>4. CASE PollSyncRedis
  BY <1>0, <1>4 DEF PollSyncRedis, Asleep
<1> QED
  BY <1>1, <1>2, <1>3, <1>4

LEMMA TakenOutStep == ASSUME IInv, TakenOut, [Next]_vars PROVE TakenOut'
<1>1. CASE \E t \in Tasks : Arrival(t) \/ TaskStep(t)
  <2>1. PICK t \in Tasks : Arrival(t) \/ TaskStep(t)
    BY <1>1
  <2>2. poll' = poll
    BY <2>1, PollUntouched
  <2>3. ASSUME NEW id \in dropped' PROVE reminders'[id].state = "gone"
    <3>1. CASE UNCHANGED <<reminders, dropped>>
      BY <2>3, <3>1 DEF TakenOut
    <3>2. CASE Insert(t) /\ reminders' # reminders
      <4>1. Unused # {} /\ dropped' = dropped
        BY <3>2 DEF Insert
      <4>2. PICK r \in Unused : \A s \in Reminders \ {r} : reminders'[s] = reminders[s]
        <5>1. First(Unused) \in Unused
          BY <4>1 DEF First
        <5> QED
          BY <3>2, <5>1 DEF Insert, IInv, TypeOK
      <4> QED
        BY <2>3, <4>1, <4>2 DEF TakenOut, Unused, IInv, TypeOK
    <3>3. CASE DeleteRow(t) /\ Active(job[t].id)
      <4>1. PICK r : r = job[t].id
        OBVIOUS
      <4>2. r \in Reminders /\ reminders \in [Reminders -> Rows] /\ dropped \subseteq Reminders
        BY <3>3, <4>1 DEF DeleteRow, IInv, JobsFit, TypeOK
      <4>3. \/ UNCHANGED <<reminders, dropped>>
            \/ /\ reminders' = [reminders EXCEPT ![r].state = "gone"]
               /\ dropped' = dropped \cup {r}
        BY <3>3, <4>1 DEF DeleteRow
      <4> QED
        BY <2>3, <4>2, <4>3 DEF TakenOut, Rows
    <3> QED
      BY <2>1, <3>1, <3>2, <3>3, DropsOne
  <2> QED
    BY <2>2, <2>3 DEF TakenOut
<1>2. CASE DeleteFired
  <2>1. poll'.pc # "delete" /\ dropped' = dropped
    BY <1>2 DEF DeleteFired, historyVars, IInv, TypeOK, Polls
  <2>2. \A id \in Reminders : reminders[id].state = "gone" => reminders'[id].state = "gone"
    BY <1>2 DEF DeleteFired, IInv, TypeOK, Rows
  <2> QED
    BY <2>1, <2>2 DEF TakenOut, IInv, TypeOK
<1>3. CASE Send
  <2>1. PICK id \in poll.rows :
           poll' = [poll EXCEPT !.pc = "delete", !.rows = @ \ {id}, !.id = id]
    BY <1>3 DEF Send
  <2>2. poll'.id \notin poll'.rows
    BY <2>1 DEF IInv, TypeOK, Polls
  <2> QED
    BY <1>3, <2>2 DEF Send, dbVars, TakenOut
<1>4. CASE Scan \/ PollSyncRead \/ PollSyncRow \/ PollSyncRedis
  <2>1. poll' = poll \/ poll'.pc # "delete"
    BY <1>4, PollGoesOn
  <2>2. UNCHANGED <<reminders, dropped>>
    BY <1>4 DEF Scan, PollSyncRead, PollSyncRow, PollSyncRedis, dbVars, historyVars
  <2> QED
    BY <2>1, <2>2 DEF TakenOut
<1>5. CASE Tick \/ Crash \/ UNCHANGED vars
  <2>1. poll' = poll \/ poll'.pc # "delete"
    BY <1>5 DEF Tick, Crash, vars, Asleep
  <2>2. UNCHANGED <<reminders, dropped>>
    BY <1>5 DEF Tick, Crash, vars, dbVars, historyVars
  <2> QED
    BY <2>1, <2>2 DEF TakenOut
<1> QED
  BY <1>1, <1>2, <1>3, <1>4, <1>5 DEF Next, PollStep

\* The promise's variables, read off the state.
Lives == [id \in Reminders |-> LifeOf(id)]
Terms == [id \in Reminders |-> MadeAs(id)]
Late == {id \in poll.rows : ~Active(id)}

LEMMA OneLives ==
    ASSUME NEW id \in Reminders, NEW now, LifeOf(id)' = now,
           \A r \in Reminders \ {id} :
              reminders'[r] = reminders[r] /\ (r \in dropped' <=> r \in dropped)
    PROVE  Lives' = [Lives EXCEPT ![id] = now]
<1>1. ASSUME NEW r \in Reminders, r # id PROVE LifeOf(r)' = LifeOf(r)
  <2>1. reminders'[r] = reminders[r] /\ (r \in dropped' <=> r \in dropped)
    BY <1>1
  <2> QED
    BY <2>1 DEF LifeOf, Active
<1>2. Lives' = [r \in Reminders |-> IF r = id THEN now ELSE LifeOf(r)]
  BY <1>1 DEF Lives
<1> QED
  BY <1>2 DEF Lives

LEMMA NoneMoves ==
    ASSUME IInv, UNCHANGED <<reminders, dropped, got, clock>>,
           poll' = poll \/ (\A id \in poll'.rows : Active(id)) \/ poll'.rows \subseteq poll.rows
    PROVE  [Promise!PromiseNext]_(Promise!promiseVars)
<1>1. Lives' = Lives /\ Terms' = Terms
  BY DEF Lives, Terms, LifeOf, MadeAs, Active
<1>2. Late' \in SUBSET Late
  BY DEF Late, Active
<1>3. Promise!GiveUp
  BY <1>1, <1>2 DEF Promise!GiveUp, Lives, Terms, Late
<1> QED
  BY <1>3 DEF Promise!PromiseNext

LEMMA InsertMakes ==
    ASSUME IInv, IInv', TakenOut, NEW t \in Tasks, Insert(t), reminders' # reminders
    PROVE  \E id \in Reminders : Promise!Make(id)
<1>1. PICK id : id = First(Unused)
  OBVIOUS
<1>2. PICK row : row = [state |-> "active", owner |-> job[t].user, at |-> job[t].at]
  OBVIOUS
<1>3. /\ Unused # {} /\ reminders' = [reminders EXCEPT ![id] = row]
      /\ UNCHANGED <<got, dropped, clock, poll>>
  BY <1>1, <1>2 DEF Insert
<1>4. id \in Reminders /\ reminders[id].state = "unused" /\ row.state = "active"
  BY <1>1, <1>2, <1>3 DEF First, Unused
<1>5. /\ reminders'[id].state = "active"
      /\ \A r \in Reminders \ {id} : reminders'[r] = reminders[r]
  BY <1>3, <1>4 DEF IInv, TypeOK
<1>6. Lives[id] = "unmade" /\ Lives' = [Lives EXCEPT ![id] = "waiting"]
  <2>1. LifeOf(id) = "unmade" /\ LifeOf(id)' = "waiting"
    BY <1>4, <1>5 DEF LifeOf, Active
  <2> QED
    BY <1>3, <1>4, <1>5, <2>1, OneLives DEF Lives
<1>7. /\ Terms' \in [Reminders -> [owner : Users \cup {None}, at : Nat]]
      /\ \A r \in Reminders \ {id} : Terms'[r] = Terms[r]
  <2>1. \A r \in Reminders : reminders'[r].owner \in Users \cup {None}
                              /\ reminders'[r].at \in Nat
    BY DEF IInv, TypeOK, Rows
  <2> QED
    BY <1>5, <2>1 DEF Terms, MadeAs
<1>8. Late' = Late
  <2>1. id \notin poll.rows
    BY <1>4 DEF IInv, PollDue
  <2>2. poll.rows \subseteq Reminders
    BY DEF IInv, TypeOK, Polls
  <2> QED
    BY <1>3, <1>5, <2>1, <2>2 DEF Late, Active
<1>9. Promise!Make(id)
  BY <1>3, <1>4, <1>6, <1>7, <1>8 DEF Promise!Make, Lives, Terms, Late
<1> QED
  BY <1>4, <1>9

LEMMA DeleteDrops ==
    ASSUME IInv, TakenOut, NEW t \in Tasks, DeleteRow(t), Active(job[t].id)
    PROVE  [Promise!PromiseNext]_(Promise!promiseVars)
<1>1. PICK id : id = job[t].id
  OBVIOUS
<1>2. id \in Reminders /\ poll.rows \subseteq Reminders /\ UNCHANGED <<got, clock, poll>>
  BY <1>1 DEF DeleteRow, IInv, JobsFit, TypeOK, Polls
<1>3. CASE UNCHANGED <<reminders, dropped>>
  BY <1>2, <1>3, NoneMoves
<1>4. CASE /\ reminders' = [reminders EXCEPT ![id].state = "gone"]
           /\ dropped' = dropped \cup {id}
  <2>1. /\ reminders'[id].state = "gone" /\ MadeAs(id)' = MadeAs(id)
        /\ \A r \in Reminders \ {id} : reminders'[r] = reminders[r]
    BY <1>2, <1>4 DEF IInv, TypeOK, Rows, MadeAs
  <2>2. Lives[id] = "waiting" /\ Lives' = [Lives EXCEPT ![id] = "dropped"]
    <3>1. LifeOf(id) = "waiting" /\ LifeOf(id)' = "dropped"
      BY <1>1, <1>4, <2>1 DEF LifeOf, Active
    <3> QED
      BY <1>2, <1>4, <2>1, <3>1, OneLives DEF Lives
  <2>3. Terms' = Terms
    BY <1>2, <2>1 DEF Terms, MadeAs
  <2>4. Late' = Late \/ (Terms[id].at <= clock /\ Late' = Late \cup {id})
    <3>1. CASE id \in poll.rows
      <4>1. Terms[id].at <= clock
        BY <1>2, <3>1 DEF IInv, PollDue, Terms, MadeAs
      <4>2. Late' = Late \cup {id}
        BY <1>2, <2>1, <3>1 DEF Late, Active
      <4> QED
        BY <4>1, <4>2
    <3>2. CASE id \notin poll.rows
      BY <1>2, <2>1, <3>2 DEF Late, Active
    <3> QED
      BY <3>1, <3>2
  <2>5. Promise!Drop(id)
    BY <1>2, <2>2, <2>3, <2>4 DEF Promise!Drop, Promise!DueNow, Lives, Terms, Late
  <2> QED
    BY <1>2, <2>5 DEF Promise!PromiseNext
<1> QED
  BY <1>1, <1>3, <1>4 DEF DeleteRow

LEMMA SendArrives ==
    ASSUME IInv, Send
    PROVE  [Promise!PromiseNext]_(Promise!promiseVars)
<1>1. PICK id \in poll.rows :
         /\ poll' = [poll EXCEPT !.pc = "delete", !.rows = @ \ {id}, !.id = id]
         /\ UNCHANGED got \/ Arrives(id)
  BY DEF Send
<1>2. /\ poll'.rows = poll.rows \ {id} /\ id \in Reminders
      /\ UNCHANGED <<reminders, dropped, clock>>
  BY <1>1 DEF Send, dbVars, IInv, TypeOK, Polls
<1>3. CASE UNCHANGED got
  BY <1>2, <1>3, NoneMoves
<1>4. CASE Arrives(id)
  <2>1. Lives' = Lives /\ Terms' = Terms
    BY <1>2 DEF Lives, Terms, LifeOf, MadeAs, Active
  <2>2. Terms[id].at <= clock /\ got' = [got EXCEPT ![id] = @ + 1]
    BY <1>1, <1>2, <1>4 DEF Terms, MadeAs, IInv, PollDue, Arrives
  <2>3. \/ Lives[id] = "waiting" /\ Late' = Late
        \/ id \in Late /\ Late' = Late \ {id}
    <3>1. CASE Active(id)
      <4>1. Lives[id] = "waiting"
        BY <1>2, <3>1 DEF Lives, LifeOf, Active
      <4>2. Late' = Late
        BY <1>2, <3>1 DEF Late, Active
      <4> QED
        BY <4>1, <4>2
    <3>2. CASE ~Active(id)
      BY <1>1, <1>2, <3>2 DEF Late, Active
    <3> QED
      BY <3>1, <3>2
  <2>4. Promise!Arrive(id)
    BY <1>2, <2>1, <2>2, <2>3 DEF Promise!Arrive, Promise!DueNow, Lives, Terms, Late
  <2> QED
    BY <1>2, <2>4 DEF Promise!PromiseNext
<1> QED
  BY <1>1, <1>3, <1>4

LEMMA DeleteFires ==
    ASSUME IInv, TakenOut, DeleteFired
    PROVE  [Promise!PromiseNext]_(Promise!promiseVars)
<1>1. PICK id : id = poll.id
  OBVIOUS
<1>2. /\ id \in Reminders /\ reminders[id].at <= clock /\ id \notin poll.rows
      /\ poll.rows \subseteq Reminders /\ poll'.rows = poll.rows
      /\ UNCHANGED <<got, dropped, clock>>
  BY <1>1 DEF DeleteFired, historyVars, IInv, TakenOut, PollDue, TypeOK, Polls
<1>3. CASE UNCHANGED reminders
  BY <1>2, <1>3, NoneMoves
<1>4. CASE reminders' = [reminders EXCEPT ![id].state = "gone"] /\ Active(id)
  <2>1. /\ reminders'[id].state = "gone" /\ MadeAs(id)' = MadeAs(id)
        /\ \A r \in Reminders \ {id} : reminders'[r] = reminders[r]
    BY <1>2, <1>4 DEF IInv, TypeOK, Rows, MadeAs
  <2>2. id \notin dropped
    BY <1>4 DEF TakenOut, Active
  <2>3. Lives[id] = "waiting" /\ Lives' = [Lives EXCEPT ![id] = "fired"]
    <3>1. LifeOf(id) = "waiting" /\ LifeOf(id)' = "fired"
      BY <1>2, <1>4, <2>1, <2>2 DEF LifeOf, Active
    <3> QED
      BY <1>2, <2>1, <3>1, OneLives DEF Lives
  <2>4. Terms' = Terms /\ Terms[id].at <= clock
    BY <1>2, <2>1 DEF Terms, MadeAs
  <2>5. Late' = Late
    BY <1>2, <2>1 DEF Late, Active
  <2>6. Promise!Fire(id)
    BY <1>2, <2>3, <2>4, <2>5 DEF Promise!Fire, Promise!DueNow, Lives, Terms, Late
  <2> QED
    BY <1>2, <2>6 DEF Promise!PromiseNext
<1>5. CASE reminders' = [reminders EXCEPT ![id].state = "gone"] /\ ~Active(id)
  <2>1. reminders[id].state = "gone"
    BY <1>1, <1>2, <1>5 DEF DeleteFired, IInv, TypeOK, Rows, PollDue, Active
  <2>2. reminders' = reminders
    BY <1>2, <1>5, <2>1 DEF IInv, TypeOK, Rows
  <2> QED
    BY <1>3, <2>2
<1> QED
  BY <1>1, <1>3, <1>4, <1>5 DEF DeleteFired

\* Whatever fails or crashes, however the poll and the owners' deletions interleave:
\* a reminder goes once, for a reason, and no message arrives early or, unless it was
\* being sent when its owner deleted it, after the reminder went.
THEOREM RemindersKeepPromise == Spec => KeepsPromise
<1>1. Init => Promise!PromiseInit
  <2> SUFFICES ASSUME Init PROVE Promise!PromiseInit
    OBVIOUS
  <2>1. \A id \in Reminders : reminders[id] = [state |-> "unused", owner |-> None, at |-> 0]
    BY DEF Init, NoReminder
  <2>2. /\ Lives = [id \in Reminders |-> "unmade"]
        /\ Terms \in [Reminders -> [owner : Users \cup {None}, at : Nat]]
    <3>1. \A id \in Reminders : LifeOf(id) = "unmade"
      BY <2>1 DEF LifeOf, Active
    <3>2. \A id \in Reminders : MadeAs(id) \in [owner : Users \cup {None}, at : Nat]
      BY <2>1 DEF MadeAs
    <3> QED
      BY <3>1, <3>2 DEF Lives, Terms
  <2>3. Late = {}
    BY DEF Init, Asleep, Late
  <2> QED
    BY <2>2, <2>3 DEF Init, Promise!PromiseInit, Lives, Terms, Late
<1>2. Init => TakenOut
  BY DEF Init, TakenOut, Asleep
<1>3. ASSUME IInv, IInv', TakenOut, [Next]_vars PROVE [Promise!PromiseNext]_(Promise!promiseVars)
  <2>1. ASSUME NEW t \in Tasks, Arrival(t) \/ TaskStep(t)
        PROVE  [Promise!PromiseNext]_(Promise!promiseVars)
    <3>1. CASE Insert(t) /\ reminders' # reminders
      BY <1>3, <3>1, InsertMakes DEF Promise!PromiseNext
    <3>2. CASE DeleteRow(t) /\ Active(job[t].id)
      BY <1>3, <3>2, DeleteDrops
    <3>3. CASE UNCHANGED <<reminders, dropped>>
      <4>1. UNCHANGED <<got, clock, poll>>
        BY <2>1, PollUntouched
      <4> QED
        BY <1>3, <3>3, <4>1, NoneMoves
    <3> QED
      BY <2>1, <3>1, <3>2, <3>3, DropsOne
  <2>2. CASE Scan \/ PollSyncRead \/ PollSyncRow \/ PollSyncRedis \/ Crash
    <3>1. UNCHANGED <<reminders, dropped, got, clock>>
      BY <2>2 DEF Scan, PollSyncRead, PollSyncRow, PollSyncRedis, Crash, dbVars, historyVars
    <3>2. poll' = poll \/ (\A id \in poll'.rows : Active(id)) \/ poll'.rows \subseteq poll.rows
      <4>1. CASE Crash
        BY <4>1 DEF Crash, Asleep
      <4> QED
        BY <1>3, <2>2, <4>1, PollGoesOn
    <3> QED
      BY <1>3, <3>1, <3>2, NoneMoves
  <2>3. CASE Tick
    <3>1. Lives' = Lives /\ Terms' = Terms /\ Late' = Late
      BY <2>3 DEF Tick, dbVars, historyVars, Lives, Terms, Late, LifeOf, MadeAs, Active
    <3>2. Promise!Pass
      BY <2>3, <3>1 DEF Tick, historyVars, Promise!Pass, Lives, Terms, Late
    <3> QED
      BY <3>2 DEF Promise!PromiseNext
  <2>4. CASE UNCHANGED vars
    BY <1>3, <2>4, NoneMoves DEF vars, dbVars, historyVars
  <2> QED
    BY <1>3, <2>1, <2>2, <2>3, <2>4, SendArrives, DeleteFires DEF Next, PollStep
<1> QED
  BY <1>1, <1>2, <1>3, InvariantInit, InvariantStep, TakenOutStep, PTL
     DEF Spec, KeepsPromise, Promise!PromiseSpec
=============================================================================
