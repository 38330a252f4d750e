------------------------------ MODULE Reminders ------------------------------
(***************************************************************************)
(* Reminders: the table reminders_reminders, the counters mirrored in      *)
(* reminders_users and Redis, the prompts that wait for a confirmation,    *)
(* and the background poll that sends what is due.  Commands and button    *)
(* presses are tasks of their own; each await is a step.                   *)
(***************************************************************************)
EXTENDS Naturals, FiniteSets

CONSTANTS
    Reminders,      \* ids, each handed out once (AUTOINCREMENT)
    Prompts,        \* ids of prompt messages
    Users,
    Unreachable,    \* users who do not accept direct messages
    Tasks,
    Speakers,       \* Speakers[t]: users whose commands and presses task t handles
    Commands,       \* Commands[t]: what they do
    Lengths,        \* durations of reminders
    MaxReminders,   \* MAX_REMINDERS
    MaxPending,     \* capacity of PENDING
    MaxTime,        \* bound on the clock
    MaxCommands,    \* bound on the number of commands and presses
    MaxFaults,      \* bound on the number of crashes and of failing calls
    None            \* no reminder, no prompt, no user

CommandTypes == {"remind", "prompt", "select", "confirm", "cancel", "delete"}

ASSUME ReminderConstants ==
    /\ None \notin Reminders \cup Prompts \cup Users
    /\ IsFiniteSet(Reminders) /\ IsFiniteSet(Prompts) /\ IsFiniteSet(Tasks)
    /\ Unreachable \subseteq Users
    /\ Speakers \in [Tasks -> SUBSET Users] /\ Commands \in [Tasks -> SUBSET CommandTypes]
    /\ Lengths \subseteq Nat \ {0}
    /\ MaxReminders \in Nat \ {0} /\ MaxPending \in Nat \ {0}
    /\ MaxTime \in Nat /\ MaxCommands \in Nat /\ MaxFaults \in Nat

VARIABLES
    \* SQLite and Redis
    reminders,  \* id -> [state, owner, at]; state is "unused", "active" or "gone"
    counts,     \* user -> [row, redis], the mirrored counters
    \* Discord
    shown,      \* prompt -> [state, author, since]; state is "none", "open" or "done"
    clock,
    \* the process
    pending,    \* PENDING: prompt -> its session, or NoSession
    pc, job,    \* the await task t is at, and its locals
    poll,       \* the locals of the poll
    budget,     \* commands and faults the bounds still allow
    \* history
    got,        \* id -> number of direct messages that arrived
    dropped,    \* ids deleted by their owner
    made        \* prompt -> the reminders it created

dbVars == <<reminders, counts>>
historyVars == <<got, dropped, made>>
vars == <<dbVars, shown, clock, pending, pc, job, poll, budget, historyVars>>

NoReminder == [state |-> "unused", owner |-> None, at |-> 0]
NoSession == [owner |-> None, at |-> 0]     \* at = 0: no time chosen
NotShown == [state |-> "none", author |-> None, since |-> 0]
Job(u, at, p, id) == [user |-> u, at |-> at, prompt |-> p, id |-> id, n |-> 0]
NoJob == Job(None, 0, None, None)
Asleep == [pc |-> "sleep", rows |-> {}, id |-> None, users |-> {}, user |-> None, n |-> 0]

Init ==
    /\ reminders = [id \in Reminders |-> NoReminder]
    /\ counts = [u \in Users |-> [row |-> 0, redis |-> 0]]
    /\ shown = [p \in Prompts |-> NotShown] /\ clock = 1
    /\ pending = [p \in Prompts |-> NoSession]
    /\ pc = [t \in Tasks |-> "idle"] /\ job = [t \in Tasks |-> NoJob]
    /\ poll = Asleep
    /\ budget = [commands |-> MaxCommands, faults |-> MaxFaults]
    /\ got = [id \in Reminders |-> 0] /\ dropped = {} /\ made = [p \in Prompts |-> {}]

Goto(t, next, j) ==
    /\ pc' = [pc EXCEPT ![t] = next]
    /\ job' = [job EXCEPT ![t] = IF next = "idle" THEN NoJob ELSE j]

\* Commands and presses of one task are handled one after the other.
Asks(t, u, type) ==
    /\ pc[t] = "idle" /\ u \in Speakers[t] /\ type \in Commands[t] /\ budget.commands > 0
    /\ budget' = [budget EXCEPT !.commands = @ - 1]

\* A query or a call to Discord or Redis fails, or the process dies.
Fault ==
    /\ budget.faults > 0
    /\ budget' = [budget EXCEPT !.faults = @ - 1]

\* SQLite and Discord hand out ids in a fixed order.
Unsent == {p \in Prompts : shown[p].state = "none"}
Unused == {id \in Reminders : reminders[id].state = "unused"}
First(ids) == CHOOSE id \in ids : TRUE

Active(id) == reminders[id].state = "active"
OwnedBy(u) == {id \in Reminders : Active(id) /\ reminders[id].owner = u}
CountOf(u) == Cardinality(OwnedBy(u))

(***************************************************************************)
(* Prompts: show_interactive and on_component.                             *)
(***************************************************************************)
\* The prompt is sent; its options are times counted from now.
ShowPrompt(t) ==
    /\ Unsent # {}
    /\ \E u \in Users : LET p == First(Unsent) IN
         /\ Asks(t, u, "prompt")
         /\ shown' = [shown EXCEPT ![p] = [state |-> "open", author |-> u, since |-> clock]]
         /\ Goto(t, "register", Job(u, 0, p, None))
    /\ UNCHANGED <<dbVars, clock, pending, poll, historyVars>>

Sessions == {p \in Prompts : pending[p] # NoSession}

\* Mutant: the prompt's id is stored as the owner's.
RegisterPrompt(t) ==
    /\ pc[t] = "register"
    /\ pending' = [pending EXCEPT ![job[t].prompt].owner = job[t].prompt]
    /\ Goto(t, "idle", NoJob)
    /\ UNCHANGED <<dbVars, shown, clock, poll, budget, historyVars>>

\* bounded_insert evicts arbitrary sessions when the map is full.
AddSession(p, session) ==
    \E kept \in SUBSET Sessions :
        /\ Cardinality(kept) = IF Cardinality(Sessions) >= MaxPending
                               THEN MaxPending - 1 ELSE Cardinality(Sessions)
        /\ pending' = [q \in Prompts |-> IF q = p THEN session
                                         ELSE IF q \in kept THEN pending[q] ELSE NoSession]

\* The id of the prompt is asked for; without it the prompt has no session.
Register(t) ==
    /\ pc[t] = "register"
    /\ \/ /\ AddSession(job[t].prompt, [owner |-> job[t].user, at |-> 0])
          /\ UNCHANGED budget
       \/ Fault /\ UNCHANGED pending
    /\ Goto(t, "idle", NoJob)
    /\ UNCHANGED <<dbVars, shown, clock, poll, historyVars>>

\* u presses a control of p: refused if p is somebody else's session.
Presses(u, p) == shown[p].state = "open" /\ pending[p].owner \in {u, None}

Select(t) ==
    /\ \E u \in Users, p \in Sessions, d \in Lengths :
         /\ Asks(t, u, "select") /\ Presses(u, p)
         /\ pending' = [pending EXCEPT ![p].at = shown[p].since + d]
    /\ UNCHANGED <<dbVars, shown, clock, pc, job, poll, historyVars>>

Confirm(t) ==
    /\ \E u \in Users, p \in Sessions :
         /\ Asks(t, u, "confirm") /\ Presses(u, p) /\ pending[p].at # 0
         /\ Goto(t, "count", Job(u, pending[p].at, p, None))
    /\ UNCHANGED <<dbVars, shown, clock, pending, poll, historyVars>>

\* A prompt without a session may be cancelled by anybody.
Cancel(t) ==
    /\ \E u \in Users, p \in Prompts :
         Asks(t, u, "cancel") /\ Presses(u, p) /\ Goto(t, "respond", Job(u, 0, p, None))
    /\ UNCHANGED <<dbVars, shown, clock, pending, poll, historyVars>>

\* The response replaces the prompt, or fails and leaves its controls.
Respond(t) ==
    /\ pc[t] = "respond"
    /\ \/ shown' = [shown EXCEPT ![job[t].prompt].state = "done"] /\ UNCHANGED budget
       \/ Fault /\ UNCHANGED shown
    /\ Goto(t, "forget", job[t])
    /\ UNCHANGED <<dbVars, clock, pending, poll, historyVars>>

\* Mutant: the session outlives its confirmation.
KeepSession(t) ==
    /\ pc[t] = "forget"
    /\ Goto(t, "idle", NoJob)
    /\ UNCHANGED <<dbVars, shown, clock, pending, poll, budget, historyVars>>

Forget(t) ==
    /\ pc[t] = "forget"
    /\ pending' = [pending EXCEPT ![job[t].prompt] = NoSession]
    /\ Goto(t, "idle", NoJob)
    /\ UNCHANGED <<dbVars, shown, clock, poll, budget, historyVars>>

(***************************************************************************)
(* insert_reminder, from a command with a time or from a confirmation.     *)
(***************************************************************************)
Remind(t) ==
    /\ \E u \in Users, d \in Lengths :
         Asks(t, u, "remind") /\ Goto(t, "count", Job(u, clock + d, None, None))
    /\ UNCHANGED <<dbVars, shown, clock, pending, poll, historyVars>>

\* A confirmation answers at its prompt, a command by a message of its own.
Answer(t) == Goto(t, IF job[t].prompt = None THEN "idle" ELSE "respond", job[t])

\* Mutant: the limit is off by one.
CheckLimitLate(t) ==
    /\ pc[t] = "count"
    /\ IF CountOf(job[t].user) > MaxReminders THEN Answer(t) ELSE Goto(t, "insert", job[t])
    /\ UNCHANGED <<dbVars, shown, clock, pending, poll, budget, historyVars>>

\* A count that fails counts as none.
CheckLimit(t) ==
    /\ pc[t] = "count"
    /\ \/ CountOf(job[t].user) >= MaxReminders /\ Answer(t) /\ UNCHANGED budget
       \/ CountOf(job[t].user) < MaxReminders /\ Goto(t, "insert", job[t]) /\ UNCHANGED budget
       \/ Fault /\ Goto(t, "insert", job[t])
    /\ UNCHANGED <<dbVars, shown, clock, pending, poll, historyVars>>

Insert(t) ==
    /\ pc[t] = "insert"
    /\ \/ LET id == First(Unused) IN
            /\ Unused # {}
            /\ reminders' = [reminders EXCEPT
                   ![id] = [state |-> "active", owner |-> job[t].user, at |-> job[t].at]]
            /\ made' = [p \in Prompts |->
                           IF p = job[t].prompt THEN made[p] \cup {id} ELSE made[p]]
            /\ Goto(t, "readCount", [job[t] EXCEPT !.id = id])
            /\ UNCHANGED budget
       \/ Fault /\ Answer(t) /\ UNCHANGED <<reminders, made>>
    /\ UNCHANGED <<counts, shown, clock, pending, poll, got, dropped>>

(***************************************************************************)
(* reminders delete: looked up first, deleted if it is still there.        *)
(***************************************************************************)
Delete(t) ==
    /\ \E u \in Users : \E id \in OwnedBy(u) :
         Asks(t, u, "delete") /\ Goto(t, "delete", Job(u, 0, None, id))
    /\ UNCHANGED <<dbVars, shown, clock, pending, poll, historyVars>>

DeleteRow(t) ==
    /\ pc[t] = "delete"
    /\ \/ /\ Active(job[t].id)
          /\ reminders' = [reminders EXCEPT ![job[t].id].state = "gone"]
          /\ dropped' = dropped \cup {job[t].id}
          /\ Goto(t, "readCount", job[t]) /\ UNCHANGED budget
       \/ ~Active(job[t].id) /\ Goto(t, "idle", NoJob) /\ UNCHANGED <<reminders, dropped, budget>>
       \/ Fault /\ Goto(t, "idle", NoJob) /\ UNCHANGED <<reminders, dropped>>
    /\ UNCHANGED <<counts, shown, clock, pending, poll, got, made>>

(***************************************************************************)
(* sync_user_count: count, mirror the count in SQLite, mirror it in Redis. *)
(***************************************************************************)
MirrorRow(u, n) ==
    \/ counts' = [counts EXCEPT ![u].row = n] /\ UNCHANGED budget
    \/ Fault /\ UNCHANGED counts
MirrorRedis(u, n) ==
    \/ counts' = [counts EXCEPT ![u].redis = n] /\ UNCHANGED budget
    \/ Fault /\ UNCHANGED counts

SyncRead(t) ==
    /\ pc[t] = "readCount"
    /\ \/ Goto(t, "mirrorRow", [job[t] EXCEPT !.n = CountOf(job[t].user)]) /\ UNCHANGED budget
       \/ Fault /\ Goto(t, "mirrorRow", [job[t] EXCEPT !.n = 0])
    /\ UNCHANGED <<dbVars, shown, clock, pending, poll, historyVars>>

SyncRow(t) ==
    /\ pc[t] = "mirrorRow"
    /\ MirrorRow(job[t].user, job[t].n)
    /\ Goto(t, "mirrorRedis", job[t])
    /\ UNCHANGED <<reminders, shown, clock, pending, poll, historyVars>>

SyncRedis(t) ==
    /\ pc[t] = "mirrorRedis"
    /\ MirrorRedis(job[t].user, job[t].n)
    /\ Answer(t)
    /\ UNCHANGED <<reminders, shown, clock, pending, poll, historyVars>>

(***************************************************************************)
(* spawn_reminder_task.                                                    *)
(***************************************************************************)
Due == {id \in Reminders : Active(id) /\ reminders[id].at <= clock}

Scan ==
    /\ poll.pc = "sleep"
    /\ poll' = IF Due = {} THEN poll ELSE [Asleep EXCEPT !.pc = "send", !.rows = Due]
    /\ UNCHANGED <<dbVars, shown, clock, pending, pc, job, budget, historyVars>>

Arrives(id) == got' = [got EXCEPT ![id] = @ + 1]

\* Mutant: what has been sent stays in the batch.
SendAgain ==
    /\ poll.pc = "send"
    /\ \E id \in poll.rows :
         /\ poll' = [poll EXCEPT !.pc = "delete", !.id = id]
         /\ Arrives(id)
    /\ UNCHANGED <<dbVars, shown, clock, pending, pc, job, budget, dropped, made>>

\* Mutant: a reminder that was not delivered is kept for the next poll.
SendOrKeep ==
    /\ poll.pc = "send"
    /\ \E id \in poll.rows :
         IF reminders[id].owner \in Unreachable
         THEN poll' = Asleep /\ UNCHANGED got
         ELSE poll' = [poll EXCEPT !.pc = "delete", !.rows = @ \ {id}, !.id = id] /\ Arrives(id)
    /\ UNCHANGED <<dbVars, shown, clock, pending, pc, job, budget, dropped, made>>

Send ==
    /\ poll.pc = "send"
    /\ \E id \in poll.rows :
         /\ poll' = [poll EXCEPT !.pc = "delete", !.rows = @ \ {id}, !.id = id]
         /\ \/ reminders[id].owner \notin Unreachable /\ Arrives(id) /\ UNCHANGED budget
            \/ reminders[id].owner \in Unreachable /\ UNCHANGED <<got, budget>>
            \/ reminders[id].owner \notin Unreachable /\ Fault /\ UNCHANGED got
    /\ UNCHANGED <<dbVars, shown, clock, pending, pc, job, dropped, made>>

\* Mutant: one statement deletes whatever is due by now.
DeleteAllDue ==
    /\ poll.pc = "delete"
    /\ reminders' = [id \in Reminders |->
           IF id \in Due THEN [reminders[id] EXCEPT !.state = "gone"] ELSE reminders[id]]
    /\ poll' = [poll EXCEPT !.pc = IF poll.rows = {} THEN "count" ELSE "send",
                            !.users = @ \cup {reminders[poll.id].owner}, !.id = None]
    /\ UNCHANGED <<counts, shown, clock, pending, pc, job, budget, historyVars>>

\* The row goes whether or not the message arrived.
DeleteFired ==
    /\ poll.pc = "delete"
    /\ \/ reminders' = [reminders EXCEPT ![poll.id].state = "gone"] /\ UNCHANGED budget
       \/ Fault /\ UNCHANGED reminders
    /\ poll' = [poll EXCEPT !.pc = IF poll.rows = {} THEN "count" ELSE "send",
                            !.users = @ \cup {reminders[poll.id].owner}, !.id = None]
    /\ UNCHANGED <<counts, shown, clock, pending, pc, job, historyVars>>

\* The counters of everybody who had a reminder are synchronised, one by one.
PollSyncRead ==
    /\ poll.pc = "count"
    /\ \E u \in poll.users :
         \/ /\ poll' = [poll EXCEPT !.pc = "row", !.users = @ \ {u}, !.user = u, !.n = CountOf(u)]
            /\ UNCHANGED budget
         \/ /\ Fault
            /\ poll' = [poll EXCEPT !.pc = "row", !.users = @ \ {u}, !.user = u, !.n = 0]
    /\ UNCHANGED <<dbVars, shown, clock, pending, pc, job, historyVars>>

PollSyncRow ==
    /\ poll.pc = "row"
    /\ MirrorRow(poll.user, poll.n)
    /\ poll' = [poll EXCEPT !.pc = "redis"]
    /\ UNCHANGED <<reminders, shown, clock, pending, pc, job, historyVars>>

PollSyncRedis ==
    /\ poll.pc = "redis"
    /\ MirrorRedis(poll.user, poll.n)
    /\ poll' = IF poll.users = {} THEN Asleep
               ELSE [Asleep EXCEPT !.pc = "count", !.users = poll.users]
    /\ UNCHANGED <<reminders, shown, clock, pending, pc, job, historyVars>>

Tick ==
    /\ clock < MaxTime
    /\ clock' = clock + 1
    /\ UNCHANGED <<dbVars, shown, pending, pc, job, poll, budget, historyVars>>

\* The databases and Discord survive, everything in memory is gone.
Crash ==
    /\ Fault
    /\ pc' = [t \in Tasks |-> "idle"] /\ job' = [t \in Tasks |-> NoJob] /\ poll' = Asleep
    /\ pending' = [p \in Prompts |-> NoSession]
    /\ UNCHANGED <<dbVars, shown, clock, historyVars>>

Arrival(t) ==
    Remind(t) \/ ShowPrompt(t) \/ Select(t) \/ Confirm(t) \/ Cancel(t) \/ Delete(t)

TaskStep(t) ==
    \/ Register(t) \/ Respond(t) \/ Forget(t)
    \/ CheckLimit(t) \/ Insert(t) \/ DeleteRow(t)
    \/ SyncRead(t) \/ SyncRow(t) \/ SyncRedis(t)

PollStep == Scan \/ Send \/ DeleteFired \/ PollSyncRead \/ PollSyncRow \/ PollSyncRedis

Next ==
    \/ \E t \in Tasks : Arrival(t) \/ TaskStep(t)
    \/ PollStep
    \/ Tick \/ Crash

Spec == Init /\ [][Next]_vars

\* Tasks and the poll go on, and time passes.
Fairness ==
    /\ WF_vars(Tick) /\ WF_vars(PollStep)
    /\ \A t \in Tasks : WF_vars(TaskStep(t))

FairSpec == Spec /\ Fairness
-----------------------------------------------------------------------------
(***************************************************************************)
(* Properties.                                                             *)
(***************************************************************************)
Steps == {"idle", "register", "respond", "forget", "count", "insert", "delete",
          "readCount", "mirrorRow", "mirrorRedis"}

Jobs == [user : Users \cup {None}, at : Nat, prompt : Prompts \cup {None},
         id : Reminders \cup {None}, n : Nat]
Rows == [state : {"unused", "active", "gone"}, owner : Users \cup {None}, at : Nat]
Polls == [pc : {"sleep", "send", "delete", "count", "row", "redis"},
          rows : SUBSET Reminders, id : Reminders \cup {None},
          users : SUBSET (Users \cup {None}), user : Users \cup {None}, n : Nat]

\* Every variable holds a value of its type.
TypeOK ==
    /\ reminders \in [Reminders -> Rows]
    /\ counts \in [Users -> [row : Nat, redis : Nat]]
    /\ shown \in [Prompts -> [state : {"none", "open", "done"},
                              author : Users \cup {None}, since : Nat]]
    /\ clock \in Nat
    /\ pending \in [Prompts -> [owner : Users \cup {None}, at : Nat]]
    /\ pc \in [Tasks -> Steps]
    /\ job \in [Tasks -> Jobs] /\ poll \in Polls
    /\ budget \in [commands : Nat, faults : Nat]
    /\ got \in [Reminders -> Nat] /\ dropped \subseteq Reminders
    /\ made \in [Prompts -> SUBSET Reminders]

NothingFailed == budget.faults = MaxFaults

\* The poll deletes by id from a snapshot: it must never delete a reminder that is
\* not yet due, only its owner may.  (KeepsPromise below says the same of the step that
\* deletes; the proofs go from one to the other.)
GoneForAReason ==
    \A id \in Reminders : reminders[id].state = "gone" =>
        id \in dropped \/ reminders[id].at <= clock

\* Unless something fails, a reminder of somebody who can be reached arrives exactly
\* once before its row goes, however poll, creation and deletion interleave.
DeliveredOnce ==
    NothingFailed =>
        \A id \in Reminders :
            /\ got[id] <= 1
            /\ (reminders[id].state = "gone" /\ id \notin dropped
                    /\ reminders[id].owner \notin Unreachable) => got[id] = 1

\* MAX_REMINDERS: "Maximum active reminders a single user may hold at once".  But
\* insert_reminder counts in one query and inserts in another.  However the handlers of a
\* user's commands and presses overlap, and prompts are confirmed long after they were
\* shown, the limit is passed by less than the number of these handlers, and by one for
\* each failure (a count that fails reads as 0): with one handler and no failure not at all.
Serving(u) == {t \in Tasks : u \in Speakers[t]}
LimitHeld ==
    \A u \in Users :
        CountOf(u) < MaxReminders + Cardinality(Serving(u)) + (MaxFaults - budget.faults)

\* A prompt creates at most one reminder, for its author ("otherwise anyone could
\* confirm or cancel someone else's pending reminder"), even if the response fails.
OnePerPrompt ==
    \A p \in Prompts :
        /\ Cardinality(made[p]) <= 1
        /\ \A id \in made[p] : reminders[id].owner = shown[p].author

\* The poll sends and deletes from a snapshot, by id.  Whatever fails or crashes, a
\* reminder keeps its owner and time, goes once, for a reason, and never arrives early,
\* nor after it went, except for one its owner deletes while the poll has it in hand.
LifeOf(id) ==
    CASE reminders[id].state = "unused" -> "unmade"
      [] Active(id) -> "waiting"
      [] reminders[id].state = "gone" -> IF id \in dropped THEN "dropped" ELSE "fired"
MadeAs(id) == [owner |-> reminders[id].owner, at |-> reminders[id].at]
Promise == INSTANCE ReminderPromise WITH
    Owners <- Users \cup {None},
    life <- [id \in Reminders |-> LifeOf(id)], made <- [id \in Reminders |-> MadeAs(id)],
    late <- {id \in poll.rows : ~Active(id)}, arrived <- got
KeepsPromise == Promise!PromiseSpec

\* "Delete regardless of DM success so a blocked DM can't loop forever": whatever is
\* due goes, also that of users who cannot be reached.
DueRemindersGo ==
    \A id \in Reminders :
        (Active(id) /\ reminders[id].at <= clock) ~> reminders[id].state = "gone"
=============================================================================
