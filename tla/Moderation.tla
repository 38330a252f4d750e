------------------------------ MODULE Moderation ------------------------------
(***************************************************************************)
(* The moderation component of the bot in one guild: the case log          *)
(* (mod_cases), the timed infractions (mod_timed), the settings            *)
(* (mod_config), the commands that punish and release members, automod's   *)
(* punishments, warn escalation, the dashboard's case routes, and the      *)
(* background sweeper that lifts what has expired.                         *)
(*                                                                         *)
(* Every command, automod event and dashboard request runs as a tokio task *)
(* of its own.  A task is a sequence of awaits on SQLite and Discord, and  *)
(* each await is one step here, so that tasks interleave wherever the      *)
(* program lets them.  All queries filter by guild, so guilds never        *)
(* interact and one is enough.                                             *)
(***************************************************************************)
EXTENDS Naturals, FiniteSets

CONSTANTS
    Users,          \* members that get punished
    Roles,          \* ids Discord may give to roles the bot creates
    Tasks,          \* concurrently running handlers
    Commands,       \* Commands[t]: what task t may be asked to do
    AutomodTasks,   \* tasks that run on behalf of automod, not of a moderator
    Policies,       \* escalation policies "warnings set" and "off" may store
    InitialPolicy,  \* the policy stored before the first step
    Durations,      \* lengths of mutes, temp-bans and timeouts
    Faults,         \* failures that may happen, see FaultKinds
    MaxTime,        \* bound on the clock
    MaxCommands,    \* bound on the number of commands issued
    MaxCrashes,     \* bound on the number of crashes
    None            \* no user, no role

\* "db": a query fails; "refused": Discord definitively refuses a call;
\* "transient": a rate limit, a 5xx or a network error while lifting;
\* "crash": the process dies and is started again;
\* "roles": an administrator deletes a role by hand.
FaultKinds == {"db", "refused", "transient", "crash", "roles"}

\* Which mod_timed.action a punishment is recorded under.
TimedTypes == {"mute", "tempban", "timeout"}
\* Mutant: the row keeps the case's type, which the sweeper does not know.
TimedActionUntranslated(type) == type
TimedAction(type) == IF type = "tempban" THEN "ban" ELSE type
TimedActions == {"mute", "ban", "timeout"}

\* Which rows a release clears.
ReleaseTypes == {"unmute", "unban", "untimeout"}
ReleasedAction(type) ==
    CASE type = "unmute" -> "mute"
      [] type = "unban" -> "ban"
      [] type = "untimeout" -> "timeout"

CaseTypes == {"warn", "kick", "ban", "softban"} \cup TimedTypes \cup ReleaseTypes
CommandTypes == CaseTypes \cup {"delcase", "lift", "policy"}
Sources == {"moderator", "automod", "escalation"}
PolicyValues == [threshold : Nat, action : {"timeout", "kick", "ban"}]

ASSUME ConstantsAssumption ==
    /\ None \notin Users /\ None \notin Roles
    /\ Commands \in [Tasks -> SUBSET CommandTypes]
    /\ AutomodTasks \subseteq Tasks
    /\ Policies \subseteq PolicyValues /\ InitialPolicy \in PolicyValues
    /\ Durations \subseteq Nat \ {0} /\ Durations # {}
    /\ Faults \subseteq FaultKinds
    /\ MaxTime \in Nat /\ MaxCommands \in Nat /\ MaxCrashes \in Nat

VARIABLES
    \* SQLite: survives a crash
    cases,      \* case number -> [type, by, user, until, active]
    timed,      \* case number -> [user, action, until]
    muteRole,   \* mod_config.mute_role_id
    policy,     \* mod_config.warn_threshold, warn_action
    \* Discord: what the guild really looks like
    banned,     \* users on the guild's ban list
    muted,      \* pairs <<user, role>>: the user carries the Muted role
    roleState,  \* role id -> "unused", "live" or "deleted"
    clock,
    \* the process: lost in a crash
    pc,         \* what task t awaits next
    job,        \* the locals of task t
    stale,      \* tasks whose open transaction was overtaken by a commit
    sweep,      \* the locals of the expiry task
    budget,     \* commands and crashes the bounds still allow
    \* history: read by properties, never by an action's guard
    banTerm,    \* user -> expiry of the latest ban ordered, 0 when permanent
    muteTerm,   \* user -> expiry of the latest mute ordered
    tainted,    \* case numbers that may name more than one infraction
    lifted      \* case numbers whose expiry the dashboard brought forward

dbVars == <<cases, timed, muteRole, policy>>
discordVars == <<banned, muted, roleState>>
taskVars == <<pc, job, stale>>
historyVars == <<banTerm, muteTerm, tainted, lifted>>
vars == <<dbVars, discordVars, clock, taskVars, sweep, budget, historyVars>>

NoPolicy == [threshold |-> 0, action |-> "timeout"]
NoJob == [type |-> "none", by |-> "moderator", user |-> None, until |-> 0,
          num |-> 0, role |-> None, policy |-> NoPolicy]
NoRow == [num |-> 0, user |-> None, action |-> "none", until |-> 0]
Asleep == [pc |-> "sleep", rows |-> {}, row |-> NoRow, asked |-> FALSE, role |-> None]

Init ==
    /\ cases = [n \in {} |-> NoJob] /\ timed = [n \in {} |-> NoRow]
    /\ muteRole = None /\ policy = InitialPolicy
    /\ banned = {} /\ muted = {} /\ roleState = [r \in Roles |-> "unused"]
    /\ clock = 0
    /\ pc = [t \in Tasks |-> "idle"] /\ job = [t \in Tasks |-> NoJob] /\ stale = {}
    /\ sweep = Asleep
    /\ budget = [commands |-> MaxCommands, crashes |-> MaxCrashes]
    /\ banTerm = [u \in Users |-> 0] /\ muteTerm = [u \in Users |-> 0]
    /\ tainted = {} /\ lifted = {}

(***************************************************************************)
(* Tables.  A table is a function on the primary keys it holds.            *)
(***************************************************************************)
Upsert(table, n, row) ==
    [m \in DOMAIN table \cup {n} |-> IF m = n THEN row ELSE table[m]]
Without(table, gone) == [m \in DOMAIN table \ gone |-> table[m]]

\* h is the highest key of the table, 0 when it is empty.
IsHighest(h, table) ==
    /\ h \in DOMAIN table \cup {0}
    /\ \A n \in DOMAIN table : n <= h

\* The code ignores the error of most writes ("let _ ="): a write that fails
\* leaves the table as it was and the task goes on.
Outcomes(new, old) == IF "db" \in Faults THEN {new, old} ELSE {new}

\* A commit overtakes every transaction that has read but not yet written.
Overtake(t) == stale' = {s \in Tasks \ {t} : pc[s] = "insert"}

RowsOf(user, action) ==
    {n \in DOMAIN timed : timed[n].user = user /\ timed[n].action = action}
ActiveWarns(user) ==
    {n \in DOMAIN cases : /\ cases[n].type = "warn" /\ cases[n].active
                          /\ cases[n].user = user}

(***************************************************************************)
(* Control flow of a task.                                                 *)
(***************************************************************************)
FirstStep(type) ==
    CASE type = "warn" -> "begin"
      [] type = "mute" -> "findRole"
      [] type = "unmute" -> "readRole"
      [] type \in {"delcase", "lift", "policy"} -> type
      [] OTHER -> "discord"

\* Where a task goes once its case is written (or could not be).
\* Mutant: an escalation that forgets to reset the counter.
AfterCaseNoReset(j) ==
    IF j.type = "warn" /\ j.by = "moderator" THEN "readPolicy" ELSE "idle"
AfterCase(j) ==
    IF j.by = "escalation" THEN "reset"
    ELSE IF j.type = "warn" /\ j.by = "moderator" THEN "readPolicy"
    ELSE "idle"
AfterCreate(j, created) ==
    IF j.type \in TimedTypes THEN IF created THEN "record" ELSE "fallback"
    ELSE AfterCase(j)

\* Task t goes on to step next with locals j; a finished task keeps nothing.
Goto(t, next, j) ==
    /\ pc' = [pc EXCEPT ![t] = next]
    /\ job' = [job EXCEPT ![t] = IF next = "idle" THEN NoJob ELSE j]
Finish(t) == Goto(t, "idle", NoJob)

\* Discord refuses the call: the command reports the error and stops.  A
\* refused escalation leaves the warns active.
Refuse(t) ==
    /\ "refused" \in Faults
    /\ Finish(t)
    /\ UNCHANGED <<dbVars, discordVars, stale, historyVars>>

(***************************************************************************)
(* A command arrives.  The guards self_guard and can_act_on only refuse;   *)
(* an accepted command has computed its expiry before the first await.     *)
(***************************************************************************)
NewJob(t, type, user, d, num) ==
    [type |-> type, by |-> IF t \in AutomodTasks THEN "automod" ELSE "moderator",
     user |-> user, until |-> IF type \in TimedTypes THEN clock + d ELSE 0,
     num |-> num, role |-> None, policy |-> NoPolicy]

Issue(t) ==
    /\ pc[t] = "idle" /\ budget.commands > 0
    /\ budget' = [budget EXCEPT !.commands = @ - 1]
    /\ \E type \in Commands[t] :
         /\ t \in AutomodTasks => type \in {"warn", "timeout", "kick"}
         /\ \E user \in IF type \in CaseTypes THEN Users ELSE {None},
               d \in IF type \in TimedTypes THEN Durations ELSE {0},
               num \in IF type = "delcase" THEN DOMAIN cases
                       ELSE IF type = "lift" THEN DOMAIN timed ELSE {0} :
              Goto(t, FirstStep(type), NewJob(t, type, user, d, num))
    /\ UNCHANGED <<dbVars, discordVars, clock, stale, sweep, historyVars>>

(***************************************************************************)
(* Calls to Discord.                                                       *)
(***************************************************************************)
\* kick, timeout and untimeout change nothing on Discord the model tracks:
\* Discord ends a native timeout by itself.
Discipline(t) ==
    /\ pc[t] = "discord" /\ job[t].type \in {"kick", "timeout", "untimeout"}
    /\ \/ /\ Goto(t, IF job[t].type = "untimeout" THEN "clear" ELSE "begin", job[t])
          /\ UNCHANGED <<dbVars, discordVars, stale, historyVars>>
       \/ Refuse(t)
    /\ UNCHANGED <<clock, sweep, budget>>

BanUser(t) ==
    /\ pc[t] = "discord" /\ job[t].type \in {"ban", "tempban", "softban"}
    /\ \/ /\ banned' = banned \cup {job[t].user}
          /\ banTerm' = [banTerm EXCEPT ![job[t].user] = job[t].until]
          /\ Goto(t, IF job[t].type = "softban" THEN "undo" ELSE "begin", job[t])
          /\ UNCHANGED <<dbVars, muted, roleState, stale, muteTerm, tainted, lifted>>
       \/ Refuse(t)
    /\ UNCHANGED <<clock, sweep, budget>>

\* unban, and the second half of softban.  Discord refuses to lift a ban that
\* is not there.
UnbanUser(t) ==
    /\ \/ pc[t] = "discord" /\ job[t].type = "unban"
       \/ pc[t] = "undo"
    /\ \/ /\ job[t].user \in banned
          /\ banned' = banned \ {job[t].user}
          /\ Goto(t, IF job[t].type = "unban" THEN "clear" ELSE "begin", job[t])
          /\ UNCHANGED <<dbVars, muted, roleState, stale, historyVars>>
       \/ /\ job[t].user \notin banned
          /\ Finish(t)
          /\ UNCHANGED <<dbVars, discordVars, stale, historyVars>>
       \/ Refuse(t)
    /\ UNCHANGED <<clock, sweep, budget>>

(***************************************************************************)
(* The Muted role: ensure_mute_role, mute, unmute.                         *)
(***************************************************************************)
Live(r) == r \in Roles /\ roleState[r] = "live"

\* Reuse the stored role only if it still exists in the guild.  A failed
\* query or a failed role listing counts as no usable role.
FindMuteRole(t) ==
    /\ pc[t] = "findRole"
    /\ \/ /\ Live(muteRole)
          /\ Goto(t, "addRole", [job[t] EXCEPT !.role = muteRole])
       \/ /\ ~Live(muteRole) \/ Faults \cap {"db", "refused"} # {}
          /\ Goto(t, "makeRole", job[t])
    /\ UNCHANGED <<dbVars, discordVars, clock, stale, sweep, budget, historyVars>>

\* Discord caps the roles of a guild: with none left the command fails.
CreateMuteRole(t) ==
    /\ pc[t] = "makeRole"
    /\ \/ \E r \in Roles :
            /\ roleState[r] = "unused"
            /\ roleState' = [roleState EXCEPT ![r] = "live"]
            /\ Goto(t, "storeRole", [job[t] EXCEPT !.role = r])
            /\ UNCHANGED <<dbVars, banned, muted, stale, historyVars>>
       \/ /\ \A r \in Roles : roleState[r] # "unused"
          /\ Finish(t)
          /\ UNCHANGED <<dbVars, discordVars, stale, historyVars>>
       \/ Refuse(t)
    /\ UNCHANGED <<clock, sweep, budget>>

StoreMuteRole(t) ==
    /\ pc[t] = "storeRole"
    /\ muteRole' \in Outcomes(job[t].role, muteRole)
    /\ Overtake(t)
    /\ Goto(t, "addRole", job[t])
    /\ UNCHANGED <<cases, timed, policy, discordVars, clock, sweep, budget, historyVars>>

AddMuteRole(t) ==
    /\ pc[t] = "addRole"
    /\ \/ /\ Live(job[t].role)
          /\ muted' = muted \cup {<<job[t].user, job[t].role>>}
          /\ muteTerm' = [muteTerm EXCEPT ![job[t].user] = job[t].until]
          /\ Goto(t, "begin", job[t])
          /\ UNCHANGED <<dbVars, banned, roleState, stale, banTerm, tainted, lifted>>
       \/ /\ ~Live(job[t].role)
          /\ Finish(t)
          /\ UNCHANGED <<dbVars, discordVars, stale, historyVars>>
       \/ Refuse(t)
    /\ UNCHANGED <<clock, sweep, budget>>

ReadMuteRole(t) ==
    /\ pc[t] = "readRole"
    /\ \/ muteRole # None /\ Goto(t, "removeRole", [job[t] EXCEPT !.role = muteRole])
       \/ (muteRole = None \/ "db" \in Faults) /\ Finish(t)
    /\ UNCHANGED <<dbVars, discordVars, clock, stale, sweep, budget, historyVars>>

RemoveMuteRole(t) ==
    /\ pc[t] = "removeRole"
    /\ \/ /\ Live(job[t].role)
          /\ muted' = muted \ {<<job[t].user, job[t].role>>}
          /\ Goto(t, "clear", job[t])
          /\ UNCHANGED <<dbVars, banned, roleState, stale, historyVars>>
       \/ /\ ~Live(job[t].role)
          /\ Finish(t)
          /\ UNCHANGED <<dbVars, discordVars, stale, historyVars>>
       \/ Refuse(t)
    /\ UNCHANGED <<clock, sweep, budget>>

\* unban, unmute and untimeout drop every scheduled expiry of that kind.
ClearTimed(t) ==
    /\ pc[t] = "clear"
    /\ timed' \in Outcomes(
           Without(timed, RowsOf(job[t].user, ReleasedAction(job[t].type))), timed)
    /\ Overtake(t)
    /\ Goto(t, "begin", job[t])
    /\ UNCHANGED <<cases, muteRole, policy, discordVars, clock, sweep, budget, historyVars>>

(***************************************************************************)
(* create_case and record_timed.                                           *)
(***************************************************************************)
\* Open a transaction and read the highest case number in it.
ReadHighest(t) ==
    /\ pc[t] = "begin"
    /\ \/ \E h \in DOMAIN cases \cup {0} :
            /\ IsHighest(h, cases)
            /\ Goto(t, "insert", [job[t] EXCEPT !.num = h])
       \/ "db" \in Faults /\ Goto(t, AfterCreate(job[t], FALSE), job[t])
    /\ stale' = stale \ {t}
    /\ UNCHANGED <<dbVars, discordVars, clock, sweep, budget, historyVars>>

\* Mutant: an upsert outside of any transaction.
InsertCaseOverwrites(t) ==
    LET n == job[t].num + 1 IN
    /\ pc[t] = "insert"
    /\ cases' = Upsert(cases, n, [type |-> job[t].type, by |-> job[t].by,
           user |-> job[t].user, until |-> job[t].until, active |-> TRUE])
    /\ Overtake(t)
    /\ Goto(t, AfterCreate(job[t], TRUE), [job[t] EXCEPT !.num = n])
    /\ UNCHANGED <<timed, muteRole, policy, discordVars, clock, sweep, budget, historyVars>>

\* Mutant: the highest number is read outside of the transaction.
InsertCaseUnlocked(t) ==
    LET n == job[t].num + 1 IN
    /\ pc[t] = "insert" /\ n \notin DOMAIN cases
    /\ cases' = Upsert(cases, n, [type |-> job[t].type, by |-> job[t].by,
           user |-> job[t].user, until |-> job[t].until, active |-> TRUE])
    /\ Overtake(t)
    /\ Goto(t, AfterCreate(job[t], TRUE), [job[t] EXCEPT !.num = n])
    /\ UNCHANGED <<timed, muteRole, policy, discordVars, clock, sweep, budget, historyVars>>

\* Insert highest + 1 and commit.  SQLite refuses to upgrade a read transaction
\* another commit has overtaken; the primary key refuses a duplicate.
InsertCase(t) ==
    LET n == job[t].num + 1 IN
    /\ pc[t] = "insert"
    /\ \/ /\ t \notin stale /\ n \notin DOMAIN cases
          /\ cases' = Upsert(cases, n, [type |-> job[t].type, by |-> job[t].by,
                 user |-> job[t].user, until |-> job[t].until, active |-> TRUE])
          /\ Overtake(t)
          /\ Goto(t, AfterCreate(job[t], TRUE), [job[t] EXCEPT !.num = n])
       \/ /\ t \in stale \/ n \in DOMAIN cases \/ "db" \in Faults
          /\ Goto(t, AfterCreate(job[t], FALSE), job[t])
          /\ UNCHANGED <<cases, stale>>
    /\ UNCHANGED <<timed, muteRole, policy, discordVars, clock, sweep, budget, historyVars>>

\* No case number: take the highest key of mod_timed plus one (or 1, when the
\* query fails).
FallbackNumber(t) ==
    /\ pc[t] = "fallback"
    /\ \E h \in DOMAIN timed \cup {0} :
         /\ IsHighest(h, timed) \/ ("db" \in Faults /\ h = 0)
         /\ Goto(t, "record", [job[t] EXCEPT !.num = h + 1])
         /\ tainted' = tainted \cup {h + 1}
    /\ UNCHANGED <<dbVars, discordVars, clock, stale, sweep, budget, banTerm, muteTerm, lifted>>

RecordTimed(t) ==
    /\ pc[t] = "record"
    /\ timed' \in Outcomes(
           Upsert(timed, job[t].num, [user |-> job[t].user,
                  action |-> TimedAction(job[t].type), until |-> job[t].until]), timed)
    /\ Overtake(t)
    /\ Goto(t, AfterCase(job[t]), job[t])
    /\ UNCHANGED <<cases, muteRole, policy, discordVars, clock, sweep, budget, historyVars>>

(***************************************************************************)
(* Warn escalation.                                                        *)
(***************************************************************************)
ReadPolicy(t) ==
    /\ pc[t] = "readPolicy"
    /\ \/ policy.threshold > 0 /\ Goto(t, "count", [job[t] EXCEPT !.policy = policy])
       \/ (policy.threshold = 0 \/ "db" \in Faults) /\ Finish(t)
    /\ UNCHANGED <<dbVars, discordVars, clock, stale, sweep, budget, historyVars>>

\* The punishment an escalation goes on with; only a timeout expires.
Escalated(j, until) ==
    [j EXCEPT !.type = j.policy.action, !.by = "escalation", !.until = until]
EscalationTerms(action) ==
    IF action = "timeout" THEN {clock + d : d \in Durations} ELSE {0}

\* Count the active warns; at the threshold the same task goes on to punish.
CountWarns(t) ==
    LET reached == Cardinality(ActiveWarns(job[t].user)) >= job[t].policy.threshold IN
    /\ pc[t] = "count"
    /\ \/ /\ reached
          /\ \E until \in EscalationTerms(job[t].policy.action) :
               Goto(t, "discord", Escalated(job[t], until))
       \/ (~reached \/ "db" \in Faults) /\ Finish(t)
    /\ UNCHANGED <<dbVars, discordVars, clock, stale, sweep, budget, historyVars>>

\* The punishment landed: every active warn of the member is closed.
ResetWarns(t) ==
    /\ pc[t] = "reset"
    /\ cases' \in Outcomes([n \in DOMAIN cases |->
           [cases[n] EXCEPT !.active = @ /\ n \notin ActiveWarns(job[t].user)]], cases)
    /\ Overtake(t)
    /\ Finish(t)
    /\ UNCHANGED <<timed, muteRole, policy, discordVars, clock, sweep, budget, historyVars>>

\* warnings set, warnings off
SetPolicy(t) ==
    /\ pc[t] = "policy"
    /\ \E p \in Policies : policy' \in Outcomes(p, policy)
    /\ Overtake(t)
    /\ Finish(t)
    /\ UNCHANGED <<cases, timed, muteRole, discordVars, clock, sweep, budget, historyVars>>

(***************************************************************************)
(* delcase, and the dashboard's DELETE case and lift routes.               *)
(***************************************************************************)
DeleteCase(t) ==
    /\ pc[t] = "delcase"
    /\ \/ /\ job[t].num \in DOMAIN cases
          /\ cases' = Without(cases, {job[t].num})
          /\ tainted' = tainted \cup {job[t].num}
          /\ Overtake(t)
          /\ Goto(t, "delTimed", job[t])
       \/ /\ job[t].num \notin DOMAIN cases \/ "db" \in Faults
          /\ Finish(t)
          /\ UNCHANGED <<cases, tainted, stale>>
    /\ UNCHANGED <<timed, muteRole, policy, discordVars, clock, sweep, budget,
                   banTerm, muteTerm, lifted>>

DeleteTimed(t) ==
    /\ pc[t] = "delTimed"
    /\ timed' \in Outcomes(Without(timed, {job[t].num}), timed)
    /\ Overtake(t)
    /\ Finish(t)
    /\ UNCHANGED <<cases, muteRole, policy, discordVars, clock, sweep, budget, historyVars>>

\* Only mutes and temp-bans can be lifted from the dashboard.
Liftable(n) == n \in DOMAIN timed /\ timed[n].action \in {"mute", "ban"}

FindLift(t) ==
    /\ pc[t] = "lift"
    /\ \/ Liftable(job[t].num) /\ Goto(t, "expire", job[t])
       \/ (~Liftable(job[t].num) \/ "db" \in Faults) /\ Finish(t)
    /\ UNCHANGED <<dbVars, discordVars, clock, stale, sweep, budget, historyVars>>

ExpireNow(t) ==
    /\ pc[t] = "expire"
    /\ timed' \in Outcomes([n \in DOMAIN timed |->
           IF n = job[t].num THEN [timed[n] EXCEPT !.until = clock] ELSE timed[n]], timed)
    /\ lifted' = lifted \cup {job[t].num}
    /\ Overtake(t)
    /\ Finish(t)
    /\ UNCHANGED <<cases, muteRole, policy, discordVars, clock, sweep, budget,
                   banTerm, muteTerm, tainted>>

(***************************************************************************)
(* The expiry sweeper.  It reads the expired rows once and works through   *)
(* that snapshot, row by row.                                              *)
(***************************************************************************)
Snapshot ==
    {[num |-> n, user |-> timed[n].user, action |-> timed[n].action, until |-> timed[n].until] :
        n \in {m \in DOMAIN timed : timed[m].until <= clock}}

SweepScan ==
    /\ sweep.pc = "sleep"
    /\ sweep' = IF Snapshot = {} THEN sweep
                ELSE [Asleep EXCEPT !.pc = "pick", !.rows = Snapshot]
    /\ UNCHANGED <<dbVars, discordVars, clock, taskVars, budget, historyVars>>

\* Take the next row.  The stored role is read once for a batch of mutes.
SweepPick ==
    /\ sweep.pc = "pick"
    /\ \E row \in sweep.rows :
         LET ask == row.action = "mute" /\ ~sweep.asked IN
         \E role \in IF ask THEN Outcomes(muteRole, None) ELSE {sweep.role} :
           sweep' = [pc |-> "lift", rows |-> sweep.rows \ {row}, row |-> row,
                     asked |-> sweep.asked \/ ask, role |-> role]
    /\ UNCHANGED <<dbVars, discordVars, clock, taskVars, budget, historyVars>>

\* Leave the current row: go on with the batch or sleep.
NextRow == IF sweep.rows = {} THEN Asleep ELSE [sweep EXCEPT !.pc = "pick", !.row = NoRow]

\* Mutant: a row with nothing to undo is skipped instead of cleared.
SweepLiftSkipsTimeouts ==
    /\ sweep.pc = "lift"
    /\ banned' = IF sweep.row.action = "ban" THEN banned \ {sweep.row.user} ELSE banned
    /\ muted' = IF sweep.row.action = "mute"
                THEN muted \ {<<sweep.row.user, sweep.role>>} ELSE muted
    /\ sweep' = IF sweep.row.action = "timeout" THEN NextRow ELSE [sweep EXCEPT !.pc = "clear"]
    /\ UNCHANGED <<dbVars, roleState, clock, taskVars, budget, historyVars>>

\* The call that undoes the punishment went through, or there is nothing to undo.
SweepLift ==
    /\ sweep.pc = "lift"
    /\ banned' = IF sweep.row.action = "ban" THEN banned \ {sweep.row.user} ELSE banned
    /\ muted' = IF sweep.row.action = "mute"
                THEN muted \ {<<sweep.row.user, sweep.role>>} ELSE muted
    /\ sweep' = [sweep EXCEPT !.pc = "clear"]
    /\ UNCHANGED <<dbVars, roleState, clock, taskVars, budget, historyVars>>

\* Mutant: a transient failure is taken for a definitive one.
SweepRetryClears ==
    /\ sweep.pc = "lift" /\ "transient" \in Faults
    /\ sweep.row.action = "ban" \/ (sweep.row.action = "mute" /\ sweep.role # None)
    /\ sweep' = [sweep EXCEPT !.pc = "clear"]
    /\ UNCHANGED <<dbVars, discordVars, clock, taskVars, budget, historyVars>>

\* should_retry_lift: keep the row and retry on the next sweep ...
SweepRetry ==
    /\ sweep.pc = "lift" /\ "transient" \in Faults
    /\ sweep.row.action = "ban" \/ (sweep.row.action = "mute" /\ sweep.role # None)
    /\ sweep' = NextRow
    /\ UNCHANGED <<dbVars, discordVars, clock, taskVars, budget, historyVars>>

\* ... or give up on a definitive refusal, as for a role that was deleted, and clear
\* the row all the same.
SweepGiveUp ==
    /\ sweep.pc = "lift"
    /\ sweep.row.action = "ban" \/ (sweep.row.action = "mute" /\ sweep.role # None)
    /\ "refused" \in Faults \/ (sweep.row.action = "mute" /\ ~Live(sweep.role))
    /\ sweep' = [sweep EXCEPT !.pc = "clear"]
    /\ UNCHANGED <<dbVars, discordVars, clock, taskVars, budget, historyVars>>

SweepClear ==
    /\ sweep.pc = "clear"
    /\ timed' \in Outcomes(Without(timed, {sweep.row.num}), timed)
    /\ stale' = {t \in Tasks : pc[t] = "insert"}
    /\ sweep' = [sweep EXCEPT !.pc = "close"]
    /\ UNCHANGED <<cases, muteRole, policy, discordVars, clock, pc, job, budget, historyVars>>

SweepClose ==
    /\ sweep.pc = "close"
    /\ cases' \in Outcomes([n \in DOMAIN cases |->
           [cases[n] EXCEPT !.active = @ /\ n # sweep.row.num]], cases)
    /\ stale' = {t \in Tasks : pc[t] = "insert"}
    /\ sweep' = NextRow
    /\ UNCHANGED <<timed, muteRole, policy, discordVars, clock, pc, job, budget, historyVars>>

(***************************************************************************)
(* The environment.                                                        *)
(***************************************************************************)
Tick ==
    /\ clock < MaxTime
    /\ clock' = clock + 1
    /\ UNCHANGED <<dbVars, discordVars, taskVars, sweep, budget, historyVars>>

\* The process dies between two awaits and is started again: the tasks and the
\* sweeper's batch are gone, the database and Discord are not.
Crash ==
    /\ "crash" \in Faults /\ budget.crashes > 0
    /\ budget' = [budget EXCEPT !.crashes = @ - 1]
    /\ pc' = [t \in Tasks |-> "idle"] /\ job' = [t \in Tasks |-> NoJob] /\ stale' = {}
    /\ sweep' = Asleep
    /\ UNCHANGED <<dbVars, discordVars, clock, historyVars>>

DeleteRole ==
    /\ "roles" \in Faults
    /\ \E r \in Roles :
         /\ roleState[r] = "live"
         /\ roleState' = [roleState EXCEPT ![r] = "deleted"]
         /\ muted' = {m \in muted : m[2] # r}
    /\ UNCHANGED <<dbVars, banned, clock, taskVars, sweep, budget, historyVars>>

TaskStep(t) ==
    \/ Discipline(t) \/ BanUser(t) \/ UnbanUser(t)
    \/ FindMuteRole(t) \/ CreateMuteRole(t) \/ StoreMuteRole(t) \/ AddMuteRole(t)
    \/ ReadMuteRole(t) \/ RemoveMuteRole(t) \/ ClearTimed(t)
    \/ ReadHighest(t) \/ InsertCase(t) \/ FallbackNumber(t) \/ RecordTimed(t)
    \/ ReadPolicy(t) \/ CountWarns(t) \/ ResetWarns(t) \/ SetPolicy(t)
    \/ DeleteCase(t) \/ DeleteTimed(t) \/ FindLift(t) \/ ExpireNow(t)

SweepStep ==
    \/ SweepScan \/ SweepPick \/ SweepLift \/ SweepRetry \/ SweepGiveUp
    \/ SweepClear \/ SweepClose

Next ==
    \/ \E t \in Tasks : Issue(t) \/ TaskStep(t)
    \/ SweepStep
    \/ Tick \/ Crash \/ DeleteRole

Spec == Init /\ [][Next]_vars

\* The runtime keeps polling: a running task and the sweeper make progress,
\* time passes, and Discord does not fail transiently forever.  Nothing is
\* assumed of moderators, crashes or administrators.
Fairness ==
    /\ WF_vars(Tick) /\ WF_vars(SweepStep) /\ SF_vars(SweepLift)
    /\ \A t \in Tasks : WF_vars(TaskStep(t))

FairSpec == Spec /\ Fairness
-----------------------------------------------------------------------------
(***************************************************************************)
(* Properties.                                                             *)
(***************************************************************************)
Steps == {"idle", "discord", "undo", "findRole", "makeRole", "storeRole", "addRole",
          "readRole", "removeRole", "clear", "begin", "insert", "fallback", "record",
          "readPolicy", "count", "reset", "policy", "delcase", "delTimed", "lift", "expire"}

CaseRows == [type : CaseTypes, by : Sources, user : Users, until : Nat, active : BOOLEAN]
TimedRows == [user : Users, action : TimedActions, until : Nat]
SweepRows == [num : Nat, user : Users, action : TimedActions, until : Nat]
Jobs == [type : CommandTypes \cup {"none"}, by : Sources, user : Users \cup {None},
         until : Nat, num : Nat, role : Roles \cup {None}, policy : PolicyValues]

\* Every variable holds a value of its type; in particular the tables only hold
\* rows that name a member, and the sweeper only rows it can act on.
TypeOK ==
    /\ DOMAIN cases \subseteq Nat \ {0} /\ cases \in [DOMAIN cases -> CaseRows]
    /\ DOMAIN timed \subseteq Nat \ {0} /\ timed \in [DOMAIN timed -> TimedRows]
    /\ muteRole \in Roles \cup {None} /\ policy \in PolicyValues
    /\ banned \subseteq Users /\ muted \subseteq Users \X Roles
    /\ roleState \in [Roles -> {"unused", "live", "deleted"}]
    /\ clock \in Nat
    /\ pc \in [Tasks -> Steps] /\ job \in [Tasks -> Jobs] /\ stale \subseteq Tasks
    /\ sweep \in [pc : {"sleep", "pick", "lift", "clear", "close"},
                   rows : SUBSET SweepRows, row : SweepRows \cup {NoRow},
                   asked : BOOLEAN, role : Roles \cup {None}]
    /\ budget \in [commands : Nat, crashes : Nat]
    /\ banTerm \in [Users -> Nat] /\ muteTerm \in [Users -> Nat]
    /\ tainted \subseteq Nat /\ lifted \subseteq Nat

\* Case number n is the case of an infraction of this user and kind.
Names(n, user, action) ==
    /\ n \in DOMAIN cases
    /\ cases[n].user = user
    /\ cases[n].type \in TimedTypes /\ TimedAction(cases[n].type) = action

\* The sweeper and the dashboard join mod_timed to mod_cases by number alone.
\* Unless the fallback handed the number out or a moderator deleted the case,
\* the row under a number and the case under it are the same infraction.
RowMatchesCase ==
    \A n \in DOMAIN timed \ tainted : Names(n, timed[n].user, timed[n].action)

\* Only what has run its course is closed: a case that is no longer active is a
\* warn an escalation spent, or a timed infraction that expired or that the
\* dashboard lifted.  The sweeper never closes anybody else's case.  (KeepsLog below
\* says the same of the step that closes it; the proofs go from one to the other.)
ClosedOnlyWhenDue ==
    \A n \in DOMAIN cases \ tainted :
        ~cases[n].active =>
            \/ cases[n].type = "warn"
            \/ /\ cases[n].type \in TimedTypes
               /\ cases[n].until <= clock \/ n \in lifted

\* create_case: "current highest + 1.  The read and the insert run in one transaction",
\* the primary key "is the final backstop against a duplicate".  Whatever fails and
\* however commands, escalations, the dashboard and the sweeper interleave, the cases
\* are a log that is written one entry at a time.
Log == INSTANCE CaseLog WITH
    log <- cases, excused <- tainted \cup lifted, Timed <- TimedTypes
KeepsLog == Log!LogSpec

\* A task that is about to record a punishment it has already applied.
Recording(user, type) ==
    \E t \in Tasks : /\ job[t].user = user /\ job[t].type = type
                     /\ pc[t] \in {"begin", "insert", "fallback", "record"}

\* tempban: "the ban lifts automatically".  A member under a temporary ban is
\* watched: a row the sweeper will act on exists or is about to be written.
TempbanWatched ==
    \A u \in banned : banTerm[u] > 0 =>
        RowsOf(u, "ban") # {} \/ Recording(u, "tempban")

\* The same, as long as every case insert has succeeded and no case was deleted.
TempbanWatchedUntainted == tainted = {} => TempbanWatched

\* mute: the sweeper lifts the mute when the duration is over.  Whoever is muted
\* carries the role mod_config names, the only one unmute and the sweeper ever remove,
\* and has a row the sweeper watches, or a task is about to write it, as long as every
\* case insert has succeeded and no case was deleted.
MuteWatched ==
    \A m \in muted :
        /\ m[2] = muteRole
        /\ tainted = {} => (RowsOf(m[1], "mute") # {} \/ Recording(m[1], "mute"))

\* warnings set: "Auto-punish once a member reaches this many active warnings".
\* When no task is at work, nobody is left at the threshold unpunished.
WarnsSettled ==
    (policy.threshold > 0 /\ \A t \in Tasks : pc[t] = "idle") =>
        \A u \in Users : Cardinality(ActiveWarns(u)) < policy.threshold

\* mute: "Temporarily mute a member for the given duration".  The sweeper does
\* not unmute a member before the latest mute has run out.
MuteLastsItsTerm ==
    [][\A m \in muted : (SweepLift /\ m \notin muted') => muteTerm[m[1]] <= clock]_vars

\* Whatever crashes and transient failures happen, a row that is due is
\* eventually cleared (or was given more time by a later write).
DueRowsDrain ==
    \A n \in 1..(2 * MaxCommands) :
        (n \in DOMAIN timed /\ timed[n].until <= clock)
            ~> ~(n \in DOMAIN timed /\ timed[n].until <= clock)

\* "The ban lifts automatically": a temporary ban that expires within the bound
\* of the clock is eventually over, unless the case numbers got mixed up or the
\* process died, perhaps before the ban was recorded.
TempbansEnd ==
    \A u \in Users :
        (u \in banned /\ banTerm[u] \in 1..MaxTime)
            ~> \/ u \notin banned \/ banTerm[u] \notin 1..MaxTime
               \/ tainted # {} \/ budget.crashes < MaxCrashes
=============================================================================
