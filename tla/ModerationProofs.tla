-------------------------- MODULE ModerationProofs --------------------------
(***************************************************************************)
(* Theorems about Moderation, for every set of users, tasks and commands,  *)
(* every combination of faults and every bound.                            *)
(***************************************************************************)
EXTENDS WarnTally, FiniteSetTheorems, TLAPS

\* Locals a task relies on at the step it is at.
CommandSteps == {"discord", "undo", "findRole", "makeRole", "storeRole", "addRole",
                 "readRole", "removeRole", "clear", "begin", "insert", "fallback",
                 "record", "readPolicy", "count", "reset"}

JobsOK ==
    \A t \in Tasks :
        /\ pc[t] \in CommandSteps => job[t].user \in Users /\ job[t].type \in CaseTypes
        /\ pc[t] \in {"fallback", "record"} => job[t].type \in TimedTypes
        /\ pc[t] = "record" => job[t].num # 0

\* Case n is the case of this infraction and was given this expiry.
Matches(n, user, action, until) ==
    /\ Names(n, user, action)
    /\ cases[n].until = until \/ n \in lifted

\* The infraction under n has expired, or the dashboard lifted it.
Due(n) == cases[n].until <= clock \/ n \in lifted

RowsMatch ==
    \A n \in DOMAIN timed \ tainted :
        Matches(n, timed[n].user, timed[n].action, timed[n].until)

RecordsMatch ==
    \A t \in Tasks : (pc[t] = "record" /\ job[t].num \notin tainted) =>
        /\ Names(job[t].num, job[t].user, TimedAction(job[t].type))
        /\ cases[job[t].num].until = job[t].until

\* The rows the sweeper still has to deal with, the current one included.
Batch == sweep.rows \cup (IF sweep.pc \in {"lift", "clear", "close"} THEN {sweep.row} ELSE {})

BatchMatches ==
    \A row \in Batch : row.num \notin tainted =>
        /\ Names(row.num, row.user, row.action)
        /\ Due(row.num)

TypeInv == TypeOK /\ JobsOK

\* The inductive invariant: rows, tasks about to write a row, and rows the
\* sweeper carries in memory all agree with the case log.
IInv == TypeInv /\ RowsMatch /\ RecordsMatch /\ BatchMatches /\ ClosedOnlyWhenDue
-----------------------------------------------------------------------------
(***************************************************************************)
(* Facts about single operators.                                           *)
(***************************************************************************)
LEMMA ConstantJobs == NoJob \in Jobs /\ NoPolicy \in PolicyValues
  BY DEF NoJob, Jobs, NoPolicy, PolicyValues, Sources

\* A task that moves on changes its own step and locals and nobody else's.
LEMMA GotoMoves ==
    ASSUME pc \in [Tasks -> Steps], job \in [Tasks -> Jobs],
           NEW t \in Tasks, NEW next \in Steps, NEW j \in Jobs, Goto(t, next, j)
    PROVE  /\ pc' \in [Tasks -> Steps] /\ job' \in [Tasks -> Jobs]
           /\ pc'[t] = next
           /\ next # "idle" => job'[t] = j
           /\ \A s \in Tasks \ {t} : pc'[s] = pc[s] /\ job'[s] = job[s]
  BY ConstantJobs DEF Goto

LEMMA FinishMoves ==
    ASSUME pc \in [Tasks -> Steps], job \in [Tasks -> Jobs], NEW t \in Tasks, Finish(t)
    PROVE  /\ pc' \in [Tasks -> Steps] /\ job' \in [Tasks -> Jobs]
           /\ pc'[t] = "idle"
           /\ \A s \in Tasks \ {t} : pc'[s] = pc[s] /\ job'[s] = job[s]
  BY ConstantJobs DEF Goto, Finish, Steps

LEMMA FirstStepType == ASSUME NEW type \in CommandTypes PROVE FirstStep(type) \in Steps \ {"record", "fallback"}
  BY DEF FirstStep, Steps, CommandTypes, CaseTypes, TimedTypes, ReleaseTypes

LEMMA AfterCaseType ==
    ASSUME NEW j \in Jobs PROVE AfterCase(j) \in {"reset", "readPolicy", "idle"}
  BY DEF AfterCase

LEMMA AfterCreateType ==
    ASSUME NEW j \in Jobs, NEW created \in BOOLEAN
    PROVE  /\ AfterCreate(j, created) \in {"record", "fallback", "reset", "readPolicy", "idle"}
           /\ AfterCreate(j, created) \in {"record", "fallback"} => j.type \in TimedTypes
           /\ AfterCreate(j, created) = "record" => created
  BY DEF AfterCreate, AfterCase

LEMMA OutcomesAre ==
    ASSUME NEW new, NEW old, NEW x \in Outcomes(new, old) PROVE x = new \/ x = old
  BY DEF Outcomes

LEMMA UpsertIs ==
    ASSUME NEW table, NEW n, NEW row
    PROVE  /\ DOMAIN Upsert(table, n, row) = DOMAIN table \cup {n}
           /\ Upsert(table, n, row)[n] = row
           /\ \A m \in DOMAIN table \ {n} : Upsert(table, n, row)[m] = table[m]
  BY DEF Upsert

LEMMA WithoutIs ==
    ASSUME NEW table, NEW gone
    PROVE  /\ DOMAIN Without(table, gone) = DOMAIN table \ gone
           /\ \A m \in DOMAIN table \ gone : Without(table, gone)[m] = table[m]
  BY DEF Without

\* Rows added or dropped one by one keep a table well typed.
LEMMA UpsertType ==
    ASSUME NEW table, NEW Rows, DOMAIN table \subseteq Nat \ {0},
           table \in [DOMAIN table -> Rows], NEW n \in Nat \ {0}, NEW row \in Rows
    PROVE  LET new == Upsert(table, n, row) IN
           DOMAIN new \subseteq Nat \ {0} /\ new \in [DOMAIN new -> Rows]
  BY DEF Upsert

LEMMA WithoutType ==
    ASSUME NEW table, NEW Rows, DOMAIN table \subseteq Nat \ {0},
           table \in [DOMAIN table -> Rows], NEW gone
    PROVE  LET new == Without(table, gone) IN
           DOMAIN new \subseteq Nat \ {0} /\ new \in [DOMAIN new -> Rows]
  BY DEF Without

(***************************************************************************)
(* Type correctness.                                                       *)
(***************************************************************************)
LEMMA TypeInit == Init => TypeInv
  BY ConstantsAssumption, ConstantJobs
     DEF Init, TypeInv, TypeOK, JobsOK, NoJob, NoPolicy, Asleep, Steps, CommandSteps,
         PolicyValues

\* A task that takes one step, to a step whose needs its locals meet, keeps the
\* locals of all tasks in order.
JobFits(next, j) ==
    /\ next \in CommandSteps => j.user \in Users /\ j.type \in CaseTypes
    /\ next \in {"fallback", "record"} => j.type \in TimedTypes
    /\ next = "record" => j.num # 0

LEMMA GotoKeepsJobs ==
    ASSUME TypeInv, NEW t \in Tasks, NEW next \in Steps, NEW j \in Jobs,
           Goto(t, next, j), JobFits(next, j)
    PROVE  pc' \in [Tasks -> Steps] /\ job' \in [Tasks -> Jobs] /\ JobsOK'
<1>1. /\ pc' \in [Tasks -> Steps] /\ job' \in [Tasks -> Jobs]
      /\ pc'[t] = next /\ (next # "idle" => job'[t] = j)
      /\ \A s \in Tasks \ {t} : pc'[s] = pc[s] /\ job'[s] = job[s]
  BY GotoMoves DEF TypeInv, TypeOK
<1>2. "idle" \notin CommandSteps
  BY DEF CommandSteps
<1> QED
  BY <1>1, <1>2 DEF TypeInv, JobsOK, JobFits

LEMMA FinishKeepsJobs ==
    ASSUME TypeInv, NEW t \in Tasks, Finish(t)
    PROVE  pc' \in [Tasks -> Steps] /\ job' \in [Tasks -> Jobs] /\ JobsOK'
<1>1. /\ pc' \in [Tasks -> Steps] /\ job' \in [Tasks -> Jobs] /\ pc'[t] = "idle"
      /\ \A s \in Tasks \ {t} : pc'[s] = pc[s] /\ job'[s] = job[s]
  BY FinishMoves DEF TypeInv, TypeOK
<1> QED
  BY <1>1 DEF TypeInv, JobsOK, CommandSteps

LEMMA TablesTyped ==
    ASSUME TypeInv
    PROVE  /\ DOMAIN cases \subseteq Nat \ {0} /\ cases \in [DOMAIN cases -> CaseRows]
           /\ DOMAIN timed \subseteq Nat \ {0} /\ timed \in [DOMAIN timed -> TimedRows]
  BY DEF TypeInv, TypeOK

LEMMA RefuseKeepsTypes ==
    ASSUME TypeInv, NEW t \in Tasks, Refuse(t), UNCHANGED <<clock, sweep, budget>>
    PROVE  TypeInv'
<1>1. pc' \in [Tasks -> Steps] /\ job' \in [Tasks -> Jobs] /\ JobsOK'
  BY FinishKeepsJobs DEF Refuse
<1> QED
  BY <1>1 DEF Refuse, TypeInv, TypeOK, dbVars, discordVars, historyVars

\* The locals of a running command.
LEMMA JobFacts ==
    ASSUME TypeInv, NEW t \in Tasks
    PROVE  /\ job[t] \in Jobs
           /\ pc[t] \in CommandSteps => job[t].user \in Users /\ job[t].type \in CaseTypes
           /\ pc[t] \in {"fallback", "record"} => job[t].type \in TimedTypes
           /\ pc[t] = "record" => job[t].num # 0
  BY DEF TypeInv, TypeOK, JobsOK

LEMMA IssueType == ASSUME TypeInv, NEW t \in Tasks, Issue(t) PROVE TypeInv'
<1>1. PICK type \in Commands[t],
           user \in Users \cup {None}, d \in Nat, num \in Nat :
        /\ type \in CaseTypes => user \in Users
        /\ Goto(t, FirstStep(type), NewJob(t, type, user, d, num))
  BY ConstantsAssumption DEF Issue, TypeInv, TypeOK
<1> DEFINE j == NewJob(t, type, user, d, num)
<1>2. type \in CommandTypes
  BY ConstantsAssumption
<1>3. j \in Jobs /\ j.type = type /\ j.user = user
  BY <1>2, ConstantJobs DEF NewJob, Jobs, Sources, TypeInv, TypeOK
<1>4. FirstStep(type) \in Steps \ {"record", "fallback"}
  BY <1>2, FirstStepType
<1>5. FirstStep(type) \in CommandSteps => type \in CaseTypes
  BY <1>2 DEF FirstStep, CommandSteps, CommandTypes
<1>6. JobFits(FirstStep(type), j)
  BY <1>1, <1>3, <1>4, <1>5 DEF JobFits
<1>7. pc' \in [Tasks -> Steps] /\ job' \in [Tasks -> Jobs] /\ JobsOK'
  BY <1>1, <1>3, <1>4, <1>6, GotoKeepsJobs
<1>8. budget' \in [commands : Nat, crashes : Nat]
  BY DEF Issue, TypeInv, TypeOK
<1> QED
  BY <1>7, <1>8 DEF Issue, TypeInv, TypeOK, dbVars, discordVars, historyVars

LEMMA DisciplineType == ASSUME TypeInv, NEW t \in Tasks, Discipline(t) PROVE TypeInv'
<1>0. job[t] \in Jobs /\ JobFits("clear", job[t]) /\ JobFits("begin", job[t])
  BY JobFacts DEF Discipline, JobFits, CommandSteps
<1>1. CASE Refuse(t)
  BY <1>1, RefuseKeepsTypes DEF Discipline
<1>2. CASE ~Refuse(t)
  <2>1. pc' \in [Tasks -> Steps] /\ job' \in [Tasks -> Jobs] /\ JobsOK'
    BY <1>0, <1>2, GotoKeepsJobs DEF Discipline, Steps
  <2> QED
    BY <2>1, <1>2 DEF Discipline, TypeInv, TypeOK, dbVars, discordVars, historyVars
<1> QED
  BY <1>1, <1>2

LEMMA BanUserType == ASSUME TypeInv, NEW t \in Tasks, BanUser(t) PROVE TypeInv'
<1>0. /\ job[t] \in Jobs /\ job[t].user \in Users
      /\ JobFits("undo", job[t]) /\ JobFits("begin", job[t])
  BY JobFacts DEF BanUser, JobFits, CommandSteps
<1>1. CASE Refuse(t)
  BY <1>1, RefuseKeepsTypes DEF BanUser
<1>2. CASE ~Refuse(t)
  <2>1. pc' \in [Tasks -> Steps] /\ job' \in [Tasks -> Jobs] /\ JobsOK'
    BY <1>0, <1>2, GotoKeepsJobs DEF BanUser, Steps
  <2>2. banned' \subseteq Users /\ banTerm' \in [Users -> Nat]
    BY <1>0, <1>2 DEF BanUser, TypeInv, TypeOK, Jobs
  <2> QED
    BY <2>1, <2>2, <1>2 DEF BanUser, TypeInv, TypeOK, dbVars, discordVars, historyVars
<1> QED
  BY <1>1, <1>2

LEMMA UnbanUserType == ASSUME TypeInv, NEW t \in Tasks, UnbanUser(t) PROVE TypeInv'
<1>0. job[t] \in Jobs /\ JobFits("clear", job[t]) /\ JobFits("begin", job[t])
  BY JobFacts DEF UnbanUser, JobFits, CommandSteps
<1>1. CASE Refuse(t)
  BY <1>1, RefuseKeepsTypes DEF UnbanUser
<1>2. CASE ~Refuse(t)
  <2>1. pc' \in [Tasks -> Steps] /\ job' \in [Tasks -> Jobs] /\ JobsOK'
    BY <1>0, <1>2, GotoKeepsJobs, FinishKeepsJobs DEF UnbanUser, Steps
  <2> QED
    BY <2>1, <1>2 DEF UnbanUser, TypeInv, TypeOK, dbVars, discordVars, historyVars
<1> QED
  BY <1>1, <1>2

LEMMA FindMuteRoleType == ASSUME TypeInv, NEW t \in Tasks, FindMuteRole(t) PROVE TypeInv'
<1>1. /\ job[t] \in Jobs /\ [job[t] EXCEPT !.role = muteRole] \in Jobs
      /\ JobFits("makeRole", job[t])
      /\ JobFits("addRole", [job[t] EXCEPT !.role = muteRole])
  BY JobFacts DEF FindMuteRole, JobFits, CommandSteps, Jobs, TypeInv, TypeOK
<1>2. pc' \in [Tasks -> Steps] /\ job' \in [Tasks -> Jobs] /\ JobsOK'
  BY <1>1, GotoKeepsJobs DEF FindMuteRole, Steps
<1> QED
  BY <1>2 DEF FindMuteRole, TypeInv, TypeOK, dbVars, discordVars, historyVars

LEMMA CreateMuteRoleType == ASSUME TypeInv, NEW t \in Tasks, CreateMuteRole(t) PROVE TypeInv'
<1>0. job[t] \in Jobs /\ \A r \in Roles : /\ [job[t] EXCEPT !.role = r] \in Jobs
                                      /\ JobFits("storeRole", [job[t] EXCEPT !.role = r])
  BY JobFacts DEF CreateMuteRole, JobFits, CommandSteps, Jobs
<1>1. CASE Refuse(t)
  BY <1>1, RefuseKeepsTypes DEF CreateMuteRole
<1>2. CASE ~Refuse(t)
  <2>1. pc' \in [Tasks -> Steps] /\ job' \in [Tasks -> Jobs] /\ JobsOK'
    BY <1>0, <1>2, GotoKeepsJobs, FinishKeepsJobs DEF CreateMuteRole, Steps
  <2>2. roleState' \in [Roles -> {"unused", "live", "deleted"}]
    BY <1>2 DEF CreateMuteRole, TypeInv, TypeOK, discordVars
  <2> QED
    BY <2>1, <2>2, <1>2 DEF CreateMuteRole, TypeInv, TypeOK, dbVars, discordVars, historyVars
<1> QED
  BY <1>1, <1>2

LEMMA StoreMuteRoleType == ASSUME TypeInv, NEW t \in Tasks, StoreMuteRole(t) PROVE TypeInv'
<1>1. job[t] \in Jobs /\ JobFits("addRole", job[t])
  BY JobFacts DEF StoreMuteRole, JobFits, CommandSteps
<1>2. pc' \in [Tasks -> Steps] /\ job' \in [Tasks -> Jobs] /\ JobsOK'
  BY <1>1, GotoKeepsJobs DEF StoreMuteRole, Steps
<1>3. muteRole' \in Roles \cup {None} /\ stale' \subseteq Tasks
  BY <1>1, OutcomesAre DEF StoreMuteRole, Overtake, Jobs, TypeInv, TypeOK
<1> QED
  BY <1>2, <1>3 DEF StoreMuteRole, TypeInv, TypeOK, dbVars, discordVars, historyVars

LEMMA AddMuteRoleType == ASSUME TypeInv, NEW t \in Tasks, AddMuteRole(t) PROVE TypeInv'
<1>0. /\ job[t] \in Jobs /\ job[t].user \in Users /\ JobFits("begin", job[t])
  BY JobFacts DEF AddMuteRole, JobFits, CommandSteps
<1>1. CASE Refuse(t)
  BY <1>1, RefuseKeepsTypes DEF AddMuteRole
<1>2. CASE ~Refuse(t)
  <2>1. pc' \in [Tasks -> Steps] /\ job' \in [Tasks -> Jobs] /\ JobsOK'
    BY <1>0, <1>2, GotoKeepsJobs, FinishKeepsJobs DEF AddMuteRole, Steps
  <2>2. muted' \subseteq Users \X Roles /\ muteTerm' \in [Users -> Nat]
    BY <1>0, <1>2 DEF AddMuteRole, Live, TypeInv, TypeOK, Jobs, discordVars, historyVars
  <2> QED
    BY <2>1, <2>2, <1>2 DEF AddMuteRole, TypeInv, TypeOK, dbVars, discordVars, historyVars
<1> QED
  BY <1>1, <1>2

LEMMA ReadMuteRoleType == ASSUME TypeInv, NEW t \in Tasks, ReadMuteRole(t) PROVE TypeInv'
<1>1. /\ job[t] \in Jobs /\ [job[t] EXCEPT !.role = muteRole] \in Jobs
      /\ JobFits("removeRole", [job[t] EXCEPT !.role = muteRole])
  BY JobFacts DEF ReadMuteRole, JobFits, CommandSteps, Jobs, TypeInv, TypeOK
<1>2. pc' \in [Tasks -> Steps] /\ job' \in [Tasks -> Jobs] /\ JobsOK'
  BY <1>1, GotoKeepsJobs, FinishKeepsJobs DEF ReadMuteRole, Steps
<1> QED
  BY <1>2 DEF ReadMuteRole, TypeInv, TypeOK, dbVars, discordVars, historyVars

LEMMA RemoveMuteRoleType == ASSUME TypeInv, NEW t \in Tasks, RemoveMuteRole(t) PROVE TypeInv'
<1>0. job[t] \in Jobs /\ JobFits("clear", job[t])
  BY JobFacts DEF RemoveMuteRole, JobFits, CommandSteps
<1>1. CASE Refuse(t)
  BY <1>1, RefuseKeepsTypes DEF RemoveMuteRole
<1>2. CASE ~Refuse(t)
  <2>1. pc' \in [Tasks -> Steps] /\ job' \in [Tasks -> Jobs] /\ JobsOK'
    BY <1>0, <1>2, GotoKeepsJobs, FinishKeepsJobs DEF RemoveMuteRole, Steps
  <2>2. muted' \subseteq Users \X Roles
    BY <1>2 DEF RemoveMuteRole, TypeInv, TypeOK, discordVars
  <2> QED
    BY <2>1, <2>2, <1>2 DEF RemoveMuteRole, TypeInv, TypeOK, dbVars, discordVars, historyVars
<1> QED
  BY <1>1, <1>2

LEMMA ClearTimedType == ASSUME TypeInv, NEW t \in Tasks, ClearTimed(t) PROVE TypeInv'
<1>1. job[t] \in Jobs /\ JobFits("begin", job[t])
  BY JobFacts DEF ClearTimed, JobFits, CommandSteps
<1>2. pc' \in [Tasks -> Steps] /\ job' \in [Tasks -> Jobs] /\ JobsOK'
  BY <1>1, GotoKeepsJobs DEF ClearTimed, Steps
<1>3. DOMAIN timed' \subseteq Nat \ {0} /\ timed' \in [DOMAIN timed' -> TimedRows]
  <2> DEFINE gone == RowsOf(job[t].user, ReleasedAction(job[t].type))
  <2>1. timed' = Without(timed, gone) \/ timed' = timed
    BY OutcomesAre DEF ClearTimed
  <2>2. DOMAIN timed \subseteq Nat \ {0} /\ timed \in [DOMAIN timed -> TimedRows]
    BY DEF TypeInv, TypeOK
  <2>3. /\ DOMAIN Without(timed, gone) \subseteq Nat \ {0}
        /\ Without(timed, gone) \in [DOMAIN Without(timed, gone) -> TimedRows]
    <3> HIDE DEF gone
    <3> QED BY <2>2, WithoutType
  <2> QED
    BY <2>1, <2>2, <2>3
<1> QED
  BY <1>2, <1>3 DEF ClearTimed, Overtake, TypeInv, TypeOK, dbVars, discordVars, historyVars

LEMMA ReadHighestType == ASSUME TypeInv, NEW t \in Tasks, ReadHighest(t) PROVE TypeInv'
<1>1. /\ job[t] \in Jobs /\ JobFits(AfterCreate(job[t], FALSE), job[t])
      /\ AfterCreate(job[t], FALSE) \in Steps
  BY JobFacts, AfterCreateType DEF ReadHighest, JobFits, CommandSteps, Steps
<1>2. \A h \in Nat : /\ [job[t] EXCEPT !.num = h] \in Jobs
                    /\ JobFits("insert", [job[t] EXCEPT !.num = h])
  BY JobFacts DEF ReadHighest, JobFits, CommandSteps, Jobs
<1>3. pc' \in [Tasks -> Steps] /\ job' \in [Tasks -> Jobs] /\ JobsOK'
  BY <1>1, <1>2, GotoKeepsJobs DEF ReadHighest, Steps, TypeInv, TypeOK
<1> QED
  BY <1>3 DEF ReadHighest, TypeInv, TypeOK, dbVars, discordVars, historyVars

LEMMA InsertCaseType == ASSUME TypeInv, NEW t \in Tasks, InsertCase(t) PROVE TypeInv'
<1> DEFINE n == job[t].num + 1
           row == [type |-> job[t].type, by |-> job[t].by, user |-> job[t].user,
                   until |-> job[t].until, active |-> TRUE]
<1>1. job[t] \in Jobs /\ n \in Nat \ {0} /\ job[t].user \in Users /\ job[t].type \in CaseTypes
  BY JobFacts DEF InsertCase, Jobs, CommandSteps
<1>2. /\ AfterCreate(job[t], TRUE) \in Steps /\ AfterCreate(job[t], FALSE) \in Steps
      /\ [job[t] EXCEPT !.num = n] \in Jobs
      /\ JobFits(AfterCreate(job[t], TRUE), [job[t] EXCEPT !.num = n])
      /\ JobFits(AfterCreate(job[t], FALSE), job[t])
  BY <1>1, AfterCreateType DEF JobFits, Steps, Jobs
<1>3. pc' \in [Tasks -> Steps] /\ job' \in [Tasks -> Jobs] /\ JobsOK'
  BY <1>1, <1>2, GotoKeepsJobs DEF InsertCase
<1>4. row \in CaseRows
  BY <1>1 DEF CaseRows, Jobs
<1>5. cases' = Upsert(cases, n, row) \/ cases' = cases
  BY DEF InsertCase
<1>6. DOMAIN cases' \subseteq Nat \ {0} /\ cases' \in [DOMAIN cases' -> CaseRows]
  <2>1. DOMAIN cases \subseteq Nat \ {0} /\ cases \in [DOMAIN cases -> CaseRows]
    BY DEF TypeInv, TypeOK
  <2>2. /\ DOMAIN Upsert(cases, n, row) \subseteq Nat \ {0}
        /\ Upsert(cases, n, row) \in [DOMAIN Upsert(cases, n, row) -> CaseRows]
    <3> HIDE DEF n, row
    <3> QED BY <1>1, <1>4, <2>1, UpsertType
  <2> QED
    BY <1>5, <2>1, <2>2
<1>7. stale' \subseteq Tasks
  BY DEF InsertCase, Overtake, TypeInv, TypeOK
<1> QED
  BY <1>3, <1>6, <1>7 DEF InsertCase, TypeInv, TypeOK, dbVars, discordVars, historyVars

LEMMA FallbackNumberType == ASSUME TypeInv, NEW t \in Tasks, FallbackNumber(t) PROVE TypeInv'
<1>1. \A h \in Nat : /\ [job[t] EXCEPT !.num = h + 1] \in Jobs
                    /\ JobFits("record", [job[t] EXCEPT !.num = h + 1])
  BY JobFacts DEF FallbackNumber, JobFits, CommandSteps, Jobs
<1>2. PICK h \in Nat : /\ Goto(t, "record", [job[t] EXCEPT !.num = h + 1])
                      /\ tainted' = tainted \cup {h + 1}
  BY DEF FallbackNumber, TypeInv, TypeOK
<1>3. pc' \in [Tasks -> Steps] /\ job' \in [Tasks -> Jobs] /\ JobsOK'
  BY <1>1, <1>2, GotoKeepsJobs DEF Steps
<1> QED
  BY <1>2, <1>3 DEF FallbackNumber, TypeInv, TypeOK, dbVars, discordVars, historyVars

LEMMA RecordTimedType == ASSUME TypeInv, NEW t \in Tasks, RecordTimed(t) PROVE TypeInv'
<1> DEFINE row == [user |-> job[t].user, action |-> TimedAction(job[t].type),
                   until |-> job[t].until]
           num == job[t].num
<1>1. /\ job[t] \in Jobs /\ num \in Nat \ {0} /\ job[t].user \in Users
      /\ job[t].type \in TimedTypes
  BY JobFacts DEF RecordTimed, Jobs, CommandSteps
<1>2. /\ AfterCase(job[t]) \in Steps /\ JobFits(AfterCase(job[t]), job[t])
  BY <1>1, JobFacts, AfterCaseType DEF RecordTimed, JobFits, Steps, CommandSteps
<1>3. pc' \in [Tasks -> Steps] /\ job' \in [Tasks -> Jobs] /\ JobsOK'
  BY <1>1, <1>2, GotoKeepsJobs DEF RecordTimed
<1>4. row \in TimedRows
  BY <1>1 DEF TimedRows, TimedTypes, TimedAction, TimedActions, Jobs
<1>5. DOMAIN timed' \subseteq Nat \ {0} /\ timed' \in [DOMAIN timed' -> TimedRows]
  <2>1. timed' = Upsert(timed, num, row) \/ timed' = timed
    BY OutcomesAre DEF RecordTimed
  <2>2. DOMAIN timed \subseteq Nat \ {0} /\ timed \in [DOMAIN timed -> TimedRows]
    BY DEF TypeInv, TypeOK
  <2>3. /\ DOMAIN Upsert(timed, num, row) \subseteq Nat \ {0}
        /\ Upsert(timed, num, row) \in [DOMAIN Upsert(timed, num, row) -> TimedRows]
    <3> HIDE DEF num, row
    <3> QED BY <1>1, <1>4, <2>2, UpsertType
  <2> QED
    BY <2>1, <2>2, <2>3
<1> QED
  BY <1>3, <1>5 DEF RecordTimed, Overtake, TypeInv, TypeOK, dbVars, discordVars, historyVars

LEMMA ReadPolicyType == ASSUME TypeInv, NEW t \in Tasks, ReadPolicy(t) PROVE TypeInv'
<1>1. /\ [job[t] EXCEPT !.policy = policy] \in Jobs
      /\ JobFits("count", [job[t] EXCEPT !.policy = policy])
  BY JobFacts DEF ReadPolicy, JobFits, CommandSteps, Jobs, TypeInv, TypeOK
<1>2. pc' \in [Tasks -> Steps] /\ job' \in [Tasks -> Jobs] /\ JobsOK'
  BY <1>1, GotoKeepsJobs, FinishKeepsJobs DEF ReadPolicy, Steps
<1> QED
  BY <1>2 DEF ReadPolicy, TypeInv, TypeOK, dbVars, discordVars, historyVars

LEMMA CountWarnsType == ASSUME TypeInv, NEW t \in Tasks, CountWarns(t) PROVE TypeInv'
<1>1. job[t] \in Jobs /\ job[t].policy.action \in {"timeout", "kick", "ban"}
  BY JobFacts DEF Jobs, PolicyValues
<1>2. \A u \in Nat : Escalated(job[t], u) \in Jobs /\ JobFits("discord", Escalated(job[t], u))
  BY <1>1, JobFacts DEF CountWarns, Escalated, JobFits, CommandSteps, Jobs, CommandTypes,
     CaseTypes, TimedTypes, Sources
<1>3. EscalationTerms(job[t].policy.action) \subseteq Nat
  BY ConstantsAssumption DEF EscalationTerms, TypeInv, TypeOK
<1>4. Finish(t) \/ \E u \in Nat : Goto(t, "discord", Escalated(job[t], u))
  BY <1>3 DEF CountWarns
<1>5. pc' \in [Tasks -> Steps] /\ job' \in [Tasks -> Jobs] /\ JobsOK'
  BY <1>2, <1>4, GotoKeepsJobs, FinishKeepsJobs DEF Steps
<1> QED
  BY <1>5 DEF CountWarns, TypeInv, TypeOK, dbVars, discordVars, historyVars

LEMMA ResetWarnsType == ASSUME TypeInv, NEW t \in Tasks, ResetWarns(t) PROVE TypeInv'
<1>1. pc' \in [Tasks -> Steps] /\ job' \in [Tasks -> Jobs] /\ JobsOK'
  BY FinishKeepsJobs DEF ResetWarns
<1>2. DOMAIN cases' \subseteq Nat \ {0} /\ cases' \in [DOMAIN cases' -> CaseRows]
  <2> DEFINE closed == [n \in DOMAIN cases |->
                 [cases[n] EXCEPT !.active = @ /\ n \notin ActiveWarns(job[t].user)]]
  <2>1. cases' = closed \/ cases' = cases
    BY OutcomesAre DEF ResetWarns
  <2>2. ASSUME NEW n \in DOMAIN cases PROVE closed[n] \in CaseRows
    <3>1. cases[n] \in CaseRows /\ (cases[n].active /\ n \notin ActiveWarns(job[t].user)) \in BOOLEAN
      BY TablesTyped
    <3> QED
      BY <3>1 DEF CaseRows
  <2> QED
    BY <2>1, <2>2, TablesTyped
<1> QED
  BY <1>1, <1>2 DEF ResetWarns, Overtake, TypeInv, TypeOK, dbVars, discordVars, historyVars

LEMMA SetPolicyType == ASSUME TypeInv, NEW t \in Tasks, SetPolicy(t) PROVE TypeInv'
<1>1. pc' \in [Tasks -> Steps] /\ job' \in [Tasks -> Jobs] /\ JobsOK'
  BY FinishKeepsJobs DEF SetPolicy
<1>2. policy' \in PolicyValues
  BY OutcomesAre, ConstantsAssumption DEF SetPolicy, TypeInv, TypeOK
<1> QED
  BY <1>1, <1>2 DEF SetPolicy, Overtake, TypeInv, TypeOK, dbVars, discordVars, historyVars

LEMMA DeleteCaseType == ASSUME TypeInv, NEW t \in Tasks, DeleteCase(t) PROVE TypeInv'
<1>1. job[t] \in Jobs /\ JobFits("delTimed", job[t])
  BY JobFacts DEF JobFits, CommandSteps
<1>2. pc' \in [Tasks -> Steps] /\ job' \in [Tasks -> Jobs] /\ JobsOK'
  BY <1>1, GotoKeepsJobs, FinishKeepsJobs DEF DeleteCase, Steps
<1>3. DOMAIN cases' \subseteq Nat \ {0} /\ cases' \in [DOMAIN cases' -> CaseRows]
  <2>1. cases' = Without(cases, {job[t].num}) \/ cases' = cases
    BY DEF DeleteCase
  <2> QED
    BY <2>1, WithoutType, TablesTyped
<1>4. tainted' \subseteq Nat /\ stale' \subseteq Tasks
  BY <1>1 DEF DeleteCase, Overtake, Jobs, TypeInv, TypeOK
<1> QED
  BY <1>2, <1>3, <1>4 DEF DeleteCase, TypeInv, TypeOK, dbVars, discordVars, historyVars

LEMMA DeleteTimedType == ASSUME TypeInv, NEW t \in Tasks, DeleteTimed(t) PROVE TypeInv'
<1>1. pc' \in [Tasks -> Steps] /\ job' \in [Tasks -> Jobs] /\ JobsOK'
  BY FinishKeepsJobs DEF DeleteTimed
<1>2. timed' = Without(timed, {job[t].num}) \/ timed' = timed
  BY OutcomesAre DEF DeleteTimed
<1>3. DOMAIN timed' \subseteq Nat \ {0} /\ timed' \in [DOMAIN timed' -> TimedRows]
  BY <1>2, WithoutType, TablesTyped
<1> QED
  BY <1>1, <1>3 DEF DeleteTimed, Overtake, TypeInv, TypeOK, dbVars, discordVars, historyVars

LEMMA FindLiftType == ASSUME TypeInv, NEW t \in Tasks, FindLift(t) PROVE TypeInv'
<1>1. job[t] \in Jobs /\ JobFits("expire", job[t])
  BY JobFacts DEF JobFits, CommandSteps
<1>2. pc' \in [Tasks -> Steps] /\ job' \in [Tasks -> Jobs] /\ JobsOK'
  BY <1>1, GotoKeepsJobs, FinishKeepsJobs DEF FindLift, Steps
<1> QED
  BY <1>2 DEF FindLift, TypeInv, TypeOK, dbVars, discordVars, historyVars

LEMMA ExpireNowType == ASSUME TypeInv, NEW t \in Tasks, ExpireNow(t) PROVE TypeInv'
<1>1. pc' \in [Tasks -> Steps] /\ job' \in [Tasks -> Jobs] /\ JobsOK'
  BY FinishKeepsJobs DEF ExpireNow
<1>2. DOMAIN timed' \subseteq Nat \ {0} /\ timed' \in [DOMAIN timed' -> TimedRows]
  BY OutcomesAre DEF ExpireNow, TypeInv, TypeOK, TimedRows
<1>3. lifted' \subseteq Nat
  BY JobFacts DEF ExpireNow, Jobs, TypeInv, TypeOK
<1> QED
  BY <1>1, <1>2, <1>3 DEF ExpireNow, Overtake, TypeInv, TypeOK, dbVars, discordVars, historyVars

LEMMA TaskStepType == ASSUME TypeInv, NEW t \in Tasks, TaskStep(t) PROVE TypeInv'
  BY DisciplineType, BanUserType, UnbanUserType, FindMuteRoleType, CreateMuteRoleType,
     StoreMuteRoleType, AddMuteRoleType, ReadMuteRoleType, RemoveMuteRoleType,
     ClearTimedType, ReadHighestType, InsertCaseType, FallbackNumberType,
     RecordTimedType, ReadPolicyType, CountWarnsType, ResetWarnsType, SetPolicyType,
     DeleteCaseType, DeleteTimedType, FindLiftType, ExpireNowType
     DEF TaskStep

\* The sweeper never touches the tasks' locals.
LEMMA SweepKeepsJobs ==
    ASSUME TypeInv, UNCHANGED <<pc, job>>
    PROVE  pc' \in [Tasks -> Steps] /\ job' \in [Tasks -> Jobs] /\ JobsOK'
  BY DEF TypeInv, TypeOK, JobsOK

SweepValues == [pc : {"sleep", "pick", "lift", "clear", "close"}, rows : SUBSET SweepRows,
                row : SweepRows \cup {NoRow}, asked : BOOLEAN, role : Roles \cup {None}]

LEMMA NextRowType == ASSUME TypeInv PROVE Asleep \in SweepValues /\ NextRow \in SweepValues
<1>1. Asleep \in SweepValues
  BY DEF Asleep, SweepValues
<1>2. [sweep EXCEPT !.pc = "pick", !.row = NoRow] \in SweepValues
  BY DEF TypeInv, TypeOK, SweepValues
<1> QED
  BY <1>1, <1>2 DEF NextRow

LEMMA SweepScanType == ASSUME TypeInv, SweepScan PROVE TypeInv'
<1>1. Snapshot \subseteq SweepRows
  BY DEF Snapshot, SweepRows, TimedRows, TypeInv, TypeOK
<1>2. sweep' \in SweepValues
  BY <1>1 DEF SweepScan, Asleep, SweepValues, TypeInv, TypeOK
<1> QED
  BY <1>2, SweepKeepsJobs DEF SweepScan, SweepValues, taskVars, TypeInv, TypeOK, dbVars, discordVars, historyVars

LEMMA SweepPickType == ASSUME TypeInv, SweepPick PROVE TypeInv'
<1>1. sweep' \in SweepValues
  <2>1. PICK row \in sweep.rows, role \in Roles \cup {None}, asked \in BOOLEAN :
          sweep' = [pc |-> "lift", rows |-> sweep.rows \ {row}, row |-> row,
                    asked |-> asked, role |-> role]
    BY OutcomesAre DEF SweepPick, TypeInv, TypeOK
  <2> QED
    BY <2>1 DEF SweepValues, TypeInv, TypeOK
<1> QED
  BY <1>1, SweepKeepsJobs DEF SweepPick, SweepValues, taskVars, TypeInv, TypeOK, dbVars, discordVars, historyVars

LEMMA SweepLiftType == ASSUME TypeInv, SweepLift PROVE TypeInv'
<1>1. banned' \subseteq Users /\ muted' \subseteq Users \X Roles
  BY DEF SweepLift, TypeInv, TypeOK
<1>2. sweep' \in SweepValues
  BY DEF SweepLift, SweepValues, TypeInv, TypeOK
<1> QED
  BY <1>1, <1>2, SweepKeepsJobs DEF SweepLift, SweepValues, taskVars, TypeInv, TypeOK, dbVars, discordVars, historyVars

LEMMA SweepRetryType == ASSUME TypeInv, SweepRetry PROVE TypeInv'
BY NextRowType, SweepKeepsJobs DEF SweepRetry, SweepValues, taskVars, TypeInv, TypeOK, dbVars, discordVars, historyVars

LEMMA SweepGiveUpType == ASSUME TypeInv, SweepGiveUp PROVE TypeInv'
<1>1. sweep' \in SweepValues
  BY DEF SweepGiveUp, SweepValues, TypeInv, TypeOK
<1> QED
  BY <1>1, SweepKeepsJobs DEF SweepGiveUp, SweepValues, taskVars, TypeInv, TypeOK, dbVars, discordVars, historyVars

LEMMA SweepClearType == ASSUME TypeInv, SweepClear PROVE TypeInv'
<1>1. sweep' \in SweepValues
  BY DEF SweepClear, SweepValues, TypeInv, TypeOK
<1>2. timed' = Without(timed, {sweep.row.num}) \/ timed' = timed
  BY OutcomesAre DEF SweepClear
<1>3. DOMAIN timed' \subseteq Nat \ {0} /\ timed' \in [DOMAIN timed' -> TimedRows]
  BY <1>2, WithoutType, TablesTyped
<1> QED
  BY <1>1, <1>3, SweepKeepsJobs DEF SweepClear, SweepValues, taskVars, TypeInv, TypeOK, dbVars, discordVars, historyVars

LEMMA SweepCloseType == ASSUME TypeInv, SweepClose PROVE TypeInv'
<1>1. DOMAIN cases' \subseteq Nat \ {0} /\ cases' \in [DOMAIN cases' -> CaseRows]
  <2> DEFINE closed == [n \in DOMAIN cases |->
                 [cases[n] EXCEPT !.active = @ /\ n # sweep.row.num]]
  <2>1. cases' = closed \/ cases' = cases
    BY OutcomesAre DEF SweepClose
  <2>2. ASSUME NEW n \in DOMAIN cases PROVE closed[n] \in CaseRows
    <3>1. cases[n] \in CaseRows /\ (cases[n].active /\ n # sweep.row.num) \in BOOLEAN
      BY TablesTyped
    <3> QED
      BY <3>1 DEF CaseRows
  <2> QED
    BY <2>1, <2>2, TablesTyped
<1>2. sweep' \in SweepValues
  BY NextRowType DEF SweepClose
<1> QED
  BY <1>1, <1>2, SweepKeepsJobs DEF SweepClose, SweepValues, taskVars, TypeInv, TypeOK, dbVars, discordVars, historyVars

LEMMA EnvironmentType == ASSUME TypeInv, Tick \/ Crash \/ DeleteRole PROVE TypeInv'
<1>1. CASE Tick
  BY <1>1, SweepKeepsJobs DEF Tick, taskVars, TypeInv, TypeOK, dbVars, discordVars, historyVars
<1>2. CASE Crash
  <2>1. pc' \in [Tasks -> Steps] /\ job' \in [Tasks -> Jobs] /\ JobsOK'
    BY <1>2, ConstantJobs DEF Crash, JobsOK, Steps, CommandSteps
  <2>2. budget' \in [commands : Nat, crashes : Nat]
    BY <1>2 DEF Crash, TypeInv, TypeOK
  <2> QED
    BY <1>2, <2>1, <2>2, NextRowType DEF Crash, SweepValues, TypeInv, TypeOK, dbVars, discordVars, historyVars
<1>3. CASE DeleteRole
  <2>1. /\ roleState' \in [Roles -> {"unused", "live", "deleted"}]
        /\ muted' \subseteq Users \X Roles
    BY <1>3 DEF DeleteRole, TypeInv, TypeOK
  <2> QED
    BY <1>3, <2>1, SweepKeepsJobs DEF DeleteRole, taskVars, TypeInv, TypeOK, dbVars, discordVars, historyVars
<1> QED
  BY <1>1, <1>2, <1>3

LEMMA TypeStep == TypeInv /\ [Next]_vars => TypeInv'
<1> SUFFICES ASSUME TypeInv, [Next]_vars PROVE TypeInv'
  OBVIOUS
<1>1. ASSUME NEW t \in Tasks, Issue(t) PROVE TypeInv'
  BY <1>1, IssueType
<1>2. ASSUME NEW t \in Tasks, TaskStep(t) PROVE TypeInv'
  BY <1>2, TaskStepType
<1>3. CASE SweepStep
  BY <1>3, SweepScanType, SweepPickType, SweepLiftType, SweepRetryType,
     SweepGiveUpType, SweepClearType, SweepCloseType DEF SweepStep
<1>4. CASE Tick \/ Crash \/ DeleteRole
  BY <1>4, EnvironmentType
<1>5. CASE UNCHANGED vars
  BY <1>5, SweepKeepsJobs DEF vars, taskVars, TypeInv, TypeOK, dbVars, discordVars, historyVars
<1> QED
  BY <1>1, <1>2, <1>3, <1>4, <1>5 DEF Next

\* Every variable keeps its type, whatever the interleaving and the faults: the
\* tables hold only rows the code can act on.
THEOREM TypeCorrect == Spec => []TypeOK
<1>1. Init => TypeInv
  BY TypeInit
<1>2. TypeInv /\ [Next]_vars => TypeInv'
  BY TypeStep
<1>3. TypeInv => TypeOK
  BY DEF TypeInv
<1> QED
  BY <1>1, <1>2, <1>3, PTL DEF Spec
-----------------------------------------------------------------------------
(***************************************************************************)
(* The case log and the timed rows agree.                                  *)
(***************************************************************************)
\* What every step leaves alone: an untainted case keeps its identity, and what
\* is due, tainted or lifted stays so.
Keeps ==
    /\ tainted \subseteq tainted' /\ lifted \subseteq lifted' /\ clock <= clock'
    /\ \A n \in DOMAIN cases \ tainted' :
         /\ n \in DOMAIN cases'
         /\ cases'[n].type = cases[n].type
         /\ cases'[n].user = cases[n].user
         /\ cases'[n].until = cases[n].until

\* The steps of a task that write neither mod_cases nor mod_timed.
QuietStep(t) ==
    \/ Discipline(t) \/ BanUser(t) \/ UnbanUser(t) \/ FindMuteRole(t) \/ CreateMuteRole(t)
    \/ StoreMuteRole(t) \/ AddMuteRole(t) \/ ReadMuteRole(t) \/ RemoveMuteRole(t)
    \/ ReadHighest(t) \/ ReadPolicy(t) \/ CountWarns(t) \/ SetPolicy(t) \/ FindLift(t)

LEMMA QuietIsQuiet ==
    ASSUME NEW t \in Tasks, QuietStep(t)
    PROVE  UNCHANGED <<cases, timed, tainted, lifted, clock, sweep>>
  BY DEF QuietStep, Discipline, BanUser, UnbanUser, FindMuteRole, CreateMuteRole, StoreMuteRole,
     AddMuteRole, ReadMuteRole, RemoveMuteRole, ReadHighest, ReadPolicy, CountWarns,
     SetPolicy, FindLift, Refuse, dbVars, historyVars

\* A task that goes anywhere but to "record" leaves the recording tasks alone.
RecordsOnlyAsBefore ==
    \A s \in Tasks : pc'[s] = "record" => pc[s] = "record" /\ job'[s] = job[s]

LEMMA GoesElsewhere ==
    ASSUME TypeInv, NEW t \in Tasks, NEW next, NEW j, next # "record",
           Goto(t, next, j) \/ Finish(t)
    PROVE  RecordsOnlyAsBefore
  BY DEF Goto, Finish, RecordsOnlyAsBefore, TypeInv, TypeOK

LEMMA QuietRecordsNothing ==
    ASSUME TypeInv, NEW t \in Tasks, QuietStep(t) \/ Issue(t)
    PROVE  RecordsOnlyAsBefore
<1>1. CASE Issue(t)
  <2>1. PICK type \in CommandTypes : \E j : Goto(t, FirstStep(type), j)
    BY <1>1, ConstantsAssumption DEF Issue
  <2>2. PICK j : Goto(t, FirstStep(type), j)
    BY <2>1
  <2> QED
    BY <2>2, FirstStepType, GoesElsewhere
<1>2. CASE Discipline(t) \/ BanUser(t) \/ UnbanUser(t)
  BY <1>2, GoesElsewhere DEF Discipline, BanUser, UnbanUser, Refuse
<1>3. CASE FindMuteRole(t) \/ CreateMuteRole(t) \/ StoreMuteRole(t) \/ AddMuteRole(t)
  BY <1>3, GoesElsewhere DEF FindMuteRole, CreateMuteRole, StoreMuteRole, AddMuteRole, Refuse
<1>4. CASE ReadMuteRole(t) \/ RemoveMuteRole(t)
  BY <1>4, GoesElsewhere DEF ReadMuteRole, RemoveMuteRole, Refuse
<1>5. CASE ReadHighest(t)
  <2>1. AfterCreate(job[t], FALSE) # "record"
    BY AfterCreateType, JobFacts
  <2> QED
    BY <1>5, <2>1, GoesElsewhere DEF ReadHighest
<1>6. CASE ReadPolicy(t) \/ CountWarns(t) \/ SetPolicy(t) \/ FindLift(t)
  BY <1>6, GoesElsewhere DEF ReadPolicy, CountWarns, SetPolicy, FindLift
<1> QED
  BY <1>1, <1>2, <1>3, <1>4, <1>5, <1>6 DEF QuietStep

LEMMA NextKeeps == ASSUME TypeInv, [Next]_vars PROVE Keeps
<1> USE DEF Keeps
<1>1. ASSUME UNCHANGED cases, tainted \subseteq tainted', lifted \subseteq lifted', clock <= clock'
      PROVE  Keeps
  BY <1>1
<1>2. clock \in Nat
  BY DEF TypeInv, TypeOK
<1>3. ASSUME NEW t \in Tasks, Issue(t) \/ QuietStep(t) PROVE Keeps
  <2>1. UNCHANGED <<cases, tainted, lifted, clock>>
    BY <1>3, QuietIsQuiet DEF Issue, dbVars, historyVars
  <2> QED
    BY <2>1, <1>1, <1>2
<1>4. ASSUME NEW t \in Tasks,
             ClearTimed(t) \/ FallbackNumber(t) \/ RecordTimed(t) \/ DeleteTimed(t) \/ ExpireNow(t)
      PROVE  Keeps
  <2>1. UNCHANGED <<cases, clock>>
    BY <1>4 DEF ClearTimed, FallbackNumber, RecordTimed, DeleteTimed, ExpireNow, dbVars
  <2>2. tainted \subseteq tainted' /\ lifted \subseteq lifted'
    BY <1>4 DEF ClearTimed, FallbackNumber, RecordTimed, DeleteTimed, ExpireNow, historyVars
  <2> QED
    BY <2>1, <2>2, <1>1, <1>2
<1>5. ASSUME NEW t \in Tasks, InsertCase(t) PROVE Keeps
  <2>1. UNCHANGED <<tainted, lifted, clock>>
    BY <1>5 DEF InsertCase, historyVars
  <2>2. CASE UNCHANGED cases
    BY <2>1, <2>2, <1>1, <1>2
  <2>3. CASE ~UNCHANGED cases
    <3>1. PICK n, row : cases' = Upsert(cases, n, row) /\ n \notin DOMAIN cases
      BY <1>5, <2>3 DEF InsertCase
    <3>2. /\ DOMAIN cases \subseteq DOMAIN cases'
          /\ \A m \in DOMAIN cases : cases'[m] = cases[m]
      BY <3>1 DEF Upsert
    <3> QED
      BY <2>1, <3>2, <1>2
  <2> QED
    BY <2>2, <2>3
<1>6. ASSUME NEW t \in Tasks, ResetWarns(t) PROVE Keeps
  <2>1. UNCHANGED <<tainted, lifted, clock>>
    BY <1>6 DEF ResetWarns, historyVars
  <2>2. UNCHANGED cases \/ cases' = [n \in DOMAIN cases |->
            [cases[n] EXCEPT !.active = @ /\ n \notin ActiveWarns(job[t].user)]]
    BY <1>6, OutcomesAre DEF ResetWarns
  <2> QED
    BY <1>2, <2>1, <2>2, TablesTyped DEF CaseRows
<1>7. ASSUME NEW t \in Tasks, DeleteCase(t) PROVE Keeps
  <2>1. UNCHANGED <<lifted, clock>> /\ tainted \subseteq tainted'
    BY <1>7 DEF DeleteCase, historyVars
  <2>2. CASE UNCHANGED cases
    BY <2>1, <2>2, <1>1, <1>2
  <2>3. CASE ~UNCHANGED cases
    <3> DEFINE gone == {job[t].num}
    <3>1. cases' = Without(cases, gone) /\ gone \subseteq tainted'
      BY <1>7, <2>3 DEF DeleteCase
    <3> HIDE DEF gone
    <3>2. /\ DOMAIN cases' = DOMAIN cases \ gone
          /\ \A m \in DOMAIN cases \ gone : cases'[m] = cases[m]
      BY <3>1, WithoutIs
    <3> QED
      BY <2>1, <3>1, <3>2, <1>2
  <2> QED
    BY <2>2, <2>3
<1>8. CASE SweepClose
  <2>1. UNCHANGED <<tainted, lifted, clock>>
    BY <1>8 DEF SweepClose, historyVars
  <2>2. UNCHANGED cases \/ cases' = [n \in DOMAIN cases |->
            [cases[n] EXCEPT !.active = @ /\ n # sweep.row.num]]
    BY <1>8, OutcomesAre DEF SweepClose
  <2> QED
    BY <1>2, <2>1, <2>2, TablesTyped DEF CaseRows
<1>9. CASE SweepScan \/ SweepPick \/ SweepLift \/ SweepRetry \/ SweepGiveUp \/ SweepClear
  <2>1. UNCHANGED <<cases, tainted, lifted, clock>>
    BY <1>9 DEF SweepScan, SweepPick, SweepLift, SweepRetry, SweepGiveUp, SweepClear,
       dbVars, historyVars
  <2> QED
    BY <2>1, <1>1, <1>2
<1>10. CASE Tick \/ Crash \/ DeleteRole \/ UNCHANGED vars
  BY <1>1, <1>2, <1>10 DEF Tick, Crash, DeleteRole, vars, dbVars, historyVars
<1> QED
  BY <1>3, <1>4, <1>5, <1>6, <1>7, <1>8, <1>9, <1>10 DEF Next, TaskStep, QuietStep, SweepStep

LEMMA NamesKept ==
    ASSUME TypeInv, Keeps, NEW n, n \notin tainted', NEW user, NEW action, Names(n, user, action)
    PROVE  Names(n, user, action)' /\ cases'[n].until = cases[n].until
  BY DEF Keeps, Names

LEMMA DueKept ==
    ASSUME TypeInv, TypeInv', Keeps, NEW n \in DOMAIN cases, n \notin tainted', Due(n)
    PROVE  Due(n)'
<1>1. cases[n].until \in Nat /\ clock \in Nat /\ clock' \in Nat
  BY TablesTyped DEF TypeInv, TypeOK, CaseRows
<1> QED
  BY <1>1 DEF Keeps, Due

\* A row of mod_timed is an old row, an old row the dashboard brought forward,
\* or the row a task was about to record.
RowsFromBefore ==
    \A n \in DOMAIN timed' \ tainted' :
        \/ n \in DOMAIN timed /\ timed'[n] = timed[n]
        \/ /\ n \in DOMAIN timed /\ n \in lifted'
           /\ timed'[n].user = timed[n].user /\ timed'[n].action = timed[n].action
        \/ \E t \in Tasks :
             /\ pc[t] = "record" /\ job[t].num = n
             /\ timed'[n].user = job[t].user
             /\ timed'[n].action = TimedAction(job[t].type)
             /\ timed'[n].until = job[t].until

LEMMA RowsStep == ASSUME TypeInv, [Next]_vars PROVE RowsFromBefore
<1>1. ASSUME UNCHANGED timed PROVE RowsFromBefore
  BY <1>1 DEF RowsFromBefore
<1>2. ASSUME NEW gone, timed' = Without(timed, gone) PROVE RowsFromBefore
  BY <1>2 DEF RowsFromBefore, Without
<1>3. ASSUME NEW t \in Tasks, RecordTimed(t) PROVE RowsFromBefore
  <2> DEFINE n == job[t].num
             row == [user |-> job[t].user, action |-> TimedAction(job[t].type),
                     until |-> job[t].until]
  <2>1. timed' = Upsert(timed, n, row) \/ timed' = timed
    BY <1>3, OutcomesAre DEF RecordTimed
  <2>2. /\ pc[t] = "record" /\ row.user = job[t].user
        /\ row.action = TimedAction(job[t].type) /\ row.until = job[t].until
    BY <1>3 DEF RecordTimed
  <2>3. CASE timed' = Upsert(timed, n, row)
    <3>1. ASSUME NEW m \in DOMAIN timed'
          PROVE  (m \in DOMAIN timed /\ timed'[m] = timed[m]) \/ (m = n /\ timed'[m] = row)
      BY <2>3, <3>1 DEF Upsert
    <3> HIDE DEF row
    <3> QED
      BY <2>2, <3>1 DEF RowsFromBefore
  <2> QED
    BY <1>1, <2>1, <2>3
<1>4. ASSUME NEW t \in Tasks, ClearTimed(t) \/ DeleteTimed(t) PROVE RowsFromBefore
  <2>1. \/ timed' = timed
        \/ timed' = Without(timed, RowsOf(job[t].user, ReleasedAction(job[t].type)))
        \/ timed' = Without(timed, {job[t].num})
    BY <1>4, OutcomesAre DEF ClearTimed, DeleteTimed
  <2> QED
    BY <2>1, <1>1, <1>2
<1>5. ASSUME NEW t \in Tasks, ExpireNow(t) PROVE RowsFromBefore
  <2>1. timed' = timed \/ timed' = [n \in DOMAIN timed |->
           IF n = job[t].num THEN [timed[n] EXCEPT !.until = clock] ELSE timed[n]]
    BY <1>5, OutcomesAre DEF ExpireNow
  <2>2. job[t].num \in lifted'
    BY <1>5 DEF ExpireNow
  <2> QED
    BY <2>1, <2>2, <1>1, TablesTyped DEF RowsFromBefore, TimedRows
<1>6. ASSUME NEW t \in Tasks,
             Issue(t) \/ QuietStep(t) \/ InsertCase(t) \/ FallbackNumber(t)
             \/ ResetWarns(t) \/ DeleteCase(t)
      PROVE  RowsFromBefore
  <2>1. UNCHANGED timed
    BY <1>6, QuietIsQuiet DEF Issue, InsertCase, FallbackNumber, ResetWarns, DeleteCase, dbVars
  <2> QED
    BY <2>1, <1>1
<1>7. CASE SweepClear
  <2>1. timed' = Without(timed, {sweep.row.num}) \/ timed' = timed
    BY <1>7, OutcomesAre DEF SweepClear
  <2> QED
    BY <2>1, <1>1, <1>2
<1>8. CASE \/ SweepScan \/ SweepPick \/ SweepLift \/ SweepRetry \/ SweepGiveUp \/ SweepClose
           \/ Tick \/ Crash \/ DeleteRole \/ UNCHANGED vars
  <2>1. UNCHANGED timed
    BY <1>8 DEF SweepScan, SweepPick, SweepLift, SweepRetry, SweepGiveUp, SweepClose,
       Tick, Crash, DeleteRole, vars, dbVars
  <2> QED
    BY <2>1, <1>1
<1> QED
  BY <1>3, <1>4, <1>5, <1>6, <1>7, <1>8 DEF Next, TaskStep, QuietStep, SweepStep

LEMMA RowsKept == ASSUME IInv, TypeInv', Keeps, RowsFromBefore PROVE RowsMatch'
<1> SUFFICES ASSUME NEW n \in DOMAIN timed', n \notin tainted'
             PROVE  Matches(n, timed[n].user, timed[n].action, timed[n].until)'
  BY DEF RowsMatch
<1>0. n \notin tainted /\ TypeInv
  BY DEF Keeps, IInv
<1>1. CASE n \in DOMAIN timed /\ timed'[n].user = timed[n].user
           /\ timed'[n].action = timed[n].action
           /\ (timed'[n] = timed[n] \/ n \in lifted')
  <2>1. /\ Names(n, timed[n].user, timed[n].action)
        /\ cases[n].until = timed[n].until \/ n \in lifted
    BY <1>0, <1>1 DEF IInv, RowsMatch, Matches
  <2>2. Names(n, timed[n].user, timed[n].action)' /\ cases'[n].until = cases[n].until
    BY <2>1, <1>0, <1>1, NamesKept DEF Names
  <2> QED
    BY <2>1, <2>2, <1>1 DEF Matches, Keeps
<1>2. ASSUME NEW t \in Tasks, pc[t] = "record", job[t].num = n,
             timed'[n].user = job[t].user,
             timed'[n].action = TimedAction(job[t].type),
             timed'[n].until = job[t].until
      PROVE  Matches(n, timed[n].user, timed[n].action, timed[n].until)'
  <2>1. /\ Names(n, job[t].user, TimedAction(job[t].type))
        /\ cases[n].until = job[t].until
    BY <1>0, <1>2 DEF IInv, RecordsMatch
  <2>2. /\ n \in DOMAIN cases' /\ cases'[n].user = timed'[n].user
        /\ cases'[n].type \in TimedTypes
        /\ TimedAction(cases'[n].type) = timed'[n].action
        /\ cases'[n].until = timed'[n].until
    BY <2>1, <1>2 DEF Names, Keeps
  <2> QED
    BY <2>2 DEF Matches, Names
<1> QED
  BY <1>1, <1>2 DEF RowsFromBefore

-----------------------------------------------------------------------------
(* Tasks about to record: the number comes from InsertCase or the fallback.  *)
RecordsFromBefore ==
    \A s \in Tasks : pc'[s] = "record" =>
        \/ pc[s] = "record" /\ job'[s] = job[s]
        \/ job'[s].num \in tainted'
        \/ /\ Names(job[s].num, job[s].user, TimedAction(job[s].type))'
           /\ cases'[job'[s].num].until = job'[s].until

LEMMA InsertedRecord ==
    ASSUME TypeInv, NEW t \in Tasks, InsertCase(t) PROVE RecordsFromBefore
<1> DEFINE n == job[t].num + 1
           new == [job[t] EXCEPT !.num = n]
           row == [type |-> job[t].type, by |-> job[t].by, user |-> job[t].user,
                   until |-> job[t].until, active |-> TRUE]
<1>1. job[t] \in Jobs
  BY JobFacts
<1>2. CASE Goto(t, AfterCreate(job[t], FALSE), job[t])
  <2>1. AfterCreate(job[t], FALSE) # "record"
    BY <1>1, AfterCreateType
  <2> QED
    BY <1>2, <2>1, GoesElsewhere DEF RecordsOnlyAsBefore, RecordsFromBefore
<1>3. CASE cases' = Upsert(cases, n, row) /\ Goto(t, AfterCreate(job[t], TRUE), new)
  <2>1. /\ new \in Jobs /\ new.num = n /\ new.user = job[t].user
        /\ new.type = job[t].type /\ new.until = job[t].until
    BY <1>1 DEF Jobs
  <2>2. AfterCreate(job[t], TRUE) \in Steps
    BY <1>1, AfterCreateType DEF Steps
  <2>3. /\ pc'[t] = AfterCreate(job[t], TRUE)
        /\ AfterCreate(job[t], TRUE) # "idle" => job'[t] = new
        /\ \A s \in Tasks \ {t} : pc'[s] = pc[s] /\ job'[s] = job[s]
    <3> DEFINE next == AfterCreate(job[t], TRUE)
    <3>1. Goto(t, next, new) /\ new \in Jobs /\ next \in Steps
      BY <1>3, <2>1, <2>2
    <3>2. pc \in [Tasks -> Steps] /\ job \in [Tasks -> Jobs]
      BY DEF TypeInv, TypeOK
    <3> HIDE DEF new, next
    <3>3. /\ pc'[t] = next /\ (next # "idle" => job'[t] = new)
          /\ \A s \in Tasks \ {t} : pc'[s] = pc[s] /\ job'[s] = job[s]
      BY <3>1, <3>2, GotoMoves
    <3> QED
      BY <3>3 DEF next
  <2>4. n \in DOMAIN cases' /\ cases'[n] = row
    BY <1>3 DEF Upsert
  <2>5. ASSUME pc'[t] = "record"
        PROVE  /\ Names(job[t].num, job[t].user, TimedAction(job[t].type))'
               /\ cases'[job'[t].num].until = job'[t].until
    <3>1. job[t].type \in TimedTypes
      BY <2>3, <2>5, <1>1, AfterCreateType
    <3>2. /\ job'[t].num = n /\ job'[t].user = job[t].user
          /\ job'[t].type = job[t].type /\ job'[t].until = job[t].until
      BY <2>1, <2>3, <2>5
    <3>3. /\ cases'[n].user = job[t].user /\ cases'[n].type = job[t].type
          /\ cases'[n].until = job[t].until
      BY <2>4
    <3> HIDE DEF n, row, new
    <3> QED
      BY <2>4, <3>1, <3>2, <3>3 DEF Names
  <2> QED
    BY <2>3, <2>5 DEF RecordsFromBefore
<1> QED
  BY <1>2, <1>3 DEF InsertCase

LEMMA FallbackRecord ==
    ASSUME TypeInv, NEW t \in Tasks, FallbackNumber(t) PROVE RecordsFromBefore
<1>1. PICK h \in Nat : /\ Goto(t, "record", [job[t] EXCEPT !.num = h + 1])
                      /\ tainted' = tainted \cup {h + 1}
  BY DEF FallbackNumber, TypeInv, TypeOK
<1>2. [job[t] EXCEPT !.num = h + 1] \in Jobs /\ [job[t] EXCEPT !.num = h + 1].num = h + 1
  BY JobFacts DEF Jobs
<1>3. /\ job'[t] = [job[t] EXCEPT !.num = h + 1]
      /\ \A s \in Tasks \ {t} : pc'[s] = pc[s] /\ job'[s] = job[s]
  BY <1>1, <1>2, GotoMoves DEF TypeInv, TypeOK, Steps
<1> QED
  BY <1>1, <1>2, <1>3 DEF RecordsFromBefore

LEMMA RecordsStep == ASSUME TypeInv, [Next]_vars PROVE RecordsFromBefore
<1>1. ASSUME RecordsOnlyAsBefore PROVE RecordsFromBefore
  BY <1>1 DEF RecordsOnlyAsBefore, RecordsFromBefore
<1>2. ASSUME NEW t \in Tasks, Issue(t) \/ QuietStep(t) PROVE RecordsFromBefore
  BY <1>2, <1>1, QuietRecordsNothing
<1>3. ASSUME NEW t \in Tasks,
             ClearTimed(t) \/ ResetWarns(t) \/ DeleteCase(t) \/ DeleteTimed(t) \/ ExpireNow(t)
      PROVE  RecordsFromBefore
  <2>1. Finish(t) \/ \E next \in {"begin", "delTimed"} : \E j : Goto(t, next, j)
    BY <1>3 DEF ClearTimed, ResetWarns, DeleteCase, DeleteTimed, ExpireNow
  <2> QED
    BY <2>1, <1>1, GoesElsewhere
<1>4. ASSUME NEW t \in Tasks, RecordTimed(t) PROVE RecordsFromBefore
  <2>1. Goto(t, AfterCase(job[t]), job[t]) /\ AfterCase(job[t]) # "record"
    BY <1>4, AfterCaseType, JobFacts DEF RecordTimed
  <2> QED
    BY <2>1, <1>1, GoesElsewhere
<1>5. CASE SweepStep \/ Tick \/ DeleteRole \/ UNCHANGED vars
  <2>1. UNCHANGED <<pc, job>>
    BY <1>5 DEF SweepStep, SweepScan, SweepPick, SweepLift, SweepRetry, SweepGiveUp, SweepClear,
       SweepClose, Tick, DeleteRole, vars, taskVars
  <2> QED
    BY <2>1, <1>1 DEF RecordsOnlyAsBefore
<1>6. CASE Crash
  BY <1>6, <1>1 DEF Crash, RecordsOnlyAsBefore
<1> QED
  BY <1>2, <1>3, <1>4, <1>5, <1>6, InsertedRecord, FallbackRecord
     DEF Next, TaskStep, QuietStep

LEMMA RecordsKept == ASSUME IInv, TypeInv', Keeps, RecordsFromBefore PROVE RecordsMatch'
<1> SUFFICES ASSUME NEW s \in Tasks, pc'[s] = "record", job'[s].num \notin tainted'
             PROVE  /\ Names(job[s].num, job[s].user, TimedAction(job[s].type))'
                    /\ cases'[job'[s].num].until = job'[s].until
  BY DEF RecordsMatch
<1>1. CASE pc[s] = "record" /\ job'[s] = job[s]
  <2>1. /\ Names(job[s].num, job[s].user, TimedAction(job[s].type))
        /\ cases[job[s].num].until = job[s].until
    BY <1>1 DEF IInv, RecordsMatch, Keeps
  <2> QED
    BY <1>1, <2>1 DEF Names, Keeps
<1> QED
  BY <1>1 DEF RecordsFromBefore

-----------------------------------------------------------------------------
(* The sweeper's batch: what it holds was expired when it was read.          *)
BatchFromBefore ==
    \A row \in Batch' :
        \/ row \in Batch
        \/ /\ row.num \in DOMAIN timed /\ row.user = timed[row.num].user
           /\ row.action = timed[row.num].action /\ timed[row.num].until <= clock

LEMMA NextRowBatch ==
    ASSUME TypeInv, sweep' = NextRow PROVE BatchFromBefore
<1>1. CASE sweep.rows = {}
  BY <1>1 DEF NextRow, Batch, BatchFromBefore, Asleep
<1>2. CASE sweep.rows # {}
  <2>1. sweep'.rows = sweep.rows /\ sweep'.pc = "pick"
    BY <1>2 DEF NextRow, TypeInv, TypeOK
  <2> QED
    BY <2>1 DEF Batch, BatchFromBefore
<1> QED
  BY <1>1, <1>2

LEMMA BatchStep == ASSUME TypeInv, [Next]_vars PROVE BatchFromBefore
<1>1. ASSUME UNCHANGED sweep PROVE BatchFromBefore
  BY <1>1 DEF BatchFromBefore, Batch
<1>2. ASSUME NEW t \in Tasks, Issue(t) \/ TaskStep(t) PROVE BatchFromBefore
  <2>1. CASE Issue(t) \/ QuietStep(t)
    BY <2>1, <1>1, QuietIsQuiet DEF Issue
  <2>2. CASE ~(Issue(t) \/ QuietStep(t))
    BY <1>2, <2>2, <1>1 DEF TaskStep, QuietStep, ClearTimed, InsertCase, FallbackNumber, RecordTimed,
       ResetWarns, DeleteCase, DeleteTimed, ExpireNow
  <2> QED
    BY <2>1, <2>2
<1>3. CASE SweepScan
  <2>1. sweep' = sweep \/ (sweep'.rows = Snapshot /\ sweep'.pc = "pick")
    BY <1>3 DEF SweepScan, Asleep
  <2>2. CASE sweep'.rows = Snapshot /\ sweep'.pc = "pick"
    <3>1. Batch' = Snapshot
      BY <2>2 DEF Batch
    <3>2. ASSUME NEW row \in Snapshot
          PROVE  /\ row.num \in DOMAIN timed /\ row.user = timed[row.num].user
                 /\ row.action = timed[row.num].action /\ timed[row.num].until <= clock
      BY <3>2 DEF Snapshot
    <3> QED
      BY <3>1, <3>2 DEF BatchFromBefore
  <2> QED
    BY <2>1, <2>2, <1>1
<1>4. CASE SweepPick
  <2>1. PICK row \in sweep.rows : sweep'.rows = sweep.rows \ {row} /\ sweep'.row = row
    BY <1>4 DEF SweepPick
  <2> QED
    BY <2>1 DEF Batch, BatchFromBefore
<1>5. CASE SweepLift \/ SweepGiveUp \/ SweepClear
  <2>1. /\ sweep.pc \in {"lift", "clear"}
        /\ sweep'.rows = sweep.rows /\ sweep'.row = sweep.row
    BY <1>5 DEF SweepLift, SweepGiveUp, SweepClear, TypeInv, TypeOK
  <2> QED
    BY <2>1 DEF Batch, BatchFromBefore
<1>6. CASE SweepRetry \/ SweepClose
  BY <1>6, NextRowBatch DEF SweepRetry, SweepClose
<1>7. CASE Crash
  BY <1>7 DEF Crash, Asleep, Batch, BatchFromBefore
<1>8. CASE Tick \/ DeleteRole \/ UNCHANGED vars
  BY <1>8, <1>1 DEF Tick, DeleteRole, vars
<1> QED
  BY <1>2, <1>3, <1>4, <1>5, <1>6, <1>7, <1>8 DEF Next, SweepStep

LEMMA BatchKept == ASSUME IInv, TypeInv', Keeps, BatchFromBefore PROVE BatchMatches'
<1> SUFFICES ASSUME NEW row \in Batch', row.num \notin tainted'
             PROVE  Names(row.num, row.user, row.action)' /\ Due(row.num)'
  BY DEF BatchMatches
<1>0. row.num \notin tainted /\ TypeInv
  BY DEF Keeps, IInv
<1>1. Names(row.num, row.user, row.action) /\ Due(row.num)
  <2>1. CASE row \in Batch
    BY <1>0, <2>1 DEF IInv, BatchMatches
  <2>2. CASE /\ row.num \in DOMAIN timed /\ row.user = timed[row.num].user
             /\ row.action = timed[row.num].action /\ timed[row.num].until <= clock
    BY <1>0, <2>2 DEF IInv, RowsMatch, Matches, Due
  <2> QED
    BY <2>1, <2>2 DEF BatchFromBefore
<1>2. row.num \in DOMAIN cases
  BY <1>1 DEF Names
<1>3. /\ row.num \in DOMAIN cases' /\ cases'[row.num].user = row.user
      /\ cases'[row.num].type = cases[row.num].type
  BY <1>1, <1>2 DEF Names, Keeps
<1>4. Names(row.num, row.user, row.action)'
  BY <1>1, <1>3 DEF Names
<1>5. Due(row.num)'
  <2> DEFINE n == row.num
  <2>1. n \in DOMAIN cases /\ n \notin tainted' /\ Due(n)
    BY <1>1, <1>2
  <2>2. cases[n].until \in Nat /\ clock \in Nat /\ clock' \in Nat
    BY <1>0, <2>1, TablesTyped DEF TypeInv, TypeOK, CaseRows
  <2> QED
    BY <2>1, <2>2 DEF Keeps, Due
<1> QED
  BY <1>4, <1>5

-----------------------------------------------------------------------------
(* Cases that are closed were closed before, are warns, or have just run out. *)
ClosedFromBefore ==
    \A n \in DOMAIN cases' \ tainted' : ~cases'[n].active =>
        \/ n \in DOMAIN cases /\ ~cases[n].active
        \/ cases'[n].type = "warn"
        \/ n \in DOMAIN cases /\ cases[n].type \in TimedTypes /\ Due(n)

LEMMA ClosedStep == ASSUME IInv, Keeps, [Next]_vars PROVE ClosedFromBefore
<1>0. TypeInv
  BY DEF IInv
<1>1. ASSUME UNCHANGED cases PROVE ClosedFromBefore
  BY <1>1 DEF ClosedFromBefore
<1>2. ASSUME NEW t \in Tasks, InsertCase(t) PROVE ClosedFromBefore
  <2>1. CASE UNCHANGED cases
    BY <2>1, <1>1
  <2>2. CASE ~UNCHANGED cases
    <3> DEFINE num == job[t].num + 1
               row == [type |-> job[t].type, by |-> job[t].by, user |-> job[t].user,
                       until |-> job[t].until, active |-> TRUE]
    <3>1. cases' = Upsert(cases, num, row)
      BY <1>2, <2>2 DEF InsertCase
    <3>2. row.active
      OBVIOUS
    <3> HIDE DEF num, row
    <3> QED
      BY <3>1, <3>2 DEF Upsert, ClosedFromBefore
  <2> QED
    BY <2>1, <2>2
<1>3. ASSUME NEW t \in Tasks, DeleteCase(t) PROVE ClosedFromBefore
  <2>1. UNCHANGED cases \/ \E gone : cases' = Without(cases, gone)
    BY <1>3 DEF DeleteCase
  <2> QED
    BY <2>1, <1>1 DEF Without, ClosedFromBefore
<1>4. ASSUME NEW t \in Tasks, ResetWarns(t) PROVE ClosedFromBefore
  <2>1. UNCHANGED cases \/ cases' = [n \in DOMAIN cases |->
            [cases[n] EXCEPT !.active = @ /\ n \notin ActiveWarns(job[t].user)]]
    BY <1>4, OutcomesAre DEF ResetWarns
  <2>2. ASSUME NEW n \in DOMAIN cases, ~UNCHANGED cases
        PROVE  /\ cases'[n].type = cases[n].type
               /\ cases'[n].active = (cases[n].active /\ n \notin ActiveWarns(job[t].user))
    BY <2>1, <2>2, <1>0, TablesTyped DEF CaseRows
  <2>3. UNCHANGED cases \/ DOMAIN cases' = DOMAIN cases
    BY <2>1
  <2> QED
    BY <2>2, <2>3, <1>1 DEF ActiveWarns, ClosedFromBefore
<1>5. CASE SweepClose
  <2> DEFINE num == sweep.row.num
  <2>1. UNCHANGED cases \/ cases' = [n \in DOMAIN cases |->
            [cases[n] EXCEPT !.active = @ /\ n # num]]
    BY <1>5, OutcomesAre DEF SweepClose
  <2>2. ASSUME NEW n \in DOMAIN cases, ~UNCHANGED cases
        PROVE  cases'[n].active = (cases[n].active /\ n # num)
    BY <2>1, <2>2, <1>0, TablesTyped DEF CaseRows
  <2>3. UNCHANGED cases \/ DOMAIN cases' = DOMAIN cases
    BY <2>1
  <2>4. num \notin tainted => /\ Names(num, sweep.row.user, sweep.row.action) /\ Due(num)
    BY <1>5 DEF SweepClose, IInv, BatchMatches, Batch
  <2>5. num \notin tainted' => cases[num].type \in TimedTypes /\ Due(num)
    BY <2>4 DEF Names, Keeps
  <2> HIDE DEF num
  <2> QED
    BY <2>2, <2>3, <2>5, <1>1 DEF ClosedFromBefore
<1>6. ASSUME NEW t \in Tasks,
             Issue(t) \/ QuietStep(t) \/ ClearTimed(t) \/ FallbackNumber(t) \/ RecordTimed(t)
             \/ DeleteTimed(t) \/ ExpireNow(t)
      PROVE  ClosedFromBefore
  <2>1. UNCHANGED cases
    BY <1>6, QuietIsQuiet DEF Issue, ClearTimed, FallbackNumber, RecordTimed, DeleteTimed, ExpireNow,
       dbVars
  <2> QED
    BY <2>1, <1>1
<1>7. CASE \/ SweepScan \/ SweepPick \/ SweepLift \/ SweepRetry \/ SweepGiveUp \/ SweepClear
           \/ Tick \/ Crash \/ DeleteRole \/ UNCHANGED vars
  <2>1. UNCHANGED cases
    BY <1>7 DEF SweepScan, SweepPick, SweepLift, SweepRetry, SweepGiveUp, SweepClear,
       Tick, Crash, DeleteRole, vars, dbVars
  <2> QED
    BY <2>1, <1>1
<1> QED
  BY <1>2, <1>3, <1>4, <1>5, <1>6, <1>7 DEF Next, TaskStep, QuietStep, SweepStep

LEMMA ClosedKept ==
    ASSUME IInv, TypeInv', Keeps, ClosedFromBefore PROVE ClosedOnlyWhenDue'
<1> SUFFICES ASSUME NEW n \in DOMAIN cases', n \notin tainted', ~cases'[n].active
             PROVE  \/ cases'[n].type = "warn"
                    \/ cases'[n].type \in TimedTypes /\ Due(n)'
  BY DEF ClosedOnlyWhenDue, Due
<1>0. n \notin tainted /\ TypeInv
  BY DEF Keeps, IInv
<1>1. cases'[n].type = "warn" \/ (n \in DOMAIN cases /\ (cases[n].type = "warn" \/ (cases[n].type \in TimedTypes /\ Due(n))))
  BY <1>0 DEF ClosedFromBefore, IInv, ClosedOnlyWhenDue, Due
<1>2. CASE n \in DOMAIN cases
  <2>1. cases'[n].type = cases[n].type
    BY <1>2 DEF Keeps
  <2>2. Due(n) => Due(n)'
    BY <1>0, <1>2, DueKept
  <2> QED
    BY <1>1, <2>1, <2>2
<1> QED
  BY <1>1, <1>2

(***************************************************************************)
(* The invariant and what follows from it.                                 *)
(***************************************************************************)
LEMMA InvariantInit == Init => IInv
<1> SUFFICES ASSUME Init PROVE IInv
  OBVIOUS
<1>1. TypeInv
  BY TypeInit
<1>2. RowsMatch /\ ClosedOnlyWhenDue
  BY DEF Init, RowsMatch, ClosedOnlyWhenDue
<1>3. RecordsMatch /\ BatchMatches
  BY DEF Init, RecordsMatch, BatchMatches, Batch, Asleep
<1> QED
  BY <1>1, <1>2, <1>3 DEF IInv

LEMMA InvariantStep == IInv /\ [Next]_vars => IInv'
<1> SUFFICES ASSUME IInv, [Next]_vars PROVE IInv'
  OBVIOUS
<1>1. TypeInv
  BY DEF IInv
<1>2. TypeInv'
  BY <1>1, TypeStep
<1>3. Keeps /\ RowsFromBefore /\ RecordsFromBefore /\ BatchFromBefore
  BY <1>1, NextKeeps, RowsStep, RecordsStep, BatchStep
<1>4. ClosedFromBefore
  BY <1>3, ClosedStep
<1> QED
  BY <1>2, <1>3, <1>4, RowsKept, RecordsKept, BatchKept, ClosedKept DEF IInv

\* mod_timed and mod_cases are joined by number alone; the row and the case of
\* an untainted number are always the same infraction.
THEOREM CaseRowsAgree == Spec => []RowMatchesCase
<1>1. IInv => RowMatchesCase
  BY DEF IInv, RowsMatch, Matches, RowMatchesCase
<1> QED
  BY <1>1, InvariantInit, InvariantStep, PTL DEF Spec

\* Nobody closes a case before its time: neither the sweeper with a stale batch,
\* nor an escalation that resets a member's warns.
THEOREM ClosedCasesDue == Spec => []ClosedOnlyWhenDue
<1>1. IInv => ClosedOnlyWhenDue
  BY DEF IInv
<1> QED
  BY <1>1, InvariantInit, InvariantStep, PTL DEF Spec

-----------------------------------------------------------------------------
(***************************************************************************)
(* Whoever is punished for a time is watched.                              *)
(***************************************************************************)
\* Where a punishment is sure to be recorded: every query and every call to Discord
\* that is not answered by a transient failure goes through, and nothing dies.
SureToRecord == Faults \cap {"db", "refused", "crash"} = {}

\* A row of u that is not among nums, or a task on its way to record one.
Pending(t, u, type, nums) ==
    /\ job[t].user = u /\ job[t].type = type
    /\ \/ pc[t] \in {"begin", "insert", "fallback"}
       \/ pc[t] = "record" /\ job[t].num \notin nums
Beyond(u, type, nums) ==
    \/ \E n \in RowsOf(u, TimedAction(type)) : n \notin nums
    \/ \E t \in Tasks : Pending(t, u, type, nums)

BatchNums == {row.num : row \in Batch}

\* What the steps of a release rely on.
ReleasesFit ==
    \A t \in Tasks :
        /\ pc[t] \in {"readRole", "removeRole"} => job[t].type = "unmute"
        /\ pc[t] = "clear" => job[t].type \in ReleaseTypes
        /\ pc[t] = "delTimed" => tainted # {}

\* Whoever unbans is the only one to order temporary bans: two tasks at once may clear
\* the row of a ban ordered after the one that was lifted.
OneBanner ==
    \A s, t \in Tasks : "tempban" \in Commands[s] /\ "unban" \in Commands[t] => s = t

\* Only temporary bans expire, and no temporary ban is in force whose row an unban is
\* about to clear.
TempBanned(u) == u \in banned /\ banTerm[u] > 0
BansFit ==
    \A t \in Tasks :
        /\ job[t].type \in {"tempban", "unban"} => job[t].type \in Commands[t]
        /\ pc[t] = "discord" /\ job[t].type \in {"ban", "softban"} => job[t].until = 0
        /\ pc[t] = "clear" /\ job[t].type = "unban" => ~TempBanned(job[t].user)

\* A ban under which the sweeper is about to clear a row came after it was lifted,
\* and its own row is another one.
BanClears ==
    (/\ sweep.pc = "clear" /\ sweep.row.action = "ban" /\ tainted = {}
     /\ TempBanned(sweep.row.user))
        => Beyond(sweep.row.user, "tempban", {sweep.row.num})

BansWatched ==
    /\ tainted = {} => \A u \in Users : (TempBanned(u) => Beyond(u, "tempban", {}))
    /\ BanClears

\* Whoever mutes is the only one to mute or unmute.
OneMuter ==
    \A s, t \in Tasks :
        "mute" \in Commands[s] /\ Commands[t] \cap {"mute", "unmute"} # {} => s = t

\* The role a task is about to give or to take is the stored one.
MutersFit ==
    \A t \in Tasks :
        /\ job[t].type \in {"mute", "unmute"} => job[t].type \in Commands[t]
        /\ pc[t] \in {"findRole", "makeRole", "storeRole", "addRole"} => job[t].type = "mute"
        /\ pc[t] \in {"addRole", "removeRole"} => job[t].role = muteRole
        /\ pc[t] \in {"makeRole", "storeRole"} => muted = {}
        /\ pc[t] = "clear" /\ job[t].type = "unmute" => \A p \in muted : p[1] # job[t].user

RolesFit ==
    /\ \A p \in muted : p[2] = muteRole
    /\ ~Live(muteRole) => muted = {}

\* The sweeper may carry a stale role through its batch, but then nobody muted since
\* depends on a row of that batch.
MuteClears ==
    /\ sweep.pc \in {"lift", "clear"} /\ sweep.row.action = "mute" => sweep.asked
    /\ sweep.asked /\ sweep.role # muteRole /\ tainted = {} =>
          \A p \in muted : Beyond(p[1], "mute", BatchNums)
    /\ sweep.pc = "clear" /\ sweep.row.action = "mute" /\ tainted = {} =>
          \A p \in muted : p[1] = sweep.row.user => Beyond(p[1], "mute", {sweep.row.num})

MutesWatched ==
    /\ tainted = {} => \A p \in muted : Beyond(p[1], "mute", {})
    /\ MuteClears

(***************************************************************************)
(* The control flow of a task.                                             *)
(***************************************************************************)
Alike(j, k) == j.type = k.type /\ j.user = k.user /\ j.by = k.by /\ j.until = k.until
Same(t) == Alike(job'[t], job[t])

Started(t) ==
    /\ pc[t] = "idle"
    /\ \E type \in Commands[t] :
         /\ pc'[t] = FirstStep(type) /\ job'[t].type = type
         /\ type \notin TimedTypes => job'[t].until = 0
         /\ job'[t].by = IF t \in AutomodTasks THEN "automod" ELSE "moderator"

Escalates(t) ==
    /\ pc[t] = "count" /\ pc'[t] = "discord"
    /\ job'[t].type = job[t].policy.action /\ job'[t].by = "escalation"
    /\ job'[t].user = job[t].user
    /\ job'[t].type # "timeout" => job'[t].until = 0

\* Where the locals lead a task that is about to go on to step next with locals j.
Leads(t, next, j) ==
    \/ /\ pc[t] = "discord"
       /\ next = IF job[t].type \in {"unban", "untimeout"} THEN "clear"
                 ELSE IF job[t].type = "softban" THEN "undo" ELSE "begin"
    \/ pc[t] = "undo" /\ next = IF job[t].type = "unban" THEN "clear" ELSE "begin"
    \/ pc[t] = "findRole" /\ next = "addRole" /\ j.role = muteRole /\ Live(muteRole)
    \/ /\ pc[t] = "findRole" /\ next = "makeRole"
       /\ ~Live(muteRole) \/ Faults \cap {"db", "refused"} # {}
    \/ pc[t] = "makeRole" /\ next = "storeRole"
    \/ pc[t] = "storeRole" /\ next = "addRole" /\ j.role = job[t].role
    \/ pc[t] = "addRole" /\ next = "begin"
    \/ pc[t] = "readRole" /\ next = "removeRole" /\ j.role = muteRole
    \/ pc[t] = "removeRole" /\ next = "clear"
    \/ pc[t] = "clear" /\ next = "begin"
    \/ pc[t] = "begin" /\ next \in {"insert", AfterCreate(job[t], FALSE)}
    \/ pc[t] = "insert" /\ \E made \in BOOLEAN : next = AfterCreate(job[t], made)
    \/ pc[t] = "fallback" /\ next = "record"
    \/ pc[t] = "record" /\ next = AfterCase(job[t])
    \/ pc[t] = "readPolicy" /\ next = "count" /\ j.policy = policy
    \/ pc[t] = "delcase" /\ next = "delTimed"
    \/ pc[t] = "lift" /\ next = "expire"

Flow(t) ==
    \/ pc'[t] = "idle" /\ job'[t] = NoJob
    \/ Started(t) \/ Escalates(t)
    \/ Same(t) /\ Leads(t, pc'[t], job'[t])
OthersStay(t) == \A s \in Tasks \ {t} : pc'[s] = pc[s] /\ job'[s] = job[s]

LEMMA GotoFlow ==
    ASSUME TypeInv, NEW t \in Tasks, NEW next, NEW j, Goto(t, next, j)
    PROVE  /\ pc'[t] = next /\ job'[t] = IF next = "idle" THEN NoJob ELSE j
           /\ OthersStay(t)
  BY DEF Goto, TypeInv, TypeOK, OthersStay

LEMMA FinishFlow ==
    ASSUME TypeInv, NEW t \in Tasks, Finish(t)
    PROVE  Flow(t) /\ OthersStay(t)
  BY DEF Finish, Goto, TypeInv, TypeOK, OthersStay, Flow

\* What a task may do at each step.
LEMMA ActionAt ==
    ASSUME NEW t \in Tasks, Issue(t) \/ TaskStep(t)
    PROVE  /\ pc[t] = "idle" => Issue(t)
           /\ pc[t] = "discord" => Discipline(t) \/ BanUser(t) \/ UnbanUser(t)
           /\ pc[t] = "undo" => UnbanUser(t)
           /\ pc[t] = "storeRole" => StoreMuteRole(t)
           /\ pc[t] = "removeRole" => RemoveMuteRole(t)
           /\ pc[t] = "begin" => ReadHighest(t)
           /\ pc[t] = "insert" => InsertCase(t)
           /\ pc[t] = "fallback" => FallbackNumber(t)
           /\ pc[t] = "record" => RecordTimed(t)
           /\ pc[t] = "readPolicy" => ReadPolicy(t)
           /\ pc[t] = "count" => CountWarns(t)
           /\ pc[t] = "reset" => ResetWarns(t)
           /\ pc[t] = "delcase" => DeleteCase(t)
<1>1. CASE \/ Issue(t) \/ Discipline(t) \/ BanUser(t) \/ UnbanUser(t) \/ FindMuteRole(t)
           \/ CreateMuteRole(t) \/ StoreMuteRole(t) \/ AddMuteRole(t) \/ ReadMuteRole(t)
           \/ RemoveMuteRole(t) \/ ClearTimed(t)
  BY <1>1 DEF Issue, Discipline, BanUser, UnbanUser, FindMuteRole, CreateMuteRole,
     StoreMuteRole, AddMuteRole, ReadMuteRole, RemoveMuteRole, ClearTimed
<1>2. CASE \/ ReadHighest(t) \/ InsertCase(t) \/ FallbackNumber(t) \/ RecordTimed(t)
           \/ ReadPolicy(t) \/ CountWarns(t) \/ ResetWarns(t) \/ SetPolicy(t)
           \/ DeleteCase(t) \/ DeleteTimed(t) \/ FindLift(t) \/ ExpireNow(t)
  BY <1>2 DEF ReadHighest, InsertCase, FallbackNumber, RecordTimed, ReadPolicy, CountWarns,
     ResetWarns, SetPolicy, DeleteCase, DeleteTimed, FindLift, ExpireNow
<1> QED
  BY <1>1, <1>2 DEF TaskStep

LEMMA LeadsFlow ==
    ASSUME TypeInv, NEW t \in Tasks, NEW next, NEW j, Goto(t, next, j),
           Alike(j, job[t]), Leads(t, next, j)
    PROVE  Flow(t) /\ OthersStay(t)
  BY GotoFlow DEF Flow, Same

LEMMA AlikeJobs ==
    ASSUME NEW j \in Jobs
    PROVE  /\ Alike(j, j)
           /\ \A r : [j EXCEPT !.role = r].role = r /\ Alike([j EXCEPT !.role = r], j)
           /\ \A n : [j EXCEPT !.num = n].num = n /\ Alike([j EXCEPT !.num = n], j)
           /\ \A p : [j EXCEPT !.policy = p].policy = p /\ Alike([j EXCEPT !.policy = p], j)
  BY DEF Jobs, Alike

\* Every step of a task follows its control flow.
LEMMA TaskFlow ==
    ASSUME TypeInv, NEW t \in Tasks, Issue(t) \/ TaskStep(t)
    PROVE  Flow(t) /\ OthersStay(t)
<1>0. job[t] \in Jobs
  BY JobFacts
<1>1. ASSUME NEW next, NEW j, Goto(t, next, j), Leads(t, next, j), Alike(j, job[t])
      PROVE  Flow(t) /\ OthersStay(t)
  BY <1>1, LeadsFlow
<1>2. Alike(job[t], job[t])
  BY DEF Alike
<1>3. CASE Issue(t)
  <2>1. PICK type \in Commands[t] : \E user, d, num :
           Goto(t, FirstStep(type), NewJob(t, type, user, d, num))
    BY <1>3 DEF Issue
  <2>2. PICK user, d, num : Goto(t, FirstStep(type), NewJob(t, type, user, d, num))
    BY <2>1
  <2>3. FirstStep(type) # "idle" /\ pc[t] = "idle"
    <3>1. type \in CommandTypes
      BY ConstantsAssumption
    <3> QED
      BY <1>3, <3>1 DEF Issue, FirstStep, CommandTypes, CaseTypes
  <2>4. job'[t] = NewJob(t, type, user, d, num) /\ pc'[t] = FirstStep(type) /\ OthersStay(t)
    BY <2>2, <2>3, GotoFlow
  <2> QED
    BY <2>3, <2>4 DEF Flow, Started, NewJob
<1>4. CASE Discipline(t) \/ BanUser(t) \/ UnbanUser(t)
  <2>1. \/ Finish(t)
        \/ \E next : Goto(t, next, job[t]) /\ Leads(t, next, job[t])
    <3>1. CASE Discipline(t)
      BY <3>1 DEF Discipline, Refuse, Leads
    <3>2. CASE BanUser(t)
      BY <3>2 DEF BanUser, Refuse, Leads
    <3>3. CASE UnbanUser(t)
      BY <3>3 DEF UnbanUser, Refuse, Leads
    <3> QED
      BY <1>4, <3>1, <3>2, <3>3
  <2> QED
    BY <1>1, <1>2, <2>1, FinishFlow
<1>5. CASE FindMuteRole(t) \/ ReadMuteRole(t) \/ CreateMuteRole(t)
  <2>1. \/ Finish(t)
        \/ Goto(t, "makeRole", job[t]) /\ Leads(t, "makeRole", job[t])
        \/ \E next, r : LET j == [job[t] EXCEPT !.role = r] IN Goto(t, next, j) /\ Leads(t, next, j)
    <3>1. CASE FindMuteRole(t)
      BY <1>0, <3>1, AlikeJobs DEF FindMuteRole, Leads
    <3>2. CASE ReadMuteRole(t)
      BY <1>0, <3>2, AlikeJobs DEF ReadMuteRole, Leads
    <3>3. CASE CreateMuteRole(t)
      BY <1>0, <3>3, AlikeJobs DEF CreateMuteRole, Refuse, Leads
    <3> QED
      BY <1>5, <3>1, <3>2, <3>3
  <2> QED
    BY <1>0, <1>1, <1>2, <2>1, AlikeJobs, FinishFlow
<1>6. CASE StoreMuteRole(t) \/ AddMuteRole(t) \/ RemoveMuteRole(t) \/ ClearTimed(t)
  <2>1. \/ Finish(t)
        \/ \E next : Goto(t, next, job[t]) /\ Leads(t, next, job[t])
    <3>1. CASE StoreMuteRole(t)
      BY <3>1 DEF StoreMuteRole, Leads
    <3>2. CASE AddMuteRole(t)
      BY <3>2 DEF AddMuteRole, Refuse, Leads
    <3>3. CASE RemoveMuteRole(t)
      BY <3>3 DEF RemoveMuteRole, Refuse, Leads
    <3>4. CASE ClearTimed(t)
      BY <3>4 DEF ClearTimed, Leads
    <3> QED
      BY <1>6, <3>1, <3>2, <3>3, <3>4
  <2> QED
    BY <1>1, <1>2, <2>1, FinishFlow
<1>7. CASE ReadHighest(t) \/ InsertCase(t) \/ FallbackNumber(t)
  <2>1. \/ \E next : Goto(t, next, job[t]) /\ Leads(t, next, job[t])
        \/ \E next, n : LET j == [job[t] EXCEPT !.num = n] IN Goto(t, next, j) /\ Leads(t, next, j)
    <3>1. CASE ReadHighest(t)
      BY <3>1 DEF ReadHighest, Leads
    <3>2. CASE InsertCase(t)
      BY <3>2 DEF InsertCase, Leads
    <3>3. CASE FallbackNumber(t)
      BY <3>3 DEF FallbackNumber, Leads
    <3> QED
      BY <1>7, <3>1, <3>2, <3>3
  <2> QED
    BY <1>0, <1>1, <1>2, <2>1, AlikeJobs
<1>8. CASE RecordTimed(t)
  BY <1>1, <1>2, <1>8 DEF RecordTimed, Leads
<1>9. CASE ReadPolicy(t)
  <2>1. CASE Goto(t, "count", [job[t] EXCEPT !.policy = policy])
    <3>1. Leads(t, "count", [job[t] EXCEPT !.policy = policy])
      BY <1>0, <1>9, AlikeJobs DEF ReadPolicy, Leads
    <3> QED
      BY <1>0, <1>1, <2>1, <3>1, AlikeJobs
  <2> QED
    BY <1>9, <2>1, FinishFlow DEF ReadPolicy
<1>10. CASE CountWarns(t)
  <2>1. CASE \E until \in EscalationTerms(job[t].policy.action) :
                 Goto(t, "discord", Escalated(job[t], until))
    <3>1. PICK until \in EscalationTerms(job[t].policy.action) :
             Goto(t, "discord", Escalated(job[t], until))
      BY <2>1
    <3>2. job'[t] = Escalated(job[t], until) /\ pc'[t] = "discord" /\ OthersStay(t)
      BY <3>1, GotoFlow
    <3>3. /\ Escalated(job[t], until).type = job[t].policy.action
          /\ Escalated(job[t], until).by = "escalation"
          /\ Escalated(job[t], until).user = job[t].user
          /\ Escalated(job[t], until).until = until
      BY <1>0 DEF Escalated, Jobs
    <3> QED
      BY <1>10, <3>2, <3>3 DEF CountWarns, EscalationTerms, Flow, Escalates
  <2> QED
    BY <1>10, <2>1, FinishFlow DEF CountWarns
<1>11. CASE ResetWarns(t) \/ SetPolicy(t) \/ DeleteTimed(t) \/ ExpireNow(t)
  BY <1>11, FinishFlow DEF ResetWarns, SetPolicy, DeleteTimed, ExpireNow
<1>12. CASE DeleteCase(t) \/ FindLift(t)
  <2>1. \/ Finish(t)
        \/ \E next : Goto(t, next, job[t]) /\ Leads(t, next, job[t])
    BY <1>12 DEF DeleteCase, FindLift, Leads
  <2> QED
    BY <1>1, <1>2, <2>1, FinishFlow
<1> QED
  BY <1>3, <1>4, <1>5, <1>6, <1>7, <1>8, <1>9, <1>10, <1>11, <1>12 DEF TaskStep

(***************************************************************************)
(* A punishment that is recorded, or is about to be, stays so until its row *)
(* is cleared.                                                             *)
(***************************************************************************)
Releases(t, u, action) ==
    ClearTimed(t) /\ job[t].user = u /\ ReleasedAction(job[t].type) = action

\* Under one number there is one infraction, so a row only goes when it is released or
\* when the sweeper clears it.
LEMMA RowStays ==
    ASSUME IInv, [Next]_vars, ReleasesFit, tainted' = {}, NEW u, NEW action,
           NEW n \in RowsOf(u, action),
           \A t \in Tasks : ~Releases(t, u, action),
           SweepClear => sweep.row.num # n
    PROVE  n \in RowsOf(u, action)'
<1> DEFINE Stays == n \in DOMAIN timed' /\ timed'[n].user = u /\ timed'[n].action = action
<1> SUFFICES Stays
  BY DEF RowsOf
<1>0. n \in DOMAIN timed /\ timed[n].user = u /\ timed[n].action = action
  BY DEF RowsOf
<1>1. TypeInv /\ tainted = {}
  BY NextKeeps DEF IInv, Keeps
<1>2. ASSUME UNCHANGED timed PROVE Stays
  BY <1>0, <1>2
<1>3. ASSUME NEW gone, n \notin gone, timed' = Without(timed, gone) \/ timed' = timed
      PROVE  Stays
  BY <1>0, <1>2, <1>3 DEF Without
<1> HIDE DEF Stays
<1>4. ASSUME NEW t \in Tasks, RecordTimed(t) PROVE Stays
  <2> DEFINE row == [user |-> job[t].user, action |-> TimedAction(job[t].type),
                     until |-> job[t].until]
  <2>1. timed' = Upsert(timed, job[t].num, row) \/ timed' = timed
    BY <1>4, OutcomesAre DEF RecordTimed
  <2>2. CASE job[t].num = n
    <3>1. pc[t] = "record"
      BY <1>4 DEF RecordTimed
    <3>2. Names(n, job[t].user, TimedAction(job[t].type)) /\ Names(n, u, action)
      BY <1>0, <1>1, <2>2, <3>1 DEF IInv, RowsMatch, RecordsMatch, Matches
    <3>3. row.user = u /\ row.action = action
      BY <3>2 DEF Names
    <3> HIDE DEF row
    <3>4. CASE timed' = Upsert(timed, job[t].num, row)
      BY <2>2, <3>3, <3>4 DEF Stays, Upsert
    <3> QED
      BY <1>2, <2>1, <3>4
  <2> HIDE DEF row
  <2>3. CASE job[t].num # n
    BY <1>0, <1>2, <2>1, <2>3 DEF Stays, Upsert
  <2> QED
    BY <2>2, <2>3
<1>5. ASSUME NEW t \in Tasks, ClearTimed(t) PROVE Stays
  <2>1. n \notin RowsOf(job[t].user, ReleasedAction(job[t].type))
    BY <1>0, <1>5 DEF Releases, RowsOf
  <2>2. \/ timed' = Without(timed, RowsOf(job[t].user, ReleasedAction(job[t].type)))
        \/ timed' = timed
    BY <1>5, OutcomesAre DEF ClearTimed
  <2> QED
    BY <1>3, <2>1, <2>2
<1>6. ASSUME NEW t \in Tasks, DeleteTimed(t) PROVE Stays
  BY <1>1, <1>6 DEF DeleteTimed, ReleasesFit
<1>7. ASSUME NEW t \in Tasks, ExpireNow(t) PROVE Stays
  <2>1. timed' = timed \/ timed' = [m \in DOMAIN timed |->
           IF m = job[t].num THEN [timed[m] EXCEPT !.until = clock] ELSE timed[m]]
    BY <1>7, OutcomesAre DEF ExpireNow
  <2> QED
    BY <1>0, <1>1, <2>1, TablesTyped DEF Stays, TimedRows
<1>8. ASSUME NEW t \in Tasks,
             Issue(t) \/ QuietStep(t) \/ InsertCase(t) \/ FallbackNumber(t)
             \/ ResetWarns(t) \/ DeleteCase(t)
      PROVE  Stays
  <2>1. UNCHANGED timed
    BY <1>8, QuietIsQuiet DEF Issue, InsertCase, FallbackNumber, ResetWarns, DeleteCase, dbVars
  <2> QED
    BY <1>2, <2>1
<1>9. CASE SweepClear
  <2>1. timed' = Without(timed, {sweep.row.num}) \/ timed' = timed
    BY <1>9, OutcomesAre DEF SweepClear
  <2> QED
    BY <1>3, <1>9, <2>1
<1>10. CASE \/ SweepScan \/ SweepPick \/ SweepLift \/ SweepRetry \/ SweepGiveUp \/ SweepClose
            \/ Tick \/ Crash \/ DeleteRole \/ UNCHANGED vars
  <2>1. UNCHANGED timed
    BY <1>10 DEF SweepScan, SweepPick, SweepLift, SweepRetry, SweepGiveUp, SweepClose,
       Tick, Crash, DeleteRole, vars, dbVars
  <2> QED
    BY <1>2, <2>1
<1> QED
  BY <1>4, <1>5, <1>6, <1>7, <1>8, <1>9, <1>10 DEF Next, TaskStep, QuietStep, SweepStep

\* Who steps: one task, and then nobody else moves, or no task.
LEMMA WhoMoves ==
    ASSUME TypeInv, [Next]_vars, "crash" \notin Faults
    PROVE  \/ \E t \in Tasks : (Issue(t) \/ TaskStep(t)) /\ Flow(t) /\ OthersStay(t)
           \/ /\ SweepStep \/ Tick \/ DeleteRole \/ UNCHANGED vars
              /\ UNCHANGED <<pc, job>>
<1>1. ASSUME SweepStep \/ Tick \/ DeleteRole \/ UNCHANGED vars
      PROVE  UNCHANGED <<pc, job>>
  BY <1>1 DEF SweepStep, SweepScan, SweepPick, SweepLift, SweepRetry, SweepGiveUp, SweepClear,
     SweepClose, Tick, DeleteRole, vars, taskVars
<1>2. ~Crash
  BY DEF Crash
<1> QED
  BY <1>1, <1>2, TaskFlow DEF Next

\* A task that is about to record a punishment goes on to record it.
LEMMA PendingStays ==
    ASSUME IInv, [Next]_vars, SureToRecord, tainted' = {}, NEW u, NEW type \in {"mute", "tempban"},
           NEW nums \in SUBSET DOMAIN cases, NEW t \in Tasks, Pending(t, u, type, nums)
    PROVE  Beyond(u, type, nums)'
<1> DEFINE Goes == /\ job'[t].user = u /\ job'[t].type = type
                   /\ \/ pc'[t] \in {"begin", "insert", "fallback"}
                      \/ pc'[t] = "record" /\ job'[t].num \notin nums
<1>0. TypeInv /\ "db" \notin Faults /\ "crash" \notin Faults /\ job[t] \in Jobs
  BY JobFacts DEF IInv, SureToRecord
<1>1. job[t].user = u /\ job[t].type = type /\ type \in TimedTypes
  BY DEF Pending, TimedTypes
<1>2. Goes => Beyond(u, type, nums)'
  BY DEF Beyond, Pending
<1>3. CASE pc'[t] = pc[t] /\ job'[t] = job[t]
  BY <1>2, <1>3 DEF Pending
<1>4. CASE Issue(t) \/ TaskStep(t)
  <2>1. CASE pc[t] = "begin"
    <3>1. ReadHighest(t)
      BY <1>4, <2>1, ActionAt
    <3>2. PICK h : Goto(t, "insert", [job[t] EXCEPT !.num = h])
      BY <1>0, <3>1 DEF ReadHighest
    <3>3. pc'[t] = "insert" /\ job'[t] = [job[t] EXCEPT !.num = h]
      BY <1>0, <3>2, GotoFlow
    <3> QED
      BY <1>0, <1>1, <1>2, <3>3, AlikeJobs DEF Alike
  <2>2. CASE pc[t] = "insert"
    <3>1. InsertCase(t)
      BY <1>4, <2>2, ActionAt
    <3>2. AfterCreate(job[t], TRUE) = "record" /\ AfterCreate(job[t], FALSE) = "fallback"
      BY <1>1 DEF AfterCreate
    <3>3. CASE Goto(t, "fallback", job[t])
      <4>1. pc'[t] = "fallback" /\ job'[t] = job[t]
        BY <1>0, <3>3, GotoFlow
      <4> QED
        BY <1>1, <1>2, <4>1
    <3>4. CASE /\ job[t].num + 1 \notin DOMAIN cases
               /\ Goto(t, "record", [job[t] EXCEPT !.num = job[t].num + 1])
      <4>1. pc'[t] = "record" /\ job'[t] = [job[t] EXCEPT !.num = job[t].num + 1]
        BY <1>0, <3>4, GotoFlow
      <4>2. /\ job'[t].num = job[t].num + 1
            /\ job'[t].user = job[t].user /\ job'[t].type = job[t].type
        BY <1>0, <4>1, AlikeJobs DEF Alike
      <4> QED
        BY <1>1, <1>2, <3>4, <4>1, <4>2
    <3> QED
      BY <3>1, <3>2, <3>3, <3>4 DEF InsertCase
  <2>3. CASE pc[t] = "fallback"
    <3>1. FallbackNumber(t)
      BY <1>4, <2>3, ActionAt
    <3>2. tainted' # {}
      BY <3>1 DEF FallbackNumber
    <3> QED
      BY <3>2
  <2>4. CASE pc[t] = "record"
    <3>1. RecordTimed(t)
      BY <1>4, <2>4, ActionAt
    <3> DEFINE row == [user |-> job[t].user, action |-> TimedAction(job[t].type),
                       until |-> job[t].until]
    <3>2. timed' = Upsert(timed, job[t].num, row)
      BY <1>0, <3>1 DEF RecordTimed, Outcomes
    <3>3. row.user = u /\ row.action = TimedAction(type)
      BY <1>1
    <3> HIDE DEF row
    <3>4. job[t].num \in RowsOf(u, TimedAction(type))'
      BY <3>2, <3>3 DEF RowsOf, Upsert
    <3>5. job[t].num \notin nums
      BY <2>4 DEF Pending
    <3> QED
      BY <3>4, <3>5 DEF Beyond
  <2> QED
    BY <2>1, <2>2, <2>3, <2>4 DEF Pending
<1> QED
  BY <1>0, <1>3, <1>4, WhoMoves DEF OthersStay

LEMMA BeyondKept ==
    ASSUME IInv, [Next]_vars, SureToRecord, ReleasesFit, tainted' = {},
           NEW u, NEW type \in {"mute", "tempban"}, NEW nums \in SUBSET DOMAIN cases,
           Beyond(u, type, nums),
           \A t \in Tasks : ~Releases(t, u, TimedAction(type)),
           SweepClear => \/ sweep.row.num \in nums
                         \/ sweep.row.user # u \/ sweep.row.action # TimedAction(type)
    PROVE  Beyond(u, type, nums)'
<1>1. ASSUME NEW n \in RowsOf(u, TimedAction(type)), n \notin nums
      PROVE  Beyond(u, type, nums)'
  <2>0. tainted = {} /\ TypeInv
    BY NextKeeps DEF IInv, Keeps
  <2>1. SweepClear => sweep.row.num # n
    <3> SUFFICES ASSUME SweepClear, sweep.row.num = n PROVE FALSE
      OBVIOUS
    <3>1. sweep.row.user # u \/ sweep.row.action # TimedAction(type)
      BY <1>1
    <3>2. sweep.row \in Batch
      BY DEF SweepClear, Batch
    <3>3. Names(n, sweep.row.user, sweep.row.action)
      BY <2>0, <3>2 DEF IInv, BatchMatches
    <3>4. Names(n, u, TimedAction(type))
      BY <2>0 DEF RowsOf, IInv, RowsMatch, Matches
    <3> QED
      BY <3>1, <3>3, <3>4 DEF Names
  <2>2. n \in RowsOf(u, TimedAction(type))'
    <3> DEFINE action == TimedAction(type)
    <3>1. n \in RowsOf(u, action) /\ \A t \in Tasks : ~Releases(t, u, action)
      OBVIOUS
    <3> HIDE DEF action
    <3>2. n \in RowsOf(u, action)'
      BY <2>1, <3>1, RowStays
    <3> QED
      BY <3>2 DEF action
  <2> QED
    BY <1>1, <2>2 DEF Beyond
<1>2. ASSUME NEW t \in Tasks, Pending(t, u, type, nums)
      PROVE  Beyond(u, type, nums)'
  BY <1>2, PendingStays
<1> QED
  BY <1>1, <1>2 DEF Beyond

(***************************************************************************)
(* Temporary bans.                                                         *)
(***************************************************************************)
LEMMA DeleteTaints ==
    ASSUME TypeInv, NEW t \in Tasks, Issue(t) \/ TaskStep(t), pc[t] = "delcase", pc'[t] = "delTimed"
    PROVE  tainted' # {}
<1>1. DeleteCase(t)
  BY ActionAt
<1>2. CASE Finish(t)
  BY <1>2, FinishFlow, GotoFlow DEF Finish
<1> QED
  BY <1>1, <1>2 DEF DeleteCase

\* Which commands a task may be at a step for.
LEMMA StepOf ==
    ASSUME TypeInv, NEW t \in Tasks, Flow(t)
    PROVE  /\ pc'[t] = "readRole" => Started(t) /\ job'[t].type = "unmute"
           /\ pc'[t] = "removeRole" => Same(t) /\ pc[t] = "readRole" /\ job'[t].role = muteRole
           /\ pc'[t] = "clear" =>
                /\ Same(t)
                /\ \/ pc[t] = "removeRole"
                   \/ pc[t] \in {"discord", "undo"} /\ job[t].type \in {"unban", "untimeout"}
           /\ pc'[t] = "delTimed" => pc[t] = "delcase"
           /\ pc'[t] = "discord" => Started(t) \/ Escalates(t)
           /\ pc'[t] = "findRole" => Started(t) /\ job'[t].type = "mute"
           /\ pc'[t] = "makeRole" => Same(t) /\ pc[t] = "findRole"
                                     /\ (~Live(muteRole) \/ Faults \cap {"db", "refused"} # {})
           /\ pc'[t] = "storeRole" => Same(t) /\ pc[t] = "makeRole"
           /\ pc'[t] = "addRole" =>
                /\ Same(t)
                /\ \/ pc[t] = "findRole" /\ job'[t].role = muteRole
                   \/ pc[t] = "storeRole" /\ job'[t].role = job[t].role
<1>1. CASE pc'[t] = "idle"
  BY <1>1
<1>2. CASE Started(t)
  <2>1. PICK type \in Commands[t] : pc'[t] = FirstStep(type) /\ job'[t].type = type
    BY <1>2 DEF Started
  <2>2. type \in CommandTypes
    BY ConstantsAssumption
  <2> QED
    BY <1>2, <2>1, <2>2 DEF FirstStep, CommandTypes, CaseTypes, TimedTypes, ReleaseTypes
<1>3. CASE Escalates(t)
  BY <1>3 DEF Escalates
<1>4. CASE Same(t) /\ Leads(t, pc'[t], job'[t])
  <2>1. /\ AfterCase(job[t]) \in {"reset", "readPolicy", "idle"}
        /\ \A made \in BOOLEAN :
             AfterCreate(job[t], made) \in {"record", "fallback", "reset", "readPolicy", "idle"}
    BY JobFacts, AfterCaseType, AfterCreateType
  <2> QED
    BY <1>4, <2>1 DEF Leads
<1> QED
  BY <1>1, <1>2, <1>3, <1>4 DEF Flow

LEMMA ReleasesKept ==
    ASSUME TypeInv, [Next]_vars, SureToRecord, ReleasesFit
    PROVE  ReleasesFit'
<1>0. tainted \subseteq tainted' /\ "crash" \notin Faults
  BY NextKeeps DEF Keeps, SureToRecord
<1>1. CASE UNCHANGED <<pc, job>>
  BY <1>0, <1>1 DEF ReleasesFit
<1>2. ASSUME NEW t \in Tasks, Issue(t) \/ TaskStep(t), Flow(t), OthersStay(t)
      PROVE  ReleasesFit'
  <2>1. /\ pc'[t] \in {"readRole", "removeRole"} => job'[t].type = "unmute"
        /\ pc'[t] = "clear" => job'[t].type \in ReleaseTypes
    BY <1>2, StepOf DEF ReleasesFit, ReleaseTypes, Same, Alike
  <2>2. pc'[t] = "delTimed" => tainted' # {}
    BY <1>2, StepOf, DeleteTaints
  <2> QED
    BY <1>0, <1>2, <2>1, <2>2 DEF ReleasesFit, OthersStay
<1> QED
  BY <1>0, <1>1, <1>2, WhoMoves

\* A ban is ordered by a task that goes on to write its case, or the ban list shrinks.
LEMMA BansMove ==
    ASSUME TypeInv, [Next]_vars
    PROVE  \/ \E t \in Tasks :
                /\ BanUser(t)
                /\ pc[t] = "discord" /\ job[t].type \in {"ban", "tempban", "softban"}
                /\ pc'[t] = IF job[t].type = "softban" THEN "undo" ELSE "begin"
                /\ job'[t] = job[t] /\ OthersStay(t)
                /\ banned' = banned \cup {job[t].user}
                /\ banTerm' = [banTerm EXCEPT ![job[t].user] = job[t].until]
                /\ UNCHANGED <<sweep, timed, tainted>>
           \/ banned' \subseteq banned /\ UNCHANGED banTerm
<1>1. ASSUME NEW t \in Tasks, BanUser(t), ~Refuse(t)
      PROVE  /\ pc[t] = "discord" /\ job[t].type \in {"ban", "tempban", "softban"}
             /\ pc'[t] = IF job[t].type = "softban" THEN "undo" ELSE "begin"
             /\ job'[t] = job[t] /\ OthersStay(t)
             /\ banned' = banned \cup {job[t].user}
             /\ banTerm' = [banTerm EXCEPT ![job[t].user] = job[t].until]
             /\ UNCHANGED <<sweep, timed, tainted>>
  <2> DEFINE next == IF job[t].type = "softban" THEN "undo" ELSE "begin"
  <2>1. Goto(t, next, job[t]) /\ next # "idle"
    BY <1>1 DEF BanUser
  <2> HIDE DEF next
  <2>2. pc'[t] = next /\ job'[t] = job[t] /\ OthersStay(t)
    BY <2>1, GotoFlow
  <2> QED
    BY <1>1, <2>2 DEF BanUser, dbVars, next
<1>2. ASSUME NEW t \in Tasks, Refuse(t) PROVE banned' \subseteq banned /\ UNCHANGED banTerm
  BY <1>2 DEF Refuse, discordVars, historyVars
<1>3. ASSUME NEW t \in Tasks, UnbanUser(t) PROVE banned' \subseteq banned /\ UNCHANGED banTerm
  BY <1>2, <1>3 DEF UnbanUser, discordVars, historyVars
<1>4. ASSUME NEW t \in Tasks,
             \/ Issue(t) \/ Discipline(t) \/ FindMuteRole(t) \/ CreateMuteRole(t)
             \/ StoreMuteRole(t) \/ AddMuteRole(t) \/ ReadMuteRole(t) \/ RemoveMuteRole(t)
      PROVE  UNCHANGED <<banned, banTerm>>
  BY <1>4 DEF Issue, Discipline, FindMuteRole, CreateMuteRole, StoreMuteRole, AddMuteRole,
     ReadMuteRole, RemoveMuteRole, Refuse, discordVars, historyVars
<1>5. ASSUME NEW t \in Tasks,
             \/ ClearTimed(t) \/ ReadHighest(t) \/ InsertCase(t) \/ FallbackNumber(t)
             \/ RecordTimed(t) \/ ReadPolicy(t) \/ CountWarns(t) \/ ResetWarns(t) \/ SetPolicy(t)
             \/ DeleteCase(t) \/ DeleteTimed(t) \/ FindLift(t) \/ ExpireNow(t)
      PROVE  UNCHANGED <<banned, banTerm>>
  BY <1>5 DEF ClearTimed, ReadHighest, InsertCase, FallbackNumber, RecordTimed, ReadPolicy,
     CountWarns, ResetWarns, SetPolicy, DeleteCase, DeleteTimed, FindLift, ExpireNow,
     discordVars, historyVars
<1>6. CASE SweepStep \/ Tick \/ Crash \/ DeleteRole \/ UNCHANGED vars
  BY <1>6 DEF SweepStep, SweepScan, SweepPick, SweepLift, SweepRetry, SweepGiveUp, SweepClear,
     SweepClose, Tick, Crash, DeleteRole, vars, discordVars, historyVars
<1> QED
  BY <1>1, <1>2, <1>3, <1>4, <1>5, <1>6 DEF Next, TaskStep

LEMMA BansFitKept ==
    ASSUME TypeInv, TypeInv', OneBanner, [Next]_vars, SureToRecord, ReleasesFit, BansFit
    PROVE  BansFit'
<1> DEFINE Ordered(t) == job[t].type \in {"tempban", "unban"} => job[t].type \in Commands[t]
           Lasting(t) == pc[t] = "discord" /\ job[t].type \in {"ban", "softban"} => job[t].until = 0
           Lifting(t) == pc[t] = "clear" /\ job[t].type = "unban"
<1>0. "crash" \notin Faults /\ \A t \in Tasks : Ordered(t) /\ Lasting(t)
  BY DEF BansFit, SureToRecord
<1>1. \A t \in Tasks : Ordered(t)' /\ Lasting(t)'
  <2>1. ASSUME NEW t \in Tasks, Flow(t) PROVE Ordered(t)' /\ Lasting(t)'
    <3>1. CASE Started(t)
      BY <3>1 DEF Started, TimedTypes
    <3>2. CASE Escalates(t)
      <4>1. job[t].policy.action \in {"timeout", "kick", "ban"}
        BY JobFacts DEF Jobs, PolicyValues
      <4> QED
        BY <3>2, <4>1 DEF Escalates
    <3>3. CASE Same(t) /\ Leads(t, pc'[t], job'[t])
      <4>1. pc'[t] # "discord"
        BY <2>1, <3>3, StepOf DEF Started, Escalates, Leads, AfterCreate, AfterCase
      <4> QED
        BY <1>0, <3>3, <4>1 DEF Same, Alike
    <3>4. CASE pc'[t] = "idle" /\ job'[t] = NoJob
      BY <3>4 DEF NoJob
    <3> QED
      BY <2>1, <3>1, <3>2, <3>3, <3>4 DEF Flow
  <2> QED
    BY <1>0, <2>1, WhoMoves DEF OthersStay
<1>2. ASSUME NEW t \in Tasks, Lifting(t)' PROVE ~TempBanned(job[t].user)'
  <2>1. CASE Lifting(t) /\ job'[t] = job[t]
    <3>1. ~TempBanned(job[t].user)
      BY <2>1 DEF BansFit
    <3>2. ASSUME NEW s \in Tasks,
                 pc[s] = "discord", job[s].type \in {"ban", "tempban", "softban"},
                 banned' = banned \cup {job[s].user},
                 banTerm' = [banTerm EXCEPT ![job[s].user] = job[s].until]
          PROVE  ~TempBanned(job[t].user)'
      <4>1. job[s].type # "tempban"
        BY <1>0, <2>1, <3>2 DEF OneBanner
      <4>2. job[s].until = 0
        BY <1>0, <3>2, <4>1
      <4> QED
        BY <2>1, <3>1, <3>2, <4>2 DEF TempBanned, TypeInv, TypeOK
    <3> QED
      BY <2>1, <3>1, <3>2, BansMove DEF TempBanned
  <2>2. CASE ~(Lifting(t) /\ job'[t] = job[t])
    <3>1. (Issue(t) \/ TaskStep(t)) /\ Flow(t)
      BY <1>0, <1>2, <2>2, WhoMoves DEF OthersStay
    <3>2. Same(t) /\ job[t].type = "unban" /\ pc[t] \in {"discord", "undo", "removeRole"}
      BY <1>2, <3>1, StepOf DEF Same, Alike
    <3>3. CASE pc[t] \in {"discord", "undo"}
      <4>1. UnbanUser(t)
        BY <3>1, <3>2, <3>3, ActionAt DEF Discipline, BanUser
      <4>2. ~Finish(t) /\ ~Refuse(t)
        BY <1>2, GotoFlow DEF Finish, Refuse
      <4>3. banned' = banned \ {job[t].user}
        BY <4>1, <4>2 DEF UnbanUser
      <4> QED
        BY <3>2, <4>3 DEF Same, Alike, TempBanned
    <3>4. pc[t] # "removeRole"
      BY <3>2 DEF ReleasesFit
    <3> QED
      BY <3>2, <3>3, <3>4
  <2> QED
    BY <2>1, <2>2
<1> QED
  BY <1>1, <1>2 DEF BansFit

\* A ban that stays in force stays watched, whatever rows the sweeper carries.
LEMMA BanStaysWatched ==
    ASSUME IInv, [Next]_vars, SureToRecord, ReleasesFit, BansFit, tainted' = {},
           NEW u, NEW nums \in SUBSET DOMAIN cases, Beyond(u, "tempban", nums), TempBanned(u),
           SweepClear /\ sweep.row.user = u /\ sweep.row.action = "ban" => sweep.row.num \in nums
    PROVE  Beyond(u, "tempban", nums)'
<1>1. TimedAction("tempban") = "ban"
  BY DEF TimedAction
<1>2. ASSUME NEW t \in Tasks PROVE ~Releases(t, u, "ban")
  BY DEF Releases, ClearTimed, ReleasesFit, ReleaseTypes, ReleasedAction, BansFit
<1> QED
  BY <1>1, <1>2, BeyondKept

\* Nobody is banned for a time but by a task that goes on to record it.
LEMMA NewBanPending ==
    ASSUME TypeInv, [Next]_vars, BansFit, NEW u, TempBanned(u)', ~TempBanned(u), NEW nums
    PROVE  Beyond(u, "tempban", nums)'
<1>1. PICK t \in Tasks :
         /\ pc[t] = "discord" /\ job[t].type \in {"ban", "tempban", "softban"}
         /\ pc'[t] = IF job[t].type = "softban" THEN "undo" ELSE "begin"
         /\ job'[t] = job[t]
         /\ banned' = banned \cup {job[t].user}
         /\ banTerm' = [banTerm EXCEPT ![job[t].user] = job[t].until]
  BY BansMove DEF TempBanned
<1>2. job[t].user = u /\ job[t].until > 0
  BY <1>1, JobFacts DEF TempBanned, TypeInv, TypeOK, CommandSteps
<1>3. job[t].type = "tempban"
  BY <1>1, <1>2 DEF BansFit
<1> QED
  BY <1>1, <1>2, <1>3 DEF Beyond, Pending

LEMMA SweepMoves ==
    ASSUME [Next]_vars PROVE SweepStep \/ Crash \/ UNCHANGED sweep
<1>1. ASSUME NEW t \in Tasks, Issue(t) \/ TaskStep(t) PROVE UNCHANGED sweep
  BY <1>1 DEF Issue, TaskStep, Discipline, BanUser, UnbanUser, FindMuteRole,
     CreateMuteRole, StoreMuteRole, AddMuteRole, ReadMuteRole, RemoveMuteRole, ClearTimed,
     ReadHighest, InsertCase, FallbackNumber, RecordTimed, ReadPolicy, CountWarns,
     ResetWarns, SetPolicy, DeleteCase, DeleteTimed, FindLift, ExpireNow
<1> QED
  BY <1>1 DEF Next, Tick, DeleteRole, vars

LEMMA SweptBan ==
    ASSUME TypeInv, [Next]_vars, SureToRecord, sweep'.pc = "clear", sweep'.row.action = "ban"
    PROVE  \/ sweep' = sweep /\ ~SweepClear
           \/ SweepLift /\ ~TempBanned(sweep.row.user)'
<1>1. ~SweepGiveUp
  BY DEF SweepGiveUp, SureToRecord, TypeInv, TypeOK
<1>2. CASE SweepLift
  <2>1. sweep'.row = sweep.row
    BY <1>2 DEF SweepLift, TypeInv, TypeOK
  <2>2. banned' = banned \ {sweep'.row.user}
    BY <1>2, <2>1 DEF SweepLift
  <2> QED
    BY <1>2, <2>2 DEF TempBanned
<1>3. NextRow.pc # "clear"
  BY DEF NextRow, Asleep, TypeInv, TypeOK
<1>4. CASE SweepScan \/ SweepPick \/ SweepRetry \/ SweepClear \/ SweepClose
  <2>1. CASE SweepScan
    BY <2>1 DEF SweepScan, Asleep
  <2>2. CASE SweepPick
    BY <2>2 DEF SweepPick
  <2>3. CASE SweepClear
    BY <2>3 DEF SweepClear, TypeInv, TypeOK
  <2> QED
    BY <1>3, <1>4, <2>1, <2>2, <2>3 DEF SweepRetry, SweepClose
<1>5. CASE Crash
  BY <1>5 DEF Crash, Asleep
<1>6. CASE UNCHANGED sweep
  BY <1>6 DEF SweepClear, TypeInv, TypeOK
<1> QED
  BY <1>1, <1>2, <1>4, <1>5, <1>6, SweepMoves DEF SweepStep

LEMMA BansWatchedKept ==
    ASSUME IInv, IInv', [Next]_vars, SureToRecord, ReleasesFit, BansFit, BansWatched
    PROVE  BansWatched'
<1>0. TypeInv /\ tainted \subseteq tainted'
  BY NextKeeps DEF IInv, Keeps
<1>1. ASSUME tainted' = {}, NEW u \in Users, TempBanned(u)'
      PROVE  Beyond(u, "tempban", {})'
  <2>1. CASE ~TempBanned(u)
    BY <1>0, <1>1, <2>1, NewBanPending
  <2>2. CASE TempBanned(u) /\ SweepClear /\ sweep.row.user = u /\ sweep.row.action = "ban"
    <3>1. PICK num : num = sweep.row.num
      OBVIOUS
    <3>2. Beyond(u, "tempban", {num})
      BY <1>0, <1>1, <2>2, <3>1 DEF BansWatched, BanClears, SweepClear
    <3>3. num \in DOMAIN cases
      BY <1>0, <1>1, <2>2, <3>1 DEF IInv, BatchMatches, Batch, Names, SweepClear
    <3>4. Beyond(u, "tempban", {num})'
      BY <1>1, <2>2, <3>1, <3>2, <3>3, BanStaysWatched
    <3> QED
      BY <3>4 DEF Beyond, Pending
  <2>3. CASE TempBanned(u) /\ ~(SweepClear /\ sweep.row.user = u /\ sweep.row.action = "ban")
    <3>1. Beyond(u, "tempban", {})
      BY <1>0, <1>1, <2>3 DEF BansWatched
    <3> QED
      BY <1>1, <2>3, <3>1, BanStaysWatched
  <2> QED
    BY <2>1, <2>2, <2>3
<1>2. BanClears'
  <2> SUFFICES ASSUME sweep'.pc = "clear", sweep'.row.action = "ban", tainted' = {},
                      TempBanned(sweep.row.user)'
               PROVE  Beyond(sweep.row.user, "tempban", {sweep.row.num})'
    BY DEF BanClears
  <2>1. sweep' = sweep /\ ~SweepClear
    BY <1>0, SweptBan
  <2>2. PICK u, num : u = sweep.row.user /\ num = sweep.row.num
    OBVIOUS
  <2>3. CASE ~TempBanned(u)
    BY <1>0, <2>1, <2>2, <2>3, NewBanPending
  <2>4. CASE TempBanned(u)
    <3>1. Beyond(u, "tempban", {num})
      BY <1>0, <2>1, <2>2, <2>4 DEF BansWatched, BanClears
    <3>2. num \in DOMAIN cases
      BY <1>0, <2>1, <2>2 DEF IInv, BatchMatches, Batch, Names
    <3>3. Beyond(u, "tempban", {num})'
      BY <2>1, <2>4, <3>1, <3>2, BanStaysWatched
    <3> QED
      BY <2>1, <2>2, <3>3
  <2> QED
    BY <2>3, <2>4
<1> QED
  BY <1>1, <1>2 DEF BansWatched, TypeInv

BansInv == IInv /\ ReleasesFit /\ BansFit /\ BansWatched

\* tempban: "the ban lifts automatically".  Where a punishment is sure to be recorded and
\* whoever unbans is the only one to order temporary bans, a member under a temporary ban
\* has a row the sweeper will act on or a task about to write one, as long as the case
\* numbers name one infraction each: an earlier ban's row that the sweeper is just
\* clearing is never the only one.
THEOREM TempbansWatched ==
    ASSUME SureToRecord, OneBanner
    PROVE  Spec => []TempbanWatchedUntainted
<1>1. Init => BansInv
  <2> SUFFICES ASSUME Init PROVE BansInv
    OBVIOUS
  <2>1. IInv
    BY InvariantInit
  <2> QED
    BY <2>1 DEF Init, BansInv, ReleasesFit, BansFit, BansWatched, BanClears, TempBanned,
       NoJob, Asleep
<1>2. BansInv /\ [Next]_vars => BansInv'
  <2> SUFFICES ASSUME BansInv, [Next]_vars PROVE BansInv'
    OBVIOUS
  <2>1. IInv /\ IInv' /\ TypeInv /\ TypeInv'
    BY InvariantStep DEF BansInv, IInv
  <2> QED
    BY <2>1, ReleasesKept, BansFitKept, BansWatchedKept DEF BansInv
<1>3. BansInv => TempbanWatchedUntainted
  <2> SUFFICES ASSUME BansInv, tainted = {}, NEW u \in banned, banTerm[u] > 0
               PROVE  RowsOf(u, "ban") # {} \/ Recording(u, "tempban")
    BY DEF TempbanWatchedUntainted, TempbanWatched
  <2>1. Beyond(u, "tempban", {})
    BY DEF BansInv, BansWatched, TempBanned, IInv, TypeInv, TypeOK
  <2> QED
    BY <2>1 DEF Beyond, Pending, Recording, TimedAction
<1> QED
  BY <1>1, <1>2, <1>3, PTL DEF Spec

(***************************************************************************)
(* Mutes.                                                                  *)
(***************************************************************************)
\* A mute is ordered by a task that goes on to write its case, or fewer are muted.
LEMMA MutesMove ==
    ASSUME TypeInv, [Next]_vars
    PROVE  \/ \E t \in Tasks :
                /\ pc[t] = "addRole" /\ Live(job[t].role)
                /\ pc'[t] = "begin" /\ job'[t] = job[t]
                /\ muted' = muted \cup {<<job[t].user, job[t].role>>}
                /\ UNCHANGED <<muteRole, roleState, sweep>>
           \/ muted' \subseteq muted
<1>1. ASSUME NEW t \in Tasks, AddMuteRole(t), ~(muted' \subseteq muted)
      PROVE  /\ pc[t] = "addRole" /\ Live(job[t].role)
             /\ pc'[t] = "begin" /\ job'[t] = job[t]
             /\ muted' = muted \cup {<<job[t].user, job[t].role>>}
             /\ UNCHANGED <<muteRole, roleState, sweep>>
  <2>1. Goto(t, "begin", job[t])
    BY <1>1 DEF AddMuteRole, Refuse, discordVars
  <2>2. pc'[t] = "begin" /\ job'[t] = job[t]
    BY <2>1, GotoFlow
  <2> QED
    BY <1>1, <2>2 DEF AddMuteRole, Refuse, discordVars, dbVars
<1>2. ASSUME NEW t \in Tasks, RemoveMuteRole(t) PROVE muted' \subseteq muted
  BY <1>2 DEF RemoveMuteRole, Refuse, discordVars
<1>3. ASSUME NEW t \in Tasks,
             \/ Issue(t) \/ Discipline(t) \/ BanUser(t) \/ UnbanUser(t) \/ FindMuteRole(t)
             \/ CreateMuteRole(t) \/ StoreMuteRole(t) \/ ReadMuteRole(t)
      PROVE  UNCHANGED muted
  BY <1>3 DEF Issue, Discipline, BanUser, UnbanUser, FindMuteRole, CreateMuteRole,
     StoreMuteRole, ReadMuteRole, Refuse, discordVars
<1>4. ASSUME NEW t \in Tasks,
             \/ ClearTimed(t) \/ ReadHighest(t) \/ InsertCase(t) \/ FallbackNumber(t)
             \/ RecordTimed(t) \/ ReadPolicy(t) \/ CountWarns(t) \/ ResetWarns(t) \/ SetPolicy(t)
             \/ DeleteCase(t) \/ DeleteTimed(t) \/ FindLift(t) \/ ExpireNow(t)
      PROVE  UNCHANGED muted
  BY <1>4 DEF ClearTimed, ReadHighest, InsertCase, FallbackNumber, RecordTimed, ReadPolicy,
     CountWarns, ResetWarns, SetPolicy, DeleteCase, DeleteTimed, FindLift, ExpireNow, discordVars
<1>5. CASE SweepStep \/ Tick \/ Crash \/ DeleteRole \/ UNCHANGED vars
  BY <1>5 DEF SweepStep, SweepScan, SweepPick, SweepLift, SweepRetry, SweepGiveUp, SweepClear,
     SweepClose, Tick, Crash, DeleteRole, vars, discordVars
<1> QED
  BY <1>1, <1>2, <1>3, <1>4, <1>5 DEF Next, TaskStep

\* The stored role is replaced by the task that made a new one, and a role dies only
\* with the mutes it stands for.
LEMMA RoleMoves ==
    ASSUME TypeInv, [Next]_vars, SureToRecord
    PROVE  /\ \/ UNCHANGED muteRole
              \/ \E t \in Tasks : /\ StoreMuteRole(t) /\ pc[t] = "storeRole"
                                  /\ muteRole' = job[t].role /\ UNCHANGED <<muted, roleState>>
           /\ \A r : Live(r) /\ ~Live(r)' => \A p \in muted' : p \in muted /\ p[2] # r
<1>1. ASSUME NEW t \in Tasks, StoreMuteRole(t)
      PROVE  pc[t] = "storeRole" /\ muteRole' = job[t].role /\ UNCHANGED <<muted, roleState>>
  BY <1>1 DEF StoreMuteRole, SureToRecord, Outcomes, discordVars
<1>2. ASSUME NEW t \in Tasks, CreateMuteRole(t)
      PROVE  UNCHANGED muteRole /\ \A r : Live(r) => Live(r)'
  BY <1>2 DEF CreateMuteRole, Refuse, dbVars, discordVars, Live, TypeInv, TypeOK
<1>3. ASSUME NEW t \in Tasks,
             \/ Issue(t) \/ Discipline(t) \/ BanUser(t) \/ UnbanUser(t) \/ FindMuteRole(t)
             \/ AddMuteRole(t) \/ RemoveMuteRole(t) \/ ReadMuteRole(t)
      PROVE  UNCHANGED <<muteRole, roleState>>
  BY <1>3 DEF Issue, Discipline, BanUser, UnbanUser, FindMuteRole, AddMuteRole,
     RemoveMuteRole, ReadMuteRole, Refuse, dbVars, discordVars
<1>4. ASSUME NEW t \in Tasks,
             \/ ClearTimed(t) \/ ReadHighest(t) \/ InsertCase(t) \/ FallbackNumber(t)
             \/ RecordTimed(t) \/ ReadPolicy(t) \/ CountWarns(t) \/ ResetWarns(t) \/ SetPolicy(t)
             \/ DeleteCase(t) \/ DeleteTimed(t) \/ FindLift(t) \/ ExpireNow(t)
      PROVE  UNCHANGED <<muteRole, roleState>>
  BY <1>4 DEF ClearTimed, ReadHighest, InsertCase, FallbackNumber, RecordTimed, ReadPolicy,
     CountWarns, ResetWarns, SetPolicy, DeleteCase, DeleteTimed, FindLift, ExpireNow,
     dbVars, discordVars
<1>5. CASE SweepStep \/ Tick \/ Crash \/ UNCHANGED vars
  <2>1. UNCHANGED <<muteRole, roleState>>
    BY <1>5 DEF SweepStep, SweepScan, SweepPick, SweepLift, SweepRetry, SweepGiveUp, SweepClear,
       SweepClose, Tick, Crash, vars, dbVars, discordVars
  <2> QED
    BY <2>1 DEF Live
<1>6. CASE DeleteRole
  BY <1>6 DEF DeleteRole, dbVars, Live, TypeInv, TypeOK
<1> QED
  BY <1>1, <1>2, <1>3, <1>4, <1>5, <1>6 DEF Next, TaskStep, Live

\* Only the muter is at the steps that touch the role.
LEMMA OneAtRole ==
    ASSUME TypeInv, OneMuter, ReleasesFit, MutersFit, NEW s \in Tasks, NEW t \in Tasks,
           job[s].type = "mute",
           \/ pc[t] \in {"makeRole", "storeRole", "addRole", "removeRole"}
           \/ pc[t] = "clear" /\ job[t].type = "unmute"
    PROVE  s = t
<1>1. job[t].type \in {"mute", "unmute"}
  BY DEF MutersFit, ReleasesFit
<1>2. job[s].type \in Commands[s] /\ job[t].type \in Commands[t]
  BY <1>1 DEF MutersFit
<1> QED
  BY <1>1, <1>2 DEF OneMuter

LEMMA MutersFitKept ==
    ASSUME TypeInv, OneMuter, [Next]_vars, SureToRecord, ReleasesFit, MutersFit, RolesFit
    PROVE  MutersFit'
<1> DEFINE Ordered(t) == job[t].type \in {"mute", "unmute"} => job[t].type \in Commands[t]
           Muting(t) ==
               pc[t] \in {"findRole", "makeRole", "storeRole", "addRole"} => job[t].type = "mute"
           Holding(t) == pc[t] \in {"addRole", "removeRole"} => job[t].role = muteRole
           Making(t) == pc[t] \in {"makeRole", "storeRole"} => muted = {}
           Clearing(t) ==
               pc[t] = "clear" /\ job[t].type = "unmute" => \A p \in muted : p[1] # job[t].user
<1>0. /\ "crash" \notin Faults /\ Faults \cap {"db", "refused"} = {}
      /\ \A t \in Tasks : Ordered(t) /\ Muting(t) /\ Holding(t) /\ Making(t) /\ Clearing(t)
  BY DEF MutersFit, SureToRecord
<1>1. \A t \in Tasks : Ordered(t)' /\ Muting(t)'
  <2>1. ASSUME NEW t \in Tasks, Flow(t) PROVE Ordered(t)'
    <3>1. CASE Started(t)
      BY <3>1 DEF Started
    <3>2. CASE Escalates(t)
      <4>1. job[t].policy.action \in {"timeout", "kick", "ban"}
        BY JobFacts DEF Jobs, PolicyValues
      <4> QED
        BY <3>2, <4>1 DEF Escalates
    <3>3. CASE Same(t)
      BY <1>0, <3>3 DEF Same, Alike
    <3>4. CASE pc'[t] = "idle" /\ job'[t] = NoJob
      BY <3>4 DEF NoJob
    <3> QED
      BY <2>1, <3>1, <3>2, <3>3, <3>4 DEF Flow
  <2>2. ASSUME NEW t \in Tasks, Flow(t) PROVE Muting(t)'
    BY <1>0, <2>2, StepOf DEF Same, Alike
  <2> QED
    BY <1>0, <2>1, <2>2, WhoMoves DEF OthersStay
<1>2. ASSUME NEW t \in Tasks PROVE Holding(t)'
  <2>1. CASE UNCHANGED muteRole
    <3>1. ASSUME Issue(t) \/ TaskStep(t), Flow(t), pc[t] = "storeRole" PROVE Holding(t)'
      <4>1. StoreMuteRole(t)
        BY <3>1, ActionAt
      <4>2. muteRole' = job[t].role /\ job'[t] = job[t]
        BY <1>0, <4>1, GotoFlow DEF StoreMuteRole, Outcomes
      <4> QED
        BY <4>2
    <3>2. ASSUME Flow(t), pc[t] # "storeRole" PROVE Holding(t)'
      BY <2>1, <3>2, StepOf
    <3> QED
      BY <1>0, <2>1, <3>1, <3>2, WhoMoves DEF OthersStay
  <2>2. CASE ~UNCHANGED muteRole
    <3>1. PICK s \in Tasks : StoreMuteRole(s) /\ pc[s] = "storeRole" /\ muteRole' = job[s].role
      BY <2>2, RoleMoves
    <3>2. pc'[s] = "addRole" /\ job'[s] = job[s] /\ OthersStay(s)
      BY <3>1, GotoFlow DEF StoreMuteRole
    <3>3. CASE t = s
      BY <3>1, <3>2, <3>3
    <3>4. CASE t # s
      <4>1. pc[t] \notin {"addRole", "removeRole"}
        BY <1>0, <3>1, <3>4, OneAtRole
      <4> QED
        BY <3>2, <3>4, <4>1 DEF OthersStay
    <3> QED
      BY <3>3, <3>4
  <2> QED
    BY <2>1, <2>2
<1>3. ASSUME NEW t \in Tasks PROVE Making(t)'
  <2>1. CASE muted' \subseteq muted
    <3>1. ASSUME Flow(t) PROVE Making(t)'
      BY <1>0, <2>1, <3>1, StepOf DEF RolesFit
    <3> QED
      BY <1>0, <2>1, <3>1, WhoMoves DEF OthersStay
  <2>2. CASE ~(muted' \subseteq muted)
    <3>1. PICK s \in Tasks : pc[s] = "addRole" /\ pc'[s] = "begin"
      BY <2>2, MutesMove
    <3>2. OthersStay(s)
      BY <1>0, <3>1, WhoMoves DEF OthersStay
    <3>3. t # s => pc[t] \notin {"makeRole", "storeRole"}
      BY <1>0, <3>1, OneAtRole
    <3> QED
      BY <3>1, <3>2, <3>3 DEF OthersStay
  <2> QED
    BY <2>1, <2>2
<1>4. ASSUME NEW t \in Tasks PROVE Clearing(t)'
  <2>1. CASE muted' \subseteq muted
    <3>1. CASE pc'[t] = pc[t] /\ job'[t] = job[t]
      BY <1>0, <2>1, <3>1
    <3>2. ASSUME Issue(t) \/ TaskStep(t), Flow(t), pc'[t] = "clear", job'[t].type = "unmute"
          PROVE  \A p \in muted' : p[1] # job'[t].user
      <4>1. Same(t) /\ pc[t] = "removeRole"
        BY <3>2, StepOf DEF Same, Alike
      <4>2. RemoveMuteRole(t)
        BY <3>2, <4>1, ActionAt
      <4>3. ~Finish(t) /\ ~Refuse(t)
        BY <3>2, GotoFlow DEF Finish, Refuse
      <4>4. muted' = muted \ {<<job[t].user, muteRole>>}
        BY <1>0, <4>1, <4>2, <4>3 DEF RemoveMuteRole
      <4>5. ASSUME NEW p \in muted', p[1] = job[t].user PROVE FALSE
        <5>1. p = <<p[1], p[2]>> /\ p[2] = muteRole
          BY <2>1, <4>5 DEF RolesFit, TypeInv, TypeOK
        <5> QED
          BY <4>4, <4>5, <5>1
      <4> QED
        BY <4>1, <4>5 DEF Same, Alike
    <3> QED
      BY <1>0, <3>1, <3>2, WhoMoves DEF OthersStay
  <2>2. CASE ~(muted' \subseteq muted)
    <3>1. PICK s \in Tasks : pc[s] = "addRole" /\ pc'[s] = "begin"
      BY <2>2, MutesMove
    <3>2. OthersStay(s)
      BY <1>0, <3>1, WhoMoves DEF OthersStay
    <3>3. t # s => ~(pc[t] = "clear" /\ job[t].type = "unmute")
      BY <1>0, <3>1, OneAtRole
    <3> QED
      BY <3>1, <3>2, <3>3 DEF OthersStay
  <2> QED
    BY <2>1, <2>2
<1> QED
  BY <1>1, <1>2, <1>3, <1>4 DEF MutersFit

LEMMA RolesFitKept ==
    ASSUME TypeInv, OneMuter, [Next]_vars, SureToRecord, ReleasesFit, MutersFit, RolesFit
    PROVE  RolesFit'
<1>1. CASE UNCHANGED muteRole /\ muted' \subseteq muted
  <2>1. ASSUME ~Live(muteRole)' PROVE muted' = {}
    <3>1. CASE Live(muteRole)
      <4>1. PICK r : r = muteRole
        OBVIOUS
      <4>2. \A p \in muted' : p \in muted /\ p[2] # r
        BY <1>1, <2>1, <3>1, <4>1, RoleMoves
      <4> QED
        BY <4>1, <4>2 DEF RolesFit
    <3> QED
      BY <1>1, <3>1 DEF RolesFit
  <2> QED
    BY <1>1, <2>1 DEF RolesFit
<1>2. CASE ~(muted' \subseteq muted)
  <2>1. PICK t \in Tasks :
           /\ pc[t] = "addRole" /\ Live(job[t].role)
           /\ muted' = muted \cup {<<job[t].user, job[t].role>>}
           /\ UNCHANGED <<muteRole, roleState>>
    BY <1>2, MutesMove
  <2>2. job[t].role = muteRole
    BY <2>1 DEF MutersFit
  <2> QED
    BY <2>1, <2>2 DEF RolesFit, Live
<1>3. CASE ~UNCHANGED muteRole
  <2>1. PICK t \in Tasks : pc[t] = "storeRole" /\ UNCHANGED muted
    BY <1>3, RoleMoves
  <2>2. muted' = {}
    BY <2>1 DEF MutersFit
  <2> QED
    BY <2>2 DEF RolesFit
<1> QED
  BY <1>1, <1>2, <1>3

LEMMA MuteStaysWatched ==
    ASSUME IInv, [Next]_vars, SureToRecord, ReleasesFit, MutersFit, tainted' = {},
           NEW u, NEW nums \in SUBSET DOMAIN cases, Beyond(u, "mute", nums),
           \E p \in muted : p[1] = u,
           SweepClear /\ sweep.row.user = u /\ sweep.row.action = "mute" => sweep.row.num \in nums
    PROVE  Beyond(u, "mute", nums)'
<1>1. TimedAction("mute") = "mute"
  BY DEF TimedAction
<1>2. ASSUME NEW t \in Tasks PROVE ~Releases(t, u, "mute")
  BY DEF Releases, ClearTimed, ReleasesFit, ReleaseTypes, ReleasedAction, MutersFit
<1> QED
  BY <1>1, <1>2, BeyondKept

\* Nobody is muted but by a task that goes on to record it.
LEMMA NewMutePending ==
    ASSUME TypeInv, [Next]_vars, MutersFit, NEW p \in muted', p \notin muted, NEW nums
    PROVE  Beyond(p[1], "mute", nums)' /\ UNCHANGED <<muteRole, sweep>>
<1>1. PICK t \in Tasks :
         /\ pc[t] = "addRole" /\ pc'[t] = "begin" /\ job'[t] = job[t]
         /\ muted' = muted \cup {<<job[t].user, job[t].role>>}
         /\ UNCHANGED <<muteRole, sweep>>
  BY MutesMove
<1>2. p[1] = job[t].user /\ job[t].type = "mute"
  BY <1>1 DEF MutersFit
<1> QED
  BY <1>1, <1>2 DEF Beyond, Pending

LEMMA BatchNumsTyped ==
    ASSUME IInv, tainted = {} PROVE BatchNums \in SUBSET DOMAIN cases
  BY DEF BatchNums, IInv, BatchMatches, Names

\* The batch only shrinks, and within a batch the sweeper keeps what it asked for.
LEMMA SweepKeepsBatch ==
    ASSUME TypeInv, [Next]_vars, SureToRecord, sweep'.asked, sweep'.role # muteRole'
    PROVE  /\ BatchNums' \subseteq BatchNums
           /\ \/ sweep.asked /\ sweep.role = sweep'.role
              \/ sweep'.role = muteRole /\ UNCHANGED muteRole
<1>1. CASE UNCHANGED sweep
  BY <1>1 DEF BatchNums, Batch
<1>2. CASE sweep' = NextRow
  <2>1. sweep.rows # {}
    BY <1>2 DEF NextRow, Asleep
  <2>2. sweep'.rows = sweep.rows /\ sweep'.pc = "pick" /\ sweep'.asked = sweep.asked
        /\ sweep'.role = sweep.role
    BY <1>2, <2>1 DEF NextRow, TypeInv, TypeOK
  <2>3. Batch' \subseteq Batch
    BY <2>2 DEF Batch
  <2> QED
    BY <2>2, <2>3 DEF BatchNums
<1>3. CASE \E next \in {"clear", "close"} :
             sweep.pc \in {"lift", "clear"} /\ sweep' = [sweep EXCEPT !.pc = next]
  <2>1. /\ sweep'.rows = sweep.rows /\ sweep'.row = sweep.row /\ sweep'.pc \in {"clear", "close"}
        /\ sweep'.asked = sweep.asked /\ sweep'.role = sweep.role
    BY <1>3 DEF TypeInv, TypeOK
  <2>2. Batch' = Batch
    BY <1>3, <2>1 DEF Batch
  <2> QED
    BY <2>1, <2>2 DEF BatchNums
<1>4. CASE SweepPick
  <2>1. PICK row \in sweep.rows : \E role :
           /\ role \in IF row.action = "mute" /\ ~sweep.asked
                       THEN Outcomes(muteRole, None) ELSE {sweep.role}
           /\ sweep' = [pc |-> "lift", rows |-> sweep.rows \ {row}, row |-> row,
                        asked |-> sweep.asked \/ (row.action = "mute" /\ ~sweep.asked),
                        role |-> role]
    BY <1>4 DEF SweepPick
  <2>2. Batch' = sweep.rows /\ sweep.rows \subseteq Batch
    BY <2>1 DEF Batch
  <2>3. UNCHANGED muteRole
    BY <1>4 DEF SweepPick, dbVars
  <2>4. BatchNums' \subseteq BatchNums
    BY <2>2 DEF BatchNums
  <2>5. CASE sweep.asked
    BY <2>1, <2>4, <2>5
  <2>6. CASE ~sweep.asked
    <3>1. row.action = "mute"
      <4> SUFFICES ASSUME row.action # "mute" PROVE FALSE
        OBVIOUS
      <4> DEFINE asked == sweep.asked \/ (row.action = "mute" /\ ~sweep.asked)
      <4>1. ~asked
        BY <2>6
      <4>2. PICK role : sweep' = [pc |-> "lift", rows |-> sweep.rows \ {row}, row |-> row,
                                  asked |-> asked, role |-> role]
        BY <2>1
      <4> HIDE DEF asked
      <4> QED
        BY <4>1, <4>2
    <3>2. sweep'.role = muteRole
      BY <2>1, <2>6, <3>1 DEF Outcomes, SureToRecord
    <3> QED
      BY <2>3, <2>4, <3>2
  <2> QED
    BY <2>5, <2>6
<1>5. CASE SweepScan
  BY <1>1, <1>5 DEF SweepScan, Asleep
<1>6. CASE Crash
  BY <1>6 DEF Crash, SureToRecord
<1>7. CASE SweepLift \/ SweepRetry \/ SweepGiveUp \/ SweepClear \/ SweepClose
  BY <1>2, <1>3, <1>7 DEF SweepLift, SweepRetry, SweepGiveUp, SweepClear, SweepClose
<1> QED
  BY <1>1, <1>4, <1>5, <1>6, <1>7, SweepMoves DEF SweepStep

LEMMA SweptMute ==
    ASSUME TypeInv, [Next]_vars, SureToRecord, RolesFit, MuteClears
    PROVE  /\ (sweep'.pc \in {"lift", "clear"} /\ sweep'.row.action = "mute") => sweep'.asked
           /\ sweep'.pc = "clear" /\ sweep'.row.action = "mute" =>
                \/ sweep' = sweep /\ ~SweepClear
                \/ /\ sweep.pc = "lift" /\ sweep.row.action = "mute"
                   /\ sweep'.row = sweep.row /\ sweep'.role = sweep.role /\ sweep'.asked
                   /\ muted' = muted \ {<<sweep.row.user, sweep.role>>}
<1> DEFINE Asked == (sweep.pc \in {"lift", "clear"} /\ sweep.row.action = "mute") => sweep.asked
           Lifted == sweep'.pc = "clear" /\ sweep'.row.action = "mute" =>
                \/ sweep' = sweep /\ ~SweepClear
                \/ /\ sweep.pc = "lift" /\ sweep.row.action = "mute"
                   /\ sweep'.row = sweep.row /\ sweep'.role = sweep.role /\ sweep'.asked
                   /\ muted' = muted \ {<<sweep.row.user, sweep.role>>}
<1>0. Asked
  BY DEF MuteClears
<1>1. CASE UNCHANGED sweep
  <2>1. sweep.pc = "clear" => ~SweepClear
    BY <1>1 DEF SweepClear, TypeInv, TypeOK
  <2> QED
    BY <1>0, <1>1, <2>1
<1>2. CASE SweepLift
  <2>1. /\ sweep'.row = sweep.row /\ sweep'.role = sweep.role /\ sweep'.asked = sweep.asked
        /\ sweep.pc = "lift"
    BY <1>2 DEF SweepLift, TypeInv, TypeOK
  <2>2. sweep.row.action = "mute" => muted' = muted \ {<<sweep.row.user, sweep.role>>}
    BY <1>2 DEF SweepLift
  <2> QED
    BY <1>0, <1>2, <2>1, <2>2
<1>3. CASE SweepScan \/ Crash
  BY <1>0, <1>1, <1>3 DEF SweepScan, Crash, SureToRecord, Asleep
<1>4. CASE SweepPick
  <2>1. PICK row, role :
           sweep' = [pc |-> "lift", rows |-> sweep.rows \ {row}, row |-> row,
                     asked |-> sweep.asked \/ (row.action = "mute" /\ ~sweep.asked),
                     role |-> role]
    BY <1>4 DEF SweepPick
  <2> DEFINE asked == sweep.asked \/ (row.action = "mute" /\ ~sweep.asked)
  <2>2. sweep'.pc = "lift" /\ sweep'.row = row /\ sweep'.asked = asked
    BY <2>1
  <2>3. row.action = "mute" => asked
    OBVIOUS
  <2> HIDE DEF asked
  <2> QED
    BY <2>2, <2>3
<1>5. CASE SweepRetry \/ SweepClear \/ SweepClose
  <2>1. NextRow.pc \notin {"lift", "clear"}
    BY DEF NextRow, Asleep, TypeInv, TypeOK
  <2>2. SweepClear => sweep'.pc = "close"
    BY DEF SweepClear, TypeInv, TypeOK
  <2> QED
    BY <1>5, <2>1, <2>2 DEF SweepRetry, SweepClose
<1>6. CASE SweepGiveUp
  <2>1. /\ sweep'.row = sweep.row /\ sweep'.role = sweep.role /\ sweep'.asked = sweep.asked
        /\ sweep.pc = "lift" /\ UNCHANGED muted
    BY <1>6 DEF SweepGiveUp, TypeInv, TypeOK, discordVars
  <2>2. sweep.row.action = "mute" => ~Live(sweep.role)
    BY <1>6 DEF SweepGiveUp, SureToRecord
  <2>3. sweep.row.action = "mute" => <<sweep.row.user, sweep.role>> \notin muted
    BY <2>2 DEF RolesFit
  <2> QED
    BY <1>0, <2>1, <2>3
<1> QED
  BY <1>1, <1>2, <1>3, <1>4, <1>5, <1>6, SweepMoves DEF SweepStep

LEMMA MutesWatchedKept ==
    ASSUME IInv, IInv', [Next]_vars, SureToRecord, OneMuter,
           ReleasesFit, MutersFit, RolesFit, RolesFit', MutesWatched
    PROVE  MutesWatched'
<1>0. TypeInv /\ tainted \subseteq tainted' /\ TypeInv'
  BY NextKeeps DEF IInv, Keeps
<1>1. ASSUME tainted' = {}, NEW p \in muted' PROVE Beyond(p[1], "mute", {})'
  <2>1. CASE p \notin muted
    BY <1>0, <2>1, NewMutePending
  <2>2. CASE p \in muted /\ SweepClear /\ sweep.row.user = p[1] /\ sweep.row.action = "mute"
    <3>1. PICK num : num = sweep.row.num
      OBVIOUS
    <3>2. Beyond(p[1], "mute", {num})
      BY <1>0, <1>1, <2>2, <3>1 DEF MutesWatched, MuteClears, SweepClear
    <3>3. num \in DOMAIN cases
      BY <1>0, <1>1, <2>2, <3>1 DEF IInv, BatchMatches, Batch, Names, SweepClear
    <3>4. Beyond(p[1], "mute", {num})'
      BY <1>1, <2>2, <3>1, <3>2, <3>3, MuteStaysWatched
    <3> QED
      BY <3>4 DEF Beyond, Pending
  <2>3. CASE p \in muted /\ ~(SweepClear /\ sweep.row.user = p[1] /\ sweep.row.action = "mute")
    <3>1. Beyond(p[1], "mute", {})
      BY <1>0, <1>1, <2>3 DEF MutesWatched
    <3> QED
      BY <1>1, <2>3, <3>1, MuteStaysWatched
  <2> QED
    BY <2>1, <2>2, <2>3
<1>2. (sweep'.pc \in {"lift", "clear"} /\ sweep'.row.action = "mute") => sweep'.asked
  BY <1>0, SweptMute DEF MutesWatched
<1>3. ASSUME sweep'.asked, sweep'.role # muteRole', tainted' = {}, NEW p \in muted'
      PROVE  Beyond(p[1], "mute", BatchNums)'
  <2>1. PICK nums, before : nums = BatchNums' /\ before = BatchNums
    OBVIOUS
  <2>2. nums \subseteq before
    BY <1>0, <1>3, <2>1, SweepKeepsBatch
  <2>3. CASE p \notin muted
    BY <1>0, <1>3, <2>1, <2>3, NewMutePending
  <2>4. CASE p \in muted
    <3>1. sweep.asked /\ sweep.role # muteRole
      <4>1. CASE UNCHANGED muteRole
        BY <1>0, <1>3, <4>1, SweepKeepsBatch
      <4>2. CASE ~UNCHANGED muteRole
        <5>1. PICK t \in Tasks : pc[t] = "storeRole"
          BY <1>0, <4>2, RoleMoves
        <5> QED
          BY <2>4, <5>1 DEF MutersFit
      <4> QED
        BY <4>1, <4>2
    <3>2. Beyond(p[1], "mute", before)
      BY <1>0, <1>3, <2>1, <2>4, <3>1 DEF MutesWatched, MuteClears
    <3>3. before \in SUBSET DOMAIN cases
      BY <1>0, <1>3, <2>1, BatchNumsTyped
    <3>4. SweepClear => sweep.row.num \in before
      BY <2>1 DEF BatchNums, Batch, SweepClear
    <3>5. Beyond(p[1], "mute", before)'
      BY <1>3, <2>4, <3>2, <3>3, <3>4, MuteStaysWatched
    <3>6. Beyond(p[1], "mute", nums)'
      BY <2>2, <3>5 DEF Beyond, Pending
    <3> QED
      BY <2>1, <3>6
  <2> QED
    BY <2>3, <2>4
<1>4. ASSUME sweep'.pc = "clear", sweep'.row.action = "mute", tainted' = {}, NEW p \in muted',
             p[1] = sweep'.row.user
      PROVE  Beyond(p[1], "mute", {sweep.row.num})'
  <2>1. PICK num : num = sweep'.row.num
    OBVIOUS
  <2>2. CASE p \notin muted
    BY <1>0, <1>4, <2>1, <2>2, NewMutePending
  <2>3. CASE p \in muted
    <3>1. Beyond(p[1], "mute", {num}) /\ num \in DOMAIN cases /\ ~SweepClear
      <4>1. CASE sweep' = sweep /\ ~SweepClear
        <5>1. Beyond(p[1], "mute", {num})
          BY <1>0, <1>4, <2>1, <2>3, <4>1 DEF MutesWatched, MuteClears
        <5>2. num \in DOMAIN cases
          BY <1>0, <1>4, <2>1, <4>1 DEF IInv, BatchMatches, Batch, Names
        <5> QED
          BY <4>1, <5>1, <5>2
      <4>2. CASE /\ sweep.pc = "lift" /\ sweep.row.action = "mute" /\ sweep'.row = sweep.row
                 /\ sweep'.role = sweep.role /\ sweep'.asked
                 /\ muted' = muted \ {<<sweep.row.user, sweep.role>>}
        <5>1. num \in BatchNums /\ num \in DOMAIN cases
          BY <1>0, <1>4, <2>1, <4>2 DEF BatchNums, IInv, BatchMatches, Batch, Names
        <5>2. p = <<p[1], p[2]>> /\ p[2] = muteRole
          BY <1>0, <2>3 DEF RolesFit, TypeInv, TypeOK
        <5>3. sweep.role # muteRole
          BY <1>4, <4>2, <5>2
        <5>4. sweep.asked
          BY <4>2 DEF MutesWatched, MuteClears
        <5>5. Beyond(p[1], "mute", BatchNums)
          BY <1>0, <1>4, <2>3, <5>3, <5>4 DEF MutesWatched, MuteClears
        <5>6. Beyond(p[1], "mute", {num})
          BY <5>1, <5>5 DEF Beyond, Pending
        <5> QED
          BY <4>2, <5>1, <5>6 DEF SweepClear
      <4> QED
        BY <1>0, <1>4, <4>1, <4>2, SweptMute DEF MutesWatched
    <3>2. Beyond(p[1], "mute", {num})'
      BY <1>4, <2>3, <3>1, MuteStaysWatched
    <3> QED
      BY <2>1, <3>2
  <2> QED
    BY <2>2, <2>3
<1> QED
  BY <1>1, <1>2, <1>3, <1>4 DEF MutesWatched, MuteClears

MutesInv == IInv /\ ReleasesFit /\ MutersFit /\ RolesFit /\ MutesWatched

\* mute: "Temporarily mute a member for the given duration".  Where a punishment is sure to
\* be recorded and one moderator at a time mutes and unmutes, whoever is muted carries the
\* stored role, the only one a release removes, and has a row the sweeper watches or a
\* task about to write one, even when an administrator deletes the role and the sweeper
\* works with the one it read before.
THEOREM MutedWatched ==
    ASSUME SureToRecord, OneMuter
    PROVE  Spec => []MuteWatched
<1>1. Init => MutesInv
  <2> SUFFICES ASSUME Init PROVE MutesInv
    OBVIOUS
  <2>1. IInv
    BY InvariantInit
  <2> QED
    BY <2>1 DEF Init, MutesInv, ReleasesFit, MutersFit, RolesFit, MutesWatched, MuteClears,
       NoJob, Asleep
<1>2. MutesInv /\ [Next]_vars => MutesInv'
  <2> SUFFICES ASSUME MutesInv, [Next]_vars PROVE MutesInv'
    OBVIOUS
  <2>1. IInv /\ IInv' /\ TypeInv
    BY InvariantStep DEF MutesInv, IInv
  <2>2. ReleasesFit' /\ MutersFit' /\ RolesFit'
    BY <2>1, ReleasesKept, MutersFitKept, RolesFitKept DEF MutesInv
  <2> QED
    BY <2>1, <2>2, MutesWatchedKept DEF MutesInv
<1>3. MutesInv => MuteWatched
  <2> SUFFICES ASSUME MutesInv, NEW p \in muted
               PROVE  /\ p[2] = muteRole
                      /\ tainted = {} => (RowsOf(p[1], "mute") # {} \/ Recording(p[1], "mute"))
    BY DEF MuteWatched
  <2>1. p[2] = muteRole
    BY DEF MutesInv, RolesFit
  <2>2. tainted = {} => Beyond(p[1], "mute", {})
    BY DEF MutesInv, MutesWatched
  <2> QED
    BY <2>1, <2>2 DEF Beyond, Pending, Recording, TimedAction
<1> QED
  BY <1>1, <1>2, <1>3, PTL DEF Spec
-----------------------------------------------------------------------------
(***************************************************************************)
(* Warn escalation.                                                        *)
(***************************************************************************)
\* The stored policy stays the one in force.
PolicyFixed == \A t \in Tasks : "policy" \notin Commands[t]

\* Warns come from moderators: automod's do not escalate.
ModeratorsWarn == \A t \in AutomodTasks : "warn" \notin Commands[t]

\* A task that will count, or is dealing with, the warns of u.
EscalationSteps == {"discord", "begin", "insert", "fallback", "record", "reset"}
Settles(t, u) ==
    /\ job[t].user = u
    /\ \/ pc[t] \in {"readPolicy", "count"}
       \/ job[t].by = "escalation" /\ pc[t] \in EscalationSteps

\* Only a moderator's warn is counted and escalates, by the policy in force.
WarnersFit ==
    \A t \in Tasks :
        /\ pc[t] # "policy"
        /\ job[t].type = "warn" =>
              job[t].by = (IF t \in AutomodTasks THEN "automod" ELSE "moderator")
        /\ job[t].type = "warn" \/ job[t].by = "escalation" => "warn" \in Commands[t]
        /\ job[t].by = "escalation" =>
              /\ pc[t] \in EscalationSteps /\ job[t].type \in {"timeout", "kick", "ban"}
              /\ t \notin AutomodTasks
        /\ pc[t] \in {"readPolicy", "count"} => job[t].type = "warn" /\ t \notin AutomodTasks
        /\ pc[t] = "count" => job[t].policy = policy

\* Whoever has reached the threshold is being dealt with.
Settling ==
    policy.threshold > 0 =>
        \A u \in Users : Cardinality(ActiveWarns(u)) >= policy.threshold =>
            \E t \in Tasks : Settles(t, u)

LEMMA WhoMovesOrDies ==
    ASSUME TypeInv, [Next]_vars
    PROVE  \/ \E t \in Tasks : (Issue(t) \/ TaskStep(t)) /\ Flow(t) /\ OthersStay(t)
           \/ SweepStep \/ Tick \/ DeleteRole \/ UNCHANGED vars
           \/ Crash
<1> QED
  BY TaskFlow DEF Next

LEMMA NobodyMoves ==
    ASSUME TypeInv, SweepStep \/ Tick \/ DeleteRole \/ UNCHANGED vars
    PROVE  UNCHANGED <<pc, job>>
  BY DEF SweepStep, SweepScan, SweepPick, SweepLift, SweepRetry, SweepGiveUp, SweepClear,
     SweepClose, Tick, DeleteRole, vars, taskVars

\* Only the commands that set the policy change it.
LEMMA PolicyMoves ==
    ASSUME [Next]_vars
    PROVE  UNCHANGED policy \/ \E t \in Tasks : SetPolicy(t)
<1>1. ASSUME NEW t \in Tasks,
             \/ Issue(t) \/ Discipline(t) \/ BanUser(t) \/ UnbanUser(t) \/ FindMuteRole(t)
             \/ CreateMuteRole(t) \/ StoreMuteRole(t) \/ AddMuteRole(t) \/ ReadMuteRole(t)
             \/ RemoveMuteRole(t) \/ ClearTimed(t)
      PROVE  UNCHANGED policy
  BY <1>1 DEF Issue, Discipline, BanUser, UnbanUser, FindMuteRole, CreateMuteRole,
     StoreMuteRole, AddMuteRole, ReadMuteRole, RemoveMuteRole, ClearTimed, Refuse, dbVars
<1>2. ASSUME NEW t \in Tasks,
             \/ ReadHighest(t) \/ InsertCase(t) \/ FallbackNumber(t) \/ RecordTimed(t)
             \/ ReadPolicy(t) \/ CountWarns(t) \/ ResetWarns(t) \/ DeleteCase(t)
             \/ DeleteTimed(t) \/ FindLift(t) \/ ExpireNow(t)
      PROVE  UNCHANGED policy
  BY <1>2 DEF ReadHighest, InsertCase, FallbackNumber, RecordTimed, ReadPolicy, CountWarns,
     ResetWarns, DeleteCase, DeleteTimed, FindLift, ExpireNow, dbVars
<1>3. CASE SweepStep \/ Tick \/ Crash \/ DeleteRole \/ UNCHANGED vars
  BY <1>3 DEF SweepStep, SweepScan, SweepPick, SweepLift, SweepRetry, SweepGiveUp, SweepClear,
     SweepClose, Tick, Crash, DeleteRole, vars, dbVars
<1> QED
  BY <1>1, <1>2, <1>3 DEF Next, TaskStep

LEMMA PolicyStays ==
    ASSUME [Next]_vars, WarnersFit PROVE UNCHANGED policy
  BY PolicyMoves DEF SetPolicy, WarnersFit

\* An escalation goes straight from its punishment to its case and to the reset.
LEMMA EscalationLeads ==
    ASSUME NEW t \in Tasks, Leads(t, pc'[t], job'[t]), job[t].by = "escalation",
           pc[t] \in EscalationSteps, job[t].type \in {"timeout", "kick", "ban"}
    PROVE  /\ pc'[t] \in EscalationSteps \ {"discord"} /\ pc[t] # "reset"
           /\ pc[t] = "discord" => pc'[t] = "begin"
<1>1. /\ AfterCase(job[t]) = "reset"
      /\ \A made \in BOOLEAN : AfterCreate(job[t], made) \in {"record", "fallback", "reset"}
  BY DEF AfterCase, AfterCreate
<1> QED
  BY <1>1 DEF Leads, EscalationSteps

LEMMA WarnersFitKept ==
    ASSUME TypeInv, PolicyFixed, [Next]_vars, WarnersFit
    PROVE  WarnersFit'
<1> DEFINE Fits(t) ==
        /\ pc[t] # "policy"
        /\ job[t].type = "warn" =>
              job[t].by = (IF t \in AutomodTasks THEN "automod" ELSE "moderator")
        /\ job[t].type = "warn" \/ job[t].by = "escalation" => "warn" \in Commands[t]
        /\ job[t].by = "escalation" =>
              /\ pc[t] \in EscalationSteps /\ job[t].type \in {"timeout", "kick", "ban"}
              /\ t \notin AutomodTasks
        /\ pc[t] \in {"readPolicy", "count"} => job[t].type = "warn" /\ t \notin AutomodTasks
        /\ pc[t] = "count" => job[t].policy = policy
<1>0. UNCHANGED policy /\ \A t \in Tasks : Fits(t)
  BY PolicyStays DEF WarnersFit
<1>1. ASSUME NEW t \in Tasks, Flow(t) PROVE Fits(t)'
  <2>1. CASE pc'[t] = "idle" /\ job'[t] = NoJob
    BY <2>1 DEF NoJob
  <2>2. CASE Started(t)
    <3>1. PICK type \in Commands[t] :
             /\ pc'[t] = FirstStep(type) /\ job'[t].type = type
             /\ job'[t].by = IF t \in AutomodTasks THEN "automod" ELSE "moderator"
      BY <2>2 DEF Started
    <3>2. type \in CommandTypes /\ type # "policy"
      BY ConstantsAssumption DEF PolicyFixed
    <3>3. pc'[t] \notin {"policy", "readPolicy", "count"}
      BY <3>1, <3>2 DEF FirstStep, CommandTypes, CaseTypes, TimedTypes, ReleaseTypes
    <3> QED
      BY <3>1, <3>3
  <2>3. CASE Escalates(t)
    <3>1. job[t].policy.action \in {"timeout", "kick", "ban"}
      BY JobFacts DEF Jobs, PolicyValues
    <3>2. job[t].type = "warn" /\ t \notin AutomodTasks /\ "warn" \in Commands[t]
      BY <1>0, <2>3 DEF Escalates
    <3> QED
      BY <2>3, <3>1, <3>2 DEF Escalates, EscalationSteps
  <2>4. CASE Same(t) /\ Leads(t, pc'[t], job'[t])
    <3>1. job'[t].type = job[t].type /\ job'[t].by = job[t].by
      BY <2>4 DEF Same, Alike
    <3>2. ASSUME job[t].by = "escalation" PROVE pc'[t] \in EscalationSteps
      BY <1>0, <2>4, <3>2, EscalationLeads
    <3>3. /\ AfterCase(job[t]) \in {"reset", "readPolicy", "idle"}
          /\ AfterCase(job[t]) = "readPolicy" => job[t].type = "warn" /\ job[t].by = "moderator"
      BY DEF AfterCase
    <3>4. \A made \in BOOLEAN :
            AfterCreate(job[t], made) \in {"record", "fallback", AfterCase(job[t])}
      BY DEF AfterCreate
    <3>5. /\ pc'[t] # "policy"
          /\ pc'[t] = "count" => pc[t] = "readPolicy" /\ job'[t].policy = policy
          /\ pc'[t] = "readPolicy" => AfterCase(job[t]) = "readPolicy"
      BY <2>4, <3>3, <3>4 DEF Leads
    <3>6. job[t].type = "warn" /\ job[t].by = "moderator" => t \notin AutomodTasks
      BY <1>0
    <3> QED
      BY <1>0, <3>1, <3>2, <3>3, <3>5, <3>6
  <2> QED
    BY <1>1, <2>1, <2>2, <2>3, <2>4 DEF Flow
<1>2. CASE \E t \in Tasks : Flow(t) /\ OthersStay(t)
  BY <1>0, <1>1, <1>2 DEF WarnersFit, OthersStay
<1>3. CASE UNCHANGED <<pc, job>>
  BY <1>0, <1>3 DEF WarnersFit
<1>4. CASE Crash
  BY <1>4 DEF Crash, WarnersFit, NoJob
<1> QED
  BY <1>2, <1>3, <1>4, WhoMovesOrDies, NobodyMoves

\* How the case log changes: a task adds its case, cases are closed, a moderator's
\* command drops one.
Inserts(t) ==
    LET n == job[t].num + 1 IN
    /\ pc[t] = "insert" /\ pc'[t] = AfterCreate(job[t], TRUE)
    /\ pc'[t] # "idle" => Same(t)
    /\ n \notin DOMAIN cases /\ DOMAIN cases' = DOMAIN cases \cup {n}
    /\ \A m \in DOMAIN cases : cases'[m] = cases[m]
    /\ cases'[n].type = job[t].type /\ cases'[n].by = job[t].by
    /\ cases'[n].user = job[t].user /\ cases'[n].active
Closes ==
    /\ DOMAIN cases' = DOMAIN cases
    /\ \A m \in DOMAIN cases :
         /\ cases'[m].type = cases[m].type /\ cases'[m].by = cases[m].by
         /\ cases'[m].user = cases[m].user /\ (cases'[m].active => cases[m].active)
Drops ==
    /\ \E t \in Tasks : pc[t] = "delcase"
    /\ DOMAIN cases' \subseteq DOMAIN cases
    /\ \A m \in DOMAIN cases' : cases'[m] = cases[m]

LEMMA CasesMove ==
    ASSUME TypeInv, [Next]_vars
    PROVE  (\E t \in Tasks : Inserts(t) /\ OthersStay(t)) \/ Closes \/ Drops
<1>1. ASSUME UNCHANGED cases PROVE Closes
  BY <1>1 DEF Closes
<1>2. ASSUME NEW t \in Tasks, InsertCase(t), ~UNCHANGED cases
      PROVE  Inserts(t) /\ OthersStay(t)
  <2> DEFINE n == job[t].num + 1
             row == [type |-> job[t].type, by |-> job[t].by, user |-> job[t].user,
                     until |-> job[t].until, active |-> TRUE]
             j == [job[t] EXCEPT !.num = n]
  <2>1. /\ pc[t] = "insert" /\ n \notin DOMAIN cases /\ cases' = Upsert(cases, n, row)
        /\ Goto(t, AfterCreate(job[t], TRUE), j)
    BY <1>2 DEF InsertCase
  <2>2. /\ row.type = job[t].type /\ row.by = job[t].by /\ row.user = job[t].user
        /\ row.active
    OBVIOUS
  <2>3. Alike(j, job[t])
    BY JobFacts, AlikeJobs
  <2> HIDE DEF row, j
  <2>4. /\ pc'[t] = AfterCreate(job[t], TRUE) /\ OthersStay(t)
        /\ pc'[t] # "idle" => job'[t] = j
    BY <2>1, GotoFlow
  <2>5. /\ DOMAIN cases' = DOMAIN cases \cup {n} /\ cases'[n] = row
        /\ \A m \in DOMAIN cases : cases'[m] = cases[m]
    BY <2>1 DEF Upsert
  <2> QED
    BY <2>1, <2>2, <2>3, <2>4, <2>5 DEF Inserts, Same
<1>3. ASSUME NEW t \in Tasks, ResetWarns(t) PROVE Closes
  <2>1. UNCHANGED cases \/ cases' = [n \in DOMAIN cases |->
            [cases[n] EXCEPT !.active = @ /\ n \notin ActiveWarns(job[t].user)]]
    BY <1>3, OutcomesAre DEF ResetWarns
  <2> QED
    BY <1>1, <2>1, TablesTyped DEF CaseRows, Closes
<1>4. CASE SweepClose
  <2>1. UNCHANGED cases \/ cases' = [n \in DOMAIN cases |->
            [cases[n] EXCEPT !.active = @ /\ n # sweep.row.num]]
    BY <1>4, OutcomesAre DEF SweepClose
  <2> QED
    BY <1>1, <2>1, TablesTyped DEF CaseRows, Closes
<1>5. ASSUME NEW t \in Tasks, DeleteCase(t), ~UNCHANGED cases PROVE Drops
  <2>1. PICK gone : cases' = Without(cases, gone) /\ pc[t] = "delcase"
    BY <1>5 DEF DeleteCase
  <2> QED
    BY <2>1 DEF Without, Drops
<1>6. ASSUME NEW t \in Tasks,
             \/ Issue(t) \/ QuietStep(t) \/ ClearTimed(t) \/ FallbackNumber(t)
             \/ RecordTimed(t) \/ DeleteTimed(t) \/ ExpireNow(t)
      PROVE  UNCHANGED cases
  BY <1>6, QuietIsQuiet DEF Issue, ClearTimed, FallbackNumber, RecordTimed, DeleteTimed,
     ExpireNow, dbVars
<1>7. CASE \/ SweepScan \/ SweepPick \/ SweepLift \/ SweepRetry \/ SweepGiveUp \/ SweepClear
           \/ Tick \/ Crash \/ DeleteRole \/ UNCHANGED vars
  <2>1. UNCHANGED cases
    BY <1>7 DEF SweepScan, SweepPick, SweepLift, SweepRetry, SweepGiveUp, SweepClear,
       Tick, Crash, DeleteRole, vars, dbVars
  <2> QED
    BY <1>1, <2>1
<1> QED
  BY <1>1, <1>2, <1>3, <1>4, <1>5, <1>6, <1>7 DEF Next, TaskStep, QuietStep, SweepStep

CasesFinite == IsFiniteSet(DOMAIN cases)

LEMMA CasesFiniteKept ==
    ASSUME TypeInv, [Next]_vars, CasesFinite PROVE CasesFinite'
<1>1. ASSUME NEW t \in Tasks, Inserts(t) PROVE CasesFinite'
  <2>1. PICK n : DOMAIN cases' = DOMAIN cases \cup {n}
    BY <1>1 DEF Inserts
  <2> QED
    BY <2>1, FS_AddElement DEF CasesFinite
<1>2. CASE Closes
  BY <1>2 DEF Closes, CasesFinite
<1>3. CASE Drops
  BY <1>3, FS_Subset DEF Drops, CasesFinite
<1> QED
  BY <1>1, <1>2, <1>3, CasesMove

\* The warns that are counted are finitely many, and losing some lowers the count.
LEMMA Counted ==
    ASSUME NEW S, NEW T, IsFiniteSet(T), S \subseteq T
    PROVE  /\ IsFiniteSet(S) /\ Cardinality(S) \in Nat /\ Cardinality(T) \in Nat
           /\ Cardinality(S) <= Cardinality(T)
  BY FS_Subset, FS_CardinalityType

LEMMA EscalatesOn ==
    ASSUME TypeInv, SureToRecord, NEW t \in Tasks, Issue(t) \/ TaskStep(t),
           job[t].by = "escalation", job[t].type \in {"timeout", "kick", "ban"},
           pc[t] \in EscalationSteps \ {"reset"}
    PROVE  Same(t) /\ pc'[t] \in EscalationSteps
<1>0. /\ "db" \notin Faults /\ "refused" \notin Faults /\ job[t] \in Jobs
      /\ AfterCase(job[t]) = "reset"
      /\ \A made \in BOOLEAN : AfterCreate(job[t], made) \in {"record", "fallback", "reset"}
  BY JobFacts DEF SureToRecord, AfterCase, AfterCreate
<1>1. ASSUME NEW next \in EscalationSteps, NEW j, Goto(t, next, j), Alike(j, job[t])
      PROVE  Same(t) /\ pc'[t] \in EscalationSteps
  BY <1>1, GotoFlow DEF Same, EscalationSteps
<1>2. Alike(job[t], job[t]) /\ \A n : Alike([job[t] EXCEPT !.num = n], job[t])
  BY <1>0, AlikeJobs
<1>3. CASE pc[t] = "discord"
  <2>1. Goto(t, "begin", job[t])
    BY <1>0, <1>3, ActionAt DEF Discipline, BanUser, UnbanUser, Refuse
  <2> QED
    BY <1>1, <1>2, <2>1 DEF EscalationSteps
<1>4. CASE pc[t] = "begin"
  <2>1. PICK h : Goto(t, "insert", [job[t] EXCEPT !.num = h])
    BY <1>0, <1>4, ActionAt DEF ReadHighest
  <2> QED
    BY <1>1, <1>2, <2>1 DEF EscalationSteps
<1>5. CASE pc[t] = "insert"
  <2>1. \E made \in BOOLEAN : \E n :
           \/ Goto(t, AfterCreate(job[t], made), [job[t] EXCEPT !.num = n])
           \/ Goto(t, AfterCreate(job[t], made), job[t])
    BY <1>5, ActionAt DEF InsertCase
  <2> QED
    BY <1>0, <1>1, <1>2, <2>1 DEF EscalationSteps
<1>6. CASE pc[t] = "fallback"
  <2>1. PICK h : Goto(t, "record", [job[t] EXCEPT !.num = h])
    BY <1>6, ActionAt DEF FallbackNumber
  <2> QED
    BY <1>1, <1>2, <2>1 DEF EscalationSteps
<1>7. CASE pc[t] = "record"
  <2>1. Goto(t, "reset", job[t])
    BY <1>0, <1>7, ActionAt DEF RecordTimed
  <2> QED
    BY <1>1, <1>2, <2>1 DEF EscalationSteps
<1> QED
  BY <1>3, <1>4, <1>5, <1>6, <1>7 DEF EscalationSteps

\* Whoever deals with the warns of a member goes on until they are closed.
LEMMA SettlesOn ==
    ASSUME TypeInv, [Next]_vars, SureToRecord, WarnersFit, NEW t \in Tasks, NEW u,
           Settles(t, u), policy.threshold > 0, Cardinality(ActiveWarns(u)) >= policy.threshold
    PROVE  Settles(t, u)' \/ ActiveWarns(u)' = {}
<1>0. "db" \notin Faults /\ "crash" \notin Faults /\ job[t] \in Jobs /\ job[t].user = u
  BY JobFacts DEF SureToRecord, Settles
<1>1. CASE pc'[t] = pc[t] /\ job'[t] = job[t]
  BY <1>1 DEF Settles
<1>2. CASE Issue(t) \/ TaskStep(t)
  <2>1. CASE pc[t] = "readPolicy"
    <3>1. Goto(t, "count", [job[t] EXCEPT !.policy = policy])
      BY <1>0, <1>2, <2>1, ActionAt DEF ReadPolicy, TypeInv, TypeOK, PolicyValues
    <3>2. [job[t] EXCEPT !.policy = policy].user = u
      BY <1>0 DEF Jobs
    <3> DEFINE j == [job[t] EXCEPT !.policy = policy]
    <3> HIDE DEF j
    <3>3. pc'[t] = "count" /\ job'[t] = j
      BY <3>1, GotoFlow DEF j
    <3> QED
      BY <3>2, <3>3 DEF Settles, j
  <2>2. CASE pc[t] = "count"
    <3>1. CountWarns(t) /\ job[t].policy = policy
      BY <1>2, <2>2, ActionAt DEF WarnersFit
    <3>2. PICK until : Goto(t, "discord", Escalated(job[t], until))
      BY <1>0, <3>1 DEF CountWarns
    <3>3. Escalated(job[t], until).user = u /\ Escalated(job[t], until).by = "escalation"
      BY <1>0 DEF Escalated, Jobs
    <3> QED
      BY <3>2, <3>3, GotoFlow DEF Settles, EscalationSteps
  <2>3. CASE job[t].by = "escalation" /\ pc[t] \in EscalationSteps \ {"reset"}
    <3>1. Same(t) /\ pc'[t] \in EscalationSteps
      BY <1>2, <2>3, EscalatesOn DEF WarnersFit
    <3> QED
      BY <1>0, <2>3, <3>1 DEF Settles, Same, Alike
  <2>4. CASE pc[t] = "reset"
    <3>1. cases' = [n \in DOMAIN cases |-> [cases[n] EXCEPT !.active = @ /\ n \notin ActiveWarns(u)]]
      BY <1>0, <1>2, <2>4, ActionAt DEF ResetWarns, Outcomes
    <3>2. ActiveWarns(u)' = {}
      BY <3>1, TablesTyped DEF ActiveWarns, CaseRows
    <3> QED
      BY <3>2
  <2> QED
    BY <2>1, <2>2, <2>3, <2>4 DEF Settles
<1> QED
  BY <1>0, <1>1, <1>2, WhoMoves DEF OthersStay

LEMMA SettlingKept ==
    ASSUME TypeInv, TypeInv', [Next]_vars, SureToRecord, ModeratorsWarn,
           CasesFinite, CasesFinite', WarnersFit, Settling
    PROVE  Settling'
<1> SUFFICES ASSUME policy.threshold > 0, NEW u \in Users,
                    Cardinality(ActiveWarns(u))' >= policy.threshold
             PROVE  \E t \in Tasks : Settles(t, u)'
  BY PolicyStays DEF Settling
<1>0. policy.threshold \in Nat /\ ActiveWarns(u)' # {}
  <2>1. policy.threshold \in Nat
    BY DEF TypeInv, TypeOK, PolicyValues
  <2>2. CASE ActiveWarns(u)' = {}
    <3>1. Cardinality(ActiveWarns(u))' = 0
      BY <2>2, FS_EmptySet
    <3> QED
      BY <2>1, <3>1
  <2> QED
    BY <2>1, <2>2
<1>1. CASE ActiveWarns(u)' \subseteq ActiveWarns(u)
  <2>1. PICK now, then : now = ActiveWarns(u)' /\ then = ActiveWarns(u)
    OBVIOUS
  <2>2. IsFiniteSet(then)
    BY <2>1, FS_Subset DEF ActiveWarns, CasesFinite
  <2>3. /\ Cardinality(now) <= Cardinality(then)
        /\ Cardinality(now) \in Nat /\ Cardinality(then) \in Nat
    BY <1>1, <2>1, <2>2, Counted
  <2>4. Cardinality(ActiveWarns(u)) >= policy.threshold
    BY <1>0, <2>1, <2>3
  <2>5. PICK t \in Tasks : Settles(t, u)
    BY <2>4 DEF Settling
  <2> QED
    BY <1>0, <2>4, <2>5, SettlesOn
<1>2. CASE ~(ActiveWarns(u)' \subseteq ActiveWarns(u))
  <2>1. PICK t \in Tasks : Inserts(t)
    BY <1>2, CasesMove DEF Closes, Drops, ActiveWarns
  <2>2. job[t].type = "warn" /\ job[t].user = u
    BY <1>2, <2>1 DEF Inserts, ActiveWarns
  <2>3. job[t].by = "moderator"
    BY <2>2 DEF WarnersFit, ModeratorsWarn
  <2>4. pc'[t] = "readPolicy" /\ Same(t)
    BY <2>1, <2>2, <2>3 DEF Inserts, AfterCreate, AfterCase, TimedTypes
  <2> QED
    BY <2>2, <2>4 DEF Settles, Same, Alike
<1> QED
  BY <1>1, <1>2

SettlingInv == IInv /\ CasesFinite /\ WarnersFit /\ Settling

\* warnings set: "Auto-punish once a member reaches this many active warnings".  Where
\* calls go through, the policy stands and warns come from moderators, nobody is left at
\* the threshold when no task is at work, whatever the tasks that warn and punish at the
\* same time do in between.
THEOREM NobodyLeftWarned ==
    ASSUME SureToRecord, PolicyFixed, ModeratorsWarn
    PROVE  Spec => []WarnsSettled
<1>1. Init => SettlingInv
  <2> SUFFICES ASSUME Init PROVE SettlingInv
    OBVIOUS
  <2>1. IInv
    BY InvariantInit
  <2>2. DOMAIN cases = {}
    BY DEF Init
  <2>3. CasesFinite
    BY <2>2, FS_EmptySet DEF CasesFinite
  <2>4. \A u \in Users : Cardinality(ActiveWarns(u)) = 0
    <3>1. ASSUME NEW u \in Users PROVE ActiveWarns(u) = {}
      BY <2>2 DEF ActiveWarns
    <3> QED
      BY <3>1, FS_EmptySet
  <2>5. Settling
    <3>1. policy.threshold \in Nat
      BY <2>1 DEF IInv, TypeInv, TypeOK, PolicyValues
    <3> QED
      BY <2>4, <3>1 DEF Settling
  <2>6. WarnersFit
    BY DEF Init, WarnersFit, NoJob
  <2> QED
    BY <2>1, <2>3, <2>5, <2>6 DEF SettlingInv
<1>2. SettlingInv /\ [Next]_vars => SettlingInv'
  <2> SUFFICES ASSUME SettlingInv, [Next]_vars PROVE SettlingInv'
    OBVIOUS
  <2>1. IInv /\ IInv' /\ TypeInv /\ TypeInv'
    BY InvariantStep DEF SettlingInv, IInv
  <2>2. CasesFinite' /\ WarnersFit'
    BY <2>1, CasesFiniteKept, WarnersFitKept DEF SettlingInv
  <2> QED
    BY <2>1, <2>2, SettlingKept DEF SettlingInv
<1>3. SettlingInv => WarnsSettled
  <2> SUFFICES ASSUME SettlingInv, policy.threshold > 0, \A t \in Tasks : pc[t] = "idle",
                      NEW u \in Users
               PROVE  Cardinality(ActiveWarns(u)) < policy.threshold
    BY DEF WarnsSettled
  <2>1. ~\E t \in Tasks : Settles(t, u)
    BY DEF Settles, EscalationSteps
  <2>2. ~(Cardinality(ActiveWarns(u)) >= policy.threshold)
    BY <2>1 DEF SettlingInv, Settling
  <2>3. ActiveWarns(u) \subseteq DOMAIN cases
    BY DEF ActiveWarns
  <2>4. Cardinality(ActiveWarns(u)) \in Nat
    BY <2>3, FS_Subset, FS_CardinalityType DEF SettlingInv, CasesFinite
  <2>5. policy.threshold \in Nat
    BY DEF SettlingInv, IInv, TypeInv, TypeOK, PolicyValues
  <2> QED
    BY <2>2, <2>4, <2>5
<1> QED
  BY <1>1, <1>2, <1>3, PTL DEF Spec

(***************************************************************************)
(* What each handler's escalations have used.                              *)
(***************************************************************************)
\* Whoever counts warns does so by a policy that escalates, and goes on to punish.
EscalatorsFit ==
    /\ policy \in Policies \cup {InitialPolicy}
    /\ \A t \in Tasks :
         /\ job[t].by = "escalation" =>
               pc[t] \in EscalationSteps /\ job[t].type \in {"timeout", "kick", "ban"}
         /\ pc[t] = "count" => job[t].policy.threshold \in Thresholds

TallyTyped ==
    /\ warned \in [Users -> Nat]
    /\ punished \in [Tasks -> [Users -> Nat]] /\ unreset \in [Tasks -> [Users -> Nat]]

\* The warns t may still count were recorded after those its escalations used.  One that
\* is about to punish holds a threshold of them; until the reset, they are still active.
Accounted(t, u, n) ==
    LET used == n * punished[t][u]
        had == warned[u] + n * unreset[t][u]
        left == Cardinality(ActiveWarns(u)) IN
    /\ ~Landed(t, u) => used + left <= had
    /\ Punishing(t, u) /\ pc[t] = "discord" => used + n <= had
    /\ Landed(t, u) => used <= had /\ used + left <= had + n
AllAccounted ==
    \A t \in Tasks, u \in Users, n \in Thresholds : Lowest(n) => Accounted(t, u, n)

LEMMA EscalatorsFitKept ==
    ASSUME TypeInv, [Next]_vars, EscalatorsFit PROVE EscalatorsFit'
<1> DEFINE Fits(t) ==
        /\ job[t].by = "escalation" =>
              pc[t] \in EscalationSteps /\ job[t].type \in {"timeout", "kick", "ban"}
        /\ pc[t] = "count" => job[t].policy.threshold \in Thresholds
<1>0. \A t \in Tasks : Fits(t)
  BY DEF EscalatorsFit
<1>1. policy' \in Policies \cup {InitialPolicy}
  <2>1. CASE UNCHANGED policy
    BY <2>1 DEF EscalatorsFit
  <2>2. ASSUME NEW t \in Tasks, SetPolicy(t) PROVE policy' \in Policies \cup {InitialPolicy}
    BY <2>2, OutcomesAre DEF SetPolicy, EscalatorsFit
  <2> QED
    BY <2>1, <2>2, PolicyMoves
<1>2. ASSUME NEW t \in Tasks, Issue(t) \/ TaskStep(t), Flow(t) PROVE Fits(t)'
  <2>1. CASE pc'[t] = "idle" /\ job'[t] = NoJob
    BY <2>1 DEF NoJob
  <2>2. CASE Started(t)
    <3>1. PICK type \in Commands[t] :
             /\ pc'[t] = FirstStep(type)
             /\ job'[t].by = IF t \in AutomodTasks THEN "automod" ELSE "moderator"
      BY <2>2 DEF Started
    <3>2. pc'[t] # "count"
      BY <3>1, ConstantsAssumption
         DEF FirstStep, CommandTypes, CaseTypes, TimedTypes, ReleaseTypes
    <3> QED
      BY <3>1, <3>2
  <2>3. CASE Escalates(t)
    <3>1. job[t].policy.action \in {"timeout", "kick", "ban"}
      BY JobFacts DEF Jobs, PolicyValues
    <3> QED
      BY <2>3, <3>1 DEF Escalates, EscalationSteps
  <2>4. CASE Same(t) /\ Leads(t, pc'[t], job'[t])
    <3>1. job'[t].type = job[t].type /\ job'[t].by = job[t].by
      BY <2>4 DEF Same, Alike
    <3>2. ASSUME job[t].by = "escalation" PROVE pc'[t] \in EscalationSteps
      BY <1>0, <2>4, <3>2, EscalationLeads
    <3>3. ASSUME pc'[t] = "count" PROVE job'[t].policy.threshold \in Thresholds
      <4>1. pc[t] = "readPolicy" /\ job'[t].policy = policy
        BY <2>4, <3>3 DEF Leads, AfterCreate, AfterCase
      <4>2. ~Finish(t)
        BY <3>3, GotoFlow DEF Finish
      <4>3. policy.threshold > 0
        BY <1>2, <4>1, <4>2, ActionAt DEF ReadPolicy
      <4> QED
        BY <4>1, <4>3 DEF Thresholds, EscalatorsFit
    <3> QED
      BY <1>0, <3>1, <3>2, <3>3
  <2> QED
    BY <1>2, <2>1, <2>2, <2>3, <2>4 DEF Flow
<1>3. CASE \E t \in Tasks : (Issue(t) \/ TaskStep(t)) /\ Flow(t) /\ OthersStay(t)
  BY <1>0, <1>1, <1>2, <1>3 DEF EscalatorsFit, OthersStay
<1>4. CASE UNCHANGED <<pc, job>>
  BY <1>0, <1>1, <1>4 DEF EscalatorsFit
<1>5. CASE Crash
  BY <1>1, <1>5 DEF Crash, EscalatorsFit, NoJob
<1> QED
  BY <1>3, <1>4, <1>5, WhoMovesOrDies, NobodyMoves

\* Active warns never grow but by warns that are recorded.
LEMMA WarnsMove ==
    ASSUME TypeInv, CasesFinite, [Next]_vars, NEW u
    PROVE  /\ Cardinality(ActiveWarns(u)) \in Nat /\ Cardinality(ActiveWarns(u))' \in Nat
           /\ Cardinality(NewWarns(u)) \in Nat
           /\ Cardinality(ActiveWarns(u))' <=
                 Cardinality(ActiveWarns(u)) + Cardinality(NewWarns(u))
<1>1. PICK now, then, new :
         now = ActiveWarns(u)' /\ then = ActiveWarns(u) /\ new = NewWarns(u)
  OBVIOUS
<1>2. CasesFinite'
  BY CasesFiniteKept
<1>3. IsFiniteSet(now) /\ IsFiniteSet(then) /\ IsFiniteSet(new)
  <2>1. now \subseteq DOMAIN cases' /\ then \subseteq DOMAIN cases /\ new \subseteq DOMAIN cases'
    BY <1>1 DEF ActiveWarns, NewWarns
  <2> QED
    BY <1>2, <2>1, FS_Subset DEF CasesFinite
<1>4. now \subseteq then \cup new
  <2>1. CASE \E t \in Tasks : Inserts(t)
    BY <1>1, <2>1 DEF Inserts, ActiveWarns, NewWarns
  <2>2. CASE Closes \/ Drops
    BY <1>1, <2>2 DEF Closes, Drops, ActiveWarns
  <2> QED
    BY <2>1, <2>2, CasesMove
<1>5. /\ Cardinality(now) \in Nat /\ Cardinality(then) \in Nat /\ Cardinality(new) \in Nat
      /\ Cardinality(now) <= Cardinality(then) + Cardinality(new)
  <2>1. /\ Cardinality(now) \in Nat /\ Cardinality(then) \in Nat /\ Cardinality(new) \in Nat
        /\ Cardinality(then \cap new) \in Nat
    BY <1>3, FS_CardinalityType, FS_Intersection
  <2>2. /\ IsFiniteSet(then \cup new)
        /\ Cardinality(then \cup new) =
              Cardinality(then) + Cardinality(new) - Cardinality(then \cap new)
    BY <1>3, FS_Union
  <2>3. Cardinality(now) <= Cardinality(then \cup new)
    BY <1>4, <2>2, Counted
  <2> QED
    BY <2>1, <2>2, <2>3
<1> QED
  BY <1>1, <1>5

\* How a step moves t with respect to u: it starts to punish when it has counted enough,
\* the punishment lands or is refused, and what landed ends with the reset or a crash.
Begins(t, u) ==
    /\ ~Punishing(t, u) /\ Punishing(t, u)' /\ pc[t] = "count" /\ pc'[t] = "discord"
    /\ UNCHANGED cases /\ Cardinality(ActiveWarns(u)) >= job[t].policy.threshold
Persists(t, u) ==
    /\ Punishing(t, u)' <=> Punishing(t, u)
    /\ pc'[t] = "discord" <=> pc[t] = "discord"
Ends(t, u) ==
    /\ Punishing(t, u) /\ ~Punishing(t, u)' /\ pc'[t] = "idle"
    /\ pc[t] \in {"discord", "reset"} \/ Crash
Idles(t, u) == ~Punishing(t, u) /\ ~Punishing(t, u)'
Moves(t, u) ==
    \/ Begins(t, u) \/ Ends(t, u) \/ Idles(t, u)
    \/ Persists(t, u) /\ ~Lands(t, u)
    \/ Lands(t, u) /\ Punishing(t, u)'

LEMMA EscalatorMoves ==
    ASSUME TypeInv, [Next]_vars, EscalatorsFit, NEW t \in Tasks, NEW u \in Users
    PROVE  Moves(t, u)
<1>1. CASE pc'[t] = pc[t] /\ job'[t] = job[t]
  BY <1>1 DEF Moves, Persists, Punishing, Lands
<1>2. CASE (Issue(t) \/ TaskStep(t)) /\ Flow(t)
  <2>1. CASE Started(t)
    BY <2>1 DEF Started, Moves, Idles, Punishing, EscalatorsFit, EscalationSteps
  <2>2. CASE Escalates(t)
    <3>1. job[t].by # "escalation"
      BY <2>2 DEF Escalates, EscalatorsFit, EscalationSteps
    <3>2. CASE job[t].user = u
      <4>1. CountWarns(t) /\ ~Finish(t)
        BY <1>2, <2>2, ActionAt, GotoFlow DEF Escalates, Finish
      <4> QED
        BY <2>2, <3>1, <3>2, <4>1
           DEF CountWarns, Escalates, Moves, Begins, Punishing, dbVars
    <3>3. CASE job[t].user # u
      BY <2>2, <3>1, <3>3 DEF Escalates, Moves, Idles, Punishing
    <3> QED
      BY <3>2, <3>3
  <2>3. CASE Same(t) /\ Leads(t, pc'[t], job'[t])
    <3>1. Punishing(t, u)' <=> Punishing(t, u)
      BY <2>3 DEF Same, Alike, Punishing
    <3>2. CASE ~Punishing(t, u)
      BY <3>1, <3>2 DEF Moves, Idles
    <3>3. CASE Punishing(t, u)
      <4>1. /\ pc'[t] # "discord"
            /\ pc[t] = "discord" => pc'[t] = "begin"
        BY <2>3, <3>3, EscalationLeads DEF Punishing, EscalatorsFit
      <4> QED
        BY <3>1, <3>3, <4>1 DEF Moves, Persists, Lands
    <3> QED
      BY <3>2, <3>3
  <2>4. CASE pc'[t] = "idle" /\ job'[t] = NoJob
    <3>1. ~Punishing(t, u)'
      BY <2>4 DEF NoJob, Punishing
    <3>2. ASSUME Punishing(t, u), pc[t] \notin {"discord", "reset"} PROVE FALSE
      <4>1. pc[t] \in {"begin", "insert", "fallback", "record"} /\ AfterCase(job[t]) = "reset"
        BY <3>2 DEF Punishing, EscalatorsFit, EscalationSteps, AfterCase
      <4>2. \A made \in BOOLEAN : AfterCreate(job[t], made) # "idle"
        BY <4>1 DEF AfterCreate
      <4>3. \E next, j : Goto(t, next, j) /\ next # "idle"
        BY <1>2, <4>1, <4>2, ActionAt DEF ReadHighest, InsertCase, FallbackNumber, RecordTimed
      <4> QED
        BY <2>4, <4>3, GotoFlow
    <3> QED
      BY <2>4, <3>1, <3>2 DEF Moves, Ends, Idles
  <2> QED
    BY <1>2, <2>1, <2>2, <2>3, <2>4 DEF Flow
<1>3. CASE Crash
  BY <1>3 DEF Crash, Moves, Ends, Idles, Punishing, NoJob
<1> QED
  BY <1>1, <1>2, <1>3, WhoMovesOrDies, NobodyMoves DEF OthersStay

LEMMA OneMoreTimes == ASSUME NEW a \in Nat, NEW b \in Nat PROVE a * (b + 1) = a * b + a
  OBVIOUS

\* A tally that may go up by one, a threshold at a time.
LEMMA AddTimes ==
    ASSUME NEW n \in Nat, NEW b \in Nat, NEW more \in {0, 1}
    PROVE  /\ n * b \in Nat
           /\ n * (b + more) = IF more = 1 THEN n * b + n ELSE n * b
  BY OneMoreTimes

LEMMA AccountedKept ==
    ASSUME TypeInv, CasesFinite, EscalatorsFit, TallyTyped, TallyNext,
           NEW t \in Tasks, NEW u \in Users, NEW n \in Thresholds, Lowest(n), Accounted(t, u, n)
    PROVE  Accounted(t, u, n)'
<1>0. n \in Nat
  BY ConstantsAssumption DEF Thresholds, PolicyValues
<1>1. PICK used, lost, W, A : /\ used = n * punished[t][u] /\ lost = n * unreset[t][u]
                              /\ W = warned[u] /\ A = Cardinality(ActiveWarns(u))
  OBVIOUS
<1>2. PICK used1, lost1, W1, A1, k :
         /\ used1 = (n * punished[t][u])' /\ lost1 = (n * unreset[t][u])'
         /\ W1 = warned'[u] /\ A1 = Cardinality(ActiveWarns(u))' /\ k = Cardinality(NewWarns(u))
  OBVIOUS
<1>3. /\ used \in Nat /\ lost \in Nat
      /\ used1 = IF Lands(t, u) THEN used + n ELSE used
      /\ lost1 = IF LosesReset(t, u) THEN lost + n ELSE lost
  <2>1. /\ punished'[t][u] = punished[t][u] + Add(Lands(t, u))
        /\ unreset'[t][u] = unreset[t][u] + Add(LosesReset(t, u))
    BY DEF TallyNext
  <2>2. PICK p, l, m, k1 : /\ p = punished[t][u] /\ m = Add(Lands(t, u))
                           /\ l = unreset[t][u] /\ k1 = Add(LosesReset(t, u))
    OBVIOUS
  <2>3. /\ p \in Nat /\ l \in Nat
        /\ m = IF Lands(t, u) THEN 1 ELSE 0
        /\ k1 = IF LosesReset(t, u) THEN 1 ELSE 0
    BY <2>2 DEF TallyTyped, Add
  <2>4. /\ n * p \in Nat /\ n * (p + m) = IF m = 1 THEN n * p + n ELSE n * p
        /\ n * l \in Nat /\ n * (l + k1) = IF k1 = 1 THEN n * l + n ELSE n * l
    BY <1>0, <2>3, AddTimes
  <2>5. used = n * p /\ lost = n * l /\ used1 = n * (p + m) /\ lost1 = n * (l + k1)
    BY <1>1, <1>2, <2>1, <2>2
  <2> QED
    BY <2>3, <2>4, <2>5
<1>4. /\ W \in Nat /\ A \in Nat /\ A1 \in Nat /\ k \in Nat
      /\ W1 = W + k /\ A1 <= A + k
  BY <1>1, <1>2, WarnsMove DEF TallyNext, TallyTyped
<1>5. /\ ~Landed(t, u) => used + A <= W + lost
      /\ Punishing(t, u) /\ pc[t] = "discord" => used + n <= W + lost
      /\ Landed(t, u) => used <= W + lost /\ used + A <= W + lost + n
  BY <1>1 DEF Accounted
<1> SUFFICES /\ ~Landed(t, u)' => used1 + A1 <= W1 + lost1
             /\ Punishing(t, u)' /\ pc'[t] = "discord" => used1 + n <= W1 + lost1
             /\ Landed(t, u)' => used1 <= W1 + lost1 /\ used1 + A1 <= W1 + lost1 + n
  BY <1>2 DEF Accounted
<1>6. CASE Begins(t, u)
  <2>1. n <= job[t].policy.threshold /\ job[t].policy.threshold \in Nat
    BY <1>6, JobFacts DEF Begins, EscalatorsFit, Lowest, Jobs, PolicyValues
  <2>2. A >= n /\ A1 = A
    BY <1>0, <1>1, <1>2, <1>4, <1>6, <2>1 DEF Begins, ActiveWarns
  <2>3. ~Lands(t, u) /\ ~LosesReset(t, u) /\ ~Landed(t, u) /\ ~Landed(t, u)'
    BY <1>6 DEF Begins, Lands, LosesReset, Landed
  <2> QED
    BY <1>0, <1>3, <1>4, <1>5, <2>2, <2>3
<1>7. CASE Persists(t, u) /\ ~Lands(t, u)
  <2>1. /\ Landed(t, u)' <=> Landed(t, u)
        /\ Punishing(t, u)' /\ pc'[t] = "discord" => Punishing(t, u) /\ pc[t] = "discord"
        /\ LosesReset(t, u) => Landed(t, u)
    BY <1>7 DEF Persists, Landed, LosesReset
  <2> QED
    BY <1>0, <1>3, <1>4, <1>5, <1>7, <2>1
<1>8. CASE Lands(t, u) /\ Punishing(t, u)'
  <2>1. /\ Punishing(t, u) /\ pc[t] = "discord" /\ ~Landed(t, u) /\ ~LosesReset(t, u)
        /\ Landed(t, u)' /\ pc'[t] # "discord"
    BY <1>8 DEF Lands, Landed, LosesReset
  <2> QED
    BY <1>0, <1>3, <1>4, <1>5, <1>8, <2>1
<1>9. CASE Ends(t, u)
  <2>1. /\ ~Lands(t, u) /\ ~Landed(t, u)' /\ ~Punishing(t, u)'
        /\ LosesReset(t, u) => Landed(t, u)
    BY <1>9 DEF Ends, Lands, Landed, LosesReset
  <2>2. CASE ~Landed(t, u) \/ LosesReset(t, u)
    BY <1>0, <1>3, <1>4, <1>5, <2>1, <2>2
  <2>3. CASE Landed(t, u) /\ ~LosesReset(t, u)
    <3>1. ActiveWarns(u)' = {}
      BY <1>9, <2>3 DEF Ends, Landed, LosesReset
    <3>2. A1 = 0
      BY <1>2, <3>1, FS_EmptySet
    <3> QED
      BY <1>3, <1>4, <1>5, <2>1, <2>3, <3>2
  <2> QED
    BY <2>2, <2>3
<1>10. CASE Idles(t, u)
  <2>1. /\ ~Lands(t, u) /\ ~LosesReset(t, u) /\ ~Landed(t, u) /\ ~Landed(t, u)'
        /\ ~Punishing(t, u)'
    BY <1>10 DEF Idles, Lands, Landed, LosesReset
  <2> QED
    BY <1>3, <1>4, <1>5, <2>1
<1> QED
  BY <1>6, <1>7, <1>8, <1>9, <1>10, EscalatorMoves DEF Moves, TallyNext

TallyInv == IInv /\ CasesFinite /\ EscalatorsFit /\ TallyTyped /\ AllAccounted

\* warn: "auto-punish once the member accumulates enough active warns, then reset the
\* counter".  For every number of handlers that warn, escalate, delete cases and change the
\* policy at once, and whatever fails: the escalations of one handler never share a warn,
\* unless a reset was lost, so that a warn counts twice only where handlers overlap.
THEOREM EscalationsUseWarns == TallySpec => []EscalationsEarned
<1>1. TallyInit => TallyInv
  <2> SUFFICES ASSUME TallyInit PROVE TallyInv
    OBVIOUS
  <2>0. Init
    BY DEF TallyInit
  <2>1. IInv
    BY <2>0, InvariantInit
  <2>2. DOMAIN cases = {}
    BY <2>0 DEF Init
  <2>3. CasesFinite
    BY <2>2, FS_EmptySet DEF CasesFinite
  <2>4. EscalatorsFit
    BY <2>0 DEF Init, EscalatorsFit, NoJob
  <2>5. TallyTyped
    BY DEF TallyInit, TallyTyped
  <2>6. ASSUME NEW t \in Tasks, NEW u \in Users, NEW n \in Thresholds PROVE Accounted(t, u, n)
    <3>1. n \in Nat
      BY ConstantsAssumption DEF Thresholds, PolicyValues
    <3>2. n * punished[t][u] = 0 /\ n * unreset[t][u] = 0 /\ warned[u] = 0
      BY <3>1 DEF TallyInit
    <3>3. ActiveWarns(u) = {}
      BY <2>2 DEF ActiveWarns
    <3>4. Cardinality(ActiveWarns(u)) = 0
      BY <3>3, FS_EmptySet
    <3>5. ~Punishing(t, u)
      BY <2>0 DEF Init, Punishing, NoJob
    <3> QED
      BY <3>2, <3>4, <3>5 DEF Accounted, Landed
  <2> QED
    BY <2>1, <2>3, <2>4, <2>5, <2>6 DEF TallyInv, AllAccounted
<1>2. TallyInv /\ [TallyNext]_<<vars, tally>> => TallyInv'
  <2> SUFFICES ASSUME TallyInv, [TallyNext]_<<vars, tally>> PROVE TallyInv'
    OBVIOUS
  <2>0. [Next]_vars
    BY DEF TallyNext
  <2>1. IInv /\ IInv' /\ TypeInv
    BY <2>0, InvariantStep DEF TallyInv, IInv
  <2>2. CasesFinite' /\ EscalatorsFit'
    BY <2>0, <2>1, CasesFiniteKept, EscalatorsFitKept DEF TallyInv
  <2>3. CASE TallyNext
    <3>1. TallyTyped'
      <4>1. \A u \in Users : Cardinality(NewWarns(u)) \in Nat
        BY <2>0, <2>1, WarnsMove DEF TallyInv
      <4>2. \A b : Add(b) \in Nat
        BY DEF Add
      <4> QED
        BY <2>3, <4>1, <4>2 DEF TallyInv, TallyTyped, TallyNext
    <3>2. ASSUME NEW t \in Tasks, NEW u \in Users, NEW n \in Thresholds', Lowest(n)'
          PROVE  Accounted(t, u, n)'
      <4>1. n \in Thresholds /\ Lowest(n)
        BY <3>2 DEF Thresholds, Lowest
      <4> QED
        BY <2>1, <2>3, <4>1, AccountedKept DEF TallyInv, AllAccounted
    <3> QED
      BY <2>1, <2>2, <3>1, <3>2 DEF TallyInv, AllAccounted
  <2>4. CASE UNCHANGED <<vars, tally>>
    <3>1. UNCHANGED <<cases, pc, job, warned, punished, unreset>>
      BY <2>4 DEF vars, dbVars, taskVars, tally
    <3>2. TallyTyped'
      BY <3>1 DEF TallyInv, TallyTyped
    <3>3. ASSUME NEW t \in Tasks, NEW u \in Users, NEW n \in Thresholds', Lowest(n)'
          PROVE  Accounted(t, u, n)'
      <4>1. Accounted(t, u, n)
        BY <3>3 DEF TallyInv, AllAccounted, Thresholds, Lowest
      <4>2. /\ ActiveWarns(u)' = ActiveWarns(u)
            /\ Punishing(t, u)' <=> Punishing(t, u)
            /\ Landed(t, u)' <=> Landed(t, u)
        BY <3>1 DEF ActiveWarns, Landed, Punishing
      <4> QED
        BY <3>1, <4>1, <4>2 DEF Accounted
    <3> QED
      BY <2>1, <2>2, <3>2, <3>3 DEF TallyInv, AllAccounted
  <2> QED
    BY <2>3, <2>4
<1>3. TallyInv => EscalationsEarned
  <2> SUFFICES ASSUME TallyInv, NEW t \in Tasks, NEW u \in Users, NEW n \in Thresholds, Lowest(n)
               PROVE  n * punished[t][u] <= warned[u] + n * unreset[t][u]
    BY DEF EscalationsEarned
  <2>1. PICK used, had, A : /\ used = n * punished[t][u]
                            /\ had = warned[u] + n * unreset[t][u]
                            /\ A = Cardinality(ActiveWarns(u))
    OBVIOUS
  <2>2. used \in Nat /\ had \in Nat /\ A \in Nat
    <3>1. n \in Nat /\ punished[t][u] \in Nat /\ unreset[t][u] \in Nat /\ warned[u] \in Nat
      BY ConstantsAssumption DEF Thresholds, PolicyValues, TallyInv, TallyTyped
    <3>2. n * punished[t][u] \in Nat /\ n * unreset[t][u] \in Nat
      BY <3>1, AddTimes
    <3>3. IsFiniteSet(ActiveWarns(u))
      BY FS_Subset DEF ActiveWarns, TallyInv, CasesFinite
    <3> QED
      BY <2>1, <3>1, <3>2, <3>3, FS_CardinalityType
  <2>3. (Landed(t, u) => used <= had) /\ (~Landed(t, u) => used + A <= had)
    BY <2>1 DEF TallyInv, AllAccounted, Accounted
  <2> QED
    BY <2>1, <2>2, <2>3
<1> QED
  BY <1>1, <1>2, <1>3, PTL DEF TallySpec
-----------------------------------------------------------------------------
(***************************************************************************)
(* The cases are a log that is written one entry at a time.                *)
(***************************************************************************)
\* Who may still write has read the highest number there is: every commit since
\* would have overtaken it.
InOrder ==
    \A t \in Tasks : (pc[t] = "insert" /\ t \notin stale) => IsHighest(job[t].num, cases)

\* A step of a task overtakes all others, or leaves the numbers in use as they are.
LEMMA OvertakesOrKeeps ==
    ASSUME NEW t \in Tasks, Issue(t) \/ TaskStep(t)
    PROVE  \/ Overtake(t)
           \/ UNCHANGED cases /\ stale \ {t} \subseteq stale'
<1>1. CASE \/ Issue(t) \/ Discipline(t) \/ BanUser(t) \/ UnbanUser(t) \/ FindMuteRole(t)
           \/ CreateMuteRole(t) \/ StoreMuteRole(t) \/ AddMuteRole(t) \/ ReadMuteRole(t)
           \/ RemoveMuteRole(t) \/ ClearTimed(t)
  BY <1>1 DEF Issue, Discipline, BanUser, UnbanUser, FindMuteRole, CreateMuteRole,
     StoreMuteRole, AddMuteRole, ReadMuteRole, RemoveMuteRole, ClearTimed, Refuse, dbVars
<1>2. CASE \/ ReadHighest(t) \/ InsertCase(t) \/ FallbackNumber(t) \/ RecordTimed(t)
           \/ ReadPolicy(t) \/ CountWarns(t) \/ ResetWarns(t) \/ SetPolicy(t)
           \/ DeleteCase(t) \/ DeleteTimed(t) \/ FindLift(t) \/ ExpireNow(t)
  BY <1>2 DEF ReadHighest, InsertCase, FallbackNumber, RecordTimed, ReadPolicy, CountWarns,
     ResetWarns, SetPolicy, DeleteCase, DeleteTimed, FindLift, ExpireNow, dbVars
<1> QED
  BY <1>1, <1>2 DEF TaskStep

LEMMA ReadsHighest ==
    ASSUME TypeInv, NEW t \in Tasks, Issue(t) \/ TaskStep(t), Flow(t), pc'[t] = "insert"
    PROVE  IsHighest(job'[t].num, cases) /\ UNCHANGED cases
<1>1. pc[t] = "begin"
  <2>1. \A type \in Commands[t] : FirstStep(type) # "insert"
    BY ConstantsAssumption DEF FirstStep
  <2>2. AfterCase(job[t]) # "insert" /\ \A made \in BOOLEAN : AfterCreate(job[t], made) # "insert"
    BY JobFacts, AfterCaseType, AfterCreateType
  <2> QED
    BY <2>1, <2>2 DEF Flow, Started, Escalates, Leads
<1>2. ReadHighest(t) /\ AfterCreate(job[t], FALSE) # "insert"
  BY <1>1, ActionAt, JobFacts, AfterCreateType
<1>3. PICK h \in DOMAIN cases \cup {0} :
         IsHighest(h, cases) /\ Goto(t, "insert", [job[t] EXCEPT !.num = h])
  BY <1>2, GotoFlow DEF ReadHighest
<1>4. job'[t].num = h
  <2>1. PICK j : j = [job[t] EXCEPT !.num = h]
    OBVIOUS
  <2>2. j.num = h
    BY <2>1, JobFacts, AlikeJobs
  <2>3. job'[t] = j
    BY <1>3, <2>1, GotoFlow
  <2> QED
    BY <2>2, <2>3
<1> QED
  BY <1>2, <1>3, <1>4 DEF ReadHighest, dbVars

LEMMA InOrderKept == ASSUME TypeInv, InOrder, [Next]_vars PROVE InOrder'
<1> SUFFICES ASSUME NEW s \in Tasks, pc'[s] = "insert", s \notin stale'
             PROVE  IsHighest(job'[s].num, cases')
  BY DEF InOrder
<1>1. ASSUME NEW t \in Tasks, Issue(t) \/ TaskStep(t), Flow(t), OthersStay(t)
      PROVE  IsHighest(job'[s].num, cases')
  <2>1. CASE s = t
    BY <1>1, <2>1, ReadsHighest
  <2>2. CASE s # t
    <3>1. pc[s] = "insert" /\ job'[s] = job[s]
      BY <1>1, <2>2 DEF OthersStay
    <3>2. ~Overtake(t)
      BY <2>2, <3>1 DEF Overtake
    <3>3. UNCHANGED cases /\ s \notin stale
      BY <1>1, <2>2, <3>2, OvertakesOrKeeps
    <3> QED
      BY <3>1, <3>3 DEF InOrder
  <2> QED
    BY <2>1, <2>2
<1>2. CASE SweepStep \/ Tick \/ DeleteRole \/ UNCHANGED vars
  <2>1. UNCHANGED <<pc, job>>
    BY <1>2, NobodyMoves
  <2>2. ~SweepClear /\ ~SweepClose
    BY <2>1 DEF SweepClear, SweepClose
  <2>3. UNCHANGED <<cases, stale>>
    BY <1>2, <2>2 DEF SweepStep, SweepScan, SweepPick, SweepLift, SweepRetry, SweepGiveUp, Tick,
       DeleteRole, vars, dbVars, taskVars
  <2> QED
    BY <2>1, <2>3 DEF InOrder
<1>3. CASE Crash
  BY <1>3 DEF Crash
<1> QED
  BY <1>1, <1>2, <1>3, WhoMovesOrDies

LEMMA InsertOpens ==
    ASSUME TypeInv, InOrder, NEW t \in Tasks, InsertCase(t), ~UNCHANGED cases
    PROVE  Log!Open
<1> DEFINE h == job[t].num
           row == [type |-> job[t].type, by |-> job[t].by, user |-> job[t].user,
                   until |-> job[t].until, active |-> TRUE]
<1>1. /\ pc[t] = "insert" /\ t \notin stale /\ h + 1 \notin DOMAIN cases
      /\ cases' = Upsert(cases, h + 1, row) /\ UNCHANGED <<tainted, lifted, clock>>
  BY DEF InsertCase, historyVars
<1>2. row.active
  OBVIOUS
<1>3. IsHighest(h, cases) /\ DOMAIN cases \subseteq Nat
  BY <1>1, TablesTyped DEF InOrder
<1> HIDE DEF row, h
<1>4. Log!Highest = h
  <2>1. \A k \in DOMAIN cases \cup {0} : (\A n \in DOMAIN cases : n <= k) => k = h
    BY <1>3 DEF IsHighest
  <2> QED
    BY <1>3, <2>1 DEF Log!Highest, Log!Numbers, IsHighest
<1>5. /\ DOMAIN cases' = DOMAIN cases \cup {h + 1} /\ cases'[h + 1] = row
      /\ \A m \in DOMAIN cases : cases'[m] = cases[m]
  BY <1>1 DEF Upsert
<1> QED
  BY <1>1, <1>2, <1>4, <1>5 DEF Log!Open, Log!Numbers

\* Two ways to say which cases are closed.
LEMMA SameClosing ==
    ASSUME TypeInv, NEW gone, NEW spent,
           \A n \in DOMAIN cases : cases[n].active => (n \in gone <=> n \in spent),
           cases' = [n \in DOMAIN cases |-> [cases[n] EXCEPT !.active = @ /\ n \notin gone]]
    PROVE  Log!Closing(spent)
<1>1. ASSUME NEW n \in DOMAIN cases
      PROVE  [cases[n] EXCEPT !.active = @ /\ n \notin gone]
             = [cases[n] EXCEPT !.active = @ /\ n \notin spent]
  <2>1. cases[n].active \in BOOLEAN
    BY TablesTyped DEF CaseRows
  <2>2. (cases[n].active /\ n \notin gone) = (cases[n].active /\ n \notin spent)
    BY <2>1
  <2> QED
    BY <2>2
<1> QED
  BY <1>1 DEF Log!Closing, Log!Numbers

LEMMA ResetSpends ==
    ASSUME TypeInv, NEW t \in Tasks, ResetWarns(t), ~UNCHANGED cases
    PROVE  Log!SpendWarns
<1>1. PICK u : u = job[t].user
  OBVIOUS
<1>2. /\ cases' = [n \in DOMAIN cases |->
               [cases[n] EXCEPT !.active = @ /\ n \notin ActiveWarns(u)]]
      /\ UNCHANGED <<tainted, lifted, clock>>
  BY <1>1, OutcomesAre DEF ResetWarns, historyVars
<1>3. PICK n \in ActiveWarns(u) : n \in DOMAIN cases
  <2>1. CASE ActiveWarns(u) = {}
    <3>1. \A m \in DOMAIN cases :
             [cases[m] EXCEPT !.active = @ /\ m \notin ActiveWarns(u)] = cases[m]
      BY <2>1, TablesTyped DEF CaseRows
    <3>2. cases' = [m \in DOMAIN cases |-> cases[m]]
      BY <1>2, <3>1
    <3> QED
      BY <3>2, TablesTyped
  <2> QED
    BY <2>1 DEF ActiveWarns
<1>4. \A m \in DOMAIN cases : cases[m].active =>
         (m \in ActiveWarns(u)
          <=> m \in {k \in DOMAIN cases : cases[k].type = "warn" /\ cases[k].user = cases[n].user})
  BY <1>3 DEF ActiveWarns
<1>5. Log!Closing({k \in DOMAIN cases : cases[k].type = "warn" /\ cases[k].user = cases[n].user})
  BY <1>2, <1>4, SameClosing
<1> QED
  BY <1>2, <1>3, <1>5 DEF Log!SpendWarns, Log!Numbers

LEMMA SweepExpires ==
    ASSUME IInv, SweepClose, ~UNCHANGED cases
    PROVE  Log!Expire
<1>1. PICK num : num = sweep.row.num
  OBVIOUS
<1>2. /\ cases' = [n \in DOMAIN cases |-> [cases[n] EXCEPT !.active = @ /\ n # num]]
      /\ UNCHANGED <<tainted, lifted, clock>> /\ TypeInv
  BY <1>1, OutcomesAre DEF SweepClose, historyVars, IInv
<1>3. num \in DOMAIN cases
  <2>1. CASE num \notin DOMAIN cases
    <3>1. \A m \in DOMAIN cases : [cases[m] EXCEPT !.active = @ /\ m # num] = cases[m]
      BY <1>2, <2>1, TablesTyped DEF CaseRows
    <3>2. cases' = [m \in DOMAIN cases |-> cases[m]]
      BY <1>2, <3>1
    <3> QED
      BY <1>2, <3>2, TablesTyped
  <2> QED
    BY <2>1
<1>4. \/ num \in tainted \cup lifted
      \/ cases[num].type \in TimedTypes /\ cases[num].until <= clock
  BY <1>1 DEF SweepClose, IInv, BatchMatches, Batch, Names, Due
<1>5. Log!Closing({num})
  <2>1. \A n \in DOMAIN cases : [cases[n] EXCEPT !.active = @ /\ n # num]
                               = [cases[n] EXCEPT !.active = @ /\ n \notin {num}]
    OBVIOUS
  <2> QED
    BY <1>2, <2>1 DEF Log!Closing, Log!Numbers
<1> QED
  BY <1>2, <1>3, <1>4, <1>5 DEF Log!Expire, Log!Numbers

\* However commands, escalations, the dashboard and the sweeper interleave, and
\* whatever fails: case numbers are given out in order, a case keeps what it says, and
\* it is closed once, when its term is over or as one of a member's spent warns.
THEOREM CasesAreALog == Spec => KeepsLog
<1>1. Init => Log!LogInit
  BY DEF Init, Log!LogInit
<1>2. Init => InOrder
  BY DEF Init, InOrder
<1>3. ASSUME IInv, InOrder, [Next]_vars PROVE [Log!LogNext]_(Log!logVars)
  <2>0. TypeInv /\ Keeps /\ InOrder'
    BY <1>3, NextKeeps, InOrderKept DEF IInv
  <2>1. CASE UNCHANGED <<cases, clock>>
    <3>1. tainted \cup lifted \subseteq (tainted \cup lifted)'
      BY <2>0 DEF Keeps
    <3>2. Log!Excuse
      BY <2>1, <3>1 DEF Log!Excuse
    <3> QED
      BY <3>2 DEF Log!LogNext
  <2>2. ASSUME NEW t \in Tasks, InsertCase(t), ~UNCHANGED cases PROVE Log!LogNext
    BY <1>3, <2>0, <2>2, InsertOpens DEF Log!LogNext
  <2>3. ASSUME NEW t \in Tasks, ResetWarns(t), ~UNCHANGED cases PROVE Log!LogNext
    BY <2>0, <2>3, ResetSpends DEF Log!LogNext
  <2>4. CASE SweepClose /\ ~UNCHANGED cases
    BY <1>3, <2>4, SweepExpires DEF Log!LogNext
  <2>5. ASSUME NEW t \in Tasks, DeleteCase(t), ~UNCHANGED cases PROVE Log!LogNext
    <3>1. PICK n : n = job[t].num
      OBVIOUS
    <3>2. /\ n \in DOMAIN cases /\ cases' = Without(cases, {n})
          /\ tainted' = tainted \cup {n} /\ UNCHANGED <<lifted, clock>>
      BY <2>5, <3>1 DEF DeleteCase
    <3>3. Log!Remove
      BY <3>2 DEF Log!Remove, Log!Numbers, Without
    <3> QED
      BY <3>3 DEF Log!LogNext
  <2>6. CASE Tick
    <3>1. Log!Pass
      BY <2>6 DEF Tick, dbVars, historyVars, Log!Pass
    <3> QED
      BY <3>1 DEF Log!LogNext
  <2>7. ASSUME NEW t \in Tasks,
               \/ Issue(t) \/ QuietStep(t) \/ ClearTimed(t) \/ FallbackNumber(t)
               \/ RecordTimed(t) \/ DeleteTimed(t) \/ ExpireNow(t)
        PROVE  UNCHANGED <<cases, clock>>
    BY <2>7, QuietIsQuiet DEF Issue, ClearTimed, FallbackNumber, RecordTimed, DeleteTimed,
       ExpireNow, dbVars
  <2>8. ASSUME NEW t \in Tasks, InsertCase(t) \/ ResetWarns(t) \/ DeleteCase(t) PROVE UNCHANGED clock
    BY <2>8 DEF InsertCase, ResetWarns, DeleteCase
  <2>9. CASE \/ SweepScan \/ SweepPick \/ SweepLift \/ SweepRetry \/ SweepGiveUp \/ SweepClear
             \/ Crash \/ DeleteRole \/ UNCHANGED vars
    <3>1. UNCHANGED <<cases, clock>>
      BY <2>9 DEF SweepScan, SweepPick, SweepLift, SweepRetry, SweepGiveUp, SweepClear, Crash,
         DeleteRole, vars, dbVars
    <3> QED
      BY <2>1, <3>1
  <2>10. SweepClose => UNCHANGED clock
    BY DEF SweepClose
  <2> QED
    BY <1>3, <2>1, <2>2, <2>3, <2>4, <2>5, <2>6, <2>7, <2>8, <2>9, <2>10
       DEF Next, TaskStep, QuietStep, SweepStep
<1>4. ASSUME IInv, InOrder, [Next]_vars PROVE InOrder'
  BY <1>4, InOrderKept DEF IInv
<1> QED
  BY <1>1, <1>2, <1>3, <1>4, InvariantInit, InvariantStep, PTL DEF Spec, KeepsLog, Log!LogSpec
=============================================================================
