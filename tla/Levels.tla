------------------------------- MODULE Levels -------------------------------
(***************************************************************************)
(* Levelling in one guild.  A message that passes the cooldown starts a    *)
(* task that reads its author's XP, writes back more, and grants the roles *)
(* configured for the levels reached, as the list of rewards in memory has *)
(* them.  Staff change the rewards (command or dashboard) and set or reset *)
(* XP; the list in memory is read again after each change of the table and *)
(* added to at every ready event.                                          *)
(* The cooldown is abstracted: it spaces the starts of an author's tasks,  *)
(* which may still overlap when a query is slow.                           *)
(***************************************************************************)
EXTENDS Naturals, FiniteSets

CONSTANTS
    Members,
    Roles,
    RewardLevels,   \* levels that may have a reward
    Awards,         \* what a message may earn: xp_min..xp_max of the configuration
    SetTo,          \* what staff set a member's XP to
    Tasks,
    MaxMessages, MaxEdits, MaxReadies, MaxFaults,   \* bounds
    None            \* no row, no role, no member

VARIABLES
    xp,         \* levels_users: member -> XP, or None
    rewards,    \* levels_rewards: level -> role, or None
    known,      \* REWARDS_CACHE: set of <<level, role>>
    granted,    \* Discord: member -> roles given as rewards
    pc, job,    \* the await task t is at, and its locals
    allowed,    \* messages, edits, ready events and faults the bounds still allow
    \* history
    steady,     \* pairs that have been in known all along
    pristine    \* members whose XP staff never touched, and none of whose grants failed

data == <<xp, rewards, known, granted, steady, pristine>>
vars == <<xp, rewards, known, granted, steady, pristine, pc, job, allowed>>

Pairs(table) == {p \in RewardLevels \X Roles : table[p[1]] = p[2]}
NoJob == [member |-> None, old |-> 0, new |-> 0, pairs |-> {}]
Message(u, old, new, pairs) == [member |-> u, old |-> old, new |-> new, pairs |-> pairs]
Edit(pairs) == [NoJob EXCEPT !.pairs = pairs]

DataInit ==
    /\ xp = [u \in Members |-> None] /\ granted = [u \in Members |-> {}]
    /\ rewards \in [RewardLevels -> Roles \cup {None}] /\ known = Pairs(rewards)
    /\ steady = known /\ pristine = Members
TaskInit ==
    /\ pc = [t \in Tasks |-> "idle"] /\ job = [t \in Tasks |-> NoJob]
    /\ allowed = [messages |-> MaxMessages, edits |-> MaxEdits,
                  readies |-> MaxReadies, faults |-> MaxFaults]
Init == DataInit /\ TaskInit

(***************************************************************************)
(* The curve.                                                              *)
(***************************************************************************)
XpForLevel(level) == 5 * level * level + 50 * level + 100

\* What the first levels cost together.
Total[level \in Nat] == IF level = 0 THEN 0 ELSE Total[level - 1] + XpForLevel(level - 1)

\* The levels that are paid for; none is cheaper than the first.
LevelFromXp(total) == Cardinality({l \in 1 .. total \div XpForLevel(0) : Total[l] <= total})

Points(u) == IF xp[u] = None THEN 0 ELSE xp[u]

(***************************************************************************)
(* Messages.                                                               *)
(***************************************************************************)
Goto(t, next, j) == pc' = [pc EXCEPT ![t] = next] /\ job' = [job EXCEPT ![t] = j]
Finish(t) == Goto(t, "idle", NoJob)
Fault == allowed.faults > 0 /\ allowed' = [allowed EXCEPT !.faults = @ - 1]
Spend(what) == allowed[what] > 0 /\ allowed' = [allowed EXCEPT ![what] = @ - 1]

\* A message passes the cooldown and its author's XP is read.  When the read fails,
\* nothing happens.
ReadXp(t) ==
    /\ pc[t] = "idle" /\ Spend("messages")
    /\ \E u \in Members, award \in Awards :
         Goto(t, "write", Message(u, Points(u), Points(u) + award, {}))
    /\ UNCHANGED data

\* The levels reached between the two amounts.
DueAtOld(old, new, list) ==
    {p \in list : p[1] = LevelFromXp(new) /\ LevelFromXp(new) > LevelFromXp(old)}
Due(old, new, list) ==
    {p \in list : p[1] > LevelFromXp(old) /\ p[1] <= LevelFromXp(new)}

WriteXp(t) ==
    /\ pc[t] = "write"
    /\ LET j == job[t] IN
       /\ xp' = [xp EXCEPT ![j.member] = j.new]
       /\ IF LevelFromXp(j.new) > LevelFromXp(j.old) THEN Goto(t, "announced", j) ELSE Finish(t)
    /\ UNCHANGED <<rewards, known, granted, steady, pristine, allowed>>

WriteXpFails(t) ==
    /\ pc[t] = "write" /\ Fault /\ Finish(t)
    /\ UNCHANGED data

\* The announcement, if configured, is out (or failed): the rewards are looked up.
LookUpRewards(t) ==
    /\ pc[t] = "announced"
    /\ LET j == job[t] IN Goto(t, "grant", Message(j.member, j.old, j.new, Due(j.old, j.new, known)))
    /\ UNCHANGED <<data, allowed>>

Grant(t) ==
    /\ pc[t] = "grant"
    /\ LET j == job[t] IN
       \/ /\ j.pairs = {} /\ Finish(t)
          /\ UNCHANGED <<granted, pristine, allowed>>
       \/ \E p \in j.pairs :
            /\ Goto(t, "grant", Message(j.member, j.old, j.new, j.pairs \ {p}))
            /\ \/ granted' = [granted EXCEPT ![j.member] = @ \cup {p[2]}] /\ UNCHANGED <<pristine, allowed>>
               \/ Fault /\ pristine' = pristine \ {j.member} /\ UNCHANGED granted
    /\ UNCHANGED <<xp, rewards, known, steady>>

(***************************************************************************)
(* Staff.                                                                  *)
(***************************************************************************)
SetRewards(table) == rewards' = table /\ UNCHANGED <<xp, known, granted, steady, pristine>>

\* levels reward: one row is written; levels unreward: one row that exists is deleted.
\* A query that fails is reported and ends the command.
LvReward(t) ==
    /\ pc[t] = "idle" /\ Spend("edits")
    /\ \E l \in RewardLevels, r \in Roles : SetRewards([rewards EXCEPT ![l] = r])
    /\ Goto(t, "refresh", NoJob)

LvUnreward(t) ==
    /\ pc[t] = "idle" /\ Spend("edits")
    /\ \E l \in RewardLevels : rewards[l] # None /\ SetRewards([rewards EXCEPT ![l] = None])
    /\ Goto(t, "refresh", NoJob)

\* The dashboard replaces the list: all rows are deleted, then inserted one by one.
\* An insert that fails ends the request, and the list in memory stays as it is.
PutRewards(t) ==
    /\ pc[t] = "idle" /\ Spend("edits")
    /\ \E table \in [RewardLevels -> Roles \cup {None}] :
         Goto(t, "insert", Edit(Pairs(table)))
    /\ SetRewards([l \in RewardLevels |-> None])

InsertReward(t) ==
    /\ pc[t] = "insert"
    /\ \/ job[t].pairs = {} /\ Goto(t, "refresh", NoJob) /\ UNCHANGED <<data, allowed>>
       \/ \E p \in job[t].pairs :
            /\ SetRewards([rewards EXCEPT ![p[1]] = p[2]])
            /\ Goto(t, "insert", Edit(job[t].pairs \ {p})) /\ UNCHANGED allowed
       \/ job[t].pairs # {} /\ Fault /\ Finish(t) /\ UNCHANGED data

\* refresh_rewards_cache reads the rows (none when that fails) and replaces the list.
RefreshRead(t) ==
    /\ pc[t] = "refresh"
    /\ \/ Goto(t, "replace", Edit(Pairs(rewards))) /\ UNCHANGED allowed
       \/ Fault /\ Goto(t, "replace", Edit({}))
    /\ UNCHANGED data

Replace(t) ==
    /\ pc[t] = "replace"
    /\ known' = job[t].pairs /\ steady' = steady \cap known'
    /\ Finish(t)
    /\ UNCHANGED <<xp, rewards, granted, pristine, allowed>>

\* A ready event reads all rows, and pushes them onto the list that is there.
ReadyRead(t) ==
    /\ pc[t] = "idle" /\ Spend("readies")
    /\ Goto(t, "push", Edit(Pairs(rewards)))
    /\ UNCHANGED data

ReadyPush(t) ==
    /\ pc[t] = "push"
    /\ known' = known \cup job[t].pairs
    /\ Finish(t)
    /\ UNCHANGED <<xp, rewards, granted, steady, pristine, allowed>>

\* The dashboard sets a member's XP, or deletes the rows of one or of all.
PutMemberXp(u) ==
    /\ Spend("edits")
    /\ \E x \in SetTo : xp' = [xp EXCEPT ![u] = x]
    /\ pristine' = pristine \ {u}
    /\ UNCHANGED <<rewards, known, granted, steady, pc, job>>

ResetMemberXp(u) ==
    /\ xp[u] # None /\ Spend("edits")
    /\ xp' = [xp EXCEPT ![u] = None] /\ pristine' = pristine \ {u}
    /\ UNCHANGED <<rewards, known, granted, steady, pc, job>>

ResetAllXp ==
    /\ Spend("edits")
    /\ xp' = [u \in Members |-> None] /\ pristine' = {}
    /\ UNCHANGED <<rewards, known, granted, steady, pc, job>>

MessageStep(t) == ReadXp(t) \/ WriteXp(t) \/ WriteXpFails(t) \/ LookUpRewards(t) \/ Grant(t)
EditStep(t) ==
    LvReward(t) \/ LvUnreward(t) \/ PutRewards(t) \/ InsertReward(t) \/ RefreshRead(t) \/ Replace(t)

Next ==
    \/ \E t \in Tasks : MessageStep(t) \/ EditStep(t) \/ ReadyRead(t) \/ ReadyPush(t)
    \/ \E u \in Members : PutMemberXp(u) \/ ResetMemberXp(u)
    \/ ResetAllXp

Spec == Init /\ [][Next]_vars

(***************************************************************************)
(* Properties.                                                             *)
(***************************************************************************)
\* Rows, list and locals hold amounts, levels and roles, or None.
TypeOK ==
    /\ xp \in [Members -> Nat \cup {None}] /\ rewards \in [RewardLevels -> Roles \cup {None}]
    /\ known \subseteq RewardLevels \X Roles /\ steady \subseteq known
    /\ granted \in [Members -> SUBSET Roles] /\ pristine \subseteq Members
    /\ pc \in [Tasks -> {"idle", "write", "announced", "grant", "insert", "refresh", "replace", "push"}]
    /\ job \in [Tasks -> [member : Members \cup {None}, old : Nat, new : Nat,
                          pairs : SUBSET (RewardLevels \X Roles)]]

\* No reward is lost to messages that overwrite each other's XP: once nothing of a
\* member is under way, whose XP came from messages alone, they have the role of
\* every level they are at or above that was configured all along, whatever the
\* level they were last seen at (on_message, refresh_rewards_cache).
RewardsArrive ==
    \A u \in pristine : (\A t \in Tasks : job[t].member # u) =>
        \A p \in steady : p[1] <= LevelFromXp(Points(u)) => p[2] \in granted[u]
=============================================================================
