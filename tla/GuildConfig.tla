---------------------------- MODULE GuildConfig ----------------------------
(***************************************************************************)
(* The configuration of a guild: one row per cog in SQLite, and the copy   *)
(* of it in memory that the event handlers read.  Commands and dashboard   *)
(* requests change both in steps of their own, and every ready event       *)
(* hydrates the copies again.  A configuration is a switch and a target    *)
(* (channel or webhook); the cogs differ in how they store a change:       *)
(*   starboard, automod, levels: read the row, change it, write it back    *)
(*   whole, cache what was written (update_config);                        *)
(*   welcome, goodbye: write one column, read the row back (reload);       *)
(*   logging: write the columns, change the copy, whatever became of the   *)
(*   write.                                                                *)
(* The reset of all settings deletes the rows of welcome, goodbye and      *)
(* logging, and then their copies.                                         *)
(***************************************************************************)
EXTENDS Naturals, FiniteSets

CONSTANTS
    Cogs,           \* the cogs whose configuration is changed
    Targets,
    NoTarget,
    Tasks,
    MaxUpdates,     \* bound on the number of changes
    MaxReadies,     \* bound on the number of hydrations
    MaxFaults,      \* bound on the number of crashes and of failing queries
    Absent,         \* no row, no entry, no snapshot that holds the guild
    Idle            \* no hydration under way

Config == [enabled : BOOLEAN, target : Targets \cup {NoTarget}]

ASSUME ConfigConstants ==
    /\ Cogs \subseteq {"starboard", "automod", "levels", "welcome", "goodbye", "logging"}
    /\ NoTarget \notin Targets
    /\ Absent \notin Config \cup Cogs /\ Idle \notin Config /\ Absent # Idle
    /\ MaxUpdates \in Nat /\ MaxReadies \in Nat /\ MaxFaults \in Nat

VARIABLES
    rows,       \* SQLite: cog -> configuration, or Absent
    cache,      \* memory: cog -> configuration, or Absent
    pc, job,    \* the await task t is at, and its locals
    hydration,  \* cog -> the row read by the hydration under way, or Idle
    allowed,    \* changes, hydrations and faults the bounds still allow
    \* history
    stored,     \* cog -> configurations its row ever was
    clean,      \* cogs of which at most one thing is under way since it began,
                \* and no failure of it was ignored
    trusted     \* cogs whose copy was brought up to date by something clean,
                \* and only clean things happened since

vars == <<rows, cache, pc, job, hydration, allowed, stored, clean, trusted>>

Default == [enabled |-> FALSE, target |-> NoTarget]
Asks(fields, to) == [fields |-> fields, to |-> to]
Job(c, kind, change, config) ==
    [cog |-> c, kind |-> kind, change |-> change, config |-> config]
NoJob == Job(Absent, Absent, Asks({}, Default), Default)

Init ==
    /\ rows = [c \in Cogs |-> Absent] /\ cache = [c \in Cogs |-> Absent]
    /\ pc = [t \in Tasks |-> "idle"] /\ job = [t \in Tasks |-> NoJob]
    /\ hydration = [c \in Cogs |-> Idle]
    /\ allowed = [updates |-> MaxUpdates, readies |-> MaxReadies, faults |-> MaxFaults]
    /\ stored = [c \in Cogs |-> {}] /\ clean = Cogs /\ trusted = Cogs

Goto(t, next, j) == pc' = [pc EXCEPT ![t] = next] /\ job' = [job EXCEPT ![t] = j]
Finish(t) == Goto(t, "idle", NoJob)

\* A query fails, or the process dies.
Fault == allowed.faults > 0 /\ allowed' = [allowed EXCEPT !.faults = @ - 1]

\* Their commands go through update_config, which writes the row whole;
ReadsWhole(c) == c \in {"starboard", "automod", "levels"}
\* theirs write a column and read the row back.
ReadsBack(c) == c \in {"welcome", "goodbye"}

UnderWay(c) == hydration[c] # Idle \/ \E t \in Tasks : job[t].cog = c

\* Something begins that concerns c.
Begins(c) ==
    /\ clean' = IF UnderWay(c) THEN clean \ {c} ELSE clean \cup {c}
    /\ trusted' = IF UnderWay(c) THEN trusted \ {c} ELSE trusted

\* It ends; if it brought the whole copy up to date, it makes up for the past.
Ends(c, whole) ==
    trusted' = IF c \in clean THEN IF whole THEN trusted \cup {c} ELSE trusted
               ELSE trusted \ {c}

\* A failure is ignored.
Spoils(c) == clean' = clean \ {c} /\ trusted' = trusted \ {c}

(***************************************************************************)
(* What commands and the dashboard ask for.                                *)
(***************************************************************************)
\* Mutant: the request is not validated.
PutUnchecked(c) == {Asks({"enabled", "target"}, to) : to \in Config}

\* A request replaces the whole configuration.
PutChanges(c) ==
    {Asks({"enabled", "target"}, to) : to \in
        {v \in Config : c \in {"starboard", "logging"} /\ v.enabled => v.target # NoTarget}}

\* A command sets one thing; the setup of logging sets both, and enables.
SetChanges(c) ==
    IF c = "logging"
    THEN {Asks({"enabled", "target"}, [enabled |-> TRUE, target |-> u]) : u \in Targets}
    ELSE {Asks({"enabled"}, [enabled |-> b, target |-> NoTarget]) : b \in BOOLEAN} \cup
         {Asks({"target"}, [enabled |-> FALSE, target |-> u]) :
             u \in IF c \in {"automod", "levels"} THEN Targets \cup {NoTarget} ELSE Targets}

Kinds == {"put", "set", "disable", "reset"}

Changes(c, kind) ==
    IF kind = "put" THEN PutChanges(c)
    ELSE IF kind = "set" THEN SetChanges(c)
    ELSE IF kind = "disable" /\ c = "logging" THEN {Asks({"enabled"}, Default)}
    ELSE IF kind = "reset" /\ (ReadsBack(c) \/ c = "logging") THEN {Asks({}, Default)}
    ELSE {}

\* Mutant: the two columns are swapped.
ApplySwapped(change, config) ==
    [enabled |-> IF "enabled" \in change.fields THEN change.to.target ELSE config.enabled,
     target |-> IF "target" \in change.fields THEN change.to.enabled ELSE config.target]

Apply(change, config) ==
    [enabled |-> IF "enabled" \in change.fields THEN change.to.enabled ELSE config.enabled,
     target |-> IF "target" \in change.fields THEN change.to.target ELSE config.target]

RowOrDefault(c) == IF rows[c] = Absent THEN Default ELSE rows[c]

(***************************************************************************)
(* A change: load (where the row is read first), write, reload (where it   *)
(* is read back), cache.                                                   *)
(***************************************************************************)
\* A change arrives.  update_config reads the row; a read that fails ends it here.
Begin(t) ==
    /\ pc[t] = "idle" /\ allowed.updates > 0
    /\ allowed' = [allowed EXCEPT !.updates = @ - 1]
    /\ \E c \in Cogs, kind \in Kinds :
         \E change \in Changes(c, kind) :
           /\ Begins(c)
           /\ Goto(t, "write", Job(c, kind, change,
                                IF ReadsWhole(c) THEN Apply(change, RowOrDefault(c))
                                ELSE change.to))
    /\ UNCHANGED <<rows, cache, hydration, stored>>

\* Mutant: the statement names every column.
WriteAllColumns(t) ==
    IF job[t].kind = "reset" \/ (job[t].kind = "disable" /\ rows[job[t].cog] = Absent)
    THEN Absent ELSE job[t].config

\* What the statement of task t makes of the row.  Disabling is an update of a
\* row that exists, everything else an upsert.
Written(t) ==
    LET j == job[t] IN
    IF ReadsWhole(j.cog) THEN j.config
    ELSE IF j.kind = "reset" \/ (j.kind = "disable" /\ rows[j.cog] = Absent) THEN Absent
    ELSE Apply(j.change, RowOrDefault(j.cog))

\* welcome's and goodbye's commands read the row back, everything else has its copy at hand.
AfterWrite(t) == IF ReadsBack(job[t].cog) /\ job[t].kind = "set" THEN "reload" ELSE "cache"

\* update_config and the dashboard report a write that fails.
Reported(t) == ReadsWhole(job[t].cog) \/ job[t].kind = "put"

Write(t) ==
    /\ pc[t] = "write"
    /\ rows' = [rows EXCEPT ![job[t].cog] = Written(t)]
    /\ stored' = [stored EXCEPT ![job[t].cog] = @ \cup ({Written(t)} \ {Absent})]
    /\ Goto(t, AfterWrite(t), job[t])
    /\ UNCHANGED <<cache, hydration, allowed, clean, trusted>>

\* Mutant: a write that fails is ignored everywhere.
IgnoreFailure(t) ==
    /\ pc[t] = "write" /\ Fault
    /\ Goto(t, AfterWrite(t), job[t])
    /\ UNCHANGED <<rows, cache, hydration, stored, clean, trusted>>

WriteFails(t) ==
    /\ pc[t] = "write" /\ Fault
    /\ \/ Reported(t) /\ Finish(t) /\ Ends(job[t].cog, FALSE) /\ UNCHANGED clean
       \/ /\ ~Reported(t) /\ Goto(t, AfterWrite(t), job[t])
          /\ IF AfterWrite(t) = "reload" THEN UNCHANGED <<clean, trusted>>
             ELSE Spoils(job[t].cog)
    /\ UNCHANGED <<rows, cache, hydration, stored>>

\* Mutant: the copy is made from the change, not from the row.
ReloadNothing(t) ==
    /\ pc[t] = "reload"
    /\ Goto(t, "cache", job[t])
    /\ UNCHANGED <<rows, cache, hydration, allowed, stored, clean, trusted>>

Reload(t) ==
    /\ pc[t] = "reload"
    /\ IF rows[job[t].cog] = Absent
       THEN Finish(t) /\ Ends(job[t].cog, FALSE)
       ELSE /\ Goto(t, "cache", Job(job[t].cog, job[t].kind, job[t].change, rows[job[t].cog]))
            /\ UNCHANGED trusted
    /\ UNCHANGED <<rows, cache, hydration, allowed, stored, clean>>

ReloadFails(t) ==
    /\ pc[t] = "reload" /\ Fault
    /\ Finish(t) /\ Spoils(job[t].cog)
    /\ UNCHANGED <<rows, cache, hydration, stored>>

\* What task t makes of the copy.  Disabling changes an entry that exists, in
\* place; a reset removes it, and everything else inserts a whole one.
Cached(t) ==
    LET c == job[t].cog IN
    IF job[t].kind \in {"put", "set"} THEN job[t].config
    ELSE IF job[t].kind = "reset" \/ cache[c] = Absent THEN Absent
    ELSE Apply(job[t].change, cache[c])

Cache(t) ==
    /\ pc[t] = "cache"
    /\ cache' = [cache EXCEPT ![job[t].cog] = Cached(t)]
    /\ Finish(t) /\ Ends(job[t].cog, job[t].kind # "disable")
    /\ UNCHANGED <<rows, hydration, allowed, stored, clean>>

(***************************************************************************)
(* hydrate_cache, at every ready event: read all rows, insert each.        *)
(***************************************************************************)
HydrateRead(c) ==
    /\ hydration[c] = Idle /\ allowed.readies > 0
    /\ allowed' = [allowed EXCEPT !.readies = @ - 1]
    /\ Begins(c)
    /\ hydration' = [hydration EXCEPT ![c] = rows[c]]
    /\ UNCHANGED <<rows, cache, pc, job, stored>>

\* A read that fails finds no rows: nothing is inserted.
HydrateFails(c) ==
    /\ hydration[c] = Idle /\ allowed.readies > 0 /\ Fault
    /\ Spoils(c)
    /\ UNCHANGED <<rows, cache, pc, job, hydration, stored>>

HydrateInsert(c) ==
    /\ hydration[c] # Idle
    /\ cache' = [cache EXCEPT ![c] = IF hydration[c] = Absent THEN @ ELSE hydration[c]]
    /\ hydration' = [hydration EXCEPT ![c] = Idle]
    /\ Ends(c, hydration[c] # Absent)
    /\ UNCHANGED <<rows, pc, job, allowed, stored, clean>>

\* The process dies and is started again: memory is empty.
Crash ==
    /\ Fault
    /\ cache' = [c \in Cogs |-> Absent] /\ hydration' = [c \in Cogs |-> Idle]
    /\ pc' = [t \in Tasks |-> "idle"] /\ job' = [t \in Tasks |-> NoJob]
    /\ clean' = Cogs /\ trusted' = {c \in Cogs : rows[c] = Absent}
    /\ UNCHANGED <<rows, stored>>

TaskStep(t) == Write(t) \/ WriteFails(t) \/ Reload(t) \/ ReloadFails(t) \/ Cache(t)
Hydrate(c) == HydrateRead(c) \/ HydrateFails(c) \/ HydrateInsert(c)

Next ==
    \/ \E t \in Tasks : Begin(t) \/ TaskStep(t)
    \/ \E c \in Cogs : Hydrate(c)
    \/ Crash

Spec == Init /\ [][Next]_vars

(***************************************************************************)
(* Properties.                                                             *)
(***************************************************************************)
Steps == {"idle", "write", "reload", "cache"}
Jobs == [cog : Cogs \cup {Absent}, kind : Kinds \cup {Absent},
         change : [fields : SUBSET {"enabled", "target"}, to : Config], config : Config]

\* Rows, copies, snapshots and the locals of a handler hold whole configurations or
\* the mark that there is none.
TypeOK ==
    /\ rows \in [Cogs -> Config \cup {Absent}] /\ cache \in [Cogs -> Config \cup {Absent}]
    /\ pc \in [Tasks -> Steps] /\ job \in [Tasks -> Jobs]
    /\ hydration \in [Cogs -> Config \cup {Absent, Idle}]
    /\ allowed \in [updates : Nat, readies : Nat, faults : Nat]
    /\ stored \in [Cogs -> SUBSET Config] /\ clean \subseteq Cogs /\ trusted \subseteq Cogs

\* One update at a time keeps row and copy in step, also when its query fails and
\* is reported, and one that caches the whole row repairs what overlapping
\* updates left behind (update_config, reload, the dashboard's handlers,
\* do_reset, hydrate_cache).
InStep == \A c \in trusted : ~UnderWay(c) => cache[c] = rows[c]

\* However changes, hydrations and failures interleave, the event handlers never
\* run with a mixture of two configurations: what they read was stored as a whole
\* (logging excepted, which changes its copy in place and ignores failures).
CachedWasStored ==
    \A c \in Cogs \ {"logging"} : cache[c] # Absent => cache[c] \in stored[c]

\* Events are never sent to a log without a webhook: neither row nor copy of the
\* logging configuration is enabled without one, in spite of changes in place.
LogsGoSomewhere ==
    \A c \in Cogs \cap {"logging"} : \A v \in {rows[c], cache[c]} \ {Absent} :
        v.enabled => v.target # NoTarget

\* A change of one setting leaves the others in the row as they are: always where
\* the statement names its columns, and in the cogs that write the row whole
\* unless another change of it was under way.
OthersKept ==
    [][\A t \in Tasks : \A c \in Cogs :
         /\ pc[t] = "write" /\ pc'[t] # "write" /\ job[t].cog = c
         /\ rows[c] # Absent /\ rows'[c] # Absent
         /\ ReadsWhole(c) => c \in clean
         => \A f \in {"enabled", "target"} \ job[t].change.fields : rows'[c][f] = rows[c][f]
      ]_vars
=============================================================================
