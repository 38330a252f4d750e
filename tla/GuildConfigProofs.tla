------------------------- MODULE GuildConfigProofs --------------------------
(***************************************************************************)
(* One update at a time keeps row and copy of a configuration in step; and *)
(* however updates, hydrations and failures interleave, the copy is never  *)
(* a mixture of two configurations and logging never runs without a        *)
(* webhook.  Then the custom prefixes: with one change at a time the list  *)
(* in memory is that of the table, and no longer than the limit.           *)
(***************************************************************************)
EXTENDS MCServerConfig, FiniteSetTheorems, TLAPS

\* Enabled only with a target.
Sound(v) == v.enabled => v.target # NoTarget

\* The change sets every field.
Whole(j) == j.kind = "put" \/ (j.kind = "set" /\ j.cog = "logging")

\* What a task at step p carries.
Fits(p, j) ==
    /\ p = "idle" <=> j.cog = Absent
    /\ p # "idle" =>
          /\ j.cog \in Cogs /\ j.kind \in Kinds
          /\ j.kind = "disable" => j.cog = "logging"
          /\ j.kind = "reset" => ~ReadsWhole(j.cog)
          /\ Whole(j) => j.change.fields = {"enabled", "target"}
          /\ Whole(j) /\ ~ReadsWhole(j.cog) => j.config = j.change.to
          /\ Whole(j) /\ j.cog = "logging" => Sound(j.change.to)
          /\ j.kind = "disable" => j.change = Asks({"enabled"}, Default)
          /\ p = "reload" => ReadsBack(j.cog) /\ j.kind = "set"

JobsFit == \A t \in Tasks : Fits(pc[t], job[t])

\* What will be cached was stored.
RowsStored == \A c \in Cogs : rows[c] # Absent => rows[c] \in stored[c]
HydratesStored == \A c \in Cogs : hydration[c] \notin {Absent, Idle} => hydration[c] \in stored[c]
JobsStored ==
    \A t \in Tasks :
        pc[t] = "cache" /\ job[t].cog # "logging" /\ job[t].kind # "reset"
            => job[t].config \in stored[job[t].cog]

\* A hydration of the logging configuration is about to insert a sound one.
HydratesSound ==
    \A c \in Cogs \cap {"logging"} : hydration[c] \notin {Absent, Idle} => Sound(hydration[c])

\* At most one thing is under way.
Alone(c) ==
    /\ \A t, s \in Tasks : job[t].cog = c /\ job[s].cog = c => t = s
    /\ \A t \in Tasks : job[t].cog = c => hydration[c] = Idle

Agree(c) == c \in trusted => cache[c] = rows[c]

\* How far row and copy agree while the update of task t is the only thing under way.
TaskAgrees(t) ==
    LET c == job[t].cog IN
    /\ pc[t] = "write" => Agree(c)
    /\ pc[t] = "reload" => rows[c] # Absent \/ Agree(c)
    /\ pc[t] = "cache" => Cached(t) = rows[c] \/ (job[t].kind = "disable" /\ c \notin trusted)

CogAgrees(c) ==
    /\ c \in trusted /\ UnderWay(c) => c \in clean
    /\ ~UnderWay(c) => Agree(c)
    /\ c \in clean => Alone(c)
    /\ c \in clean /\ hydration[c] # Idle => hydration[c] = rows[c] /\ Agree(c)
    /\ \A t \in Tasks : c \in clean /\ job[t].cog = c => TaskAgrees(t)

AllAgree == \A c \in Cogs : CogAgrees(c)

StoredInv == RowsStored /\ HydratesStored /\ JobsStored /\ CachedWasStored
LogsInv == HydratesSound /\ LogsGoSomewhere

IInv == TypeOK /\ JobsFit /\ StoredInv /\ LogsInv /\ AllAgree

LEMMA ApplyType ==
    ASSUME NEW change \in [fields : SUBSET {"enabled", "target"}, to : Config], NEW config \in Config
    PROVE  Apply(change, config) \in Config
<1>1. change.to \in Config
  OBVIOUS
<1> QED
  BY <1>1 DEF Apply, Config

LEMMA DefaultType == Default \in Config
  BY DEF Default, Config

LEMMA RowOrDefaultType == ASSUME TypeOK, NEW c \in Cogs PROVE RowOrDefault(c) \in Config
  BY DefaultType DEF RowOrDefault, TypeOK

LEMMA NoJobType == NoJob \in Jobs
  BY DefaultType DEF NoJob, Job, Jobs, Asks

LEMMA ChangesType ==
    ASSUME NEW c \in Cogs, NEW kind \in Kinds, NEW change \in Changes(c, kind)
    PROVE  change \in [fields : SUBSET {"enabled", "target"}, to : Config]
<1>1. \A fields \in SUBSET {"enabled", "target"}, to \in Config :
        Asks(fields, to) \in [fields : SUBSET {"enabled", "target"}, to : Config]
  BY DEF Asks
<1>2. CASE change \in PutChanges(c)
  BY <1>1, <1>2 DEF PutChanges
<1>3. CASE change \in SetChanges(c)
  <2>1. /\ \A u \in Targets \cup {NoTarget}, b \in BOOLEAN : [enabled |-> b, target |-> u] \in Config
    BY DEF Config
  <2> QED
    BY <1>1, <1>3, <2>1 DEF SetChanges
<1>4. CASE change \in {Asks({"enabled"}, Default), Asks({}, Default)}
  BY <1>1, <1>4, DefaultType
<1> QED
  BY <1>2, <1>3, <1>4 DEF Changes

LEMMA JobsType ==
    ASSUME TypeOK, NEW t \in Tasks
    PROVE  /\ job[t] \in Jobs /\ job[t].cog \in Cogs \cup {Absent}
           /\ job[t].config \in Config /\ job[t].kind \in Kinds \cup {Absent}
           /\ job[t].change \in [fields : SUBSET {"enabled", "target"}, to : Config]
           /\ job[t].change.to \in Config
<1>1. job[t] \in Jobs
  BY DEF TypeOK
<1> QED
  BY <1>1 DEF Jobs

LEMMA GotoFacts ==
    ASSUME TypeOK, NEW t \in Tasks, NEW next \in Steps, NEW j \in Jobs, Goto(t, next, j)
    PROVE  /\ pc' \in [Tasks -> Steps] /\ job' \in [Tasks -> Jobs]
           /\ pc'[t] = next /\ job'[t] = j
           /\ \A s \in Tasks \ {t} : pc'[s] = pc[s] /\ job'[s] = job[s]
  BY DEF Goto, TypeOK

LEMMA FinishFacts ==
    ASSUME TypeOK, NEW t \in Tasks, Finish(t)
    PROVE  /\ pc' \in [Tasks -> Steps] /\ job' \in [Tasks -> Jobs]
           /\ pc'[t] = "idle" /\ job'[t] = NoJob /\ job'[t].cog = Absent
           /\ \A s \in Tasks \ {t} : pc'[s] = pc[s] /\ job'[s] = job[s]
<1>1. "idle" \in Steps
  BY DEF Steps
<1>2. NoJob.cog = Absent
  BY DEF NoJob, Job
<1> QED
  BY <1>1, <1>2, GotoFacts, NoJobType DEF Finish

LEMMA WrittenType ==
    ASSUME TypeOK, NEW t \in Tasks, job[t].cog \in Cogs
    PROVE  Written(t) \in Config \cup {Absent}
  BY JobsType, ApplyType, RowOrDefaultType DEF Written

LEMMA CachedType ==
    ASSUME TypeOK, NEW t \in Tasks, job[t].cog \in Cogs
    PROVE  Cached(t) \in Config \cup {Absent}
<1>1. cache[job[t].cog] \in Config \cup {Absent}
  BY DEF TypeOK
<1> QED
  BY <1>1, JobsType, ApplyType DEF Cached

LEMMA BeginFacts ==
    ASSUME TypeOK, NEW t \in Tasks, Begin(t)
    PROVE  \E c \in Cogs, kind \in Kinds : \E change \in Changes(c, kind), config \in Config :
              /\ Begins(c) /\ Goto(t, "write", Job(c, kind, change, config))
              /\ Job(c, kind, change, config) \in Jobs
              /\ ~ReadsWhole(c) => config = change.to
<1>1. PICK c \in Cogs, kind \in Kinds :
        \E change \in Changes(c, kind) :
          /\ Begins(c)
          /\ Goto(t, "write", Job(c, kind, change,
                 IF ReadsWhole(c) THEN Apply(change, RowOrDefault(c)) ELSE change.to))
  BY DEF Begin
<1>2. PICK change \in Changes(c, kind) :
          /\ Begins(c)
          /\ Goto(t, "write", Job(c, kind, change,
                 IF ReadsWhole(c) THEN Apply(change, RowOrDefault(c)) ELSE change.to))
  BY <1>1
<1> DEFINE config == IF ReadsWhole(c) THEN Apply(change, RowOrDefault(c)) ELSE change.to
<1>3. change \in [fields : SUBSET {"enabled", "target"}, to : Config]
  BY ChangesType
<1>4. config \in Config
  BY <1>3, ApplyType, RowOrDefaultType
<1>5. Job(c, kind, change, config) \in Jobs
  BY <1>3, <1>4 DEF Job, Jobs
<1>6. Goto(t, "write", Job(c, kind, change, config)) /\ (~ReadsWhole(c) => config = change.to)
  BY <1>2
<1> HIDE DEF config
<1> QED
  BY <1>2, <1>4, <1>5, <1>6

LEMMA AfterWriteType ==
    ASSUME NEW t \in Tasks
    PROVE  AfterWrite(t) \in {"reload", "cache"} /\ AfterWrite(t) \in Steps
  BY DEF AfterWrite, Steps

\* A task that is not idle works on a cog.
LEMMA Busy ==
    ASSUME TypeOK, JobsFit, NEW t \in Tasks
    PROVE  /\ pc[t] # "idle" <=> job[t].cog \in Cogs
           /\ pc[t] # "idle" => job[t].kind \in Kinds
  BY JobsType, ConfigConstants DEF JobsFit, Fits

LEMMA FaultType == ASSUME TypeOK, Fault PROVE allowed' \in [updates : Nat, readies : Nat, faults : Nat]
  BY DEF TypeOK, Fault

\* Every variable keeps its type.
LEMMA TypeStep == ASSUME TypeOK, JobsFit, [Next]_vars PROVE TypeOK'
<1>1. ASSUME NEW t \in Tasks, Begin(t) PROVE TypeOK'
  <2>1. pc' \in [Tasks -> Steps] /\ job' \in [Tasks -> Jobs]
    <3>1. "write" \in Steps
      BY DEF Steps
    <3> QED
      BY <1>1, <3>1, BeginFacts, GotoFacts
  <2>2. clean' \subseteq Cogs /\ trusted' \subseteq Cogs
    BY <1>1 DEF Begin, Begins, TypeOK
  <2>3. allowed' \in [updates : Nat, readies : Nat, faults : Nat]
    BY <1>1 DEF Begin, TypeOK
  <2>4. UNCHANGED <<rows, cache, hydration, stored>>
    BY <1>1 DEF Begin
  <2> QED
    BY <2>1, <2>2, <2>3, <2>4 DEF TypeOK
<1>2. ASSUME NEW t \in Tasks, Write(t) PROVE TypeOK'
  <2>1. job[t].cog \in Cogs
    BY <1>2, Busy DEF Write
  <2>2. Written(t) \in Config \cup {Absent}
    BY <2>1, WrittenType
  <2>3. rows' \in [Cogs -> Config \cup {Absent}] /\ stored' \in [Cogs -> SUBSET Config]
    <3>1. Written(t) \in Config \/ Written(t) = Absent
      BY <2>2
    <3>2. {Written(t)} \ {Absent} \in SUBSET Config
      BY <3>1
    <3> QED
      BY <1>2, <2>1, <2>2, <3>2 DEF Write, TypeOK
  <2>4. pc' \in [Tasks -> Steps] /\ job' \in [Tasks -> Jobs]
    BY <1>2, AfterWriteType, GotoFacts, JobsType DEF Write
  <2>5. UNCHANGED <<cache, hydration, allowed, clean, trusted>>
    BY <1>2 DEF Write
  <2> QED
    BY <2>3, <2>4, <2>5 DEF TypeOK
<1>3. ASSUME NEW t \in Tasks, WriteFails(t) PROVE TypeOK'
  <2>0. job[t].cog \in Cogs
    BY <1>3, Busy DEF WriteFails
  <2>1. pc' \in [Tasks -> Steps] /\ job' \in [Tasks -> Jobs]
    BY <1>3, AfterWriteType, GotoFacts, FinishFacts, JobsType DEF WriteFails
  <2>2. clean' \subseteq Cogs /\ trusted' \subseteq Cogs
    BY <1>3, <2>0 DEF WriteFails, Ends, Spoils, TypeOK
  <2>3. UNCHANGED <<rows, cache, hydration, stored>> /\ Fault
    BY <1>3 DEF WriteFails
  <2> QED
    BY <2>1, <2>2, <2>3, FaultType DEF TypeOK
<1>4. ASSUME NEW t \in Tasks, Reload(t) PROVE TypeOK'
  <2>0. job[t].cog \in Cogs /\ job[t].kind \in Kinds
    BY <1>4, Busy DEF Reload
  <2>1. pc' \in [Tasks -> Steps] /\ job' \in [Tasks -> Jobs]
    <3>1. CASE rows[job[t].cog] = Absent
      BY <1>4, <3>1, FinishFacts DEF Reload
    <3>2. CASE rows[job[t].cog] # Absent
      <4>1. rows[job[t].cog] \in Config
        BY <2>0, <3>2 DEF TypeOK
      <4>2. Job(job[t].cog, job[t].kind, job[t].change, rows[job[t].cog]) \in Jobs
        BY <2>0, <4>1, JobsType DEF Job, Jobs
      <4>3. "cache" \in Steps
        BY DEF Steps
      <4> QED
        BY <1>4, <3>2, <4>2, <4>3, GotoFacts DEF Reload
    <3> QED
      BY <3>1, <3>2
  <2>2. trusted' \subseteq Cogs
    BY <1>4, <2>0 DEF Reload, Ends, TypeOK
  <2>3. UNCHANGED <<rows, cache, hydration, allowed, stored, clean>>
    BY <1>4 DEF Reload
  <2> QED
    BY <2>1, <2>2, <2>3 DEF TypeOK
<1>5. ASSUME NEW t \in Tasks, ReloadFails(t) PROVE TypeOK'
  <2>1. pc' \in [Tasks -> Steps] /\ job' \in [Tasks -> Jobs]
    BY <1>5, FinishFacts DEF ReloadFails
  <2>2. clean' \subseteq Cogs /\ trusted' \subseteq Cogs
    BY <1>5 DEF ReloadFails, Spoils, TypeOK
  <2>3. UNCHANGED <<rows, cache, hydration, stored>> /\ Fault
    BY <1>5 DEF ReloadFails
  <2> QED
    BY <2>1, <2>2, <2>3, FaultType DEF TypeOK
<1>6. ASSUME NEW t \in Tasks, Cache(t) PROVE TypeOK'
  <2>0. job[t].cog \in Cogs
    BY <1>6, Busy DEF Cache
  <2>1. pc' \in [Tasks -> Steps] /\ job' \in [Tasks -> Jobs]
    BY <1>6, FinishFacts DEF Cache
  <2>2. cache' \in [Cogs -> Config \cup {Absent}]
    BY <1>6, <2>0, CachedType DEF Cache, TypeOK
  <2>3. trusted' \subseteq Cogs
    BY <1>6, <2>0 DEF Cache, Ends, TypeOK
  <2>4. UNCHANGED <<rows, hydration, allowed, stored, clean>>
    BY <1>6 DEF Cache
  <2> QED
    BY <2>1, <2>2, <2>3, <2>4 DEF TypeOK
<1>7. ASSUME NEW c \in Cogs, Hydrate(c) PROVE TypeOK'
  <2>1. CASE HydrateRead(c)
    BY <2>1 DEF HydrateRead, Begins, TypeOK
  <2>2. CASE HydrateFails(c)
    <3>1. clean' \subseteq Cogs /\ trusted' \subseteq Cogs
      BY <2>2 DEF HydrateFails, Spoils, TypeOK
    <3>2. UNCHANGED <<rows, cache, pc, job, hydration, stored>> /\ Fault
      BY <2>2 DEF HydrateFails
    <3> QED
      BY <3>1, <3>2, FaultType DEF TypeOK
  <2>3. CASE HydrateInsert(c)
    BY <2>3 DEF HydrateInsert, Ends, TypeOK
  <2> QED
    BY <1>7, <2>1, <2>2, <2>3 DEF Hydrate
<1>8. CASE Crash
  <2>1. pc' \in [Tasks -> Steps] /\ job' \in [Tasks -> Jobs]
    BY <1>8, NoJobType DEF Crash, Steps
  <2>2. /\ cache' \in [Cogs -> Config \cup {Absent}]
        /\ hydration' \in [Cogs -> Config \cup {Absent, Idle}]
        /\ clean' \subseteq Cogs /\ trusted' \subseteq Cogs
    BY <1>8 DEF Crash
  <2>3. UNCHANGED <<rows, stored>> /\ Fault
    BY <1>8 DEF Crash
  <2> QED
    BY <2>1, <2>2, <2>3, FaultType DEF TypeOK
<1>9. CASE UNCHANGED vars
  BY <1>9 DEF vars, TypeOK
<1> QED
  BY <1>1, <1>2, <1>3, <1>4, <1>5, <1>6, <1>7, <1>8, <1>9 DEF Next, TaskStep

LEMMA FitsGoto ==
    ASSUME TypeOK, JobsFit, NEW t \in Tasks, NEW next \in Steps, NEW j \in Jobs,
           Goto(t, next, j), Fits(next, j)
    PROVE  JobsFit'
  BY GotoFacts DEF JobsFit

LEMMA FitsFinish == ASSUME TypeOK, JobsFit, NEW t \in Tasks, Finish(t) PROVE JobsFit'
<1>1. Fits("idle", NoJob) /\ "idle" \in Steps
  BY DEF Fits, NoJob, Job, Steps
<1> QED
  BY <1>1, FitsGoto, NoJobType DEF Finish

\* What is asked for fits the way it is asked for.
LEMMA ChangesFit ==
    ASSUME NEW c \in Cogs, NEW kind \in Kinds, NEW change \in Changes(c, kind), NEW config,
           ~ReadsWhole(c) => config = change.to
    PROVE  Fits("write", Job(c, kind, change, config))
<1> DEFINE j == Job(c, kind, change, config)
<1>1. j.cog = c /\ j.kind = kind /\ j.change = change /\ j.config = config
  BY DEF Job
<1>2. Whole(j) => change.fields = {"enabled", "target"} /\ (c = "logging" => Sound(change.to))
  <2>1. CASE kind = "put"
    <3>1. PICK v \in Config : /\ c \in {"starboard", "logging"} /\ v.enabled => v.target # NoTarget
                              /\ change = Asks({"enabled", "target"}, v)
      BY <2>1 DEF Changes, PutChanges
    <3>2. change.fields = {"enabled", "target"} /\ change.to = v
      BY <3>1 DEF Asks
    <3> QED
      BY <3>1, <3>2 DEF Sound
  <2>2. CASE kind = "set" /\ c = "logging"
    <3>1. PICK u \in Targets :
            change = Asks({"enabled", "target"}, [enabled |-> TRUE, target |-> u])
      BY <2>2 DEF Changes, SetChanges
    <3>2. change.fields = {"enabled", "target"} /\ change.to.target = u
      BY <3>1 DEF Asks
    <3> QED
      BY <3>2, ConfigConstants DEF Sound
  <2> QED
    BY <1>1, <2>1, <2>2 DEF Whole
<1>3. /\ kind = "disable" => c = "logging" /\ change = Asks({"enabled"}, Default)
      /\ kind = "reset" => ~ReadsWhole(c)
  BY DEF Changes, ReadsWhole, ReadsBack
<1>4. c # Absent
  BY ConfigConstants
<1> HIDE DEF j
<1>5. Fits("write", j)
  BY <1>1, <1>2, <1>3, <1>4 DEF Fits
<1> QED
  BY <1>5 DEF j

LEMMA FitsStep == ASSUME TypeOK, JobsFit, [Next]_vars PROVE JobsFit'
<1>1. ASSUME NEW t \in Tasks, Begin(t) PROVE JobsFit'
  <2>1. PICK c \in Cogs, kind \in Kinds : \E change \in Changes(c, kind), config \in Config :
              /\ Begins(c) /\ Goto(t, "write", Job(c, kind, change, config))
              /\ Job(c, kind, change, config) \in Jobs
              /\ ~ReadsWhole(c) => config = change.to
    BY <1>1, BeginFacts
  <2>2. PICK change \in Changes(c, kind) : \E config \in Config :
              /\ Begins(c) /\ Goto(t, "write", Job(c, kind, change, config))
              /\ Job(c, kind, change, config) \in Jobs
              /\ ~ReadsWhole(c) => config = change.to
    BY <2>1
  <2>3. PICK config \in Config :
              /\ Begins(c) /\ Goto(t, "write", Job(c, kind, change, config))
              /\ Job(c, kind, change, config) \in Jobs
              /\ ~ReadsWhole(c) => config = change.to
    BY <2>2
  <2>4. Fits("write", Job(c, kind, change, config)) /\ "write" \in Steps
    BY <2>3, ChangesFit DEF Steps
  <2> QED
    BY <2>3, <2>4, FitsGoto
<1>2. ASSUME NEW t \in Tasks, Write(t) \/ WriteFails(t) PROVE JobsFit'
  <2>1. pc[t] = "write" /\ Fits("write", job[t]) /\ job[t] \in Jobs
    BY <1>2, JobsType DEF Write, WriteFails, JobsFit
  <2>2. Fits(AfterWrite(t), job[t])
    BY <2>1 DEF Fits, AfterWrite
  <2>3. Goto(t, AfterWrite(t), job[t]) \/ Finish(t)
    BY <1>2 DEF Write, WriteFails
  <2> QED
    BY <2>1, <2>2, <2>3, FitsGoto, FitsFinish, AfterWriteType
<1>3. ASSUME NEW t \in Tasks, Reload(t), rows[job[t].cog] # Absent PROVE JobsFit'
  <2> DEFINE j == Job(job[t].cog, job[t].kind, job[t].change, rows[job[t].cog])
  <2>1. Fits("reload", job[t]) /\ pc[t] = "reload"
    BY <1>3 DEF Reload, JobsFit
  <2>2. job[t].cog \in Cogs /\ job[t].kind \in Kinds /\ ReadsBack(job[t].cog) /\ job[t].kind = "set"
    BY <2>1 DEF Fits
  <2>3. rows[job[t].cog] \in Config
    BY <1>3, <2>2 DEF TypeOK
  <2>4. j \in Jobs
    BY <2>2, <2>3, JobsType DEF Job, Jobs
  <2>5. j.cog = job[t].cog /\ j.kind = job[t].kind
    BY DEF Job
  <2>6. Goto(t, "cache", j) /\ "cache" \in Steps
    BY <1>3 DEF Reload, Steps
  <2> HIDE DEF j
  <2>7. Fits("cache", j)
    BY <2>2, <2>5, ConfigConstants DEF Fits, Whole, ReadsWhole, ReadsBack
  <2> QED
    BY <2>4, <2>6, <2>7, FitsGoto
<1>4. ASSUME NEW t \in Tasks, Finish(t) PROVE JobsFit'
  BY <1>4, FitsFinish
<1>5. ASSUME UNCHANGED <<pc, job>> PROVE JobsFit'
  BY <1>5 DEF JobsFit
<1>6. CASE Crash
  <2>1. Fits("idle", NoJob)
    BY DEF Fits, NoJob, Job
  <2> QED
    BY <1>6, <2>1 DEF Crash, JobsFit
<1>7. ASSUME NEW t \in Tasks, TaskStep(t) PROVE JobsFit'
  BY <1>2, <1>3, <1>4, <1>7 DEF TaskStep, Reload, ReloadFails, Cache
<1>8. ASSUME NEW c \in Cogs, Hydrate(c) PROVE JobsFit'
  <2>1. UNCHANGED <<pc, job>>
    BY <1>8 DEF Hydrate, HydrateRead, HydrateFails, HydrateInsert
  <2> QED
    BY <1>5, <2>1
<1>9. CASE UNCHANGED vars
  BY <1>5, <1>9 DEF vars
<1> QED
  BY <1>1, <1>6, <1>7, <1>8, <1>9 DEF Next

\* What a task caches without reading it back is what it wrote.
LEMMA WrittenIsCached ==
    ASSUME TypeOK, JobsFit, NEW t \in Tasks, pc[t] = "write", AfterWrite(t) = "cache",
           job[t].kind \in {"put", "set"}
    PROVE  Written(t) = job[t].config /\ job[t].config \in Config
<1> DEFINE c == job[t].cog
           change == job[t].change
<1>1. Fits("write", job[t]) /\ c \in Cogs
  BY Busy DEF JobsFit
<1>2. CASE ReadsWhole(c)
  BY <1>2, JobsType DEF Written
<1>3. CASE ~ReadsWhole(c)
  <2>1. Whole(job[t])
    BY <1>1, <1>3, ConfigConstants DEF AfterWrite, Whole, ReadsWhole, ReadsBack
  <2>2. change.fields = {"enabled", "target"} /\ job[t].config = change.to
    BY <1>1, <1>3, <2>1 DEF Fits
  <2>3. Apply(change, RowOrDefault(c)) =
          [enabled |-> change.to.enabled, target |-> change.to.target]
    BY <2>2 DEF Apply
  <2>4. change.to \in Config
    BY JobsType
  <2>5. change.to = [enabled |-> change.to.enabled, target |-> change.to.target]
    BY <2>4 DEF Config
  <2>6. Written(t) = Apply(change, RowOrDefault(c))
    BY <1>3 DEF Written
  <2> QED
    BY <2>2, <2>3, <2>4, <2>5, <2>6
<1> QED
  BY <1>2, <1>3

LEMMA JobsStoredGoto ==
    ASSUME TypeOK, JobsFit, JobsStored, NEW t \in Tasks, NEW next \in Steps, NEW j \in Jobs,
           Goto(t, next, j), \A c \in Cogs : stored[c] \subseteq stored'[c],
           next = "cache" /\ j.cog # "logging" /\ j.kind # "reset"
               => j.config \in stored'[j.cog]
    PROVE  JobsStored'
<1> SUFFICES ASSUME NEW s \in Tasks,
                    pc'[s] = "cache", job'[s].cog # "logging", job'[s].kind # "reset"
             PROVE  job'[s].config \in stored'[job'[s].cog]
  BY DEF JobsStored
<1>1. CASE s = t
  BY <1>1, GotoFacts
<1>2. CASE s # t
  <2>1. pc'[s] = pc[s] /\ job'[s] = job[s]
    BY <1>2, GotoFacts
  <2>2. job[s].cog \in Cogs
    BY <2>1, Busy
  <2> QED
    BY <2>1, <2>2 DEF JobsStored
<1> QED
  BY <1>1, <1>2

LEMMA JobsStoredFinish ==
    ASSUME TypeOK, JobsFit, JobsStored, NEW t \in Tasks, Finish(t), UNCHANGED stored
    PROVE  JobsStored'
<1>1. "idle" \in Steps
  BY DEF Steps
<1> QED
  BY <1>1, JobsStoredGoto, NoJobType DEF Finish

\* After a step of a hydration a copy is what it was, or the row that was read.
LEMMA HydratedCopy ==
    ASSUME TypeOK, NEW c \in Cogs, Hydrate(c)
    PROVE  \A d \in Cogs :
             (cache'[d] = cache[d]) \/ (hydration[d] \notin {Absent, Idle} /\ cache'[d] = hydration[d])
<1>1. CASE UNCHANGED cache
  BY <1>1
<1>2. CASE HydrateInsert(c)
  <2>1. /\ hydration[c] # Idle /\ \A d \in Cogs \ {c} : cache'[d] = cache[d]
        /\ cache'[c] = IF hydration[c] = Absent THEN cache[c] ELSE hydration[c]
    BY <1>2 DEF HydrateInsert, TypeOK
  <2> QED
    BY <2>1
<1> QED
  BY <1>1, <1>2 DEF Hydrate, HydrateRead, HydrateFails

\* What is cached was stored, in every cog but logging.
LEMMA StoredStep == ASSUME TypeOK, JobsFit, StoredInv, [Next]_vars PROVE StoredInv'
<1> USE DEF StoredInv
<1>1. ASSUME NEW t \in Tasks, Begin(t) PROVE StoredInv'
  <2>1. \E next \in Steps, j \in Jobs : next = "write" /\ Goto(t, next, j)
    <3>1. "write" \in Steps
      BY DEF Steps
    <3> QED
      BY <1>1, <3>1, BeginFacts
  <2>2. UNCHANGED <<rows, cache, hydration, stored>>
    BY <1>1 DEF Begin
  <2>3. JobsStored'
    BY <2>1, <2>2, JobsStoredGoto
  <2> QED
    BY <2>2, <2>3 DEF RowsStored, HydratesStored, CachedWasStored
<1>2. ASSUME NEW t \in Tasks, Write(t) PROVE StoredInv'
  <2> DEFINE c == job[t].cog
  <2>1. pc[t] = "write" /\ c \in Cogs /\ Fits("write", job[t])
    BY <1>2, Busy DEF Write, JobsFit
  <2>2. /\ rows'[c] = Written(t) /\ \A d \in Cogs \ {c} : rows'[d] = rows[d]
        /\ stored'[c] = stored[c] \cup ({Written(t)} \ {Absent})
        /\ \A d \in Cogs \ {c} : stored'[d] = stored[d]
    BY <1>2, <2>1 DEF Write, TypeOK
  <2>3. \A d \in Cogs : stored[d] \subseteq stored'[d]
    BY <2>2
  <2>4. UNCHANGED <<cache, hydration>> /\ Goto(t, AfterWrite(t), job[t])
    BY <1>2 DEF Write
  <2>5. AfterWrite(t) = "cache" /\ c # "logging" /\ job[t].kind # "reset"
          => job[t].config \in stored'[c]
    <3> SUFFICES ASSUME AfterWrite(t) = "cache", c # "logging", job[t].kind # "reset"
                 PROVE  job[t].config \in stored'[c]
      OBVIOUS
    <3>1. job[t].kind \in {"put", "set"}
      BY <2>1 DEF Fits, Kinds
    <3> QED
      BY <2>1, <2>2, <3>1, WrittenIsCached, ConfigConstants
  <2>6. JobsStored'
    BY <2>3, <2>4, <2>5, AfterWriteType, JobsType, JobsStoredGoto
  <2>7. RowsStored'
    BY <2>1, <2>2 DEF RowsStored
  <2>8. HydratesStored' /\ CachedWasStored'
    BY <2>3, <2>4 DEF HydratesStored, CachedWasStored
  <2> QED
    BY <2>6, <2>7, <2>8
<1>3. ASSUME NEW t \in Tasks, WriteFails(t) PROVE StoredInv'
  <2>1. pc[t] = "write" /\ job[t].cog \in Cogs /\ job[t].kind \in Kinds /\ Fits("write", job[t])
    BY <1>3, Busy DEF WriteFails, JobsFit
  <2>2. UNCHANGED <<rows, cache, hydration, stored>>
    BY <1>3 DEF WriteFails
  <2>3. JobsStored'
    <3>1. CASE Finish(t)
      BY <2>2, <3>1, JobsStoredFinish
    <3>2. CASE ~Reported(t) /\ Goto(t, AfterWrite(t), job[t])
      <4>1. AfterWrite(t) = "cache" => job[t].cog = "logging" \/ job[t].kind = "reset"
        BY <2>1, <3>2, ConfigConstants DEF AfterWrite, Reported, ReadsWhole, ReadsBack, Fits, Kinds
      <4> QED
        BY <2>2, <3>2, <4>1, AfterWriteType, JobsType, JobsStoredGoto
    <3> QED
      BY <1>3, <3>1, <3>2 DEF WriteFails
  <2> QED
    BY <2>2, <2>3 DEF RowsStored, HydratesStored, CachedWasStored
<1>4. ASSUME NEW t \in Tasks, Reload(t) PROVE StoredInv'
  <2>1. UNCHANGED <<rows, cache, hydration, stored>>
    BY <1>4 DEF Reload
  <2>2. job[t].cog \in Cogs /\ job[t].kind \in Kinds
    BY <1>4, Busy DEF Reload
  <2>3. JobsStored'
    <3>1. CASE Finish(t)
      BY <2>1, <3>1, JobsStoredFinish
    <3>2. CASE ~Finish(t)
      <4> DEFINE j == Job(job[t].cog, job[t].kind, job[t].change, rows[job[t].cog])
      <4>1. rows[job[t].cog] # Absent /\ Goto(t, "cache", j)
        BY <1>4, <3>2 DEF Reload
      <4>2. rows[job[t].cog] \in Config /\ rows[job[t].cog] \in stored[job[t].cog]
        BY <2>2, <4>1 DEF TypeOK, RowsStored
      <4>3. j \in Jobs /\ "cache" \in Steps
        BY <2>2, <4>2, JobsType DEF Job, Jobs, Steps
      <4>4. j.config = rows[job[t].cog] /\ j.cog = job[t].cog
        BY DEF Job
      <4> HIDE DEF j
      <4> QED
        BY <2>1, <4>1, <4>2, <4>3, <4>4, JobsStoredGoto
    <3> QED
      BY <3>1, <3>2
  <2> QED
    BY <2>1, <2>3 DEF RowsStored, HydratesStored, CachedWasStored
<1>5. ASSUME NEW t \in Tasks, ReloadFails(t) PROVE StoredInv'
  <2>1. UNCHANGED <<rows, cache, hydration, stored>> /\ Finish(t)
    BY <1>5 DEF ReloadFails
  <2> QED
    BY <2>1, JobsStoredFinish DEF RowsStored, HydratesStored, CachedWasStored
<1>6. ASSUME NEW t \in Tasks, Cache(t) PROVE StoredInv'
  <2> DEFINE c == job[t].cog
  <2>1. pc[t] = "cache" /\ c \in Cogs /\ job[t].kind \in Kinds /\ Fits("cache", job[t])
    BY <1>6, Busy DEF Cache, JobsFit
  <2>2. /\ cache'[c] = Cached(t) /\ \A d \in Cogs \ {c} : cache'[d] = cache[d]
        /\ UNCHANGED <<rows, hydration, stored>> /\ Finish(t)
    BY <1>6, <2>1 DEF Cache, TypeOK
  <2>3. c # "logging" /\ Cached(t) # Absent => Cached(t) \in stored[c]
    BY <2>1 DEF Cached, Fits, Kinds, JobsStored
  <2>4. CachedWasStored'
    BY <2>1, <2>2, <2>3 DEF CachedWasStored
  <2> QED
    BY <2>2, <2>4, JobsStoredFinish DEF RowsStored, HydratesStored
<1>7. ASSUME NEW c \in Cogs, Hydrate(c) PROVE StoredInv'
  <2>1. UNCHANGED <<rows, pc, job, stored>>
    BY <1>7 DEF Hydrate, HydrateRead, HydrateFails, HydrateInsert
  <2>2. RowsStored' /\ JobsStored'
    BY <2>1 DEF RowsStored, JobsStored
  <2>3. HydratesStored'
    <3>1. \A d \in Cogs : hydration'[d] \in {hydration[d], rows[d], Idle}
      BY <1>7 DEF Hydrate, HydrateRead, HydrateFails, HydrateInsert, TypeOK
    <3> QED
      BY <2>1, <3>1 DEF RowsStored, HydratesStored
  <2>4. CachedWasStored'
    BY <1>7, <2>1, HydratedCopy DEF HydratesStored, CachedWasStored
  <2> QED
    BY <2>2, <2>3, <2>4
<1>8. CASE Crash
  <2>1. /\ UNCHANGED <<rows, stored>>
        /\ \A c \in Cogs : cache'[c] = Absent /\ hydration'[c] = Idle
        /\ \A t \in Tasks : pc'[t] = "idle"
    BY <1>8 DEF Crash
  <2> QED
    BY <2>1 DEF RowsStored, HydratesStored, JobsStored, CachedWasStored
<1>9. CASE UNCHANGED vars
  BY <1>9 DEF vars, RowsStored, HydratesStored, JobsStored, CachedWasStored
<1> QED
  BY <1>1, <1>2, <1>3, <1>4, <1>5, <1>6, <1>7, <1>8, <1>9 DEF Next, TaskStep

\* What a change of the logging configuration writes and caches has a webhook if enabled.
LEMMA LogsSound ==
    ASSUME TypeOK, NEW t \in Tasks, NEW p, p # "idle", Fits(p, job[t]),
           job[t].cog = "logging"
    PROVE  /\ Written(t) # Absent => Sound(Written(t))
           /\ Cached(t) # Absent => Sound(Cached(t))
<1> DEFINE j == job[t]
<1>1. j.cog \in Cogs /\ j.kind \in Kinds /\ ~ReadsWhole(j.cog)
  BY DEF Fits, ReadsWhole
<1>2. CASE j.kind \in {"put", "set"}
  <2>1. /\ j.change.fields = {"enabled", "target"} /\ j.config = j.change.to
        /\ Sound(j.change.to)
    BY <1>1, <1>2 DEF Fits, Whole
  <2>2. \A config : Sound(Apply(j.change, config))
    BY <2>1 DEF Apply, Sound
  <2> QED
    BY <1>1, <1>2, <2>1, <2>2 DEF Written, Cached
<1>3. CASE j.kind = "reset"
  BY <1>1, <1>3 DEF Written, Cached
<1>4. CASE j.kind = "disable"
  <2>1. j.change = Asks({"enabled"}, Default)
    BY <1>4 DEF Fits
  <2>2. j.change.fields = {"enabled"} /\ j.change.to.enabled = FALSE
    BY <2>1 DEF Asks, Default
  <2>3. \A config : Sound(Apply(j.change, config))
    BY <2>2 DEF Apply, Sound
  <2> QED
    BY <1>1, <1>4, <2>3 DEF Written, Cached
<1> QED
  BY <1>1, <1>2, <1>3, <1>4 DEF Kinds

\* Rows and copies of the logging configuration stay sound.
LEMMA LogsStep == ASSUME TypeOK, JobsFit, LogsInv, [Next]_vars PROVE LogsInv'
<1> USE DEF LogsInv
<1>1. CASE UNCHANGED <<rows, cache, hydration>>
  BY <1>1 DEF HydratesSound, LogsGoSomewhere
<1>2. ASSUME NEW t \in Tasks, Write(t) PROVE LogsInv'
  <2> DEFINE c == job[t].cog
  <2>1. pc[t] = "write" /\ c \in Cogs /\ Fits("write", job[t])
    BY <1>2, Busy DEF Write, JobsFit
  <2>2. /\ rows'[c] = Written(t) /\ \A d \in Cogs \ {c} : rows'[d] = rows[d]
        /\ UNCHANGED <<cache, hydration>>
    BY <1>2, <2>1 DEF Write, TypeOK
  <2>3. c = "logging" /\ Written(t) # Absent => Sound(Written(t))
    BY <2>1, LogsSound
  <2> QED
    BY <2>2, <2>3 DEF HydratesSound, LogsGoSomewhere, Sound
<1>3. ASSUME NEW t \in Tasks, Cache(t) PROVE LogsInv'
  <2> DEFINE c == job[t].cog
  <2>1. pc[t] = "cache" /\ c \in Cogs /\ Fits("cache", job[t])
    BY <1>3, Busy DEF Cache, JobsFit
  <2>2. /\ cache'[c] = Cached(t) /\ \A d \in Cogs \ {c} : cache'[d] = cache[d]
        /\ UNCHANGED <<rows, hydration>>
    BY <1>3, <2>1 DEF Cache, TypeOK
  <2>3. c = "logging" /\ Cached(t) # Absent => Sound(Cached(t))
    BY <2>1, LogsSound
  <2> QED
    BY <2>2, <2>3 DEF HydratesSound, LogsGoSomewhere, Sound
<1>4. ASSUME NEW c \in Cogs, Hydrate(c) PROVE LogsInv'
  <2>1. UNCHANGED rows
    BY <1>4 DEF Hydrate, HydrateRead, HydrateFails, HydrateInsert
  <2>2. \A d \in Cogs : hydration'[d] \in {hydration[d], rows[d], Idle}
    BY <1>4 DEF Hydrate, HydrateRead, HydrateFails, HydrateInsert, TypeOK
  <2>3. HydratesSound'
    BY <2>1, <2>2 DEF HydratesSound, LogsGoSomewhere, Sound
  <2>4. \A d \in Cogs : (cache'[d] = cache[d]) \/ (hydration[d] \notin {Absent, Idle} /\ cache'[d] = hydration[d])
    BY <1>4, HydratedCopy
  <2>5. LogsGoSomewhere'
    BY <2>1, <2>4 DEF HydratesSound, LogsGoSomewhere, Sound
  <2> QED
    BY <2>3, <2>5
<1>5. CASE Crash
  <2>1. /\ UNCHANGED rows
        /\ \A c \in Cogs : cache'[c] = Absent /\ hydration'[c] = Idle
    BY <1>5 DEF Crash
  <2> QED
    BY <2>1 DEF HydratesSound, LogsGoSomewhere
<1>6. ASSUME NEW t \in Tasks, Begin(t) \/ WriteFails(t) \/ Reload(t) \/ ReloadFails(t)
      PROVE  UNCHANGED <<rows, cache, hydration>>
  BY <1>6 DEF Begin, WriteFails, Reload, ReloadFails
<1> QED
  BY <1>1, <1>2, <1>3, <1>4, <1>5, <1>6 DEF Next, TaskStep, vars

\* A step leaves cog d, and the tasks that work on it, alone.
TasksSame(d) ==
    \A t \in Tasks : job[t].cog = d \/ job'[t].cog = d => job'[t] = job[t] /\ pc'[t] = pc[t]
Same(d) ==
    /\ rows'[d] = rows[d] /\ cache'[d] = cache[d] /\ hydration'[d] = hydration[d]
    /\ d \in clean' <=> d \in clean
    /\ d \in trusted' <=> d \in trusted
    /\ TasksSame(d)

LEMMA Kept == ASSUME NEW d \in Cogs, CogAgrees(d), Same(d) PROVE CogAgrees(d)'
<1>1. UnderWay(d)' <=> UnderWay(d)
  BY DEF UnderWay, Same, TasksSame
<1>2. Agree(d)' <=> Agree(d)
  BY DEF Agree, Same
<1>3. Alone(d) => Alone(d)'
  BY DEF Alone, Same, TasksSame
<1>4. ASSUME NEW t \in Tasks, job'[t].cog = d, TaskAgrees(t) PROVE TaskAgrees(t)'
  <2>1. job'[t] = job[t] /\ pc'[t] = pc[t] /\ job[t].cog = d
    BY <1>4 DEF Same, TasksSame
  <2>2. Cached(t)' = Cached(t)
    BY <2>1 DEF Cached, Same
  <2> QED
    BY <1>2, <1>4, <2>1, <2>2 DEF TaskAgrees, Same
<1>5. \A t \in Tasks : d \in clean' /\ job'[t].cog = d => TaskAgrees(t)'
  BY <1>4 DEF CogAgrees, Same, TasksSame
<1> QED
  BY <1>1, <1>2, <1>3, <1>5 DEF CogAgrees, Same

LEMMA Others ==
    ASSUME AllAgree, NEW c \in Cogs, \A d \in Cogs \ {c} : Same(d), CogAgrees(c)'
    PROVE  AllAgree'
  BY Kept DEF AllAgree

LEMMA OtherTasks ==
    ASSUME TypeOK, NEW t \in Tasks, NEW next \in Steps, NEW j \in Jobs, Goto(t, next, j),
           NEW c \in Cogs, job[t].cog \in {c, Absent}, j.cog \in {c, Absent}
    PROVE  \A d \in Cogs \ {c} : TasksSame(d)
  BY GotoFacts, ConfigConstants DEF TasksSame

\* Of a cog nothing is claimed once it is neither clean nor trusted.
LEMMA Unclaimed ==
    ASSUME NEW c \in Cogs, c \notin clean', c \notin trusted' PROVE CogAgrees(c)'
  BY DEF CogAgrees, Agree

LEMMA Resting == ASSUME NEW c \in Cogs, ~UnderWay(c)', Agree(c)' PROVE CogAgrees(c)'
  BY DEF CogAgrees, UnderWay, Alone

\* The one update under way goes on.
LEMMA GoesOn ==
    ASSUME TypeOK, NEW t \in Tasks, NEW next \in Steps, NEW j \in Jobs, Goto(t, next, j),
           NEW c \in Cogs, Alone(c), job[t].cog = c, j.cog = c, c \in clean',
           UNCHANGED hydration, TaskAgrees(t)'
    PROVE  CogAgrees(c)'
<1>1. job'[t].cog = c /\ \A s \in Tasks \ {t} : job'[s].cog # c
  BY GotoFacts DEF Alone
<1>2. hydration'[c] = Idle
  BY DEF Alone
<1>3. UnderWay(c)' /\ Alone(c)'
  BY <1>1, <1>2 DEF UnderWay, Alone
<1> QED
  BY <1>1, <1>2, <1>3 DEF CogAgrees

\* The one update under way ends.
LEMMA IsOver ==
    ASSUME TypeOK, NEW t \in Tasks, Finish(t), NEW c \in Cogs, Alone(c), job[t].cog = c,
           UNCHANGED hydration, Agree(c)'
    PROVE  CogAgrees(c)'
<1>1. \A s \in Tasks : job'[s].cog # c
  BY FinishFacts, ConfigConstants DEF Alone
<1>2. ~UnderWay(c)'
  BY <1>1 DEF UnderWay, Alone
<1> QED
  BY <1>2, Resting

LEMMA BeginAgrees == ASSUME TypeOK, JobsFit, AllAgree, NEW t \in Tasks, Begin(t) PROVE AllAgree'
<1>1. PICK c \in Cogs, kind \in Kinds : \E change \in Changes(c, kind), config \in Config :
         Begins(c) /\ Goto(t, "write", Job(c, kind, change, config)) /\ Job(c, kind, change, config) \in Jobs
  BY BeginFacts
<1>2. PICK j \in Jobs : Begins(c) /\ Goto(t, "write", j) /\ j.cog = c
  <2>1. \A change, config : Job(c, kind, change, config).cog = c
    BY DEF Job
  <2> QED
    BY <1>1, <2>1
<1>3. job[t].cog = Absent /\ "write" \in Steps /\ UNCHANGED <<rows, cache, hydration>>
  BY Busy, JobsType DEF Begin, Steps
<1>4. \A d \in Cogs \ {c} : Same(d)
  BY <1>2, <1>3, OtherTasks DEF Same, Begins
<1>5. CASE UnderWay(c)
  <2>1. c \notin clean' /\ c \notin trusted'
    BY <1>2, <1>5 DEF Begins
  <2> QED
    BY <1>4, <2>1, Unclaimed, Others
<1>6. CASE ~UnderWay(c)
  <2>1. /\ \A s \in Tasks : job[s].cog # c
        /\ hydration[c] = Idle
    BY <1>6 DEF UnderWay
  <2>2. c \in clean' /\ (c \in trusted' <=> c \in trusted)
    BY <1>2, <1>6 DEF Begins
  <2>3. Agree(c)'
    BY <1>3, <1>6, <2>2 DEF AllAgree, CogAgrees, Agree
  <2>4. pc'[t] = "write" /\ job'[t].cog = c /\ \A s \in Tasks \ {t} : job'[s].cog # c
    BY <1>2, <1>3, <2>1, GotoFacts
  <2>5. Alone(c)' /\ UnderWay(c)' /\ hydration'[c] = Idle
    BY <1>3, <2>1, <2>4 DEF Alone, UnderWay
  <2>6. TaskAgrees(t)'
    BY <2>3, <2>4 DEF TaskAgrees
  <2>7. CogAgrees(c)'
    BY <2>2, <2>4, <2>5, <2>6 DEF CogAgrees
  <2> QED
    BY <1>4, <2>7, Others
<1> QED
  BY <1>5, <1>6

\* What the one update under way writes is what it will cache.
LEMMA WriteAgrees == ASSUME TypeOK, JobsFit, AllAgree, NEW t \in Tasks, Write(t) PROVE AllAgree'
<1>1. PICK c \in Cogs : job[t].cog = c /\ Fits("write", job[t]) /\ pc[t] = "write"
  BY Busy DEF Write, JobsFit
<1>2. /\ rows'[c] = Written(t) /\ \A d \in Cogs \ {c} : rows'[d] = rows[d]
      /\ Goto(t, AfterWrite(t), job[t]) /\ UNCHANGED <<cache, hydration, clean, trusted>>
  BY <1>1 DEF Write, TypeOK
<1>3. job[t] \in Jobs /\ AfterWrite(t) \in Steps /\ Written(t) \in Config \cup {Absent}
  BY <1>1, JobsType, AfterWriteType, WrittenType
<1>4. \A d \in Cogs \ {c} : Same(d)
  BY <1>1, <1>2, <1>3, OtherTasks DEF Same
<1>5. CASE c \notin clean
  <2>1. c \notin trusted
    BY <1>1, <1>5 DEF AllAgree, CogAgrees, UnderWay
  <2> QED
    BY <1>2, <1>4, <1>5, <2>1, Unclaimed, Others
<1>6. CASE c \in clean
  <2>1. Alone(c) /\ Agree(c)
    BY <1>1, <1>6 DEF AllAgree, CogAgrees, TaskAgrees
  <2>2. pc'[t] = AfterWrite(t) /\ job'[t] = job[t]
    BY <1>2, <1>3, GotoFacts
  <2>3. Cached(t)' = Cached(t)
    BY <1>2, <2>2 DEF Cached
  <2>4. AfterWrite(t) = "reload" => rows'[c] # Absent
    <3>1. SUFFICES ASSUME AfterWrite(t) = "reload" PROVE Written(t) # Absent
      BY <1>2
    <3>2. ReadsBack(c) /\ job[t].kind = "set"
      BY <1>1, <3>1 DEF AfterWrite
    <3>3. Written(t) = Apply(job[t].change, RowOrDefault(c))
      BY <1>1, <3>2 DEF Written, ReadsWhole, ReadsBack
    <3> QED
      BY <3>3, JobsType, ApplyType, RowOrDefaultType, ConfigConstants
  <2>5. ASSUME AfterWrite(t) = "cache"
        PROVE  Cached(t) = rows'[c] \/ (job[t].kind = "disable" /\ c \notin trusted)
    <3>1. CASE job[t].kind \in {"put", "set"}
      BY <1>2, <2>5, <1>1, <3>1, WrittenIsCached DEF Cached
    <3>2. CASE job[t].kind = "reset"
      BY <1>1, <1>2, <3>2 DEF Cached, Written, Fits
    <3>3. CASE job[t].kind = "disable" /\ c \in trusted
      <4>1. c = "logging" /\ cache[c] = rows[c]
        BY <1>1, <2>1, <3>3 DEF Fits, Agree
      <4>2. CASE rows[c] = Absent
        BY <1>1, <1>2, <3>3, <4>1, <4>2 DEF Cached, Written, ReadsWhole
      <4>3. CASE rows[c] # Absent
        <5>1. RowOrDefault(c) = cache[c] /\ cache[c] # Absent
          BY <4>1, <4>3 DEF RowOrDefault
        <5> QED
          BY <1>1, <1>2, <3>3, <4>1, <4>3, <5>1 DEF Cached, Written, ReadsWhole
      <4> QED
        BY <4>2, <4>3
    <3> QED
      BY <1>1, <3>1, <3>2, <3>3 DEF Fits, Kinds
  <2>6. TaskAgrees(t)'
    BY <1>1, <1>2, <2>2, <2>3, <2>4, <2>5, AfterWriteType DEF TaskAgrees
  <2>7. CogAgrees(c)'
    BY <1>1, <1>2, <1>3, <1>6, <2>1, <2>6, GoesOn
  <2> QED
    BY <1>4, <2>7, Others
<1> QED
  BY <1>5, <1>6

LEMMA WriteFailsAgrees ==
    ASSUME TypeOK, JobsFit, AllAgree, NEW t \in Tasks, WriteFails(t) PROVE AllAgree'
<1>1. PICK c \in Cogs : job[t].cog = c /\ pc[t] = "write"
  BY Busy DEF WriteFails
<1>2. UNCHANGED <<rows, cache, hydration>>
  BY DEF WriteFails
<1>3. job[t] \in Jobs /\ AfterWrite(t) \in Steps
  BY JobsType, AfterWriteType
<1>4. CASE Reported(t) /\ Finish(t) /\ Ends(job[t].cog, FALSE) /\ UNCHANGED clean
  <2>1. \A d \in Cogs \ {c} : Same(d)
    <3>1. \A d \in Cogs \ {c} : TasksSame(d)
      BY <1>1, <1>4, FinishFacts, ConfigConstants DEF TasksSame
    <3> QED
      BY <1>1, <1>2, <1>4, <3>1 DEF Same, Ends
  <2>2. CASE c \notin clean
    BY <1>1, <1>4, <2>1, <2>2, Unclaimed, Others DEF Ends
  <2>3. CASE c \in clean
    <3>1. Alone(c) /\ Agree(c)
      BY <1>1, <2>3 DEF AllAgree, CogAgrees, TaskAgrees
    <3>2. Agree(c)'
      BY <1>1, <1>2, <1>4, <2>3, <3>1 DEF Agree, Ends
    <3> QED
      BY <1>1, <1>2, <1>4, <2>1, <3>1, <3>2, IsOver, Others
  <2> QED
    BY <2>2, <2>3
<1>5. CASE Goto(t, AfterWrite(t), job[t]) /\ AfterWrite(t) = "reload" /\ UNCHANGED <<clean, trusted>>
  <2>1. \A d \in Cogs \ {c} : Same(d)
    BY <1>1, <1>2, <1>3, <1>5, OtherTasks DEF Same
  <2>2. CASE c \notin clean
    <3>1. c \notin trusted
      BY <1>1, <2>2 DEF AllAgree, CogAgrees, UnderWay
    <3> QED
      BY <1>5, <2>1, <2>2, <3>1, Unclaimed, Others
  <2>3. CASE c \in clean
    <3>1. Alone(c) /\ Agree(c)
      BY <1>1, <2>3 DEF AllAgree, CogAgrees, TaskAgrees
    <3>2. pc'[t] = "reload" /\ job'[t].cog = c
      BY <1>1, <1>3, <1>5, GotoFacts
    <3>3. TaskAgrees(t)'
      BY <1>2, <1>5, <3>1, <3>2 DEF TaskAgrees, Agree
    <3> QED
      BY <1>1, <1>2, <1>3, <1>5, <2>1, <2>3, <3>1, <3>3, GoesOn, Others
  <2> QED
    BY <2>2, <2>3
<1>6. CASE Goto(t, AfterWrite(t), job[t]) /\ Spoils(job[t].cog)
  <2>1. \A d \in Cogs \ {c} : Same(d)
    BY <1>1, <1>2, <1>3, <1>6, OtherTasks DEF Same, Spoils
  <2> QED
    BY <1>1, <1>6, <2>1, Unclaimed, Others DEF Spoils
<1> QED
  BY <1>4, <1>5, <1>6 DEF WriteFails

LEMMA ReloadAgrees ==
    ASSUME TypeOK, JobsFit, AllAgree, NEW t \in Tasks, Reload(t) PROVE AllAgree'
<1>1. PICK c \in Cogs : job[t].cog = c /\ pc[t] = "reload" /\ Fits("reload", job[t])
  BY Busy DEF Reload, JobsFit
<1>2. UNCHANGED <<rows, cache, hydration, clean>>
  BY DEF Reload
<1>3. CASE rows[c] = Absent
  <2>1. Finish(t) /\ Ends(c, FALSE)
    BY <1>1, <1>3 DEF Reload
  <2>2. \A d \in Cogs \ {c} : Same(d)
    <3>1. \A d \in Cogs \ {c} : TasksSame(d)
      BY <1>1, <2>1, FinishFacts, ConfigConstants DEF TasksSame
    <3> QED
      BY <1>2, <2>1, <3>1 DEF Same, Ends
  <2>3. CASE c \notin clean
    BY <1>2, <2>1, <2>2, <2>3, Unclaimed, Others DEF Ends
  <2>4. CASE c \in clean
    <3>1. Alone(c) /\ Agree(c)
      BY <1>1, <1>3, <2>4 DEF AllAgree, CogAgrees, TaskAgrees
    <3>2. Agree(c)'
      BY <1>2, <2>1, <2>4, <3>1 DEF Agree, Ends
    <3> QED
      BY <1>1, <1>2, <2>1, <2>2, <3>1, <3>2, IsOver, Others
  <2> QED
    BY <2>3, <2>4
<1>4. CASE rows[c] # Absent
  <2> DEFINE j == Job(job[t].cog, job[t].kind, job[t].change, rows[job[t].cog])
  <2>1. Goto(t, "cache", j) /\ UNCHANGED trusted
    BY <1>1, <1>4 DEF Reload
  <2>2. j \in Jobs /\ "cache" \in Steps
    <3>1. rows[job[t].cog] \in Config /\ job[t].cog \in Cogs /\ job[t].kind \in Kinds
      BY <1>1, <1>4 DEF TypeOK, Fits
    <3> QED
      BY <3>1, JobsType DEF Job, Jobs, Steps
  <2>3. j.cog = c /\ j.kind = "set" /\ j.config = rows[c]
    BY <1>1 DEF Job, Fits
  <2> HIDE DEF j
  <2>4. \A d \in Cogs \ {c} : Same(d)
    BY <1>1, <1>2, <2>1, <2>2, <2>3, OtherTasks DEF Same
  <2>5. CASE c \notin clean
    <3>1. c \notin trusted
      BY <1>1, <2>5 DEF AllAgree, CogAgrees, UnderWay
    <3> QED
      BY <1>2, <2>1, <2>4, <2>5, <3>1, Unclaimed, Others
  <2>6. CASE c \in clean
    <3>1. Alone(c)
      BY <2>6 DEF AllAgree, CogAgrees
    <3>2. pc'[t] = "cache" /\ job'[t] = j
      BY <2>1, <2>2, GotoFacts
    <3>3. Cached(t)' = rows'[c]
      BY <1>2, <2>3, <3>2 DEF Cached
    <3>4. TaskAgrees(t)'
      BY <2>3, <3>2, <3>3 DEF TaskAgrees
    <3> QED
      BY <1>1, <1>2, <2>1, <2>2, <2>3, <2>4, <2>6, <3>1, <3>4, GoesOn, Others
  <2> QED
    BY <2>5, <2>6
<1> QED
  BY <1>3, <1>4

LEMMA ReloadFailsAgrees ==
    ASSUME TypeOK, JobsFit, AllAgree, NEW t \in Tasks, ReloadFails(t) PROVE AllAgree'
<1>1. PICK c \in Cogs : job[t].cog = c
  BY Busy DEF ReloadFails
<1>2. UNCHANGED <<rows, cache, hydration>> /\ Finish(t) /\ Spoils(c)
  BY <1>1 DEF ReloadFails
<1>3. \A d \in Cogs \ {c} : TasksSame(d)
  BY <1>1, <1>2, FinishFacts, ConfigConstants DEF TasksSame
<1>4. \A d \in Cogs \ {c} : Same(d)
  BY <1>2, <1>3 DEF Same, Spoils
<1> QED
  BY <1>2, <1>4, Unclaimed, Others DEF Spoils

LEMMA CacheAgrees ==
    ASSUME TypeOK, JobsFit, AllAgree, NEW t \in Tasks, Cache(t) PROVE AllAgree'
<1>1. PICK c \in Cogs : job[t].cog = c /\ pc[t] = "cache"
  BY Busy DEF Cache
<1>2. /\ cache'[c] = Cached(t) /\ \A d \in Cogs \ {c} : cache'[d] = cache[d]
      /\ UNCHANGED <<rows, hydration, clean>>
      /\ Finish(t) /\ Ends(c, job[t].kind # "disable")
  BY <1>1 DEF Cache, TypeOK
<1>3. \A d \in Cogs \ {c} : TasksSame(d)
  BY <1>1, <1>2, FinishFacts, ConfigConstants DEF TasksSame
<1>4. \A d \in Cogs \ {c} : Same(d)
  BY <1>2, <1>3 DEF Same, Ends
<1>5. CASE c \notin clean
  BY <1>2, <1>4, <1>5, Unclaimed, Others DEF Ends
<1>6. CASE c \in clean
  <2>1. /\ Alone(c)
        /\ Cached(t) = rows[c] \/ (job[t].kind = "disable" /\ c \notin trusted)
    BY <1>1, <1>6 DEF AllAgree, CogAgrees, TaskAgrees
  <2>2. Agree(c)'
    BY <1>2, <1>6, <2>1 DEF Agree, Ends
  <2> QED
    BY <1>1, <1>2, <1>4, <2>1, <2>2, IsOver, Others
<1> QED
  BY <1>5, <1>6

LEMMA HydrateAgrees ==
    ASSUME TypeOK, AllAgree, NEW c \in Cogs, Hydrate(c) PROVE AllAgree'
<1>1. CASE HydrateRead(c)
  <2>1. /\ hydration'[c] = rows[c] /\ \A d \in Cogs \ {c} : hydration'[d] = hydration[d]
        /\ hydration[c] = Idle /\ UNCHANGED <<rows, cache, pc, job>> /\ Begins(c)
    BY <1>1 DEF HydrateRead, TypeOK
  <2>2. \A d \in Cogs \ {c} : Same(d)
    BY <2>1 DEF Same, TasksSame, Begins
  <2>3. CASE UnderWay(c)
    BY <2>1, <2>2, <2>3, Unclaimed, Others DEF Begins
  <2>4. CASE ~UnderWay(c)
    <3>1. /\ \A t \in Tasks : job'[t].cog # c
          /\ c \in clean' /\ (c \in trusted' <=> c \in trusted)
      BY <2>1, <2>4 DEF UnderWay, Begins
    <3>2. Agree(c)'
      BY <2>1, <2>4, <3>1 DEF AllAgree, CogAgrees, Agree
    <3>3. rows[c] # Idle
      BY ConfigConstants DEF TypeOK
    <3>4. Alone(c)' /\ UnderWay(c)'
      BY <2>1, <3>1, <3>3 DEF Alone, UnderWay
    <3>5. CogAgrees(c)'
      BY <2>1, <3>1, <3>2, <3>4 DEF CogAgrees
    <3> QED
      BY <2>2, <3>5, Others
  <2> QED
    BY <2>3, <2>4
<1>2. CASE HydrateFails(c)
  <2>1. \A d \in Cogs \ {c} : Same(d)
    BY <1>2 DEF HydrateFails, Same, TasksSame, Spoils
  <2> QED
    BY <1>2, <2>1, Unclaimed, Others DEF HydrateFails, Spoils
<1>3. CASE HydrateInsert(c)
  <2>1. /\ cache'[c] = IF hydration[c] = Absent THEN cache[c] ELSE hydration[c]
        /\ hydration'[c] = Idle /\ hydration[c] # Idle
        /\ \A d \in Cogs \ {c} : cache'[d] = cache[d] /\ hydration'[d] = hydration[d]
        /\ UNCHANGED <<rows, pc, job, clean>> /\ Ends(c, hydration[c] # Absent)
    BY <1>3 DEF HydrateInsert, TypeOK
  <2>2. \A d \in Cogs \ {c} : Same(d)
    BY <2>1 DEF Same, TasksSame, Ends
  <2>3. CASE c \notin clean
    BY <2>1, <2>2, <2>3, Unclaimed, Others DEF Ends
  <2>4. CASE c \in clean
    <3>1. Alone(c) /\ hydration[c] = rows[c] /\ Agree(c)
      BY <2>1, <2>4 DEF AllAgree, CogAgrees
    <3>2. ~UnderWay(c)'
      BY <2>1, <3>1 DEF Alone, UnderWay
    <3>3. Agree(c)'
      BY <2>1, <2>4, <3>1 DEF Agree, Ends
    <3> QED
      BY <2>2, <3>2, <3>3, Resting, Others
  <2> QED
    BY <2>3, <2>4
<1> QED
  BY <1>1, <1>2, <1>3 DEF Hydrate

LEMMA CrashAgrees == ASSUME Crash PROVE AllAgree'
<1>1. ASSUME NEW c \in Cogs PROVE CogAgrees(c)'
  <2>1. /\ cache'[c] = Absent /\ hydration'[c] = Idle
        /\ \A t \in Tasks : job'[t] = NoJob
        /\ c \in trusted' => rows[c] = Absent
        /\ UNCHANGED rows
    BY DEF Crash
  <2>2. NoJob.cog # c
    BY ConfigConstants DEF NoJob, Job
  <2>3. ~UnderWay(c)'
    BY <2>1, <2>2 DEF UnderWay
  <2>4. Agree(c)'
    BY <2>1 DEF Agree
  <2> QED
    BY <2>3, <2>4, Resting
<1> QED
  BY <1>1 DEF AllAgree

LEMMA AgreeStep == ASSUME TypeOK, JobsFit, AllAgree, [Next]_vars PROVE AllAgree'
<1>1. CASE UNCHANGED vars
  <2>1. \A d \in Cogs : Same(d)
    BY <1>1 DEF vars, Same, TasksSame
  <2> QED
    BY <2>1, Kept DEF AllAgree
<1>2. ASSUME NEW t \in Tasks, Begin(t) PROVE AllAgree'
  BY <1>2, BeginAgrees
<1>3. ASSUME NEW t \in Tasks, TaskStep(t) PROVE AllAgree'
  BY <1>3, WriteAgrees, WriteFailsAgrees, ReloadAgrees, ReloadFailsAgrees, CacheAgrees
     DEF TaskStep
<1>4. ASSUME NEW c \in Cogs, Hydrate(c) PROVE AllAgree'
  BY <1>4, HydrateAgrees
<1>5. CASE Crash
  BY <1>5, CrashAgrees
<1> QED
  BY <1>1, <1>2, <1>3, <1>4, <1>5 DEF Next

LEMMA InitInvariant == Init => IInv
<1> SUFFICES ASSUME Init PROVE IInv
  OBVIOUS
<1>1. /\ \A c \in Cogs : rows[c] = Absent /\ cache[c] = Absent /\ hydration[c] = Idle
      /\ \A t \in Tasks : pc[t] = "idle" /\ job[t] = NoJob
      /\ NoJob.cog = Absent
  BY DEF Init, NoJob, Job
<1>2. TypeOK
  <2>1. allowed \in [updates : Nat, readies : Nat, faults : Nat]
    BY ConfigConstants DEF Init
  <2>2. pc \in [Tasks -> Steps] /\ job \in [Tasks -> Jobs]
    BY NoJobType DEF Init, Steps
  <2> QED
    BY <2>1, <2>2 DEF Init, TypeOK
<1>3. JobsFit
  BY <1>1 DEF JobsFit, Fits
<1>4. StoredInv /\ LogsInv
  BY <1>1 DEF StoredInv, LogsInv, RowsStored, HydratesStored, JobsStored, CachedWasStored,
              HydratesSound, LogsGoSomewhere
<1>5. AllAgree
  <2>1. \A c \in Cogs : ~UnderWay(c) /\ cache[c] = rows[c]
    BY <1>1, ConfigConstants DEF UnderWay
  <2>2. \A c \in Cogs, t \in Tasks : job[t].cog # c
    BY <1>1, ConfigConstants
  <2> QED
    BY <1>1, <2>1, <2>2 DEF AllAgree, CogAgrees, Agree, Alone
<1> QED
  BY <1>2, <1>3, <1>4, <1>5 DEF IInv

\* The inductive invariant holds in every reachable state.
THEOREM Invariant == Spec => []IInv
<1>1. IInv /\ [Next]_vars => IInv'
  BY TypeStep, FitsStep, StoredStep, LogsStep, AgreeStep DEF IInv
<1> QED
  BY <1>1, InitInvariant, PTL DEF Spec

\* Rows, copies, locals and histories keep their types.
THEOREM TypeCorrect == Spec => []TypeOK
<1>1. IInv => TypeOK
  BY DEF IInv
<1> QED
  BY <1>1, Invariant, PTL

\* One change or hydration of a configuration at a time keeps row and copy in step
\* (update_config, reload, the handlers of the dashboard, do_reset, hydrate_cache),
\* and one that caches the whole row repairs what overlapping ones left behind.
THEOREM StaysInStep == Spec => []InStep
<1>1. IInv => InStep
  <2> SUFFICES ASSUME TypeOK, AllAgree, NEW c \in trusted, ~UnderWay(c)
               PROVE  cache[c] = rows[c]
    BY DEF IInv, InStep
  <2>1. CogAgrees(c)
    BY DEF TypeOK, AllAgree
  <2> QED
    BY <2>1 DEF CogAgrees, Agree
<1> QED
  BY <1>1, Invariant, PTL

\* However they overlap and fail, the event handlers read a configuration that was
\* stored as a whole.
THEOREM NeverAMixture == Spec => []CachedWasStored
<1>1. IInv => CachedWasStored
  BY DEF IInv, StoredInv
<1> QED
  BY <1>1, Invariant, PTL

\* Logging is never enabled without a webhook, in the row or in memory.
THEOREM LogsReachSomeone == Spec => []LogsGoSomewhere
<1>1. IInv => LogsGoSomewhere
  BY DEF IInv, LogsInv
<1> QED
  BY <1>1, Invariant, PTL

\* A task that writes the row whole has changed the row as it is, unless another
\* change was under way.
WholeFit(t) ==
    LET c == job[t].cog IN
    pc[t] = "write" /\ c \in clean /\ ReadsWhole(c)
        => job[t].config = Apply(job[t].change, RowOrDefault(c))
WholeFits == \A t \in Tasks : WholeFit(t)

LEMMA WholeStays ==
    ASSUME NEW t \in Tasks, WholeFit(t), pc'[t] = pc[t], job'[t] = job[t],
           job[t].cog \in clean' =>
               job[t].cog \in clean /\ rows'[job[t].cog] = rows[job[t].cog]
    PROVE  WholeFit(t)'
<1> SUFFICES ASSUME pc'[t] = "write", job'[t].cog \in clean', ReadsWhole(job'[t].cog)
             PROVE  job'[t].config = Apply(job'[t].change, RowOrDefault(job[t].cog)')
  BY DEF WholeFit
<1>1. RowOrDefault(job[t].cog)' = RowOrDefault(job[t].cog)
  BY DEF RowOrDefault
<1> QED
  BY <1>1 DEF WholeFit

\* What begins leaves no cog clean that another task works on.
LEMMA BeginsClean ==
    ASSUME NEW c \in Cogs, Begins(c), NEW t \in Tasks, job[t].cog \in clean'
    PROVE  job[t].cog \in clean
  BY DEF Begins, UnderWay

\* A task that leaves its step, or ends, has no row to write.
LEMMA WholeElsewhere ==
    ASSUME TypeOK, WholeFits, NEW t \in Tasks, NEW next \in Steps \ {"write"}, NEW j \in Jobs,
           Goto(t, next, j), UNCHANGED rows, clean' \subseteq clean
    PROVE  WholeFits'
<1> SUFFICES ASSUME NEW s \in Tasks PROVE WholeFit(s)'
  BY DEF WholeFits
<1>1. CASE s = t
  BY <1>1, GotoFacts DEF WholeFit
<1>2. CASE s # t
  BY <1>2, GotoFacts, WholeStays DEF WholeFits
<1> QED
  BY <1>1, <1>2

LEMMA WholeBegin ==
    ASSUME TypeOK, WholeFits, NEW t \in Tasks, Begin(t) PROVE WholeFits'
<1>1. PICK c \in Cogs, kind \in Kinds :
        \E change \in Changes(c, kind) :
          /\ Begins(c)
          /\ Goto(t, "write", Job(c, kind, change,
                 IF ReadsWhole(c) THEN Apply(change, RowOrDefault(c)) ELSE change.to))
  BY DEF Begin
<1>2. PICK change \in Changes(c, kind) :
          /\ Begins(c)
          /\ Goto(t, "write", Job(c, kind, change,
                 IF ReadsWhole(c) THEN Apply(change, RowOrDefault(c)) ELSE change.to))
  BY <1>1
<1>3. change \in [fields : SUBSET {"enabled", "target"}, to : Config]
  BY ChangesType
<1>4. PICK j \in Jobs :
         /\ Goto(t, "write", j) /\ j.cog = c /\ j.change = change
         /\ ReadsWhole(c) => j.config = Apply(change, RowOrDefault(c))
  <2> DEFINE config == IF ReadsWhole(c) THEN Apply(change, RowOrDefault(c)) ELSE change.to
  <2>1. config \in Config
    BY <1>3, ApplyType, RowOrDefaultType
  <2>2. Job(c, kind, change, config) \in Jobs
    BY <1>3, <2>1 DEF Job, Jobs
  <2>3. Goto(t, "write", Job(c, kind, change, config))
    BY <1>2
  <2>4. ReadsWhole(c) => config = Apply(change, RowOrDefault(c))
    OBVIOUS
  <2> HIDE DEF config
  <2>5. /\ Job(c, kind, change, config).cog = c /\ Job(c, kind, change, config).change = change
        /\ Job(c, kind, change, config).config = config
    BY DEF Job
  <2> QED
    BY <2>2, <2>3, <2>4, <2>5
<1>5. "write" \in Steps /\ UNCHANGED rows
  BY DEF Begin, Steps
<1>6. RowOrDefault(c)' = RowOrDefault(c)
  BY <1>5 DEF RowOrDefault
<1>7. WholeFit(t)'
  <2>1. pc'[t] = "write" /\ job'[t] = j
    BY <1>4, <1>5, GotoFacts
  <2> QED
    BY <1>4, <1>6, <2>1 DEF WholeFit
<1>8. ASSUME NEW s \in Tasks \ {t} PROVE WholeFit(s)'
  <2>1. pc'[s] = pc[s] /\ job'[s] = job[s]
    BY <1>4, <1>5, GotoFacts
  <2>2. job[s].cog \in clean' => job[s].cog \in clean
    BY <1>2, BeginsClean
  <2> QED
    BY <1>5, <2>1, <2>2, WholeStays DEF WholeFits
<1> QED
  BY <1>7, <1>8 DEF WholeFits

LEMMA WholeWrite ==
    ASSUME TypeOK, JobsFit, AllAgree, WholeFits, NEW t \in Tasks, Write(t) PROVE WholeFits'
<1>1. PICK c \in Cogs : job[t].cog = c
  BY Busy DEF Write
<1>2. /\ \A d \in Cogs \ {c} : rows'[d] = rows[d]
      /\ Goto(t, AfterWrite(t), job[t]) /\ UNCHANGED clean
  BY <1>1 DEF Write, TypeOK
<1>3. job[t] \in Jobs /\ AfterWrite(t) \in Steps /\ AfterWrite(t) # "write"
  BY JobsType, AfterWriteType
<1>4. WholeFit(t)'
  BY <1>2, <1>3, GotoFacts DEF WholeFit
<1>5. ASSUME NEW s \in Tasks \ {t} PROVE WholeFit(s)'
  <2>1. pc'[s] = pc[s] /\ job'[s] = job[s]
    BY <1>2, <1>3, GotoFacts
  <2>2. job[s].cog \in clean => job[s].cog \in Cogs \ {c}
    BY <1>1 DEF TypeOK, AllAgree, CogAgrees, Alone
  <2> QED
    BY <1>2, <2>1, <2>2, WholeStays DEF WholeFits
<1> QED
  BY <1>4, <1>5 DEF WholeFits

LEMMA WholeStep ==
    ASSUME TypeOK, JobsFit, AllAgree, WholeFits, [Next]_vars PROVE WholeFits'
<1>1. CASE UNCHANGED vars
  BY <1>1, WholeStays DEF vars, WholeFits
<1>2. ASSUME NEW t \in Tasks, Begin(t) PROVE WholeFits'
  BY <1>2, WholeBegin
<1>3. ASSUME NEW t \in Tasks, Write(t) PROVE WholeFits'
  BY <1>3, WholeWrite
<1>4. ASSUME NEW t \in Tasks, WriteFails(t) \/ Reload(t) \/ ReloadFails(t) \/ Cache(t)
      PROVE  WholeFits'
  <2>1. UNCHANGED rows /\ clean' \subseteq clean
    BY <1>4 DEF WriteFails, Reload, ReloadFails, Cache, Spoils
  <2>2. PICK next \in Steps \ {"write"}, j \in Jobs : Goto(t, next, j)
    <3>1. CASE Finish(t)
      BY <3>1, NoJobType DEF Finish, Steps
    <3>2. CASE Goto(t, AfterWrite(t), job[t])
      BY <3>2, AfterWriteType, JobsType
    <3>3. CASE Reload(t) /\ rows[job[t].cog] # Absent
      <4> DEFINE j == Job(job[t].cog, job[t].kind, job[t].change, rows[job[t].cog])
      <4>1. job[t].cog \in Cogs /\ job[t].kind \in Kinds
        BY <3>3, Busy DEF Reload
      <4>2. j \in Jobs
        BY <3>3, <4>1, JobsType DEF TypeOK, Job, Jobs
      <4>3. Goto(t, "cache", j)
        BY <3>3 DEF Reload
      <4> QED
        BY <4>2, <4>3 DEF Steps
    <3> QED
      BY <1>4, <3>1, <3>2, <3>3 DEF WriteFails, Reload, ReloadFails, Cache
  <2> QED
    BY <2>1, <2>2, WholeElsewhere
<1>5. ASSUME NEW c \in Cogs, Hydrate(c) PROVE WholeFits'
  <2>1. UNCHANGED <<rows, pc, job>>
    BY <1>5 DEF Hydrate, HydrateRead, HydrateFails, HydrateInsert
  <2>2. \A t \in Tasks : job[t].cog \in clean' => job[t].cog \in clean
    BY <1>5, BeginsClean DEF Hydrate, HydrateRead, HydrateFails, HydrateInsert, Spoils
  <2> QED
    BY <2>1, <2>2, WholeStays DEF WholeFits
<1>6. CASE Crash
  BY <1>6 DEF Crash, WholeFits, WholeFit
<1> QED
  BY <1>1, <1>2, <1>3, <1>4, <1>5, <1>6 DEF Next, TaskStep

\* What the statement makes of a row that is there keeps the fields the change does
\* not set, unless it wrote whole a row it had read before another change.
LEMMA WrittenKeeps ==
    ASSUME TypeOK, JobsFit, WholeFits, NEW t \in Tasks, NEW c \in Cogs, pc[t] = "write",
           job[t].cog = c, ReadsWhole(c) => c \in clean, rows[c] # Absent, Written(t) # Absent,
           NEW f \in {"enabled", "target"} \ job[t].change.fields
    PROVE  Written(t)[f] = rows[c][f]
<1>1. RowOrDefault(c) = rows[c]
  BY DEF RowOrDefault
<1>2. Written(t) = Apply(job[t].change, rows[c])
  <2>1. CASE ReadsWhole(c)
    BY <1>1, <2>1 DEF Written, WholeFits, WholeFit
  <2>2. CASE ~ReadsWhole(c)
    BY <1>1, <2>2 DEF Written
  <2> QED
    BY <2>1, <2>2
<1> QED
  BY <1>2 DEF Apply

\* A change of one setting leaves the others in the row alone (update_config, the
\* statements of welcome, goodbye and logging): always where the statement names
\* its columns, and where the row is written whole unless another change of the
\* same cog was under way.
THEOREM OneSettingAtATime == Spec => OthersKept
<1> DEFINE Keeps ==
      \A t \in Tasks : \A c \in Cogs :
         /\ pc[t] = "write" /\ pc'[t] # "write" /\ job[t].cog = c
         /\ rows[c] # Absent /\ rows'[c] # Absent
         /\ ReadsWhole(c) => c \in clean
         => \A f \in {"enabled", "target"} \ job[t].change.fields : rows'[c][f] = rows[c][f]
<1>1. Init => WholeFits
  BY DEF Init, WholeFits, WholeFit
<1>2. IInv /\ WholeFits /\ [Next]_vars => WholeFits'
  BY WholeStep DEF IInv
<1>3. IInv /\ WholeFits /\ [Next]_vars => [Keeps]_vars
  <2> SUFFICES ASSUME TypeOK, JobsFit, WholeFits, Next, NEW t \in Tasks, NEW c \in Cogs,
                      pc[t] = "write", pc'[t] # "write", job[t].cog = c,
                      rows[c] # Absent, rows'[c] # Absent, ReadsWhole(c) => c \in clean,
                      NEW f \in {"enabled", "target"} \ job[t].change.fields
               PROVE  rows'[c][f] = rows[c][f]
    BY DEF IInv
  <2>1. CASE rows' = rows
    BY <2>1
  <2>2. CASE rows' # rows
    <3>1. PICK s \in Tasks : Write(s)
      BY <2>2 DEF Next, TaskStep, Hydrate, Begin, WriteFails, Reload, ReloadFails, Cache,
                  HydrateRead, HydrateFails, HydrateInsert, Crash
    <3>2. s = t
      BY <3>1, JobsType, AfterWriteType, GotoFacts DEF Write
    <3>3. rows'[c] = Written(t)
      BY <3>1, <3>2 DEF Write, TypeOK
    <3> QED
      BY <3>3, WrittenKeeps
  <2> QED
    BY <2>1, <2>2
<1>4. OthersKept <=> [][Keeps]_vars
  BY DEF OthersKept
<1> HIDE DEF Keeps
<1> QED
  BY <1>1, <1>2, <1>3, <1>4, Invariant, PTL DEF Spec
-----------------------------------------------------------------------------
(***************************************************************************)
(* The prefixes: while one thing happens at a time and no ignored query    *)
(* fails, the list commands are dispatched by is the table, and the limit  *)
(* holds also half-way through a command and after a crash.                *)
(***************************************************************************)
Lists == UNION {[S -> Nat \ {0}] : S \in SUBSET Names}
Locals == [name : Names \cup {Absent}, list : Lists, left : SUBSET Names]

PrefixShape ==
    /\ table \subseteq Names /\ member \in BOOLEAN /\ orderly \in BOOLEAN /\ loaded \in BOOLEAN
    /\ list \in Lists \cup {Absent}
    /\ step \in [Tasks -> {"idle", "add", "remove", "cache", "drop", "put", "cachePut",
                           "create", "ready"}]
    /\ local \in [Tasks -> Locals]
    /\ \A t \in Tasks : step[t] = "add" => local[t].name \in Names

\* The list is the table, if it was loaded.
ListServes == IF list = Absent THEN loaded => table = {} ELSE list = P!SetToBag(table)

\* How far task t has come, when it is the only thing under way.
ListFits(t) ==
    /\ step[t] \in {"idle", "add", "remove"} => ListServes
    /\ step[t] \in {"add", "remove", "cache", "cachePut"} =>
          local[t].list = P!SetToBag(table)
    /\ step[t] = "add" =>
          local[t].name \notin table /\ Cardinality(table) < MaxPrefixes
    /\ step[t] \in {"drop", "create"} => table = {}
    /\ step[t] = "create" => local[t].list = P!SetToBag({Standard})
    /\ step[t] = "put" =>
          /\ local[t].list = P!SetToBag(table \cup local[t].left)
          /\ Cardinality(table \cup local[t].left) <= MaxPrefixes
    /\ step[t] = "ready" => local[t].left = table

InOrder ==
    orderly =>
        /\ Cardinality(table) <= MaxPrefixes
        /\ \A t, s \in Tasks : step[t] # "idle" /\ step[s] # "idle" => t = s
        /\ ~P!UnderWay => ListServes
        /\ \A t \in Tasks : step[t] # "idle" => ListFits(t)

PrefixInv == PrefixShape /\ InOrder

LEMMA ListOfSet ==
    ASSUME NEW S \in SUBSET Names
    PROVE  /\ P!SetToBag(S) \in Lists /\ P!SetToBag(S) # Absent
           /\ P!BagToSet(P!SetToBag(S)) = S
           /\ P!SetToBag(S) = P!EmptyBag <=> S = {}
<1>1. P!SetToBag(S) \in [S -> Nat \ {0}] /\ DOMAIN P!SetToBag(S) = S
  BY DEF P!SetToBag
<1>2. DOMAIN P!EmptyBag = {} /\ P!EmptyBag = P!SetToBag({})
  BY DEF P!EmptyBag, P!SetToBag
<1>3. P!SetToBag(S) \in [S -> Nat]
  BY <1>1
<1> QED
  BY <1>1, <1>2, <1>3, PrefixConstants DEF Lists, P!BagToSet

\* Prefixes counts with a definition of Cardinality of its own.
LEMMA SameCardinality == \A S : P!Cardinality(S) = Cardinality(S)
  BY DEF P!Cardinality, Cardinality, P!IsFiniteSet, IsFiniteSet

LEMMA LengthOfSet ==
    ASSUME NEW S \in SUBSET Names
    PROVE  P!Length(P!SetToBag(S)) = Cardinality(S) /\ IsFiniteSet(S)
<1> DEFINE copies == UNION {{p} \X (1..P!SetToBag(S)[p]) : p \in P!BagToSet(P!SetToBag(S))}
<1>1. IsFiniteSet(S)
  BY PrefixConstants, FS_Subset
<1>2. copies = S \X {1}
  <2>1. P!BagToSet(P!SetToBag(S)) = S /\ \A p \in S : P!SetToBag(S)[p] = 1
    BY DEF P!SetToBag, P!BagToSet
  <2>2. 1..1 = {1}
    OBVIOUS
  <2>3. copies = UNION {{p} \X {1} : p \in S}
    BY <2>1, <2>2
  <2> HIDE DEF copies
  <2> QED
    BY <2>3
<1>3. Cardinality(S \X {1}) = Cardinality(S)
  <2>1. IsFiniteSet({1}) /\ Cardinality({1}) = 1
    BY FS_Singleton
  <2>2. Cardinality(S) \in Nat
    BY <1>1, FS_CardinalityType
  <2>3. Cardinality(S \X {1}) = Cardinality(S) * Cardinality({1})
    BY <1>1, <2>1, FS_Product
  <2> QED
    BY <2>1, <2>2, <2>3
<1> QED
  BY <1>1, <1>2, <1>3, SameCardinality DEF P!Length

LEMMA AddToSet ==
    ASSUME NEW S \in SUBSET Names, NEW n \in Names
    PROVE  /\ IsFiniteSet(S) /\ Cardinality(S) \in Nat
           /\ Cardinality(S \cup {n}) = IF n \in S THEN Cardinality(S) ELSE Cardinality(S) + 1
           /\ \A R \in SUBSET S : Cardinality(R) <= Cardinality(S)
<1>1. IsFiniteSet(S)
  BY PrefixConstants, FS_Subset
<1> QED
  BY <1>1, FS_CardinalityType, FS_AddElement, FS_Subset

LEMMA AddToList ==
    ASSUME NEW S \in SUBSET Names, NEW n \in Names, n \notin S
    PROVE  P!(+)(P!SetToBag(S), P!SetToBag({n})) = P!SetToBag(S \cup {n})
  BY DEF P!(+), P!SetToBag

LEMMA ListsClosed ==
    /\ \A l, k \in Lists : P!(+)(l, k) \in Lists
    /\ \A l \in Lists : \A n : [p \in P!BagToSet(l) \ {n} |-> l[p]] \in Lists
    /\ P!EmptyBag \in Lists
<1>1. ASSUME NEW l \in Lists, NEW k \in Lists PROVE P!(+)(l, k) \in Lists
  <2>1. PICK S \in SUBSET Names : l \in [S -> Nat \ {0}]
    BY DEF Lists
  <2>2. PICK R \in SUBSET Names : k \in [R -> Nat \ {0}]
    BY DEF Lists
  <2>3. P!(+)(l, k) \in [S \cup R -> Nat \ {0}]
    BY <2>1, <2>2 DEF P!(+)
  <2> QED
    BY <2>3 DEF Lists
<1>2. ASSUME NEW l \in Lists, NEW n PROVE [p \in P!BagToSet(l) \ {n} |-> l[p]] \in Lists
  <2>1. PICK S \in SUBSET Names : l \in [S -> Nat \ {0}]
    BY DEF Lists
  <2>2. P!BagToSet(l) = S
    BY <2>1 DEF P!BagToSet
  <2>3. [p \in P!BagToSet(l) \ {n} |-> l[p]] \in [S \ {n} -> Nat \ {0}]
    BY <2>1, <2>2
  <2> QED
    BY <2>3 DEF Lists
<1>3. P!EmptyBag = P!SetToBag({})
  BY DEF P!EmptyBag
<1>4. P!EmptyBag \in Lists
  BY <1>3, ListOfSet
<1> QED
  BY <1>1, <1>2, <1>4

LEMMA ShapeIsType == PrefixShape => P!PrefixTypeOK
<1> SUFFICES ASSUME PrefixShape PROVE P!PrefixTypeOK
  OBVIOUS
<1>1. ASSUME NEW l \in Lists PROVE P!IsABag(l) /\ P!BagToSet(l) \subseteq Names
  <2>1. PICK S \in SUBSET Names : l \in [S -> Nat \ {0}]
    BY DEF Lists
  <2>2. DOMAIN l = S /\ l \in [S -> {n \in Nat : n > 0}]
    BY <2>1
  <2> QED
    BY <2>2 DEF P!IsABag, P!BagToSet
<1>2. \A t \in Tasks : local[t] \in Locals
  BY DEF PrefixShape
<1> QED
  BY <1>1, <1>2 DEF PrefixShape, P!PrefixTypeOK, Locals

LEMMA PrefixInit == MCInit => PrefixInv
<1> SUFFICES ASSUME MCInit PROVE PrefixInv
  OBVIOUS
<1>1. Cardinality({}) = 0
  BY FS_EmptySet
<1>2. P!NoJob \in Locals
  BY ListsClosed DEF P!NoJob, Locals
<1>3. /\ table = {} /\ list = Absent /\ member = TRUE /\ orderly = TRUE /\ loaded = FALSE
      /\ step = [t \in Tasks |-> "idle"] /\ local = [t \in Tasks |-> P!NoJob]
  BY DEF MCInit, P!Init
<1>4. PrefixShape
  BY <1>2, <1>3 DEF PrefixShape
<1>5. InOrder
  BY <1>1, <1>3, PrefixConstants DEF InOrder, ListServes, P!UnderWay
<1> QED
  BY <1>4, <1>5 DEF PrefixInv

\* Steps and locals keep their types.
LEMMA TaskGoesOnType ==
    ASSUME PrefixShape, NEW t \in Tasks,
           NEW next \in {"idle", "add", "remove", "cache", "drop", "put", "cachePut",
                         "create", "ready"},
           NEW j \in Locals, P!Goto(t, next, j), next = "add" => j.name \in Names
    PROVE  /\ step' \in [Tasks -> {"idle", "add", "remove", "cache", "drop", "put", "cachePut",
                                   "create", "ready"}]
           /\ local' \in [Tasks -> Locals]
           /\ \A s \in Tasks : step'[s] = "add" => local'[s].name \in Names
  BY DEF PrefixShape, P!Goto

\* What the step of a task leaves behind, when it was alone or something begins alone.
LEMMA TaskGoesOn ==
    ASSUME PrefixInv, PrefixShape', NEW t \in Tasks, NEW next, NEW j, P!Goto(t, next, j),
           orderly' => orderly /\ (step[t] # "idle" \/ ~P!UnderWay),
           orderly' => Cardinality(table') <= MaxPrefixes,
           orderly' /\ next = "idle" => ListServes',
           orderly' /\ next # "idle" /\ step'[t] = next /\ local'[t] = j => ListFits(t)'
    PROVE  PrefixInv'
<1>1. /\ step'[t] = next /\ local'[t] = j
      /\ \A s \in Tasks : s # t => step'[s] = step[s] /\ local'[s] = local[s]
  BY DEF PrefixInv, PrefixShape, P!Goto
<1>2. ASSUME orderly' PROVE \A s \in Tasks : step'[s] # "idle" => s = t /\ next # "idle"
  <2>1. \A s \in Tasks : s # t => step[s] = "idle"
    BY <1>2 DEF PrefixInv, InOrder, P!UnderWay
  <2> QED
    BY <1>1, <2>1
<1>3. ASSUME orderly', NEW s \in Tasks, step'[s] # "idle" PROVE ListFits(s)'
  BY <1>1, <1>2, <1>3
<1>4. ASSUME orderly', \A s \in Tasks : step'[s] = "idle" PROVE ListServes'
  BY <1>1, <1>4
<1>5. InOrder'
  BY <1>2, <1>3, <1>4 DEF InOrder, P!UnderWay
<1> QED
  BY <1>5 DEF PrefixInv

\* A step that begins nothing, or ends in the same state.
LEMMA StaysInOrder ==
    ASSUME PrefixInv, UNCHANGED <<table, list, step, local, loaded>>, member' \in BOOLEAN,
           orderly' \in BOOLEAN, orderly' => orderly
    PROVE  PrefixInv'
  BY DEF PrefixInv, PrefixShape, InOrder, ListFits, ListServes, P!UnderWay

\* While nothing is under way, Current is the table.
LEMMA CurrentIsTable ==
    ASSUME PrefixInv, NEW outcome \in P!LookupOutcomes, NEW what, P!Spend(what, outcome)
    PROVE  /\ P!Current(outcome) \in Lists
           /\ orderly' \in BOOLEAN
           /\ orderly' => /\ orderly /\ ~P!UnderWay /\ ListServes
                          /\ P!Current(outcome) = P!SetToBag(table)
<1>1. table \in SUBSET Names /\ list \in Lists \cup {Absent} /\ orderly \in BOOLEAN
  BY DEF PrefixInv, PrefixShape
<1>2. P!Current(outcome) \in Lists
  BY <1>1, ListOfSet, ListsClosed DEF P!Current
<1>3. orderly' = (orderly /\ ~P!UnderWay /\ outcome = "succeeds")
  BY Zenon DEF P!Spend
<1>4. orderly' \in BOOLEAN
  BY <1>3
<1>5. ASSUME orderly' PROVE /\ orderly /\ ~P!UnderWay /\ ListServes
                            /\ P!Current(outcome) = P!SetToBag(table)
  <2>1. orderly /\ ~P!UnderWay /\ outcome = "succeeds" /\ ListServes
    BY <1>3, <1>5 DEF PrefixInv, InOrder
  <2> QED
    BY <2>1 DEF ListServes, P!Current
<1> QED
  BY <1>2, <1>4, <1>5

LEMMA AddKeeps == ASSUME PrefixInv, NEW t \in Tasks, P!Add(t) PROVE PrefixInv'
<1>1. PICK outcome \in P!LookupOutcomes, p \in Names :
         /\ P!Arrives(t, outcome)
         /\ IF P!BagIn(p, P!Current(outcome)) \/ P!Length(P!Current(outcome)) >= MaxPrefixes
            THEN UNCHANGED <<step, local>>
            ELSE P!Goto(t, "add", [P!NoJob EXCEPT !.name = p, !.list = P!Current(outcome)])
  BY ZenonT(60) DEF P!Add
<1>2. UNCHANGED <<table, list, member, loaded>> /\ PrefixShape /\ table \in SUBSET Names
  BY DEF P!Add, PrefixInv, PrefixShape
<1>3. PICK current : current = P!Current(outcome)
  OBVIOUS
<1>4. /\ current \in Lists /\ orderly' \in BOOLEAN
      /\ orderly' => orderly /\ ~P!UnderWay /\ ListServes /\ current = P!SetToBag(table)
  BY <1>1, <1>3, CurrentIsTable DEF P!Arrives
<1>5. CASE UNCHANGED <<step, local>>
  <2>1. member' \in BOOLEAN
    BY <1>2 DEF PrefixShape
  <2> QED
    BY <1>2, <1>4, <1>5, <2>1, StaysInOrder
<1>6. CASE /\ ~P!BagIn(p, current) /\ ~(P!Length(current) >= MaxPrefixes)
           /\ P!Goto(t, "add", [P!NoJob EXCEPT !.name = p, !.list = current])
  <2>1. PICK j : j = [P!NoJob EXCEPT !.name = p, !.list = current]
    OBVIOUS
  <2>2. j \in Locals /\ j.name = p /\ j.list = current
    BY <1>4, <2>1, ListsClosed DEF P!NoJob, Locals
  <2>3. PrefixShape'
    BY <1>2, <1>4, <1>6, <2>1, <2>2, TaskGoesOnType DEF PrefixShape
  <2>4. ASSUME orderly' PROVE p \notin table /\ Cardinality(table) < MaxPrefixes
    <3>1. P!BagToSet(current) = table /\ P!Length(current) = Cardinality(table)
      BY <1>2, <1>4, <2>4, ListOfSet, LengthOfSet
    <3>2. Cardinality(table) \in Nat /\ MaxPrefixes \in Nat
      BY <1>2, LengthOfSet, FS_CardinalityType, PrefixConstants
    <3> QED
      BY <1>6, <3>1, <3>2 DEF P!BagIn
  <2>5. orderly' => Cardinality(table') <= MaxPrefixes
    BY <1>2, <1>4 DEF PrefixInv, InOrder
  <2>6. orderly' => ListServes'
    BY <1>2, <1>4 DEF ListServes
  <2>7. orderly' /\ step'[t] = "add" /\ local'[t] = j => ListFits(t)'
    BY <1>2, <1>4, <2>2, <2>4, <2>6 DEF ListFits
  <2> QED
    BY <1>4, <1>6, <2>1, <2>3, <2>5, <2>7, TaskGoesOn
<1> QED
  BY <1>1, <1>3, <1>5, <1>6

LEMMA InsertRowKeeps == ASSUME PrefixInv, NEW t \in Tasks, P!InsertRow(t) PROVE PrefixInv'
<1>1. /\ UNCHANGED <<list, member, orderly, loaded>> /\ step[t] = "add"
      /\ PrefixShape /\ local[t] \in Locals /\ table \in SUBSET Names
  BY DEF P!InsertRow, PrefixInv, PrefixShape
<1>2. orderly => ListFits(t) /\ Cardinality(table) <= MaxPrefixes
  BY <1>1 DEF PrefixInv, InOrder
<1>3. CASE P!Finish(t) /\ UNCHANGED table
  <2>1. P!Goto(t, "idle", P!NoJob) /\ P!NoJob \in Locals
    BY <1>3, ListsClosed DEF P!Finish, P!NoJob, Locals
  <2>2. PrefixShape'
    BY <1>1, <1>3, <2>1, TaskGoesOnType DEF PrefixShape
  <2>3. orderly' => ListServes'
    BY <1>1, <1>2, <1>3 DEF ListFits, ListServes
  <2> QED
    BY <1>1, <1>2, <1>3, <2>1, <2>2, <2>3, TaskGoesOn
<1>4. CASE /\ table' = table \cup {local[t].name}
           /\ P!Goto(t, "cache", [local[t] EXCEPT !.list =
                                     P!(+)(@, P!SetToBag({local[t].name}))])
  <2>1. PICK j : j = [local[t] EXCEPT !.list = P!(+)(@, P!SetToBag({local[t].name}))]
    OBVIOUS
  <2>2. local[t].name \in Names /\ {local[t].name} \in SUBSET Names
    BY <1>1 DEF PrefixShape
  <2>3. /\ j \in Locals /\ j.list = P!(+)(local[t].list, P!SetToBag({local[t].name}))
    BY <1>1, <2>1, <2>2, ListOfSet, ListsClosed DEF Locals
  <2>4. P!Goto(t, "cache", j)
    BY <1>4, <2>1
  <2>5. PrefixShape'
    BY <1>1, <1>4, <2>2, <2>3, <2>4, TaskGoesOnType DEF PrefixShape
  <2>6. ASSUME orderly'
        PROVE  Cardinality(table') <= MaxPrefixes /\ j.list = P!SetToBag(table')
    <3>1. /\ local[t].list = P!SetToBag(table) /\ local[t].name \notin table
          /\ Cardinality(table) < MaxPrefixes
      BY <1>1, <1>2, <2>6 DEF ListFits
    <3>2. Cardinality(table') = Cardinality(table) + 1 /\ Cardinality(table) \in Nat
      BY <1>1, <1>4, <2>2, <3>1, AddToSet
    <3>3. j.list = P!SetToBag(table')
      BY <1>1, <1>4, <2>2, <2>3, <3>1, AddToList
    <3> QED
      BY <3>1, <3>2, <3>3, PrefixConstants
  <2>7. orderly' /\ step'[t] = "cache" /\ local'[t] = j => ListFits(t)'
    BY <2>6 DEF ListFits
  <2> QED
    BY <1>1, <2>4, <2>5, <2>6, <2>7, TaskGoesOn
<1> QED
  BY <1>3, <1>4 DEF P!InsertRow

LEMMA RemoveKeeps == ASSUME PrefixInv, NEW t \in Tasks, P!Remove(t) PROVE PrefixInv'
<1>1. PICK outcome \in P!LookupOutcomes, p \in Names :
         /\ P!Arrives(t, outcome)
         /\ IF P!BagIn(p, P!Current(outcome))
            THEN P!Goto(t, "remove", [P!NoJob EXCEPT !.name = p, !.list = P!Current(outcome)])
            ELSE UNCHANGED <<step, local>>
  BY ZenonT(60) DEF P!Remove
<1>2. UNCHANGED <<table, list, member, loaded>> /\ PrefixShape /\ table \in SUBSET Names
  BY DEF P!Remove, PrefixInv, PrefixShape
<1>3. PICK current : current = P!Current(outcome)
  OBVIOUS
<1>4. /\ current \in Lists /\ orderly' \in BOOLEAN
      /\ orderly' => orderly /\ ~P!UnderWay /\ ListServes /\ current = P!SetToBag(table)
  BY <1>1, <1>3, CurrentIsTable DEF P!Arrives
<1>5. CASE UNCHANGED <<step, local>>
  <2>1. member' \in BOOLEAN
    BY <1>2 DEF PrefixShape
  <2> QED
    BY <1>2, <1>4, <1>5, <2>1, StaysInOrder
<1>6. CASE P!Goto(t, "remove", [P!NoJob EXCEPT !.name = p, !.list = current])
  <2>1. PICK j : j = [P!NoJob EXCEPT !.name = p, !.list = current]
    OBVIOUS
  <2>2. j \in Locals /\ j.list = current
    BY <1>4, <2>1, ListsClosed DEF P!NoJob, Locals
  <2>3. PrefixShape'
    BY <1>2, <1>4, <1>6, <2>1, <2>2, TaskGoesOnType DEF PrefixShape
  <2>4. orderly' => Cardinality(table') <= MaxPrefixes
    BY <1>2, <1>4 DEF PrefixInv, InOrder
  <2>5. orderly' => ListServes'
    BY <1>2, <1>4 DEF ListServes
  <2>6. orderly' /\ step'[t] = "remove" /\ local'[t] = j => ListFits(t)'
    BY <1>2, <1>4, <2>2, <2>5 DEF ListFits
  <2> QED
    BY <1>4, <1>6, <2>1, <2>3, <2>4, <2>6, TaskGoesOn
<1> QED
  BY <1>1, <1>3, <1>5, <1>6

LEMMA DeleteRowKeeps == ASSUME PrefixInv, NEW t \in Tasks, P!DeleteRow(t) PROVE PrefixInv'
<1>1. /\ UNCHANGED <<list, member, orderly, loaded>> /\ step[t] = "remove"
      /\ PrefixShape /\ local[t] \in Locals /\ table \in SUBSET Names
  BY DEF P!DeleteRow, PrefixInv, PrefixShape
<1>2. orderly => ListFits(t) /\ Cardinality(table) <= MaxPrefixes
  BY <1>1 DEF PrefixInv, InOrder
<1>3. CASE P!Finish(t) /\ UNCHANGED table
  <2>1. P!Goto(t, "idle", P!NoJob) /\ P!NoJob \in Locals
    BY <1>3, ListsClosed DEF P!Finish, P!NoJob, Locals
  <2>2. PrefixShape'
    BY <1>1, <1>3, <2>1, TaskGoesOnType DEF PrefixShape
  <2>3. orderly' => ListServes'
    BY <1>1, <1>2, <1>3 DEF ListFits, ListServes
  <2> QED
    BY <1>1, <1>2, <1>3, <2>1, <2>2, <2>3, TaskGoesOn
<1>4. CASE /\ table' = table \ {local[t].name}
           /\ P!Goto(t, "cache", [local[t] EXCEPT !.list =
                  [p \in P!BagToSet(local[t].list) \ {local[t].name} |-> local[t].list[p]]])
  <2>1. PICK rest : rest = [p \in P!BagToSet(local[t].list) \ {local[t].name} |->
                               local[t].list[p]]
    OBVIOUS
  <2>2. PICK j : j = [local[t] EXCEPT !.list = rest]
    OBVIOUS
  <2>3. local[t].list \in Lists /\ rest \in Lists
    <3>1. local[t].list \in Lists
      BY <1>1 DEF Locals
    <3> QED
      BY <2>1, <3>1, ListsClosed
  <2>4. j \in Locals /\ j.list = rest
    BY <1>1, <2>2, <2>3 DEF Locals
  <2>5. P!Goto(t, "cache", j)
    BY <1>4, <2>1, <2>2
  <2>6. PrefixShape'
    BY <1>1, <1>4, <2>4, <2>5, TaskGoesOnType DEF PrefixShape
  <2>7. ASSUME orderly'
        PROVE  Cardinality(table') <= MaxPrefixes /\ rest = P!SetToBag(table')
    <3>1. /\ local[t].list = P!SetToBag(table) /\ Cardinality(table) <= MaxPrefixes
      BY <1>1, <1>2, <2>7 DEF ListFits
    <3>2. /\ Cardinality(table') <= Cardinality(table) /\ Cardinality(table) \in Nat
          /\ Cardinality(table') \in Nat
      BY <1>1, <1>4, AddToSet, PrefixConstants
    <3>3. rest = P!SetToBag(table')
      BY <1>4, <2>1, <3>1 DEF P!SetToBag, P!BagToSet
    <3> QED
      BY <3>1, <3>2, <3>3, PrefixConstants
  <2>8. orderly' /\ step'[t] = "cache" /\ local'[t] = j => ListFits(t)'
    BY <2>4, <2>7 DEF ListFits
  <2> QED
    BY <1>1, <2>5, <2>6, <2>7, <2>8, TaskGoesOn
<1> QED
  BY <1>3, <1>4 DEF P!DeleteRow

\* The end of a task: the list becomes what it carries, or goes, or gets the rows.
LEMMA EndKeeps ==
    ASSUME PrefixInv, NEW t \in Tasks,
           P!CacheList(t) \/ P!Drop(t) \/ P!CachePut(t) \/ P!ReadyPush(t)
    PROVE  PrefixInv'
<1>1. /\ UNCHANGED <<table, member>> /\ step[t] \in {"cache", "drop", "cachePut", "ready"}
      /\ PrefixShape /\ local[t] \in Locals /\ table \in SUBSET Names
      /\ P!Goto(t, "idle", P!NoJob) /\ P!NoJob \in Locals
  BY ListsClosed DEF P!CacheList, P!Drop, P!CachePut, P!ReadyPush, P!Finish, PrefixInv,
                     PrefixShape, P!NoJob, Locals
<1>2. orderly => ListFits(t) /\ Cardinality(table) <= MaxPrefixes
  BY <1>1 DEF PrefixInv, InOrder
<1>3. local[t].list \in Lists /\ local[t].left \in SUBSET Names
  BY <1>1 DEF Locals
<1>4. /\ list' \in Lists \cup {Absent} /\ loaded' \in BOOLEAN /\ orderly' \in BOOLEAN
      /\ orderly' => orderly /\ ListServes'
  <2>1. CASE P!CacheList(t)
    <3>1. list' = local[t].list /\ loaded' = TRUE /\ step[t] = "cache" /\ UNCHANGED orderly
      BY <2>1 DEF P!CacheList
    <3>2. orderly' => list' = P!SetToBag(table') /\ list' # Absent
      BY <1>1, <1>2, <3>1, ListOfSet DEF ListFits
    <3> QED
      BY <1>1, <1>3, <3>1, <3>2 DEF ListServes, PrefixShape
  <2>2. CASE P!Drop(t)
    <3>1. list' = Absent /\ step[t] = "drop" /\ UNCHANGED <<orderly, loaded>>
      BY <2>2 DEF P!Drop
    <3> QED
      BY <1>1, <1>2, <3>1 DEF ListServes, PrefixShape, ListFits
  <2>3. CASE P!CachePut(t)
    <3>1. /\ list' = IF local[t].list = P!EmptyBag THEN Absent ELSE local[t].list
          /\ loaded' = TRUE /\ step[t] = "cachePut" /\ UNCHANGED orderly
      BY <2>3 DEF P!CachePut
    <3>2. ASSUME orderly' PROVE ListServes'
      <4>1. local[t].list = P!SetToBag(table)
        BY <1>1, <1>2, <3>1, <3>2 DEF ListFits
      <4> QED
        BY <1>1, <3>1, <4>1, ListOfSet DEF ListServes
    <3> QED
      BY <1>1, <1>3, <3>1, <3>2 DEF PrefixShape
  <2>4. CASE P!ReadyPush(t)
    <3>1. /\ step[t] = "ready" /\ loaded' = TRUE /\ orderly' = (orderly /\ list = Absent)
          /\ list' = IF local[t].left = {} THEN list
                     ELSE P!(+)(P!SetToBag(local[t].left),
                                IF list = Absent THEN P!EmptyBag ELSE list)
      BY <2>4 DEF P!ReadyPush
    <3>2. list' \in Lists \cup {Absent}
      <4>1. P!SetToBag(local[t].left) \in Lists
        BY <1>3, ListOfSet
      <4>2. (IF list = Absent THEN P!EmptyBag ELSE list) \in Lists
        BY <1>1, ListsClosed DEF PrefixShape
      <4> QED
        BY <1>1, <3>1, <4>1, <4>2, ListsClosed DEF PrefixShape
    <3>3. ASSUME orderly' PROVE ListServes'
      <4>1. orderly /\ list = Absent /\ local[t].left = table
        BY <1>1, <1>2, <3>1, <3>3 DEF ListFits, PrefixShape
      <4>2. P!(+)(P!SetToBag(table), P!EmptyBag) = P!SetToBag(table)
        BY DEF P!(+), P!SetToBag, P!EmptyBag
      <4>3. list' = IF table = {} THEN Absent ELSE P!SetToBag(table)
        BY <3>1, <4>1, <4>2
      <4> QED
        BY <1>1, <3>1, <4>3, ListOfSet DEF ListServes
    <3> QED
      BY <1>1, <3>1, <3>2, <3>3 DEF PrefixShape
  <2> QED
    BY <2>1, <2>2, <2>3, <2>4
<1>5. PrefixShape'
  BY <1>1, <1>4, TaskGoesOnType DEF PrefixShape
<1> QED
  BY <1>1, <1>2, <1>4, <1>5, TaskGoesOn

\* Spending leaves order only to what begins alone and does not fail.
LEMMA SpendOrderly ==
    ASSUME PrefixInv, NEW what, NEW outcome, P!Spend(what, outcome)
    PROVE  /\ orderly' \in BOOLEAN
           /\ orderly' => /\ orderly /\ ~P!UnderWay /\ ListServes /\ outcome = "succeeds"
                          /\ Cardinality(table) <= MaxPrefixes
<1>1. orderly' = (orderly /\ ~P!UnderWay /\ outcome = "succeeds") /\ orderly \in BOOLEAN
  BY Zenon DEF P!Spend, PrefixInv, PrefixShape
<1> QED
  BY <1>1 DEF PrefixInv, InOrder

LEMMA ClearKeeps ==
    ASSUME PrefixInv, NEW t \in Tasks, NEW what, NEW outcome, P!Spend(what, outcome),
           P!Clear(t, outcome), member' \in BOOLEAN
    PROVE  PrefixInv'
<1>1. /\ P!Goto(t, "drop", P!NoJob) /\ P!NoJob \in Locals /\ UNCHANGED <<list, loaded>>
      /\ table' = IF outcome = "fails" THEN table ELSE {}
      /\ PrefixShape
  BY ListsClosed DEF P!Clear, PrefixInv, P!NoJob, Locals
<1>2. /\ orderly' \in BOOLEAN
      /\ orderly' => orderly /\ ~P!UnderWay /\ outcome = "succeeds"
  BY SpendOrderly
<1>3. PrefixShape'
  BY <1>1, <1>2, TaskGoesOnType DEF PrefixShape
<1>4. orderly' => table' = {} /\ Cardinality(table') <= MaxPrefixes
  BY <1>1, <1>2, FS_EmptySet, PrefixConstants
<1>5. orderly' /\ step'[t] = "drop" => ListFits(t)'
  BY <1>4 DEF ListFits
<1> QED
  BY <1>1, <1>2, <1>3, <1>4, <1>5, TaskGoesOn

LEMMA PutKeeps == ASSUME PrefixInv, NEW t \in Tasks, P!Put(t) PROVE PrefixInv'
<1>1. PICK wanted \in {s \in SUBSET Names : P!Cardinality(s) <= MaxPrefixes} :
         P!Goto(t, "put", [P!NoJob EXCEPT !.list = P!SetToBag(wanted), !.left = wanted])
  BY ZenonT(60) DEF P!Put
<1>2. /\ UNCHANGED <<list, member, loaded>> /\ table' = {} /\ PrefixShape
      /\ P!Spend("commands", "succeeds")
  BY DEF P!Put, P!Arrives, PrefixInv
<1>3. PICK j : j = [P!NoJob EXCEPT !.list = P!SetToBag(wanted), !.left = wanted]
  OBVIOUS
<1>4. j \in Locals /\ j.list = P!SetToBag(wanted) /\ j.left = wanted
  BY <1>3, ListOfSet, ListsClosed DEF P!NoJob, Locals
<1>5. orderly' \in BOOLEAN /\ (orderly' => orderly /\ ~P!UnderWay)
  BY <1>2, SpendOrderly
<1>6. PrefixShape'
  BY <1>1, <1>2, <1>3, <1>4, <1>5, TaskGoesOnType DEF PrefixShape
<1>7. Cardinality(table') <= MaxPrefixes
  BY <1>2, FS_EmptySet, PrefixConstants
<1>8. Cardinality(wanted) <= MaxPrefixes /\ {} \cup wanted = wanted
  BY <1>1, SameCardinality
<1>9. step'[t] = "put" /\ local'[t] = j => ListFits(t)'
  BY <1>2, <1>4, <1>8 DEF ListFits
<1> QED
  BY <1>1, <1>3, <1>5, <1>6, <1>7, <1>9, TaskGoesOn

LEMMA PutRowKeeps == ASSUME PrefixInv, NEW t \in Tasks, P!PutRow(t) PROVE PrefixInv'
<1>1. /\ UNCHANGED <<list, member, loaded>> /\ step[t] = "put"
      /\ PrefixShape /\ local[t] \in Locals /\ table \in SUBSET Names
      /\ local[t].left \in SUBSET Names
  BY DEF P!PutRow, PrefixInv, PrefixShape, Locals
<1>2. orderly => /\ local[t].list = P!SetToBag(table \cup local[t].left)
                 /\ Cardinality(table \cup local[t].left) <= MaxPrefixes
                 /\ Cardinality(table) <= MaxPrefixes
  BY <1>1 DEF PrefixInv, InOrder, ListFits
<1>3. CASE local[t].left = {}
  <2>1. P!Goto(t, "cachePut", local[t]) /\ UNCHANGED <<table, orderly>>
    BY <1>3 DEF P!PutRow
  <2>2. PrefixShape'
    BY <1>1, <2>1, TaskGoesOnType DEF PrefixShape
  <2>3. orderly' /\ step'[t] = "cachePut" /\ local'[t] = local[t] => ListFits(t)'
    BY <1>2, <1>3, <2>1 DEF ListFits
  <2> QED
    BY <1>1, <1>2, <2>1, <2>2, <2>3, TaskGoesOn
<1>4. CASE local[t].left # {}
  <2>1. PICK p \in local[t].left :
           /\ P!Goto(t, "put", [local[t] EXCEPT !.left = @ \ {p}])
           /\ \/ table' = table \cup {p} /\ UNCHANGED orderly
              \/ orderly' = FALSE /\ UNCHANGED table
    BY <1>4 DEF P!PutRow
  <2>2. PICK j : j = [local[t] EXCEPT !.left = @ \ {p}]
    OBVIOUS
  <2>3. j \in Locals /\ j.list = local[t].list /\ j.left = local[t].left \ {p}
    BY <1>1, <2>2 DEF Locals
  <2>4. PrefixShape'
    BY <1>1, <2>1, <2>2, <2>3, TaskGoesOnType DEF PrefixShape
  <2>5. ASSUME orderly'
        PROVE  /\ orderly /\ Cardinality(table') <= MaxPrefixes
               /\ table' \cup j.left = table \cup local[t].left
    <3>1. orderly /\ table' = table \cup {p}
      BY <2>1, <2>5
    <3>2. table' \subseteq table \cup local[t].left
      BY <2>1, <3>1
    <3>3. /\ Cardinality(table') <= Cardinality(table \cup local[t].left)
          /\ Cardinality(table') \in Nat /\ Cardinality(table \cup local[t].left) \in Nat
      <4>1. table \cup local[t].left \in SUBSET Names /\ table' \in SUBSET Names
        BY <1>1, <3>2
      <4> QED
        BY <3>2, <4>1, AddToSet, PrefixConstants
    <3> QED
      BY <1>2, <2>1, <2>3, <3>1, <3>3, PrefixConstants
  <2>6. orderly' /\ step'[t] = "put" /\ local'[t] = j => ListFits(t)'
    BY <1>2, <2>3, <2>5 DEF ListFits
  <2> QED
    BY <1>1, <2>1, <2>2, <2>4, <2>5, <2>6, TaskGoesOn
<1> QED
  BY <1>3, <1>4

LEMMA GuildCreateKeeps == ASSUME PrefixInv, NEW t \in Tasks, P!GuildCreate(t) PROVE PrefixInv'
<1>1. PICK outcome \in P!LookupOutcomes :
         /\ P!Spend("events", outcome)
         /\ IF list # Absent THEN UNCHANGED <<step, local>>
            ELSE IF P!Current(outcome) = P!EmptyBag
            THEN P!Goto(t, "create", [P!NoJob EXCEPT !.list = P!SetToBag({Standard})])
            ELSE P!Goto(t, "cache", [P!NoJob EXCEPT !.list = P!Current(outcome)])
  BY ZenonT(60) DEF P!GuildCreate
<1>2. UNCHANGED <<table, list, loaded>> /\ member' \in BOOLEAN /\ PrefixShape
      /\ table \in SUBSET Names
  BY DEF P!GuildCreate, PrefixInv, PrefixShape
<1>3. PICK current : current = P!Current(outcome)
  OBVIOUS
<1>4. /\ current \in Lists /\ orderly' \in BOOLEAN
      /\ orderly' => orderly /\ ~P!UnderWay /\ ListServes /\ current = P!SetToBag(table)
  BY <1>1, <1>3, CurrentIsTable
<1>5. orderly' => Cardinality(table') <= MaxPrefixes
  BY <1>2, <1>4 DEF PrefixInv, InOrder
<1>6. CASE UNCHANGED <<step, local>>
  BY <1>2, <1>4, <1>6, StaysInOrder
<1>7. CASE /\ current = P!EmptyBag
           /\ P!Goto(t, "create", [P!NoJob EXCEPT !.list = P!SetToBag({Standard})])
  <2>1. PICK j : j = [P!NoJob EXCEPT !.list = P!SetToBag({Standard})]
    OBVIOUS
  <2>2. j \in Locals /\ j.list = P!SetToBag({Standard})
    BY <2>1, ListOfSet, ListsClosed, PrefixConstants DEF P!NoJob, Locals
  <2>3. PrefixShape'
    BY <1>2, <1>4, <1>7, <2>1, <2>2, TaskGoesOnType DEF PrefixShape
  <2>4. orderly' => table' = {}
    BY <1>2, <1>4, <1>7, ListOfSet
  <2>5. orderly' /\ step'[t] = "create" /\ local'[t] = j => ListFits(t)'
    BY <2>2, <2>4 DEF ListFits
  <2> QED
    BY <1>4, <1>5, <1>7, <2>1, <2>3, <2>5, TaskGoesOn
<1>8. CASE P!Goto(t, "cache", [P!NoJob EXCEPT !.list = current])
  <2>1. PICK j : j = [P!NoJob EXCEPT !.list = current]
    OBVIOUS
  <2>2. j \in Locals /\ j.list = current
    BY <1>4, <2>1, ListsClosed DEF P!NoJob, Locals
  <2>3. PrefixShape'
    BY <1>2, <1>4, <1>8, <2>1, <2>2, TaskGoesOnType DEF PrefixShape
  <2>4. orderly' /\ step'[t] = "cache" /\ local'[t] = j => ListFits(t)'
    BY <1>2, <1>4, <2>2 DEF ListFits
  <2> QED
    BY <1>4, <1>5, <1>8, <2>1, <2>3, <2>4, TaskGoesOn
<1> QED
  BY <1>1, <1>3, <1>6, <1>7, <1>8

LEMMA InsertStandardKeeps ==
    ASSUME PrefixInv, NEW t \in Tasks, P!InsertStandard(t) PROVE PrefixInv'
<1>1. /\ UNCHANGED <<list, member, loaded>> /\ step[t] = "create"
      /\ PrefixShape /\ local[t] \in Locals /\ P!Goto(t, "cache", local[t])
      /\ \/ table' = table \cup {Standard} /\ UNCHANGED orderly
         \/ orderly' = FALSE /\ UNCHANGED table
  BY DEF P!InsertStandard, PrefixInv, PrefixShape
<1>2. PrefixShape'
  BY <1>1, TaskGoesOnType, PrefixConstants DEF PrefixShape
<1>3. ASSUME orderly'
      PROVE  /\ orderly /\ Cardinality(table') <= MaxPrefixes
             /\ local[t].list = P!SetToBag(table')
  <2>1. orderly /\ table' = {Standard} /\ local[t].list = P!SetToBag({Standard})
    BY <1>1, <1>3 DEF PrefixInv, InOrder, ListFits
  <2>2. Cardinality({Standard}) = 1
    BY FS_Singleton
  <2> QED
    BY <2>1, <2>2, PrefixConstants
<1>4. orderly' /\ step'[t] = "cache" /\ local'[t] = local[t] => ListFits(t)'
  BY <1>3 DEF ListFits
<1> QED
  BY <1>1, <1>2, <1>3, <1>4, TaskGoesOn

LEMMA ReadyReadKeeps == ASSUME PrefixInv, NEW t \in Tasks, P!ReadyRead(t) PROVE PrefixInv'
<1>1. PICK outcome \in P!Outcomes :
         /\ P!Spend("events", outcome)
         /\ P!Goto(t, "ready",
                   [P!NoJob EXCEPT !.left = IF outcome = "fails" THEN {} ELSE table])
  BY ZenonT(60) DEF P!ReadyRead
<1>2. UNCHANGED <<table, list, member, loaded>> /\ PrefixShape /\ table \in SUBSET Names
  BY DEF P!ReadyRead, PrefixInv, PrefixShape
<1>3. PICK j : j = [P!NoJob EXCEPT !.left = IF outcome = "fails" THEN {} ELSE table]
  OBVIOUS
<1>4. j \in Locals /\ (outcome = "succeeds" => j.left = table)
  BY <1>2, <1>3, ListsClosed DEF P!NoJob, Locals
<1>5. /\ orderly' \in BOOLEAN
      /\ orderly' => /\ orderly /\ ~P!UnderWay /\ outcome = "succeeds"
                     /\ Cardinality(table') <= MaxPrefixes
  BY <1>1, <1>2, SpendOrderly
<1>6. PrefixShape'
  BY <1>1, <1>2, <1>3, <1>4, <1>5, TaskGoesOnType DEF PrefixShape
<1>7. orderly' /\ step'[t] = "ready" /\ local'[t] = j => ListFits(t)'
  BY <1>2, <1>4, <1>5 DEF ListFits
<1> QED
  BY <1>1, <1>3, <1>5, <1>6, <1>7, TaskGoesOn

LEMMA PrefixCrashKeeps == ASSUME PrefixInv, P!Crash PROVE PrefixInv'
<1>1. /\ UNCHANGED <<table, member, orderly>> /\ list' = Absent /\ loaded' = FALSE
      /\ step' = [t \in Tasks |-> "idle"] /\ local' = [t \in Tasks |-> P!NoJob]
  BY DEF P!Crash
<1>2. P!NoJob \in Locals
  BY ListsClosed DEF P!NoJob, Locals
<1>3. PrefixShape'
  BY <1>1, <1>2 DEF PrefixInv, PrefixShape
<1>4. InOrder'
  BY <1>1 DEF PrefixInv, InOrder, ListServes
<1> QED
  BY <1>3, <1>4 DEF PrefixInv

LEMMA PrefixStep ==
    PrefixInv /\ [MCNext]_<<focus, vars, prefixVars>> => PrefixInv'
<1> SUFFICES ASSUME PrefixInv, [MCNext]_<<focus, vars, prefixVars>> PROVE PrefixInv'
  OBVIOUS
<1>1. CASE UNCHANGED prefixVars
  BY <1>1 DEF prefixVars, PrefixInv, PrefixShape, InOrder, ListFits, ListServes, P!UnderWay
<1>2. CASE P!Next
  <2>1. CASE P!Crash
    BY <2>1, PrefixCrashKeeps
  <2>2. ASSUME NEW t \in Tasks, P!Command(t) PROVE PrefixInv'
    <3>1. CASE P!Reset(t)
      <4>1. PICK outcome \in P!Outcomes :
               P!Arrives(t, outcome) /\ P!Clear(t, outcome) /\ UNCHANGED member
        BY <3>1 DEF P!Reset
      <4> QED
        BY <4>1, ClearKeeps DEF P!Arrives, PrefixInv, PrefixShape
    <3> QED
      BY <2>2, <3>1, AddKeeps, RemoveKeeps, PutKeeps DEF P!Command
  <2>3. ASSUME NEW t \in Tasks, P!Event(t) PROVE PrefixInv'
    <3>1. ASSUME NEW unavailable \in BOOLEAN, P!GuildDelete(t, unavailable) PROVE PrefixInv'
      <4>1. PICK outcome \in P!Outcomes :
               P!Spend("events", outcome) /\ P!Clear(t, outcome) /\ member' = unavailable
        BY <3>1 DEF P!GuildDelete
      <4> QED
        BY <4>1, ClearKeeps
    <3> QED
      BY <2>3, <3>1, GuildCreateKeeps, ReadyReadKeeps DEF P!Event
  <2>4. ASSUME NEW t \in Tasks, P!TaskStep(t) PROVE PrefixInv'
    BY <2>4, InsertRowKeeps, DeleteRowKeeps, EndKeeps, PutRowKeeps, InsertStandardKeeps
    DEF P!TaskStep
  <2> QED
    BY <1>2, <2>1, <2>2, <2>3, <2>4 DEF P!Next
<1> QED
  BY <1>1, <1>2 DEF MCNext

\* As long as commands, requests and events come one at a time and no ignored query
\* fails, commands are dispatched by the prefixes in the table, and no guild gets
\* more of them than the limit, also half-way through a change and after a crash.
THEOREM PrefixesKeptInOrder == MCSpec => []PrefixesInOrder
<1>1. PrefixInv => PrefixesInOrder
  <2> SUFFICES ASSUME PrefixInv PROVE PrefixesInOrder
    OBVIOUS
  <2>1. P!PrefixTypeOK
    BY ShapeIsType DEF PrefixInv
  <2>2. P!ListIsTable
    BY DEF PrefixInv, InOrder, ListServes, P!ListIsTable
  <2>3. P!LimitHeld
    BY SameCardinality DEF PrefixInv, InOrder, P!LimitHeld
  <2> QED
    BY <2>1, <2>2, <2>3 DEF PrefixesInOrder
<1> QED
  BY <1>1, PrefixInit, PrefixStep, PTL DEF MCSpec
=============================================================================
