-------------------------------- MODULE Afk ---------------------------------
(***************************************************************************)
(* The AFK notices of one guild: a table, and the copy in memory by which  *)
(* messages are answered.  Going AFK changes the copy, then the row; the   *)
(* first message some time later removes the entry, then the row; every    *)
(* ready event inserts all rows into the copy.                             *)
(***************************************************************************)
EXTENDS Naturals, FiniteSets

CONSTANTS
    People,
    Notices,
    Grace,          \* how long a message leaves a fresh notice alone (3 seconds)
    Tasks,
    MaxNow, MaxCommands, MaxReadies, MaxFaults,     \* bounds
    Nobody, NoNotice, NoSnapshot

VARIABLES
    afkRows,    \* afk: user -> entry, or NoNotice
    afkCache,   \* afk_cache: user -> entry, or NoNotice
    now,
    pc, job,    \* the await task t is at, and its locals
    allowed,    \* commands and messages, ready events and faults the bounds still allow
    \* history
    upset       \* users of whom two things overlapped, or one failed, since the
                \* last that wrote row and entry both

data == <<afkRows, afkCache, now, upset>>
vars == <<afkRows, afkCache, now, upset, pc, job, allowed>>

Entry == [message : Notices, set_at : 0 .. MaxNow]
Job(u, entry, rows) == [user |-> u, entry |-> entry, rows |-> rows]
NoJob == Job(Nobody, NoNotice, NoSnapshot)

DataInit ==
    /\ afkRows = [u \in People |-> NoNotice] /\ afkCache = [u \in People |-> NoNotice]
    /\ now = 0 /\ upset = {}
TaskInit ==
    /\ pc = [t \in Tasks |-> "idle"] /\ job = [t \in Tasks |-> NoJob]
    /\ allowed = [commands |-> MaxCommands, readies |-> MaxReadies, faults |-> MaxFaults]
Init == DataInit /\ TaskInit

Goto(t, next, j) == pc' = [pc EXCEPT ![t] = next] /\ job' = [job EXCEPT ![t] = j]
Finish(t) == Goto(t, "idle", NoJob)
Spend(what) == allowed[what] > 0 /\ allowed' = [allowed EXCEPT ![what] = @ - 1]
Fault == Spend("faults")

UnderWay(u) == \E t \in Tasks : job[t].user = u \/ job[t].rows # NoSnapshot

(***************************************************************************)
(* The command.                                                            *)
(***************************************************************************)
SetAfk(t) ==
    /\ pc[t] = "idle" /\ Spend("commands")
    /\ \E u \in People, m \in Notices :
         LET entry == [message |-> m, set_at |-> now] IN
         /\ afkCache' = [afkCache EXCEPT ![u] = entry]
         /\ Goto(t, "store", Job(u, entry, NoSnapshot))
         /\ upset' = IF UnderWay(u) THEN upset \cup {u} ELSE upset \ {u}
    /\ UNCHANGED <<afkRows, now>>

Store(t) ==
    /\ pc[t] = "store" /\ Finish(t)
    /\ afkRows' = [afkRows EXCEPT ![job[t].user] = job[t].entry]
    /\ UNCHANGED <<afkCache, now, upset, allowed>>

\* A write that fails, here or of Delete, is not noticed.
WriteFails(t) ==
    /\ pc[t] \in {"store", "delete"} /\ Fault /\ Finish(t)
    /\ upset' = upset \cup {job[t].user}
    /\ UNCHANGED <<afkRows, afkCache, now>>

(***************************************************************************)
(* A message: its author's entry is looked up, removed if it is old enough *)
(* and still there, and then the row deleted.                              *)
(***************************************************************************)
ManageAfk(t) ==
    /\ pc[t] = "idle" /\ Spend("commands")
    /\ \E u \in People :
         /\ afkCache[u] # NoNotice /\ afkCache[u].set_at + Grace < now
         /\ Goto(t, "remove", Job(u, NoNotice, NoSnapshot))
         /\ upset' = IF UnderWay(u) THEN upset \cup {u} ELSE upset
    /\ UNCHANGED <<afkRows, afkCache, now>>

Remove(t) ==
    /\ pc[t] = "remove"
    /\ afkCache' = [afkCache EXCEPT ![job[t].user] = NoNotice]
    /\ IF afkCache[job[t].user] = NoNotice THEN Finish(t) ELSE Goto(t, "delete", job[t])
    /\ UNCHANGED <<afkRows, now, upset, allowed>>

Delete(t) ==
    /\ pc[t] = "delete" /\ Finish(t)
    /\ afkRows' = [afkRows EXCEPT ![job[t].user] = NoNotice]
    /\ UNCHANGED <<afkCache, now, upset, allowed>>

(***************************************************************************)
(* Ready events, crashes, and the clock.                                   *)
(***************************************************************************)
\* A read that fails finds no rows: nothing is inserted.
ReadyRead(t) ==
    /\ pc[t] = "idle" /\ Spend("readies")
    /\ Goto(t, "hydrate", Job(Nobody, NoNotice, afkRows))
    /\ upset' = {u \in upset : afkRows[u] = NoNotice} \cup {u \in People : UnderWay(u)}
    /\ UNCHANGED <<afkRows, afkCache, now>>

ReadyInsert(t) ==
    /\ pc[t] = "hydrate" /\ Finish(t)
    /\ afkCache' = [u \in People |-> IF job[t].rows[u] = NoNotice THEN afkCache[u] ELSE job[t].rows[u]]
    /\ UNCHANGED <<afkRows, now, upset, allowed>>

Crash ==
    /\ Fault
    /\ afkCache' = [u \in People |-> NoNotice]
    /\ pc' = [t \in Tasks |-> "idle"] /\ job' = [t \in Tasks |-> NoJob]
    /\ upset' = {u \in People : afkRows[u] # NoNotice}
    /\ UNCHANGED <<afkRows, now>>

Tick == now < MaxNow /\ now' = now + 1 /\ UNCHANGED <<afkRows, afkCache, upset, pc, job, allowed>>

Next ==
    \/ \E t \in Tasks :
         \/ SetAfk(t) \/ Store(t) \/ WriteFails(t)
         \/ ManageAfk(t) \/ Remove(t) \/ Delete(t)
         \/ ReadyRead(t) \/ ReadyInsert(t)
    \/ Crash
    \/ Tick

Spec == Init /\ [][Next]_vars

(***************************************************************************)
(* Properties.                                                             *)
(***************************************************************************)
\* Rows, entries and snapshots hold notices, or the mark that there is none.
TypeOK ==
    /\ afkRows \in [People -> Entry \cup {NoNotice}] /\ afkCache \in [People -> Entry \cup {NoNotice}]
    /\ now \in 0 .. MaxNow /\ upset \subseteq People
    /\ pc \in [Tasks -> {"idle", "store", "remove", "delete", "hydrate"}]
    /\ job \in [Tasks -> [user : People \cup {Nobody}, entry : Entry \cup {NoNotice},
                          rows : {NoSnapshot} \cup [People -> Entry \cup {NoNotice}]]]

\* The notice others are shown is the one a restart would bring back, once nothing
\* about a user is under way: commands, returns and ready events one at a time keep
\* entry and row alike, and a new notice or a ready event repairs what overlapping
\* ones and failures left behind (afk, manage_afk, on_ready).
AfkInStep == \A u \in People \ upset : ~UnderWay(u) => afkCache[u] = afkRows[u]
=============================================================================
