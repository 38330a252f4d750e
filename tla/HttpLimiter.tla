---------------------------- MODULE HttpLimiter -----------------------------
(***************************************************************************)
(* The limits on the dashboard's requests: a budget per fixed window for   *)
(* all of them, and one for each actor, counted in a map of bounded size.  *)
(* A window begins with the first request after the last one is over.  A   *)
(* request of an actor the full map does not know evicts any entry, in a   *)
(* step of its own.                                                        *)
(***************************************************************************)
EXTENDS Integers, FiniteSets

CONSTANTS
    Actors, NoActor,
    Window,
    MaxActor, MaxGlobal,    \* max of RATE_LIMITER and GLOBAL_LIMITER
    Cap,                    \* cap of RATE_LIMITER
    Tasks,
    MaxClock, MaxRequests   \* bounds

VARIABLES
    hits,       \* RATE_LIMITER.hits: actor -> its window's start and count, or NoWindow
    global,     \* the only entry of GLOBAL_LIMITER.hits
    clock,
    pc, job,    \* the step the request in task t is at, its actor and an entry to evict
    allowed,    \* requests the bounds still allow
    \* history
    served,     \* actor -> time -> requests of theirs let through the limits before then
    passed,     \* time -> requests let through the limit on all of them before then
    evicted     \* actors whose entry was ever evicted

data == <<hits, global, clock, served, passed, evicted>>
vars == <<hits, global, clock, served, passed, evicted, pc, job, allowed>>

NoWindow == [start |-> 0, count |-> 0]      \* a window is created by its first request
Times == 0 .. MaxClock
Ends == 0 .. MaxClock + 1
Job(a, victim) == [actor |-> a, victim |-> victim]
NoJob == Job(NoActor, NoActor)

DataInit ==
    /\ hits = [a \in Actors |-> NoWindow] /\ global = NoWindow /\ clock = 0
    /\ served = [a \in Actors |-> [i \in Ends |-> 0]] /\ passed = [i \in Ends |-> 0]
    /\ evicted = {}
TaskInit ==
    /\ pc = [t \in Tasks |-> "idle"] /\ job = [t \in Tasks |-> NoJob]
    /\ allowed = [requests |-> MaxRequests]
Init == DataInit /\ TaskInit

Goto(t, next, j) == pc' = [pc EXCEPT ![t] = next] /\ job' = [job EXCEPT ![t] = j]
Finish(t) == Goto(t, "idle", NoJob)
Spend(what) == allowed[what] > 0 /\ allowed' = [allowed EXCEPT ![what] = @ - 1]

\* Mutant: a window that is over is begun anew after the request was counted.
CountedBefore(w) ==
    IF w.count > 0 /\ clock - w.start >= Window THEN [start |-> clock, count |-> 0]
    ELSE [start |-> IF w.count = 0 THEN clock ELSE w.start, count |-> w.count + 1]

\* An entry after one more request: a window that is over is begun anew.
Counted(w) ==
    IF w.count = 0 \/ clock - w.start >= Window THEN [start |-> clock, count |-> 1]
    ELSE [start |-> w.start, count |-> w.count + 1]

\* A history after one more request was let through.
LetThrough(total) == [i \in Ends |-> IF i > clock THEN total[i] + 1 ELSE total[i]]

(***************************************************************************)
(* A request that carries the token.                                       *)
(***************************************************************************)
\* Requests over the limit for all are counted there, but not for their actor.
Arrive(t, a) ==
    LET w == Counted(global) IN
    /\ pc[t] = "idle" /\ Spend("requests")
    /\ global' = w
    /\ \/ /\ w.count <= MaxGlobal
          /\ Goto(t, "room", Job(a, NoActor))
          /\ passed' = LetThrough(passed)
       \/ w.count > MaxGlobal /\ UNCHANGED <<passed, pc, job>>
    /\ UNCHANGED <<hits, clock, served, evicted>>

Known == {a \in Actors : hits[a] # NoWindow}

MakeRoom(t) ==
    /\ pc[t] = "room"
    /\ \/ /\ Cardinality(Known) >= Cap /\ job[t].actor \notin Known
          /\ \E victim \in Known : Goto(t, "evict", Job(job[t].actor, victim))
       \/ /\ Cardinality(Known) < Cap \/ job[t].actor \in Known
          /\ Goto(t, "count", job[t])
    /\ UNCHANGED <<data, allowed>>

Evict(t) ==
    /\ pc[t] = "evict"
    /\ hits' = [hits EXCEPT ![job[t].victim] = NoWindow]
    /\ evicted' = evicted \cup {job[t].victim}
    /\ Goto(t, "count", job[t])
    /\ UNCHANGED <<global, clock, served, passed, allowed>>

Count(t) ==
    LET a == job[t].actor  w == Counted(hits[a]) IN
    /\ pc[t] = "count"
    /\ hits' = [hits EXCEPT ![a] = w]
    /\ \/ /\ w.count <= MaxActor
          /\ served' = [served EXCEPT ![a] = LetThrough(@)]
          /\ Goto(t, "blacklist", job[t])
       \/ w.count > MaxActor /\ Finish(t) /\ UNCHANGED served
    /\ UNCHANGED <<global, clock, passed, evicted, allowed>>

\* Whether the actor is blacklisted or not, or the lookup fails: nothing more is counted.
CheckBlacklist(t) ==
    /\ pc[t] = "blacklist" /\ Finish(t)
    /\ UNCHANGED <<data, allowed>>

Tick == clock < MaxClock /\ clock' = clock + 1
        /\ UNCHANGED <<hits, global, served, passed, evicted, pc, job, allowed>>

Next ==
    \/ \E t \in Tasks :
         \/ \E a \in Actors : Arrive(t, a)
         \/ MakeRoom(t) \/ Evict(t) \/ Count(t) \/ CheckBlacklist(t)
    \/ Tick

Spec == Init /\ [][Next]_vars

(***************************************************************************)
(* Properties.                                                             *)
(***************************************************************************)
Windows == [start : Times, count : Nat]

\* Entries are windows, histories count requests.
TypeOK ==
    /\ hits \in [Actors -> Windows] /\ global \in Windows /\ clock \in Times
    /\ served \in [Actors -> [Ends -> Nat]] /\ passed \in [Ends -> Nat] /\ evicted \subseteq Actors
    /\ pc \in [Tasks -> {"idle", "room", "evict", "count", "blacklist"}]
    /\ job \in [Tasks -> [actor : Actors \cup {NoActor}, victim : Actors \cup {NoActor}]]

\* The requests of a time as long as a window, or what is left of it.
Within(total, from) ==
    total[IF from + Window \in Ends THEN from + Window ELSE MaxClock + 1] - total[from]

\* However requests are spread over fixed windows, a time as long as a window sees
\* less than two budgets of them, for all actors together as for each whose entry was
\* never evicted to make room for another (allow, auth_middleware).
BudgetsHeld ==
    \A from \in Times :
        /\ Within(passed, from) < 2 * MaxGlobal
        /\ \A a \in Actors \ evicted : Within(served[a], from) < 2 * MaxActor
=============================================================================
