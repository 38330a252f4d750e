------------------------------- MODULE Music --------------------------------
(***************************************************************************)
(* The music player of one guild.  The player and its queue live in the    *)
(* Lavalink client; the bot's commands and the dashboard's requests look   *)
(* at them in awaits of their own and act on what they saw.  Pausing and   *)
(* the volume, which touch neither queue nor track, are left out, and so   *)
(* is who sits in which voice channel: commands from elsewhere end at once.*)
(***************************************************************************)
EXTENDS Naturals

CONSTANTS
    MaxQueue,       \* MAX_QUEUE
    MaxLoad,        \* bound on the tracks one request loads
    Tasks,
    MaxOrders, MaxFaults    \* bounds on commands and on failing calls and restarts of Lavalink

VARIABLES
    player,     \* the number of the guild's player, 0 while there is none
    queue,      \* how many tracks are up next
    playing,    \* there is a current track
    pc, job,    \* the await task t is at; its player, and the tracks it loaded and counted
    allowed,    \* commands and faults the bounds still allow
    \* history
    created,    \* players created so far
    crowded     \* commands overlapped, or a call failed, since all was last in order

data == <<player, queue, playing, created, crowded>>
vars == <<player, queue, playing, created, crowded, pc, job, allowed>>

Job(p, loaded, count) == [player |-> p, loaded |-> loaded, count |-> count]
NoJob == Job(0, 0, 0)

DataInit == player = 0 /\ queue = 0 /\ playing = FALSE /\ created = 0 /\ crowded = FALSE
TaskInit ==
    /\ pc = [t \in Tasks |-> "idle"] /\ job = [t \in Tasks |-> NoJob]
    /\ allowed = [orders |-> MaxOrders, faults |-> MaxFaults]
Init == DataInit /\ TaskInit

Goto(t, next, j) == pc' = [pc EXCEPT ![t] = next] /\ job' = [job EXCEPT ![t] = j]
Finish(t) == Goto(t, "idle", NoJob)
Spend(what) == allowed[what] > 0 /\ allowed' = [allowed EXCEPT ![what] = @ - 1]
Fault == Spend("faults")

Calm == \A t \in Tasks : pc[t] = "idle"
InOrder == queue <= MaxQueue /\ (queue > 0 => playing)

\* A command begins.
Order(t, next, p) ==
    /\ pc[t] = "idle" /\ Spend("orders")
    /\ crowded' = IF Calm /\ InOrder THEN FALSE ELSE (crowded \/ ~Calm)
    /\ Goto(t, next, Job(p, 0, 0))
    /\ UNCHANGED <<player, queue, playing, created>>

\* The player takes the next track, or stops when there is none.
Advance ==
    /\ playing' = (queue > 0)
    /\ queue' = IF queue > 0 THEN queue - 1 ELSE 0

Gone == player' = 0 /\ queue' = 0 /\ playing' = FALSE

(***************************************************************************)
(* play                                                                    *)
(***************************************************************************)
Play(t) == Order(t, IF player = 0 THEN "join" ELSE "load", player)

\* The player begins with an empty queue, even in the place of another.
Join(t) ==
    /\ pc[t] = "join"
    /\ \/ /\ created' = created + 1 /\ player' = created + 1
          /\ queue' = 0 /\ playing' = FALSE
          /\ Goto(t, "load", Job(created + 1, 0, 0))
          /\ UNCHANGED allowed
       \/ Fault /\ Finish(t) /\ UNCHANGED <<player, queue, playing, created>>
    /\ UNCHANGED crowded

\* Nothing found, or tracks.
LoadTracks(t) ==
    /\ pc[t] = "load"
    /\ \E n \in 0 .. MaxLoad :
         IF n = 0 THEN Finish(t) ELSE Goto(t, "count", Job(job[t].player, n, 0))
    /\ UNCHANGED <<data, allowed>>

\* A count that fails reads as 0.
CountQueue(t) ==
    /\ pc[t] = "count"
    /\ \/ /\ Goto(t, "append", Job(job[t].player, job[t].loaded, IF job[t].player = player THEN queue ELSE 0))
          /\ UNCHANGED <<crowded, allowed>>
       \/ Fault /\ Goto(t, "append", job[t]) /\ crowded' = TRUE
    /\ UNCHANGED <<player, queue, playing, created>>

\* What is appended to a player that is gone is gone with it.
Append(t) ==
    /\ pc[t] = "append"
    /\ IF job[t].count + job[t].loaded > MaxQueue THEN Finish(t) /\ UNCHANGED queue
       ELSE /\ Goto(t, "look", job[t])
            /\ queue' = IF job[t].player = player THEN queue + job[t].loaded ELSE queue
    /\ UNCHANGED <<player, playing, created, crowded, allowed>>

\* Is anything playing?
Look(t) ==
    /\ pc[t] = "look"
    /\ \/ /\ IF job[t].player = player /\ ~playing THEN Goto(t, "start", job[t]) ELSE Finish(t)
          /\ UNCHANGED <<crowded, allowed>>
       \/ Fault /\ Finish(t) /\ crowded' = TRUE
    /\ UNCHANGED <<player, queue, playing, created>>

KickOff(t) ==
    /\ pc[t] = "start" /\ Finish(t)
    /\ \/ job[t].player = player /\ queue > 0 /\ Advance
       \/ (job[t].player # player \/ queue = 0) /\ UNCHANGED <<queue, playing>>
    /\ UNCHANGED <<player, created, crowded, allowed>>

(***************************************************************************)
(* The other commands, and the dashboard's requests.                       *)
(***************************************************************************)
\* skip looks for a current track first; the dashboard does not.
Skip(t) == player > 0 /\ playing /\ Order(t, "skip", player)
PostSkip(t) == player > 0 /\ Order(t, "skip", player)
Stop(t) == player > 0 /\ Order(t, "clear", player)
Disconnect(t) == player > 0 /\ Order(t, "delete", player)

\* A step of one of them, on the player it found.
OnPlayer(t, step, next, effect, same) ==
    /\ pc[t] = step
    /\ IF next = "idle" THEN Finish(t) ELSE Goto(t, next, job[t])
    /\ \/ job[t].player = player /\ effect
       \/ job[t].player # player /\ same
    /\ UNCHANGED <<player, created, crowded, allowed>>

SkipTrack(t) == OnPlayer(t, "skip", "idle", Advance, UNCHANGED <<queue, playing>>)
ClearQueue(t) == OnPlayer(t, "clear", "stop", queue' = 0 /\ UNCHANGED playing, UNCHANGED <<queue, playing>>)
StopNow(t) == OnPlayer(t, "stop", "idle", playing' = FALSE /\ UNCHANGED queue, UNCHANGED <<queue, playing>>)

\* Calls whose results are ignored: the track plays on, or the player stays.
GivesUp(t) ==
    /\ pc[t] \in {"stop", "delete"} /\ Fault /\ Finish(t)
    /\ UNCHANGED data

DeletePlayer(t) ==
    /\ pc[t] = "delete" /\ Finish(t)
    /\ Gone
    /\ UNCHANGED <<created, crowded, allowed>>

\* A track ends and the client advances by itself.
TrackEnds == playing /\ Advance /\ UNCHANGED <<player, created, crowded, pc, job, allowed>>

\* Lavalink was restarted: its ready event deletes all players.
ReadyEvent == Fault /\ Gone /\ UNCHANGED <<created, crowded, pc, job>>

Next ==
    \/ \E t \in Tasks :
         \/ Play(t) \/ Join(t) \/ LoadTracks(t) \/ CountQueue(t) \/ Append(t) \/ Look(t) \/ KickOff(t)
         \/ Skip(t) \/ PostSkip(t) \/ Stop(t) \/ Disconnect(t)
         \/ SkipTrack(t) \/ ClearQueue(t) \/ StopNow(t) \/ GivesUp(t) \/ DeletePlayer(t)
    \/ TrackEnds \/ ReadyEvent

Spec == Init /\ [][Next]_vars

(***************************************************************************)
(* Properties.                                                             *)
(***************************************************************************)
\* Numbers, and a track or queue only where there is a player.
TypeOK ==
    /\ {player, queue, created} \subseteq Nat /\ {playing, crowded} \subseteq BOOLEAN
    /\ player = 0 => queue = 0 /\ ~playing
    /\ pc \in [Tasks -> {"idle", "join", "load", "count", "append", "look", "start",
                         "skip", "clear", "stop", "delete"}]
    /\ job \in [Tasks -> [player : Nat, loaded : 0 .. MaxLoad, count : Nat]]

\* Commands one at a time keep the queue within its limit, and leave no queue that
\* nobody plays, whenever tracks end and whatever is skipped, stopped or deleted in
\* between (play, skip, stop, post_skip, post_stop).
QueuePlays ==
    /\ ~crowded => queue <= MaxQueue
    /\ ~crowded /\ Calm => (queue > 0 => playing)
=============================================================================
