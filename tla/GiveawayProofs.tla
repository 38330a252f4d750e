--------------------------- MODULE GiveawayProofs ---------------------------
(***************************************************************************)
(* Giveaways implements GiveawayPromise and never ends a giveaway early,   *)
(* for any number of giveaways, users, tasks, failures and crashes.        *)
(***************************************************************************)
EXTENDS Giveaways, TLAPS

\* The sweeper's batch names each giveaway once; all of them were due and have
\* not ended, and the one in hand is not among those that wait.
BatchOpen ==
    /\ \A row \in sweep.rows : gws[row.id].state = "open" /\ gws[row.id].ends <= clock
    /\ \A r1, r2 \in sweep.rows : r1.id = r2.id => r1 = r2
    /\ sweep.pc \in {"mark", "announce", "strip"} => \A row \in sweep.rows : row.id # sweep.id

\* The giveaway in hand is still open when it is about to be marked, and is
\* marked but not announced when it is about to be announced.
InHand ==
    /\ sweep.pc = "mark" =>
          /\ sweep.id \in Giveaways
          /\ gws[sweep.id].state = "open" /\ gws[sweep.id].ends <= clock
    /\ sweep.pc = "announce" =>
          /\ sweep.id \in Giveaways
          /\ gws[sweep.id].state = "ended" /\ results[sweep.id] = 0

\* Only a giveaway that ended has a result, and never two.
ResultsFollowEnd ==
    \A g \in Giveaways : results[g] \in {0, 1} /\ (gws[g].state # "ended" => results[g] = 0)

\* A button press is about a giveaway and a member.
JobFits ==
    \A t \in Tasks : pc[t] \in {"lookup", "enter", "leave"} =>
        job[t].id \in Giveaways /\ job[t].user \in Users

IInv == TypeOK /\ JobFits /\ BatchOpen /\ InHand /\ ResultsFollowEnd

-----------------------------------------------------------------------------
LEMMA InvariantInit == Init => IInv
  BY GiveawayConstants DEF Init, IInv, TypeOK, JobFits, BatchOpen, InHand, ResultsFollowEnd,
     NoGiveaway, NoJob, Job, Jobs, Asleep, Steps, Rows

\* The tasks' control flow keeps its type.
LEMMA GotoType ==
    ASSUME TypeOK, NEW t \in Tasks, NEW next \in Steps,
           NEW j \in Jobs,
           Goto(t, next, j)
    PROVE  /\ pc' \in [Tasks -> Steps]
           /\ job' \in [Tasks -> Jobs]
  BY DEF Goto, TypeOK, NoJob, Job, Jobs

LEMMA GotoFits ==
    ASSUME TypeOK, JobFits, NEW t \in Tasks, NEW next, NEW j, Goto(t, next, j),
           next \in {"lookup", "enter", "leave"} => j.id \in Giveaways /\ j.user \in Users
    PROVE  JobFits'
  BY DEF Goto, TypeOK, JobFits

\* What a step of a task may do to what the invariant reads: the sweeper and the
\* results stay; one giveaway may open, or all keep their state and what is due
\* stays due.
TasksKeep ==
    /\ UNCHANGED <<sweep, results, clock>>
    /\ \/ \E g \in Giveaways :
            /\ gws[g].state = "absent" /\ gws'[g].state = "open"
            /\ \A h \in Giveaways \ {g} : gws'[h] = gws[h]
       \/ \A g \in Giveaways :
            /\ gws'[g].state = gws[g].state
            /\ gws'[g].ends = gws[g].ends \/ gws'[g].ends <= clock

LEMMA KeepsInvariant ==
    ASSUME IInv, TypeOK', JobFits', TasksKeep
    PROVE  IInv'
<1>1. BatchOpen'
  BY DEF IInv, TasksKeep, BatchOpen, TypeOK, Rows
<1>2. InHand'
  BY DEF IInv, TasksKeep, InHand, TypeOK
<1>3. ResultsFollowEnd'
  BY DEF IInv, TasksKeep, ResultsFollowEnd, TypeOK
<1> QED
  BY <1>1, <1>2, <1>3 DEF IInv

LEMMA ArgumentsType ==
    ASSUME TypeOK, NEW t \in Tasks, NEW type \in CommandTypes
    PROVE  /\ FirstStep(type) \in Steps /\ Arguments(t, type) \subseteq Jobs
           /\ FirstStep(type) \in {"lookup", "enter", "leave"} =>
                 \A j \in Arguments(t, type) : j.id \in Giveaways /\ j.user \in Users
<1>1. FirstStep(type) \in Steps
  BY DEF FirstStep, CommandTypes, Steps
<1>2. Clickers[t] \subseteq Users /\ \A d \in Lengths : clock + d \in Nat
  BY GiveawayConstants DEF TypeOK
<1>3. Arguments(t, type) \subseteq Jobs
  BY <1>2 DEF Arguments, Job, Jobs
<1>4. ASSUME type # "click" PROVE FirstStep(type) \notin {"lookup", "enter", "leave"}
  BY <1>4 DEF FirstStep, CommandTypes
<1>5. ASSUME type = "click", NEW j \in Arguments(t, type)
      PROVE  j.id \in Giveaways /\ j.user \in Users
  BY <1>2, <1>5 DEF Arguments, Job
<1> QED
  BY <1>1, <1>3, <1>4, <1>5

\* A task's locals have their type, also once the insert has chosen the id.
LEMMA JobType ==
    ASSUME TypeOK, NEW t \in Tasks, NEW g \in Giveaways
    PROVE  job[t] \in Jobs /\ [job[t] EXCEPT !.id = g] \in Jobs /\ job[t].ends \in Nat
           /\ clock - 1 \in Nat /\ clock - 1 <= clock
<1>1. job[t] \in Jobs /\ clock \in Nat /\ clock >= 1
  BY DEF TypeOK
<1>2. job[t].ends \in Nat /\ [job[t] EXCEPT !.id = g] \in Jobs
  BY <1>1 DEF Jobs
<1> QED
  BY <1>1, <1>2

-----------------------------------------------------------------------------
(***************************************************************************)
(* Steps of tasks.                                                         *)
(***************************************************************************)
LEMMA IssueKeeps == ASSUME IInv, NEW t \in Tasks, Issue(t) PROVE IInv' /\ TasksKeep
<1>1. PICK type \in CommandTypes, j \in Jobs :
         /\ Goto(t, FirstStep(type), j) /\ FirstStep(type) \in Steps
         /\ FirstStep(type) \in {"lookup", "enter", "leave"} =>
               j.id \in Giveaways /\ j.user \in Users
  BY ArgumentsType, GiveawayConstants DEF Issue, IInv
<1>2. pc' \in [Tasks -> Steps] /\ job' \in [Tasks -> Jobs]
  BY <1>1, GotoType DEF IInv
<1>3. budget' \in [commands : Nat, errors : Nat, crashes : Nat]
  BY DEF Issue, IInv, TypeOK
<1>4. UNCHANGED <<gws, entries, post, clock, sweep, results, said>>
  BY DEF Issue, dbVars, historyVars
<1>5. TypeOK' /\ TasksKeep
  BY <1>2, <1>3, <1>4 DEF IInv, TypeOK, TasksKeep
<1>6. JobFits'
  BY <1>1, GotoFits DEF IInv
<1> QED
  BY <1>5, <1>6, KeepsInvariant

LEMMA FailureType ==
    ASSUME TypeOK, CallFails \/ UNCHANGED budget
    PROVE  budget' \in [commands : Nat, errors : Nat, crashes : Nat]
  BY DEF TypeOK, CallFails

LEMMA FinishType ==
    ASSUME TypeOK, NEW t \in Tasks, Finish(t)
    PROVE  pc' \in [Tasks -> Steps] /\ job' \in [Tasks -> Jobs]
<1>1. NoJob \in Jobs /\ "idle" \in Steps
  BY DEF NoJob, Job, Jobs, Steps
<1> QED
  BY <1>1, GotoType DEF Finish

\* Steps that leave the giveaways as they are.
LEMMA ClicksKeep ==
    ASSUME IInv, NEW t \in Tasks,
           \/ PostGiveaway(t) \/ LookUp(t) \/ Enter(t) \/ Leave(t)
           \/ CheckEnd(t) \/ CheckReroll(t) \/ Reroll(t)
    PROVE  IInv' /\ TasksKeep
<1>0. TypeOK /\ job[t] \in Jobs
  BY DEF IInv, TypeOK
<1>1. pc' \in [Tasks -> Steps] /\ job' \in [Tasks -> Jobs]
  <2>1. Finish(t) \/ \E next \in Steps : Goto(t, next, job[t])
    BY DEF PostGiveaway, LookUp, Enter, Leave, CheckEnd, CheckReroll, Reroll, Steps
  <2> QED
    BY <1>0, <2>1, GotoType, FinishType
<1>2. budget' \in [commands : Nat, errors : Nat, crashes : Nat]
  BY <1>0, FailureType
     DEF PostGiveaway, LookUp, Enter, Leave, CheckEnd, CheckReroll, Reroll
<1>3. UNCHANGED <<gws, clock, sweep, results>>
  BY DEF PostGiveaway, LookUp, Enter, Leave, CheckEnd, CheckReroll, Reroll, dbVars, historyVars
<1>4. post' \in [Giveaways -> {"none", "open", "closed"}]
  BY <1>0 DEF PostGiveaway, LookUp, Enter, Leave, CheckEnd, CheckReroll, Reroll, TypeOK
<1>5. entries' \subseteq Giveaways \X Users /\ said' \subseteq Giveaways \X Users
  <2>1. CASE Enter(t)
    BY <2>1 DEF Enter, IInv, TypeOK, JobFits
  <2>2. CASE Leave(t)
    BY <2>2 DEF Leave, IInv, TypeOK
  <2>3. CASE UNCHANGED <<entries, said>>
    BY <2>3 DEF IInv, TypeOK
  <2> QED
    BY <2>1, <2>2, <2>3
       DEF PostGiveaway, LookUp, CheckEnd, CheckReroll, Reroll, dbVars, historyVars
<1>6. TypeOK' /\ TasksKeep
  BY <1>1, <1>2, <1>3, <1>4, <1>5 DEF IInv, TypeOK, TasksKeep
<1>7. JobFits'
  <2>1. CASE LookUp(t) \/ Enter(t)
    BY <2>1, GotoFits DEF LookUp, Enter, Finish, IInv, JobFits
  <2>2. CASE PostGiveaway(t) \/ Leave(t) \/ CheckEnd(t) \/ CheckReroll(t) \/ Reroll(t)
    BY <2>2, GotoFits DEF PostGiveaway, Leave, CheckEnd, CheckReroll, Reroll, Finish, IInv
  <2> QED
    BY <2>1, <2>2
<1> QED
  BY <1>6, <1>7, KeepsInvariant

\* Steps that write a row of the table.
LEMMA InsertKeeps == ASSUME IInv, NEW t \in Tasks, InsertGiveaway(t) PROVE IInv' /\ TasksKeep
<1>1. CASE UNCHANGED gws /\ Finish(t)
  <2>1. TypeOK' /\ TasksKeep
    BY <1>1, FinishType, FailureType
       DEF InsertGiveaway, IInv, TypeOK, TasksKeep, historyVars
  <2>2. JobFits'
    BY <1>1, GotoFits DEF Finish, IInv
  <2> QED
    BY <2>1, <2>2, KeepsInvariant
<1>2. ASSUME NEW g \in Giveaways, ~Exists(g),
             gws' = [gws EXCEPT ![g] =
                        [state |-> "open", ends |-> job[t].ends, posted |-> FALSE]],
             Goto(t, "post", [job[t] EXCEPT !.id = g]), UNCHANGED budget
      PROVE  IInv' /\ TasksKeep
  <2>1. UNCHANGED <<entries, post, clock, sweep, results, said>>
    BY DEF InsertGiveaway, historyVars
  <2>2. pc' \in [Tasks -> Steps] /\ job' \in [Tasks -> Jobs]
    BY <1>2, JobType, GotoType DEF IInv, Steps
  <2>3. gws' \in [Giveaways -> [state : {"absent", "open", "ended"}, ends : Nat, posted : BOOLEAN]]
    BY <1>2, JobType DEF IInv, TypeOK
  <2>4. TypeOK'
    BY <1>2, <2>1, <2>2, <2>3 DEF IInv, TypeOK
  <2>5. TasksKeep
    BY <1>2, <2>1 DEF IInv, TypeOK, TasksKeep, Exists
  <2>6. JobFits'
    BY <1>2, GotoFits DEF IInv
  <2> QED
    BY <2>4, <2>5, <2>6, KeepsInvariant
<1> QED
  BY <1>1, <1>2 DEF InsertGiveaway

LEMMA UpdatesKeep == ASSUME IInv, NEW t \in Tasks, StorePost(t) \/ EndNow(t) PROVE IInv' /\ TasksKeep
<1>1. UNCHANGED <<entries, post, clock, sweep, results, said>> /\ Finish(t)
  BY DEF StorePost, EndNow, historyVars
<1>2. /\ gws' \in [Giveaways -> [state : {"absent", "open", "ended"}, ends : Nat, posted : BOOLEAN]]
      /\ \A g \in Giveaways : /\ gws'[g].state = gws[g].state
                              /\ gws'[g].ends = gws[g].ends \/ gws'[g].ends <= clock
  <2>1. clock - 1 \in Nat /\ clock - 1 <= clock
    BY DEF IInv, TypeOK
  <2>2. ASSUME NEW g \in Giveaways
        PROVE  /\ gws'[g] \in [state : {"absent", "open", "ended"}, ends : Nat, posted : BOOLEAN]
               /\ gws'[g].state = gws[g].state
               /\ gws'[g].ends = gws[g].ends \/ gws'[g].ends <= clock
    <3>1. \/ gws'[g] = gws[g]
          \/ gws'[g] = [gws[g] EXCEPT !.posted = TRUE]
          \/ gws'[g] = [gws[g] EXCEPT !.ends = clock - 1]
      BY <2>2 DEF StorePost, EndNow, IInv, TypeOK
    <3>2. gws[g] \in [state : {"absent", "open", "ended"}, ends : Nat, posted : BOOLEAN]
      BY <2>2 DEF IInv, TypeOK
    <3> QED
      BY <2>1, <3>1, <3>2
  <2>3. gws' = [g \in Giveaways |-> gws'[g]]
    BY DEF StorePost, EndNow, IInv, TypeOK
  <2> QED
    BY <2>2, <2>3
<1>3. TypeOK' /\ TasksKeep
  BY <1>1, <1>2, FinishType, FailureType DEF StorePost, EndNow, IInv, TypeOK, TasksKeep
<1>4. JobFits'
  BY <1>1, GotoFits DEF Finish, IInv
<1> QED
  BY <1>3, <1>4, KeepsInvariant

LEMMA TaskStepKeeps == ASSUME IInv, NEW t \in Tasks, TaskStep(t) PROVE IInv' /\ TasksKeep
  BY ClicksKeep, InsertKeeps, UpdatesKeep DEF TaskStep

-----------------------------------------------------------------------------
(***************************************************************************)
(* Steps of the sweeper.                                                   *)
(***************************************************************************)
\* The sweeper's own steps leave the tasks alone.
LEMMA SweepTypes ==
    ASSUME IInv, SweepStep,
           sweep' \in [pc : {"sleep", "draw", "mark", "announce", "strip"}, rows : SUBSET Rows,
                       id : Giveaways \cup {None}, posted : BOOLEAN],
           gws' \in [Giveaways ->
                        [state : {"absent", "open", "ended"}, ends : Nat, posted : BOOLEAN]]
    PROVE  TypeOK' /\ JobFits'
<1>1. UNCHANGED <<entries, clock, pc, job, said>>
  BY DEF SweepStep, Scan, Draw, MarkEnded, Announce, Strip, dbVars, historyVars
<1>2. budget' \in [commands : Nat, errors : Nat, crashes : Nat]
  BY FailureType DEF SweepStep, Scan, Draw, MarkEnded, Announce, Strip, IInv
<1>3. post' \in [Giveaways -> {"none", "open", "closed"}] /\ results' \in [Giveaways -> Nat]
  BY DEF SweepStep, Scan, Draw, MarkEnded, Announce, Strip, IInv, TypeOK, historyVars, dbVars
<1> QED
  BY <1>1, <1>2, <1>3 DEF IInv, TypeOK, JobFits

LEMMA ScanKeeps == ASSUME IInv, Scan PROVE IInv'
<1>1. UNCHANGED <<gws, clock, results>>
  BY DEF Scan, dbVars, historyVars
<1>2. CASE sweep' = sweep
  BY <1>1, <1>2, SweepTypes DEF SweepStep, IInv, TypeOK, BatchOpen, InHand, ResultsFollowEnd
<1>3. CASE sweep' = [Asleep EXCEPT !.pc = "draw", !.rows = Due]
  <2>1. Due \subseteq Rows
    BY DEF Due, Rows, IInv, TypeOK
  <2>2. sweep' = [pc |-> "draw", rows |-> Due, id |-> None, posted |-> FALSE]
    BY <1>3 DEF Asleep
  <2>3. TypeOK' /\ JobFits'
    BY <1>1, <2>1, <2>2, SweepTypes DEF SweepStep, IInv, TypeOK
  <2>4. /\ \A row \in Due : gws[row.id].state = "open" /\ gws[row.id].ends <= clock
        /\ \A r1, r2 \in Due : r1.id = r2.id => r1 = r2
    BY DEF Due
  <2>5. BatchOpen' /\ InHand' /\ ResultsFollowEnd'
    BY <1>1, <2>2, <2>4 DEF IInv, BatchOpen, InHand, ResultsFollowEnd
  <2> QED
    BY <2>3, <2>5 DEF IInv
<1> QED
  BY <1>2, <1>3 DEF Scan

LEMMA DrawKeeps == ASSUME IInv, Draw PROVE IInv'
<1>1. PICK row \in sweep.rows :
         sweep' = [pc |-> "mark", rows |-> sweep.rows \ {row}, id |-> row.id, posted |-> row.posted]
  BY DEF Draw
<1>2. UNCHANGED <<gws, clock, results>>
  BY DEF Draw, dbVars, historyVars
<1>3. row \in Rows /\ sweep.rows \subseteq Rows
  BY DEF IInv, TypeOK
<1>4. TypeOK' /\ JobFits'
  BY <1>1, <1>2, <1>3, SweepTypes DEF SweepStep, IInv, TypeOK, Rows
<1>5. BatchOpen' /\ InHand' /\ ResultsFollowEnd'
  BY <1>1, <1>2, <1>3 DEF IInv, BatchOpen, InHand, ResultsFollowEnd, Rows
<1> QED
  BY <1>4, <1>5 DEF IInv

\* Going on with the batch, or to sleep, keeps what is known of the batch.
LEMMA NextGiveawayKeeps ==
    ASSUME IInv, SweepStep, sweep' = NextGiveaway, sweep.pc \in {"mark", "announce", "strip"},
           UNCHANGED clock, gws' \in [Giveaways ->
                        [state : {"absent", "open", "ended"}, ends : Nat, posted : BOOLEAN]],
           \A g \in Giveaways : g # sweep.id => gws'[g] = gws[g],
           ResultsFollowEnd'
    PROVE  IInv'
<1>1. sweep'.rows \in {sweep.rows, {}} /\ sweep'.pc \in {"sleep", "draw"}
      /\ sweep' \in [pc : {"sleep", "draw", "mark", "announce", "strip"}, rows : SUBSET Rows,
                      id : Giveaways \cup {None}, posted : BOOLEAN]
  BY DEF NextGiveaway, Asleep, IInv, TypeOK
<1>2. TypeOK' /\ JobFits'
  BY <1>1, SweepTypes
<1>3. BatchOpen' /\ InHand'
  BY <1>1 DEF IInv, TypeOK, BatchOpen, InHand, Rows
<1> QED
  BY <1>2, <1>3 DEF IInv

LEMMA MarkKeeps == ASSUME IInv, MarkEnded PROVE IInv'
<1>1. sweep.id \in Giveaways /\ gws[sweep.id].state = "open" /\ UNCHANGED <<clock, results>>
  BY DEF MarkEnded, IInv, InHand, historyVars
<1>2. CASE /\ gws' = [gws EXCEPT ![sweep.id].state = "ended"]
           /\ sweep' = [sweep EXCEPT !.pc = "announce"]
  <2>1. /\ gws'[sweep.id].state = "ended"
        /\ \A g \in Giveaways : g # sweep.id => gws'[g] = gws[g]
        /\ gws' \in [Giveaways ->
                        [state : {"absent", "open", "ended"}, ends : Nat, posted : BOOLEAN]]
    BY <1>1, <1>2 DEF IInv, TypeOK
  <2>2. /\ sweep'.pc = "announce" /\ sweep'.rows = sweep.rows /\ sweep'.id = sweep.id
        /\ sweep' \in [pc : {"sleep", "draw", "mark", "announce", "strip"}, rows : SUBSET Rows,
                        id : Giveaways \cup {None}, posted : BOOLEAN]
    BY <1>2 DEF IInv, TypeOK
  <2>3. TypeOK' /\ JobFits'
    BY <2>1, <2>2, SweepTypes DEF SweepStep
  <2>4. BatchOpen' /\ InHand' /\ ResultsFollowEnd'
    BY <1>1, <2>1, <2>2 DEF MarkEnded, IInv, TypeOK, BatchOpen, InHand, ResultsFollowEnd, Rows
  <2> QED
    BY <2>3, <2>4 DEF IInv
<1>3. CASE sweep' = NextGiveaway /\ UNCHANGED gws
  BY <1>1, <1>3, NextGiveawayKeeps DEF MarkEnded, SweepStep, IInv, TypeOK, ResultsFollowEnd
<1> QED
  BY <1>2, <1>3 DEF MarkEnded

LEMMA AnnounceKeeps == ASSUME IInv, Announce PROVE IInv'
<1>1. /\ sweep.id \in Giveaways /\ gws[sweep.id].state = "ended" /\ results[sweep.id] = 0
      /\ UNCHANGED <<gws, clock>>
  BY DEF Announce, IInv, InHand, dbVars
<1>2. ResultsFollowEnd'
  BY <1>1 DEF Announce, IInv, TypeOK, ResultsFollowEnd
<1>3. CASE sweep' = [sweep EXCEPT !.pc = "strip"]
  <2>1. /\ sweep'.pc = "strip" /\ sweep'.rows = sweep.rows /\ sweep'.id = sweep.id
        /\ sweep' \in [pc : {"sleep", "draw", "mark", "announce", "strip"}, rows : SUBSET Rows,
                        id : Giveaways \cup {None}, posted : BOOLEAN]
    BY <1>3 DEF IInv, TypeOK
  <2>2. TypeOK' /\ JobFits'
    BY <1>1, <2>1, SweepTypes DEF SweepStep, IInv, TypeOK
  <2>3. BatchOpen' /\ InHand'
    BY <1>1, <2>1 DEF Announce, IInv, BatchOpen, InHand
  <2> QED
    BY <1>2, <2>2, <2>3 DEF IInv
<1>4. CASE sweep' = NextGiveaway
  BY <1>1, <1>2, <1>4, NextGiveawayKeeps DEF Announce, SweepStep, IInv, TypeOK
<1> QED
  BY <1>3, <1>4 DEF Announce

LEMMA StripKeeps == ASSUME IInv, Strip PROVE IInv'
  BY NextGiveawayKeeps DEF Strip, SweepStep, IInv, TypeOK, ResultsFollowEnd, dbVars, historyVars

-----------------------------------------------------------------------------
LEMMA InvariantStep == ASSUME IInv, [Next]_vars PROVE IInv'
<1>1. ASSUME NEW t \in Tasks, Issue(t) \/ TaskStep(t) PROVE IInv'
  BY <1>1, IssueKeeps, TaskStepKeeps
<1>2. CASE SweepStep
  BY <1>2, ScanKeeps, DrawKeeps, MarkKeeps, AnnounceKeeps, StripKeeps DEF SweepStep
<1>3. CASE Tick
  <2>1. clock' = clock + 1 /\ UNCHANGED <<gws, entries, post, pc, job, sweep, budget, results, said>>
    BY <1>3 DEF Tick, dbVars, historyVars
  <2>2. TypeOK' /\ JobFits'
    BY <2>1 DEF IInv, TypeOK, JobFits
  <2>3. BatchOpen' /\ InHand' /\ ResultsFollowEnd'
    BY <2>1 DEF IInv, TypeOK, BatchOpen, InHand, ResultsFollowEnd, Rows
  <2> QED
    BY <2>2, <2>3 DEF IInv
<1>4. CASE Crash
  <2>1. /\ pc' = [t \in Tasks |-> "idle"] /\ job' = [t \in Tasks |-> NoJob]
        /\ sweep' = [pc |-> "sleep", rows |-> {}, id |-> None, posted |-> FALSE]
        /\ budget' \in [commands : Nat, errors : Nat, crashes : Nat]
        /\ UNCHANGED <<gws, entries, post, clock, results, said>>
    BY <1>4 DEF Crash, Asleep, IInv, TypeOK, dbVars, historyVars
  <2>2. NoJob \in Jobs /\ "idle" \in Steps
    BY DEF NoJob, Job, Jobs, Steps
  <2>3. TypeOK' /\ JobFits'
    BY <2>1, <2>2 DEF IInv, TypeOK, JobFits
  <2>4. BatchOpen' /\ InHand' /\ ResultsFollowEnd'
    BY <2>1 DEF IInv, BatchOpen, InHand, ResultsFollowEnd
  <2> QED
    BY <2>3, <2>4 DEF IInv
<1>5. CASE UNCHANGED vars
  BY <1>5 DEF vars, dbVars, historyVars, IInv, TypeOK, JobFits, BatchOpen, InHand, ResultsFollowEnd
<1> QED
  BY <1>1, <1>2, <1>3, <1>4, <1>5 DEF Next

LEMMA Invariant == Spec => []IInv
<1>1. Init => IInv
  BY InvariantInit
<1>2. IInv /\ [Next]_vars => IInv'
  BY InvariantStep
<1> QED
  BY <1>1, <1>2, PTL DEF Spec

\* Every variable keeps its type, whatever fails.
THEOREM TypeCorrect == Spec => []TypeOK
<1>1. IInv => TypeOK
  BY DEF IInv
<1> QED
  BY <1>1, Invariant, PTL

\* The sweeper's snapshot holds what was due, and no task undoes that.
THEOREM NeverEarly == Spec => NeverEndsEarly
<1>1. ASSUME IInv, [Next]_vars, NEW g \in Giveaways,
             gws[g].state = "open", gws'[g].state = "ended"
      PROVE  gws[g].ends <= clock
  <2>1. CASE \E t \in Tasks : Issue(t) \/ TaskStep(t)
    <3>1. TasksKeep
      BY <1>1, <2>1, IssueKeeps, TaskStepKeeps
    <3> QED
      BY <1>1, <3>1 DEF TasksKeep
  <2>2. CASE MarkEnded
    <3>1. g = sweep.id
      BY <1>1, <2>2 DEF MarkEnded, IInv, TypeOK
    <3> QED
      BY <1>1, <2>2, <3>1 DEF MarkEnded, IInv, InHand
  <2>3. CASE UNCHANGED gws
    BY <1>1, <2>3
  <2> QED
    BY <1>1, <2>1, <2>2, <2>3
       DEF Next, SweepStep, Scan, Draw, Announce, Strip, Tick, Crash, vars, dbVars
<1>2. IInv /\ [Next]_vars =>
         [\A g \in Giveaways :
             (gws[g].state = "open" /\ gws'[g].state = "ended") => gws[g].ends <= clock]_vars
  BY <1>1
<1> QED
  BY <1>2, Invariant, PTL DEF Spec, NeverEndsEarly

\* Commands, sweeper, failures and crashes together implement the promise: a
\* giveaway is closed once and announced at most once, after it was closed.
THEOREM PromiseKept == Spec => KeepsPromise
<1> DEFINE life == [g \in Giveaways |-> gws[g].state]
<1>1. Init => Promise!PromiseInit
  BY DEF Init, NoGiveaway, Promise!PromiseInit
<1>2. ASSUME IInv, [Next]_vars PROVE [Promise!PromiseNext]_(Promise!promiseVars)
  <2>1. CASE \E t \in Tasks : Issue(t) \/ TaskStep(t)
    <3>1. TasksKeep
      BY <1>2, <2>1, IssueKeeps, TaskStepKeeps
    <3>2. CASE \A g \in Giveaways : gws'[g].state = gws[g].state
      BY <3>1, <3>2 DEF TasksKeep, Promise!promiseVars
    <3>3. ASSUME NEW g \in Giveaways, gws[g].state = "absent", gws'[g].state = "open",
                 \A h \in Giveaways \ {g} : gws'[h] = gws[h]
          PROVE  Promise!Begin(g)
      <4>1. life' = [life EXCEPT ![g] = "open"]
        BY <3>3
      <4> QED
        BY <3>1, <3>3, <4>1 DEF TasksKeep, Promise!Begin
    <3> QED
      BY <3>1, <3>2, <3>3 DEF TasksKeep, Promise!PromiseNext
  <2>2. CASE MarkEnded /\ gws' # gws
    <3>1. sweep.id \in Giveaways /\ gws[sweep.id].state = "open" /\ results' = results
      BY <1>2, <2>2 DEF MarkEnded, IInv, InHand, historyVars
    <3>2. gws' = [gws EXCEPT ![sweep.id].state = "ended"]
      BY <2>2 DEF MarkEnded
    <3>3. life' = [life EXCEPT ![sweep.id] = "ended"]
      BY <1>2, <3>1, <3>2 DEF IInv, TypeOK
    <3>4. \E g \in Giveaways : Promise!Close(g)
      BY <3>1, <3>3 DEF Promise!Close
    <3> QED
      BY <3>4 DEF Promise!PromiseNext
  <2>3. CASE Announce /\ results' # results
    <3>1. /\ sweep.id \in Giveaways /\ gws[sweep.id].state = "ended" /\ results[sweep.id] = 0
          /\ gws' = gws
      BY <1>2, <2>3 DEF Announce, IInv, InHand, dbVars
    <3>2. results' = [results EXCEPT ![sweep.id] = 1]
      BY <2>3, <3>1 DEF Announce
    <3>3. Promise!AnnounceOnce(sweep.id)
      BY <3>1, <3>2 DEF Promise!AnnounceOnce
    <3> QED
      BY <3>1, <3>3 DEF Promise!PromiseNext
  <2>4. CASE UNCHANGED <<gws, results>>
    BY <2>4 DEF Promise!promiseVars
  <2> QED
    BY <1>2, <2>1, <2>2, <2>3, <2>4
       DEF Next, SweepStep, Scan, Draw, MarkEnded, Announce, Strip, Tick, Crash,
           vars, dbVars, historyVars
<1> QED
  BY <1>1, <1>2, Invariant, PTL DEF Spec, KeepsPromise, Promise!PromiseSpec

-----------------------------------------------------------------------------
(***************************************************************************)
(* As long as nothing fails.                                               *)
(***************************************************************************)
\* The bounds on failures only ever run down.
Spent == budget.errors <= MaxErrors /\ budget.crashes <= MaxCrashes

LEMMA BudgetMoves ==
    ASSUME [Next]_vars
    PROVE  \/ UNCHANGED budget
           \/ budget.commands > 0 /\ budget' = [budget EXCEPT !.commands = @ - 1]
           \/ CallFails
           \/ budget.crashes > 0 /\ budget' = [budget EXCEPT !.crashes = @ - 1]
<1>1. ASSUME NEW t \in Tasks, Issue(t) \/ TaskStep(t)
      PROVE  \/ UNCHANGED budget \/ CallFails
             \/ budget.commands > 0 /\ budget' = [budget EXCEPT !.commands = @ - 1]
  BY <1>1 DEF Issue, TaskStep, InsertGiveaway, PostGiveaway, StorePost, LookUp, Enter, Leave,
     CheckEnd, EndNow, CheckReroll, Reroll
<1>2. SweepStep => UNCHANGED budget \/ CallFails
  BY DEF SweepStep, Scan, Draw, MarkEnded, Announce, Strip
<1>3. Tick \/ UNCHANGED vars => UNCHANGED budget
  BY DEF Tick, vars
<1> QED
  BY <1>1, <1>2, <1>3 DEF Next, Crash

\* A step after which nothing has failed is one that did not fail.
LEMMA StillFine ==
    ASSUME TypeOK, Spent, [Next]_vars
    PROVE  /\ Spent'
           /\ NothingFailed' => NothingFailed /\ ~CallFails /\ ~Crash
<1>1. /\ budget \in [commands : Nat, errors : Nat, crashes : Nat]
      /\ MaxErrors \in Nat /\ MaxCrashes \in Nat
  BY GiveawayConstants DEF TypeOK
<1>2. CASE UNCHANGED budget
  BY <1>1, <1>2 DEF Spent, NothingFailed, CallFails, Crash
<1>3. CASE budget.commands > 0 /\ budget' = [budget EXCEPT !.commands = @ - 1]
  BY <1>1, <1>3 DEF Spent, NothingFailed, CallFails, Crash
<1>4. CASE CallFails
  BY <1>1, <1>4 DEF Spent, NothingFailed, CallFails
<1>5. CASE budget.crashes > 0 /\ budget' = [budget EXCEPT !.crashes = @ - 1]
  BY <1>1, <1>5 DEF Spent, NothingFailed
<1> QED
  BY <1>2, <1>3, <1>4, <1>5, BudgetMoves

LEMMA FineInit == Init => Spent /\ ResultNotLost /\ RepliesHold
  BY GiveawayConstants DEF Init, Spent, ResultNotLost, RepliesHold, NoGiveaway

LEMMA ResultStep == ASSUME IInv, Spent, ResultNotLost, [Next]_vars PROVE ResultNotLost'
<1> SUFFICES ASSUME NothingFailed', NEW g \in Giveaways, gws'[g].state = "ended"
             PROVE  results'[g] = 1 \/ (sweep'.pc = "announce" /\ sweep'.id = g)
  BY DEF ResultNotLost
<1>1. NothingFailed /\ ~CallFails /\ ~Crash /\ TypeOK
  BY StillFine DEF IInv
<1>2. gws[g].state = "ended" => results[g] = 1 \/ (sweep.pc = "announce" /\ sweep.id = g)
  BY <1>1 DEF ResultNotLost
<1>3. CASE \E t \in Tasks : Issue(t) \/ TaskStep(t)
  <2>1. TasksKeep
    BY <1>3, IssueKeeps, TaskStepKeeps
  <2> QED
    BY <1>2, <2>1 DEF TasksKeep
<1>4. CASE MarkEnded
  <2>1. /\ gws' = [gws EXCEPT ![sweep.id].state = "ended"] /\ UNCHANGED results
        /\ sweep' = [sweep EXCEPT !.pc = "announce"] /\ sweep.pc = "mark"
    BY <1>1, <1>4 DEF MarkEnded, historyVars
  <2>2. sweep'.pc = "announce" /\ sweep'.id = sweep.id
    BY <1>1, <2>1 DEF TypeOK
  <2>3. g # sweep.id => gws'[g] = gws[g]
    BY <1>1, <2>1 DEF TypeOK
  <2> QED
    BY <1>2, <2>1, <2>2, <2>3
<1>5. CASE Announce
  <2>1. /\ results' = [results EXCEPT ![sweep.id] = @ + 1] /\ UNCHANGED gws
        /\ sweep.pc = "announce"
    BY <1>1, <1>5 DEF Announce, dbVars
  <2>2. results[sweep.id] = 0
    BY <2>1 DEF IInv, InHand
  <2>3. IF g = sweep.id THEN results'[g] = 1 ELSE results'[g] = results[g]
    BY <1>1, <2>1, <2>2 DEF TypeOK
  <2> QED
    BY <1>2, <2>1, <2>3
<1>6. CASE Scan \/ Draw \/ Strip
  BY <1>2, <1>6 DEF Scan, Draw, Strip, dbVars, historyVars
<1>7. CASE Tick \/ UNCHANGED vars
  BY <1>2, <1>7 DEF Tick, vars, dbVars, historyVars
<1> QED
  BY <1>1, <1>3, <1>4, <1>5, <1>6, <1>7 DEF Next, SweepStep

\* Replies and entries change together.
LEMMA RepliesStep == ASSUME TypeOK, Spent, RepliesHold, [Next]_vars PROVE RepliesHold'
<1> SUFFICES ASSUME NothingFailed' PROVE said' = entries'
  BY DEF RepliesHold
<1>1. NothingFailed /\ ~CallFails /\ ~Crash /\ said = entries
  BY StillFine DEF RepliesHold
<1>2. ASSUME NEW t \in Tasks, Enter(t) \/ Leave(t) PROVE said' = entries'
  BY <1>1, <1>2 DEF Enter, Leave
<1>3. CASE UNCHANGED <<said, entries>>
  BY <1>1, <1>3
<1> QED
  BY <1>1, <1>2, <1>3
     DEF Next, Issue, TaskStep, InsertGiveaway, PostGiveaway, StorePost, LookUp, CheckEnd, EndNow,
         CheckReroll, Reroll, SweepStep, Scan, Draw, MarkEnded, Announce, Strip, Tick, vars,
         dbVars, historyVars

\* Marking before announcing loses no result unless something fails: a giveaway
\* that ended has its result, or the sweeper holds it and announces it next.
THEOREM NoResultLost == Spec => []ResultNotLost
<1>1. Init => IInv /\ Spent /\ ResultNotLost
  BY InvariantInit, FineInit
<1>2. IInv /\ Spent /\ ResultNotLost /\ [Next]_vars => (IInv /\ Spent /\ ResultNotLost)'
  BY InvariantStep, ResultStep, StillFine DEF IInv
<1> QED
  BY <1>1, <1>2, PTL DEF Spec

\* However the presses of a member interleave, with each other and with the end of
\* the giveaway, the reply tells whether they are in unless a query fails.
THEOREM RepliesTrue == Spec => []RepliesHold
<1>1. Init => TypeOK /\ Spent /\ RepliesHold
  BY InvariantInit, FineInit DEF IInv
<1>2. TypeOK /\ Spent /\ RepliesHold /\ [Next]_vars => (Spent /\ RepliesHold)'
  BY StillFine, RepliesStep
<1> QED
  BY <1>1, <1>2, TypeCorrect, PTL DEF Spec
=============================================================================
