--------------------------- MODULE StarboardProofs ---------------------------
(***************************************************************************)
(* The starboard never mixes up the posts of different messages and shows  *)
(* only counts that were enough, however many recounts interleave and      *)
(* whatever fails.                                                         *)
(***************************************************************************)
EXTENDS Starboard, FiniteSetTheorems, TLAPS

\* A recount under way carries a post of its own message, and a count this
\* message had.
JobsFit ==
    \A t \in Tasks :
        /\ pc[t] # "idle" => job[t].msg \in Messages
        /\ pc[t] \in {"lookup", "edit", "send", "upsert"} => job[t].count \in seen[job[t].msg]
        /\ pc[t] \in {"edit", "send", "upsert"} => job[t].count >= Threshold
        /\ pc[t] \in {"edit", "upsert", "unpost"} =>
              job[t].post \in Posts /\ mirror[job[t].post].of = job[t].msg

\* A row names a post, and one of its message.
RowsFit ==
    \A m \in Messages :
        /\ rows[m] # NoRow => rows[m].post # None
        /\ rows[m].post # None => mirror[rows[m].post].of = m

\* The history holds the present count.
SeenNow == \A m \in Messages : Count(reactors[m]) \in seen[m]

IInv == TypeOK /\ JobsFit /\ RowsFit /\ RowsNameTheirPosts /\ PostsWereEarned /\ SeenNow

LEMMA CountType == ASSUME NEW users \in SUBSET Users PROVE Count(users) \in Nat
<1>1. IsFiniteSet(users \ Uncounted)
  BY StarboardConstants, FS_Subset
<1> QED
  BY <1>1, FS_CardinalityType DEF Count

LEMMA InvariantInit == Init => IInv
<1> SUFFICES ASSUME Init PROVE IInv
  OBVIOUS
<1>1. Count({}) = 0
  <2>1. {} \ Uncounted = {}
    OBVIOUS
  <2> QED
    BY <2>1, FS_EmptySet DEF Count
<1>2. TypeOK
  BY StarboardConstants DEF Init, TypeOK, NoRow, NotPosted, NoJob
<1>3. JobsFit /\ RowsFit /\ RowsNameTheirPosts /\ SeenNow
  BY <1>1 DEF Init, JobsFit, RowsFit, RowsNameTheirPosts, SeenNow, NoRow
<1>4. PostsWereEarned
  BY DEF Init, PostsWereEarned, Posted, NotPosted
<1> QED
  BY <1>2, <1>3, <1>4 DEF IInv

LEMMA GotoType ==
    ASSUME TypeOK, NEW t \in Tasks,
           NEW next \in {"idle", "check", "record", "fetch", "lookup", "edit", "send",
                         "upsert", "unpost", "deleteRow"},
           NEW j \in [msg : Messages \cup {None}, count : Nat, post : Posts \cup {None}],
           Goto(t, next, j)
    PROVE  /\ pc' \in [Tasks -> {"idle", "check", "record", "fetch", "lookup", "edit", "send",
                                 "upsert", "unpost", "deleteRow"}]
           /\ job' \in [Tasks -> [msg : Messages \cup {None}, count : Nat,
                                  post : Posts \cup {None}]]
  BY DEF Goto, TypeOK, NoJob

\* What a step of task t must leave behind for the recounts to fit: counts stay in
\* the history, posts stay with their message, and the new locals fit.
Fits(next, j) ==
    /\ j.msg \in Messages
    /\ next \in {"lookup", "edit", "send", "upsert"} => j.count \in seen'[j.msg]
    /\ next \in {"edit", "send", "upsert"} => j.count >= Threshold
    /\ next \in {"edit", "upsert", "unpost"} =>
          j.post \in Posts /\ mirror'[j.post].of = j.msg

LEMMA GotoFits ==
    ASSUME TypeOK, JobsFit, NEW t \in Tasks, NEW next, NEW j, Goto(t, next, j),
           \A m \in Messages : seen[m] \subseteq seen'[m],
           \A p \in Posts : mirror[p].of # None => mirror'[p].of = mirror[p].of,
           next # "idle" => Fits(next, j)
    PROVE  JobsFit'
<1>1. ASSUME NEW s \in Tasks, s # t
      PROVE  /\ pc'[s] = pc[s] /\ job'[s] = job[s]
             /\ pc[s] # "idle" => job[s].msg \in Messages
             /\ pc[s] \in {"lookup", "edit", "send", "upsert"} =>
                   job[s].count \in seen'[job[s].msg]
             /\ pc[s] \in {"edit", "upsert", "unpost"} => mirror'[job[s].post].of = job[s].msg
  BY <1>1, StarboardConstants DEF Goto, TypeOK, JobsFit
<1>2. pc'[t] = next /\ (next # "idle" => job'[t] = j)
  BY DEF Goto, TypeOK
<1> QED
  BY <1>1, <1>2 DEF JobsFit, Fits

-----------------------------------------------------------------------------
(***************************************************************************)
(* Steps that touch neither posts nor rows.                                *)
(***************************************************************************)
LEMMA QuietKeeps ==
    ASSUME IInv, UNCHANGED <<reactors, mirror, rows, seen>>, TypeOK', JobsFit'
    PROVE  IInv'
  BY DEF IInv, RowsFit, RowsNameTheirPosts, PostsWereEarned, Posted, SeenNow, Count

LEMMA BudgetType ==
    ASSUME TypeOK, Fault \/ UNCHANGED budget
    PROVE  budget' \in [reactions : Nat, faults : Nat]
  BY DEF TypeOK, Fault

LEMMA FinishType ==
    ASSUME TypeOK, NEW t \in Tasks, Finish(t)
    PROVE  /\ pc' \in [Tasks -> {"idle", "check", "record", "fetch", "lookup", "edit", "send",
                                 "upsert", "unpost", "deleteRow"}]
           /\ job' \in [Tasks -> [msg : Messages \cup {None}, count : Nat,
                                  post : Posts \cup {None}]]
<1>1. NoJob \in [msg : Messages \cup {None}, count : Nat, post : Posts \cup {None}]
  BY DEF NoJob
<1> QED
  BY <1>1, GotoType DEF Finish

LEMMA FinishFits ==
    ASSUME TypeOK, JobsFit, NEW t \in Tasks, Finish(t),
           \A m \in Messages : seen[m] \subseteq seen'[m],
           \A p \in Posts : mirror[p].of # None => mirror'[p].of = mirror[p].of
    PROVE  JobsFit'
  BY GotoFits DEF Finish

LEMMA LimiterKeeps == ASSUME IInv, NEW t \in Tasks, Check(t) \/ Record(t) PROVE IInv'
<1>1. TypeOK /\ JobsFit /\ job[t].msg \in Messages
      /\ job[t] \in [msg : Messages \cup {None}, count : Nat, post : Posts \cup {None}]
  BY DEF IInv, TypeOK, JobsFit, Check, Record
<1>2. UNCHANGED <<reactors, mirror, rows, clock, budget, seen, calm>>
  BY DEF Check, Record
<1>3. Finish(t) \/ Goto(t, "record", job[t]) \/ Goto(t, "fetch", job[t])
  BY DEF Check, Record
<1>4. /\ pc' \in [Tasks -> {"idle", "check", "record", "fetch", "lookup", "edit", "send",
                            "upsert", "unpost", "deleteRow"}]
      /\ job' \in [Tasks -> [msg : Messages \cup {None}, count : Nat, post : Posts \cup {None}]]
  BY <1>1, <1>3, GotoType, FinishType
<1>5. last' \in [Messages -> Nat]
  BY <1>1 DEF Check, Record, TypeOK
<1>6. TypeOK'
  BY <1>1, <1>2, <1>4, <1>5 DEF TypeOK
<1>7. JobsFit'
  <2>1. CASE Finish(t)
    BY <1>1, <1>2, <2>1, FinishFits
  <2>2. CASE Goto(t, "record", job[t])
    BY <1>1, <1>2, <2>2, GotoFits DEF Fits
  <2>3. CASE Goto(t, "fetch", job[t])
    BY <1>1, <1>2, <2>3, GotoFits DEF Fits
  <2> QED
    BY <1>3, <2>1, <2>2, <2>3
<1> QED
  BY <1>2, <1>6, <1>7, QuietKeeps

LEMMA FetchKeeps == ASSUME IInv, NEW t \in Tasks, Fetch(t) PROVE IInv'
<1> DEFINE m == job[t].msg
           j == [msg |-> m, count |-> Count(reactors[m]), post |-> job[t].post]
<1>1. TypeOK /\ JobsFit /\ m \in Messages /\ job[t].post \in Posts \cup {None}
  BY DEF IInv, TypeOK, JobsFit, Fetch
<1>2. Count(reactors[m]) \in Nat /\ Count(reactors[m]) \in seen[m]
  BY <1>1, CountType DEF IInv, TypeOK, SeenNow
<1>3. UNCHANGED <<reactors, mirror, rows, clock, last, seen, calm>>
  BY DEF Fetch
<1>4. Finish(t) \/ Goto(t, "lookup", j)
  <2>1. [job[t] EXCEPT !.count = Count(reactors[m])] = j
    BY <1>1 DEF TypeOK
  <2> QED
    BY <2>1 DEF Fetch
<1>5. j \in [msg : Messages \cup {None}, count : Nat, post : Posts \cup {None}]
  BY <1>1, <1>2
<1>6. /\ pc' \in [Tasks -> {"idle", "check", "record", "fetch", "lookup", "edit", "send",
                            "upsert", "unpost", "deleteRow"}]
      /\ job' \in [Tasks -> [msg : Messages \cup {None}, count : Nat, post : Posts \cup {None}]]
  <2> HIDE DEF j
  <2> QED
    BY <1>1, <1>4, <1>5, GotoType, FinishType
<1>7. TypeOK'
  BY <1>1, <1>3, <1>6, BudgetType DEF TypeOK, Fetch
<1>8. Fits("lookup", j)
  BY <1>1, <1>2, <1>3 DEF Fits
<1>9. JobsFit'
  <2> HIDE DEF j
  <2> QED
    BY <1>1, <1>3, <1>4, <1>8, GotoFits, FinishFits
<1> QED
  BY <1>3, <1>7, <1>9, QuietKeeps

LEMMA LookUpKeeps == ASSUME IInv, NEW t \in Tasks, LookUp(t) PROVE IInv'
<1>1. TypeOK /\ JobsFit /\ job[t].msg \in Messages /\ job[t].count \in seen[job[t].msg]
      /\ job[t].count \in Nat
  BY DEF IInv, TypeOK, JobsFit, LookUp
<1>2. UNCHANGED <<reactors, mirror, rows, clock, last, seen, calm>>
  BY DEF LookUp
<1>3. PICK post \in {rows[job[t].msg].post, None} :
         Goto(t, NextStep(job[t].count, post), [job[t] EXCEPT !.post = post])
  BY DEF LookUp
<1> DEFINE next == NextStep(job[t].count, post)
           j == [msg |-> job[t].msg, count |-> job[t].count, post |-> post]
<1>4. Goto(t, next, j)
  <2>1. [job[t] EXCEPT !.post = post] = j
    BY <1>1 DEF TypeOK
  <2> QED
    BY <1>3, <2>1
<1>5. post \in Posts \cup {None} /\ (post # None => post \in Posts /\ mirror[post].of = j.msg)
  BY <1>1 DEF IInv, TypeOK, RowsFit
<1>6. next \in {"idle", "edit", "send", "unpost"}
      /\ (next \in {"edit", "unpost"} => post # None)
      /\ (next \in {"edit", "send"} => job[t].count >= Threshold)
  BY DEF NextStep
<1>7. j \in [msg : Messages \cup {None}, count : Nat, post : Posts \cup {None}]
  BY <1>1, <1>5
<1>8. Fits(next, j)
  <2> HIDE DEF next
  <2> QED
    BY <1>1, <1>2, <1>5, <1>6 DEF Fits
<1> HIDE DEF next, j
<1>9. /\ pc' \in [Tasks -> {"idle", "check", "record", "fetch", "lookup", "edit", "send",
                            "upsert", "unpost", "deleteRow"}]
      /\ job' \in [Tasks -> [msg : Messages \cup {None}, count : Nat, post : Posts \cup {None}]]
  BY <1>1, <1>4, <1>6, <1>7, GotoType
<1>10. TypeOK'
  BY <1>1, <1>2, <1>9, BudgetType DEF TypeOK, LookUp
<1>11. JobsFit'
  BY <1>1, <1>2, <1>4, <1>8, GotoFits
<1> QED
  BY <1>2, <1>10, <1>11, QuietKeeps

-----------------------------------------------------------------------------
(***************************************************************************)
(* A reaction.                                                             *)
(***************************************************************************)
LEMMA ReactKeeps == ASSUME IInv, NEW t \in Tasks, React(t) PROVE IInv'
<1>1. PICK m \in Messages : \E u \in Users :
         LET now == IF u \in reactors[m] THEN reactors[m] \ {u} ELSE reactors[m] \cup {u} IN
         /\ reactors' = [reactors EXCEPT ![m] = now]
         /\ seen' = [seen EXCEPT ![m] = @ \cup {Cardinality(now \ Uncounted)}]
         /\ calm' = IF Throttled(m) \/ \E s \in Tasks : job[s].msg = m THEN calm \ {m} ELSE calm
         /\ Goto(t, "check", [NoJob EXCEPT !.msg = m])
  BY DEF React
<1>2. PICK u \in Users :
         LET now == IF u \in reactors[m] THEN reactors[m] \ {u} ELSE reactors[m] \cup {u} IN
         /\ reactors' = [reactors EXCEPT ![m] = now]
         /\ seen' = [seen EXCEPT ![m] = @ \cup {Cardinality(now \ Uncounted)}]
         /\ calm' = IF Throttled(m) \/ \E s \in Tasks : job[s].msg = m THEN calm \ {m} ELSE calm
         /\ Goto(t, "check", [NoJob EXCEPT !.msg = m])
  BY <1>1
<1> DEFINE now == IF u \in reactors[m] THEN reactors[m] \ {u} ELSE reactors[m] \cup {u}
           j == [msg |-> m, count |-> 0, post |-> None]
<1>3. TypeOK /\ JobsFit /\ now \in SUBSET Users
  BY DEF IInv, TypeOK
<1>4. /\ reactors' = [reactors EXCEPT ![m] = now]
      /\ seen' = [seen EXCEPT ![m] = @ \cup {Count(now)}]
      /\ calm' \subseteq calm
  BY <1>2 DEF Count
<1>5. Goto(t, "check", j)
  BY <1>2 DEF NoJob
<1>6. Count(now) \in Nat
  BY <1>3, CountType
<1>7. UNCHANGED <<mirror, rows, clock, last>>
      /\ budget' \in [reactions : Nat, faults : Nat]
  BY <1>3 DEF React, TypeOK
<1> HIDE DEF now
<1>8. /\ \A n \in Messages : seen[n] \subseteq seen'[n]
      /\ reactors' \in [Messages -> SUBSET Users] /\ seen' \in [Messages -> SUBSET Nat]
      /\ calm' \subseteq Messages
  BY <1>3, <1>4, <1>6 DEF TypeOK
<1>9. j \in [msg : Messages \cup {None}, count : Nat, post : Posts \cup {None}] /\ Fits("check", j)
  BY DEF Fits
<1> HIDE DEF j
<1>10. /\ pc' \in [Tasks -> {"idle", "check", "record", "fetch", "lookup", "edit", "send",
                            "upsert", "unpost", "deleteRow"}]
       /\ job' \in [Tasks -> [msg : Messages \cup {None}, count : Nat, post : Posts \cup {None}]]
  BY <1>3, <1>5, <1>9, GotoType
<1>11. TypeOK'
  BY <1>3, <1>7, <1>8, <1>10 DEF TypeOK
<1>12. JobsFit'
  BY <1>3, <1>5, <1>7, <1>8, <1>9, GotoFits
<1>13. SeenNow'
  <2>1. \A n \in Messages : reactors'[n] = IF n = m THEN now ELSE reactors[n]
    BY <1>3, <1>4 DEF TypeOK
  <2>2. Count(now) \in seen'[m]
    BY <1>3, <1>4 DEF TypeOK
  <2>3. \A n \in Messages : Count(reactors'[n]) = IF n = m THEN Count(now) ELSE Count(reactors[n])
    BY <2>1
  <2> QED
    BY <1>8, <2>1, <2>2, <2>3 DEF IInv, SeenNow, Count
<1>14. RowsFit' /\ RowsNameTheirPosts'
  BY <1>7 DEF IInv, RowsFit, RowsNameTheirPosts
<1>15. PostsWereEarned'
  BY <1>3, <1>7, <1>8 DEF IInv, PostsWereEarned, Posted, TypeOK
<1> QED
  BY <1>11, <1>12, <1>13, <1>14, <1>15 DEF IInv

-----------------------------------------------------------------------------
(***************************************************************************)
(* Steps that write a post or a row.                                       *)
(***************************************************************************)
\* What an edit, a new post or a deletion may do to the posts.
PostsKeep ==
    /\ mirror' \in [Posts -> [of : Messages \cup {None}, count : Nat, up : BOOLEAN]]
    /\ \A p \in Posts : mirror[p].of # None => mirror'[p].of = mirror[p].of
    /\ \A p \in Posts :
          mirror'[p].of # None =>
              \/ mirror[p].of = mirror'[p].of /\ mirror'[p].count = mirror[p].count
              \/ mirror'[p].count >= Threshold /\ mirror'[p].count \in seen[mirror'[p].of]

LEMMA MirrorKeeps ==
    ASSUME IInv, PostsKeep, UNCHANGED <<reactors, rows, clock, last, seen, calm>>,
           budget' \in [reactions : Nat, faults : Nat],
           pc' \in [Tasks -> {"idle", "check", "record", "fetch", "lookup", "edit", "send",
                              "upsert", "unpost", "deleteRow"}],
           job' \in [Tasks -> [msg : Messages \cup {None}, count : Nat, post : Posts \cup {None}]],
           JobsFit'
    PROVE  IInv'
<1>1. TypeOK'
  BY DEF IInv, TypeOK, PostsKeep
<1>2. RowsFit' /\ RowsNameTheirPosts'
  <2>1. ASSUME NEW m \in Messages, rows[m].post # None
        PROVE  rows[m].post \in Posts /\ mirror'[rows[m].post].of = m
    BY <2>1, StarboardConstants DEF IInv, TypeOK, RowsFit, PostsKeep
  <2>2. ASSUME NEW m \in Messages, rows[m] # NoRow PROVE rows[m].post # None
    BY <2>2 DEF IInv, RowsFit
  <2> QED
    BY <2>1, <2>2 DEF RowsFit, RowsNameTheirPosts, NoRow
<1>3. PostsWereEarned'
  BY DEF IInv, PostsKeep, PostsWereEarned, Posted
<1>4. SeenNow'
  BY DEF IInv, SeenNow, Count
<1> QED
  BY <1>1, <1>2, <1>3, <1>4 DEF IInv

LEMMA EditKeeps == ASSUME IInv, NEW t \in Tasks, Edit(t) PROVE IInv'
<1> DEFINE p == job[t].post
<1>1. /\ TypeOK /\ JobsFit /\ job[t].msg \in Messages /\ job[t].count \in Nat
      /\ job[t].count >= Threshold /\ job[t].count \in seen[job[t].msg]
      /\ p \in Posts /\ mirror[p].of = job[t].msg
      /\ job[t] \in [msg : Messages \cup {None}, count : Nat, post : Posts \cup {None}]
  BY DEF IInv, TypeOK, JobsFit, Edit
<1>2. UNCHANGED <<reactors, rows, clock, last, seen, calm>>
  BY DEF Edit
<1>3. PostsKeep
  <2>1. CASE UNCHANGED mirror
    BY <1>1, <2>1 DEF PostsKeep, TypeOK
  <2>2. CASE mirror' = [mirror EXCEPT ![p].count = IF mirror[p].up THEN job[t].count ELSE @]
    <3>1. \A q \in Posts :
             \/ mirror'[q] = mirror[q]
             \/ q = p /\ mirror'[q] = [mirror[q] EXCEPT !.count = job[t].count]
      BY <1>1, <2>2 DEF TypeOK
    <3>2. \A q \in Posts : mirror[q] \in [of : Messages \cup {None}, count : Nat, up : BOOLEAN]
      BY <1>1 DEF TypeOK
    <3>3. mirror' = [q \in Posts |-> mirror'[q]]
      BY <1>1, <2>2 DEF TypeOK
    <3> QED
      BY <1>1, <3>1, <3>2, <3>3 DEF PostsKeep
  <2> QED
    BY <2>1, <2>2 DEF Edit
<1>4. Goto(t, "upsert", job[t]) /\ Fits("upsert", job[t])
  BY <1>1, <1>2, <1>3, StarboardConstants DEF Edit, Fits, PostsKeep
<1>5. JobsFit'
  BY <1>1, <1>2, <1>3, <1>4, GotoFits DEF PostsKeep
<1>6. budget' \in [reactions : Nat, faults : Nat]
  BY <1>1, BudgetType DEF Edit
<1>7. /\ pc' \in [Tasks -> {"idle", "check", "record", "fetch", "lookup", "edit", "send",
                            "upsert", "unpost", "deleteRow"}]
      /\ job' \in [Tasks -> [msg : Messages \cup {None}, count : Nat, post : Posts \cup {None}]]
  BY <1>1, <1>4, GotoType
<1> QED
  BY <1>2, <1>3, <1>5, <1>6, <1>7, MirrorKeeps

LEMMA SendKeeps == ASSUME IInv, NEW t \in Tasks, Send(t) PROVE IInv'
<1> DEFINE p == NextPost
           m == job[t].msg
           j == [msg |-> m, count |-> job[t].count, post |-> p]
<1>1. /\ TypeOK /\ JobsFit /\ m \in Messages /\ job[t].count \in Nat
      /\ job[t].count >= Threshold /\ job[t].count \in seen[m]
  BY DEF IInv, TypeOK, JobsFit, Send
<1>2. UNCHANGED <<reactors, rows, clock, last, seen, calm>>
  BY DEF Send
<1>3. budget' \in [reactions : Nat, faults : Nat]
  BY <1>1, BudgetType DEF Send
<1>4. CASE UNCHANGED mirror /\ Finish(t)
  <2>1. PostsKeep
    BY <1>1, <1>4 DEF PostsKeep, TypeOK
  <2>2. JobsFit'
    BY <1>1, <1>2, <1>4, FinishFits
  <2> QED
    BY <1>1, <1>2, <1>3, <1>4, <2>1, <2>2, FinishType, MirrorKeeps
<1>5. CASE /\ Posts # Posted
           /\ mirror' = [mirror EXCEPT ![p] = [of |-> m, count |-> job[t].count, up |-> TRUE]]
           /\ Goto(t, "upsert", [job[t] EXCEPT !.post = p])
  <2>1. p \in Posts /\ mirror[p].of = None
    BY <1>5 DEF NextPost, Posted
  <2> HIDE DEF p
  <2>2. [job[t] EXCEPT !.post = p] = j
    BY <1>1 DEF TypeOK
  <2>3. \A q \in Posts : mirror'[q] = IF q = p THEN [of |-> m, count |-> job[t].count, up |-> TRUE]
                                      ELSE mirror[q]
    BY <1>1, <1>5, <2>1 DEF TypeOK
  <2>4. PostsKeep
    <3>1. mirror' \in [Posts -> [of : Messages \cup {None}, count : Nat, up : BOOLEAN]]
      BY <1>1, <1>5, <2>1 DEF TypeOK
    <3> QED
      BY <1>1, <2>1, <2>3, <3>1 DEF PostsKeep
  <2>5. j \in [msg : Messages \cup {None}, count : Nat, post : Posts \cup {None}]
        /\ Fits("upsert", j)
    BY <1>1, <1>2, <2>1, <2>3 DEF Fits
  <2>6. Goto(t, "upsert", j)
    BY <1>5, <2>2
  <2> HIDE DEF j
  <2>7. JobsFit'
    BY <1>1, <1>2, <2>4, <2>5, <2>6, GotoFits DEF PostsKeep
  <2>8. /\ pc' \in [Tasks -> {"idle", "check", "record", "fetch", "lookup", "edit", "send",
                              "upsert", "unpost", "deleteRow"}]
        /\ job' \in [Tasks -> [msg : Messages \cup {None}, count : Nat, post : Posts \cup {None}]]
    BY <1>1, <2>5, <2>6, GotoType
  <2> QED
    BY <1>2, <1>3, <2>4, <2>7, <2>8, MirrorKeeps
<1> QED
  BY <1>4, <1>5 DEF Send

LEMMA UnpostKeeps == ASSUME IInv, NEW t \in Tasks, Unpost(t) PROVE IInv'
<1>1. TypeOK /\ JobsFit /\ job[t].msg \in Messages
      /\ job[t] \in [msg : Messages \cup {None}, count : Nat, post : Posts \cup {None}]
  BY DEF IInv, TypeOK, JobsFit, Unpost
<1>2. UNCHANGED <<reactors, rows, clock, last, seen, calm>> /\ Goto(t, "deleteRow", job[t])
  BY DEF Unpost
<1>3. PostsKeep
  <2>1. \A q \in Posts : mirror'[q] \in {mirror[q], [mirror[q] EXCEPT !.up = FALSE]}
    BY <1>1 DEF Unpost, TypeOK
  <2>2. \A q \in Posts : mirror[q] \in [of : Messages \cup {None}, count : Nat, up : BOOLEAN]
    BY <1>1 DEF TypeOK
  <2>3. mirror' = [q \in Posts |-> mirror'[q]]
    BY <1>1 DEF Unpost, TypeOK
  <2> QED
    BY <2>1, <2>2, <2>3 DEF PostsKeep
<1>4. JobsFit'
  BY <1>1, <1>2, <1>3, GotoFits DEF Fits, PostsKeep
<1>5. budget' \in [reactions : Nat, faults : Nat]
  BY <1>1, BudgetType DEF Unpost
<1>6. /\ pc' \in [Tasks -> {"idle", "check", "record", "fetch", "lookup", "edit", "send",
                            "upsert", "unpost", "deleteRow"}]
      /\ job' \in [Tasks -> [msg : Messages \cup {None}, count : Nat, post : Posts \cup {None}]]
  BY <1>1, <1>2, GotoType
<1> QED
  BY <1>2, <1>3, <1>4, <1>5, <1>6, MirrorKeeps

LEMMA RowKeeps == ASSUME IInv, NEW t \in Tasks, Upsert(t) \/ DeleteRow(t) PROVE IInv'
<1>1. TypeOK /\ JobsFit /\ job[t].msg \in Messages /\ job[t].count \in Nat
  BY DEF IInv, TypeOK, JobsFit, Upsert, DeleteRow
<1>2. UNCHANGED <<reactors, mirror, clock, last, seen, calm>> /\ Finish(t)
  BY DEF Upsert, DeleteRow
<1>3. \A m \in Messages :
         \/ rows'[m] = rows[m] \/ rows'[m] = NoRow
         \/ /\ pc[t] = "upsert" /\ m = job[t].msg
            /\ rows'[m] = [post |-> job[t].post, count |-> job[t].count]
  BY <1>1 DEF Upsert, DeleteRow, TypeOK
<1>4. pc[t] = "upsert" => job[t].post \in Posts /\ mirror[job[t].post].of = job[t].msg
  BY <1>1 DEF JobsFit
<1>5. rows' \in [Messages -> [post : Posts \cup {None}, count : Nat]]
  <2>1. job[t].post \in Posts \cup {None} /\ NoRow \in [post : Posts \cup {None}, count : Nat]
    BY <1>1 DEF TypeOK, NoRow
  <2> QED
    BY <1>1, <2>1 DEF Upsert, DeleteRow, TypeOK
<1>6. TypeOK'
  BY <1>1, <1>2, <1>5, FinishType, BudgetType DEF TypeOK, Upsert, DeleteRow
<1>7. JobsFit'
  BY <1>1, <1>2, FinishFits
<1>8. RowsFit'
  BY <1>2, <1>3, <1>4, StarboardConstants DEF IInv, RowsFit, NoRow
<1>9. RowsNameTheirPosts'
  BY <1>8 DEF RowsFit, RowsNameTheirPosts
<1>10. PostsWereEarned' /\ SeenNow'
  BY <1>2 DEF IInv, PostsWereEarned, Posted, SeenNow, Count
<1> QED
  BY <1>6, <1>7, <1>8, <1>9, <1>10 DEF IInv

LEMMA InvariantStep == IInv /\ [Next]_vars => IInv'
<1> SUFFICES ASSUME IInv, [Next]_vars PROVE IInv'
  OBVIOUS
<1>1. CASE \E t \in Tasks : React(t) \/ TaskStep(t)
  BY <1>1, ReactKeeps, LimiterKeeps, FetchKeeps, LookUpKeeps, EditKeeps, SendKeeps, RowKeeps,
     UnpostKeeps DEF TaskStep
<1>2. CASE Tick \/ Crash
  <2>1. TypeOK'
    BY <1>2 DEF Tick, Crash, Fault, IInv, TypeOK, NoJob
  <2>2. JobsFit'
    BY <1>2 DEF Tick, Crash, IInv, JobsFit
  <2>3. UNCHANGED <<reactors, mirror, rows, seen>>
    BY <1>2 DEF Tick, Crash
  <2> QED
    BY <2>1, <2>2, <2>3, QuietKeeps
<1>3. CASE UNCHANGED vars
  BY <1>3 DEF vars, IInv, TypeOK, JobsFit, RowsFit, RowsNameTheirPosts, PostsWereEarned, Posted,
     SeenNow, Count
<1> QED
  BY <1>1, <1>2, <1>3 DEF Next

\* Every variable keeps its type, whatever fails.
THEOREM TypeCorrect == Spec => []TypeOK
<1>1. IInv => TypeOK
  BY DEF IInv
<1> QED
  BY <1>1, InvariantInit, InvariantStep, PTL DEF Spec

\* However recounts interleave, a row names a post of its own message.
THEOREM RowsOwnTheirPosts == Spec => []RowsNameTheirPosts
<1>1. IInv => RowsNameTheirPosts
  BY DEF IInv
<1> QED
  BY <1>1, InvariantInit, InvariantStep, PTL DEF Spec

\* A post shows a count its message had, and one that was enough.
THEOREM PostsEarned == Spec => []PostsWereEarned
<1>1. IInv => PostsWereEarned
  BY DEF IInv
<1> QED
  BY <1>1, InvariantInit, InvariantStep, PTL DEF Spec
-----------------------------------------------------------------------------
(***************************************************************************)
(* In step when all is quiet.  As long as nothing fails, a calm message is *)
(* shown as it is, or one task alone is bringing the starboard up to date  *)
(* and has come as far as its pc says.                                     *)
(***************************************************************************)

\* The row and the posts of a message agree, whatever the count says.
Paired(m) ==
    \/ rows[m] = NoRow /\ Mirrors(m) = {}
    \/ rows[m].post \in Posts /\ Mirrors(m) = {rows[m].post}

\* How far task t has brought its message m, whose reactions do not change meanwhile.
Halfway(t, m) ==
    LET count == Count(reactors[m]) IN
    /\ pc[t] \in {"check", "record", "fetch", "lookup"} => Paired(m)
    /\ pc[t] = "check" => ~Throttled(m)
    /\ pc[t] \in {"lookup", "send", "edit", "upsert"} => job[t].count = count
    /\ pc[t] \in {"send", "edit", "upsert"} => count >= Threshold
    /\ pc[t] \in {"unpost", "deleteRow"} => count < Threshold
    /\ pc[t] = "send" => rows[m] = NoRow /\ Mirrors(m) = {}
    /\ pc[t] \in {"edit", "upsert", "unpost"} => Mirrors(m) = {job[t].post}
    /\ pc[t] \in {"edit", "unpost"} => rows[m].post = job[t].post
    /\ pc[t] = "upsert" => mirror[job[t].post].count = count
    /\ pc[t] = "deleteRow" => Mirrors(m) = {}

\* A calm message is shown, or one task alone is about to show it.
Tended(m) ==
    /\ (\A t \in Tasks : job[t].msg # m) => Shows(m)
    /\ \A t \in Tasks : job[t].msg = m =>
          /\ pc[t] # "idle"
          /\ Halfway(t, m)
          /\ \A s \in Tasks : job[s].msg = m => s = t
CalmTended == NothingFailed => \A m \in calm : Tended(m)

FaultsSpent == budget.faults <= MaxFaults

QuietInv == IInv /\ FaultsSpent /\ CalmTended

LEMMA QuietInit == Init => QuietInv
<1> SUFFICES ASSUME Init PROVE QuietInv
  OBVIOUS
<1>1. Cardinality({} \ Uncounted) = 0
  <2>1. {} \ Uncounted = {}
    OBVIOUS
  <2> QED
    BY <2>1, FS_EmptySet
<1>2. ASSUME NEW m \in Messages PROVE Tended(m)
  <2>1. \A t \in Tasks : job[t].msg # m
    BY StarboardConstants DEF Init, NoJob
  <2>2. Mirrors(m) = {}
    BY DEF Init, Mirrors, NotPosted
  <2>3. reactors[m] = {} /\ rows[m] = NoRow
    BY DEF Init
  <2>4. ~(0 >= Threshold)
    BY StarboardConstants
  <2>5. Shows(m)
    BY <1>1, <2>2, <2>3, <2>4 DEF Shows
  <2> QED
    BY <2>1, <2>5 DEF Tended
<1>3. FaultsSpent
  BY StarboardConstants DEF Init, FaultsSpent
<1> QED
  BY <1>2, <1>3, InvariantInit DEF QuietInv, CalmTended, Init

\* A step that has nothing to do with message m.
Undisturbed(m) ==
    /\ reactors'[m] = reactors[m] /\ rows'[m] = rows[m]
    /\ Throttled(m)' => Throttled(m)
    /\ \A p \in Posts : mirror'[p] = mirror[p] \/ (mirror[p].of # m /\ mirror'[p].of # m)

LEMMA MirrorsStay ==
    ASSUME NEW m \in Messages, Undisturbed(m)
    PROVE  /\ Mirrors(m)' = Mirrors(m)
           /\ \A p \in Mirrors(m) : mirror'[p] = mirror[p]
  BY DEF Undisturbed, Mirrors

LEMMA ShowsStays ==
    ASSUME NEW m \in Messages, Undisturbed(m), Shows(m)
    PROVE  Shows(m)'
<1>1. /\ Mirrors(m)' = Mirrors(m)
      /\ \A p \in Mirrors(m) : mirror'[p] = mirror[p]
  BY MirrorsStay
<1>2. reactors'[m] = reactors[m] /\ rows'[m] = rows[m]
  BY DEF Undisturbed
<1>3. CASE Cardinality(reactors[m] \ Uncounted) >= Threshold
  <2>1. PICK p \in Posts : /\ Mirrors(m) = {p}
                           /\ mirror[p].count = Cardinality(reactors[m] \ Uncounted)
                           /\ rows[m] = [post |-> p,
                                         count |-> Cardinality(reactors[m] \ Uncounted)]
    BY <1>3 DEF Shows
  <2>2. mirror'[p] = mirror[p] /\ Mirrors(m)' = {p}
    BY <1>1, <2>1
  <2> QED
    BY <1>2, <1>3, <2>1, <2>2 DEF Shows
<1>4. CASE ~(Cardinality(reactors[m] \ Uncounted) >= Threshold)
  BY <1>1, <1>2, <1>4 DEF Shows
<1> QED
  BY <1>3, <1>4

LEMMA HalfwayStays ==
    ASSUME NEW m \in Messages, Undisturbed(m), NEW t \in Tasks, Halfway(t, m),
           pc'[t] = pc[t], job'[t] = job[t]
    PROVE  Halfway(t, m)'
<1>1. /\ Mirrors(m)' = Mirrors(m)
      /\ \A p \in Mirrors(m) : mirror'[p] = mirror[p]
  BY MirrorsStay
<1>2. /\ reactors'[m] = reactors[m] /\ rows'[m] = rows[m]
      /\ Throttled(m)' => Throttled(m)
  BY DEF Undisturbed
<1>3. Paired(m) => Paired(m)'
  BY <1>1, <1>2 DEF Paired
<1>4. Count(reactors[m])' = Count(reactors[m])
  BY <1>2 DEF Count
<1>5. pc[t] = "upsert" => mirror'[job[t].post] = mirror[job[t].post]
  BY <1>1 DEF Halfway
<1>6. PICK count : count = Count(reactors[m])
  OBVIOUS
<1> QED
  BY <1>1, <1>2, <1>3, <1>4, <1>5, <1>6 DEF Halfway

LEMMA GotoAt ==
    ASSUME TypeOK, NEW t \in Tasks, NEW next, NEW j, Goto(t, next, j)
    PROVE  /\ pc'[t] = next /\ job'[t] = IF next = "idle" THEN NoJob ELSE j
           /\ \A s \in Tasks \ {t} : pc'[s] = pc[s] /\ job'[s] = job[s]
  BY DEF Goto, TypeOK

\* Other messages are tended as before.
LEMMA OthersTended ==
    ASSUME NEW m \in Messages, Undisturbed(m), Tended(m), NEW t \in Tasks,
           job[t].msg # m, job'[t].msg # m,
           \A s \in Tasks \ {t} : pc'[s] = pc[s] /\ job'[s] = job[s]
    PROVE  Tended(m)'
<1>1. \A s \in Tasks : job'[s].msg = m => /\ s # t /\ pc'[s] = pc[s] /\ job'[s] = job[s]
                                          /\ job[s].msg = m
  OBVIOUS
<1>2. \A s \in Tasks : job[s].msg = m => /\ s # t /\ job'[s].msg = m
  OBVIOUS
<1>3. (\A s \in Tasks : job'[s].msg # m) => Shows(m)'
  BY <1>2, ShowsStays DEF Tended
<1>4. ASSUME NEW s \in Tasks, job'[s].msg = m
      PROVE  /\ pc'[s] # "idle" /\ Halfway(s, m)'
             /\ \A r \in Tasks : job'[r].msg = m => r = s
  BY <1>1, <1>4, HalfwayStays DEF Tended
<1> QED
  BY <1>3, <1>4 DEF Tended

\* A task goes on with its message, or leaves it shown.
LEMMA StepTends ==
    ASSUME TypeOK, NEW t \in Tasks, NEW next, NEW j, Goto(t, next, j),
           pc[t] # "idle", job[t].msg \in Messages, next # "idle" => j.msg = job[t].msg,
           \A m \in Messages : m # job[t].msg => Undisturbed(m),
           \A m \in calm : Tended(m), UNCHANGED calm,
           \A m \in calm : job[t].msg = m /\ Halfway(t, m) =>
               IF next = "idle" THEN Shows(m)' ELSE Halfway(t, m)'
    PROVE  \A m \in calm' : Tended(m)'
<1> SUFFICES ASSUME NEW m \in calm PROVE Tended(m)'
  OBVIOUS
<1>1. m \in Messages /\ Tended(m) /\ NoJob.msg = None /\ m # None
  BY StarboardConstants DEF TypeOK, NoJob
<1>2. /\ pc'[t] = next /\ job'[t] = IF next = "idle" THEN NoJob ELSE j
      /\ \A s \in Tasks \ {t} : pc'[s] = pc[s] /\ job'[s] = job[s]
  BY GotoAt
<1>3. CASE job[t].msg # m
  <2>1. job'[t].msg # m
    BY <1>1, <1>2, <1>3
  <2> QED
    BY <1>1, <1>2, <1>3, <2>1, OthersTended
<1>4. CASE job[t].msg = m
  <2>1. Halfway(t, m) /\ \A s \in Tasks : job[s].msg = m => s = t
    BY <1>1, <1>4 DEF Tended
  <2>2. \A s \in Tasks : job'[s].msg = m => s = t
    BY <1>2, <2>1
  <2>3. CASE next = "idle"
    <3>1. \A s \in Tasks : job'[s].msg # m
      BY <1>1, <1>2, <2>2, <2>3
    <3>2. Shows(m)'
      BY <1>4, <2>1, <2>3
    <3> QED
      BY <3>1, <3>2 DEF Tended
  <2>4. CASE next # "idle"
    <3>1. job'[t].msg = m /\ pc'[t] # "idle" /\ Halfway(t, m)'
      BY <1>2, <1>4, <2>1, <2>4
    <3> QED
      BY <2>2, <3>1 DEF Tended
  <2> QED
    BY <2>3, <2>4
<1> QED
  BY <1>3, <1>4

-----------------------------------------------------------------------------
(***************************************************************************)
(* Each step of a task, while nothing has failed.                          *)
(***************************************************************************)
\* What is known of a task at work, and what its step does not concern.
LEMMA AtWork ==
    ASSUME QuietInv, NothingFailed, NEW t \in Tasks, TaskStep(t)
    PROVE  /\ TypeOK /\ JobsFit /\ RowsFit /\ pc[t] # "idle" /\ job[t].msg \in Messages
           /\ \A m \in calm : Tended(m)
           /\ job[t] = [msg |-> job[t].msg, count |-> job[t].count, post |-> job[t].post]
  BY DEF QuietInv, IInv, CalmTended, TypeOK, JobsFit, TaskStep, Check, Record, Fetch, LookUp,
         Edit, Send, Upsert, Unpost, DeleteRow

\* A failing call is the end of the calm.
LEMMA FaultShows == ASSUME QuietInv, NothingFailed, Fault PROVE ~NothingFailed'
  BY StarboardConstants DEF QuietInv, IInv, TypeOK, NothingFailed, Fault

LEMMA CheckTends ==
    ASSUME QuietInv, NothingFailed, NEW t \in Tasks, Check(t)
    PROVE  \A m \in calm' : Tended(m)'
<1>1. /\ TypeOK /\ JobsFit /\ RowsFit /\ pc[t] # "idle" /\ job[t].msg \in Messages
      /\ \A m \in calm : Tended(m)
  BY AtWork DEF TaskStep
<1>2. \A m \in Messages : Undisturbed(m)
  BY DEF Check, Undisturbed, Throttled
<1>3. UNCHANGED calm /\ pc[t] = "check"
  BY DEF Check
<1>4. ASSUME NEW m \in calm, job[t].msg = m, Halfway(t, m), Goto(t, "record", job[t])
      PROVE  Halfway(t, m)'
  <2>1. m \in Messages /\ pc'[t] = "record"
    BY <1>1, <1>4, GotoAt DEF TypeOK
  <2>2. Mirrors(m)' = Mirrors(m) /\ rows'[m] = rows[m]
    BY <1>2, <2>1, MirrorsStay DEF Undisturbed
  <2> QED
    BY <1>3, <1>4, <2>1, <2>2 DEF Halfway, Paired
<1>5. CASE Throttled(job[t].msg)
  <2>1. Goto(t, "idle", NoJob)
    BY <1>5 DEF Check, Finish
  <2>2. ASSUME NEW m \in calm, job[t].msg = m, Halfway(t, m) PROVE FALSE
    BY <1>3, <1>5, <2>2 DEF Halfway
  <2> QED
    BY <1>1, <1>2, <1>3, <2>1, <2>2, StepTends
<1>6. CASE ~Throttled(job[t].msg)
  <2>1. Goto(t, "record", job[t])
    BY <1>6 DEF Check
  <2> QED
    BY <1>1, <1>2, <1>3, <1>4, <2>1, StepTends
<1> QED
  BY <1>5, <1>6

LEMMA RecordTends ==
    ASSUME QuietInv, NothingFailed, NEW t \in Tasks, Record(t)
    PROVE  \A m \in calm' : Tended(m)'
<1>1. /\ TypeOK /\ JobsFit /\ RowsFit /\ pc[t] # "idle" /\ job[t].msg \in Messages
      /\ \A m \in calm : Tended(m)
  BY AtWork DEF TaskStep
<1>2. ASSUME NEW m \in Messages, m # job[t].msg PROVE Undisturbed(m)
  <2>1. last'[m] = last[m] \/ last'[m] = 0
    BY <1>2 DEF Record
  <2> QED
    BY <2>1 DEF Record, Undisturbed, Throttled
<1>3. UNCHANGED <<calm, rows, mirror, reactors>> /\ pc[t] = "record" /\ Goto(t, "fetch", job[t])
  BY DEF Record
<1>4. ASSUME NEW m \in calm, job[t].msg = m, Halfway(t, m) PROVE Halfway(t, m)'
  <2>1. m \in Messages /\ pc'[t] = "fetch"
    BY <1>1, <1>3, <1>4, GotoAt DEF TypeOK
  <2>2. Paired(m)'
    BY <1>3, <1>4 DEF Halfway, Paired, Mirrors
  <2> QED
    BY <2>1, <2>2 DEF Halfway
<1> QED
  BY <1>1, <1>2, <1>3, <1>4, StepTends

LEMMA FetchTends ==
    ASSUME QuietInv, NothingFailed, NothingFailed', NEW t \in Tasks, Fetch(t)
    PROVE  \A m \in calm' : Tended(m)'
<1> DEFINE j == [job[t] EXCEPT !.count = Count(reactors[job[t].msg])]
<1>1. /\ TypeOK /\ JobsFit /\ RowsFit /\ pc[t] # "idle" /\ job[t].msg \in Messages
      /\ \A m \in calm : Tended(m)
      /\ job[t] = [msg |-> job[t].msg, count |-> job[t].count, post |-> job[t].post]
  BY AtWork DEF TaskStep
<1>2. \A m \in Messages : Undisturbed(m)
  BY DEF Fetch, Undisturbed, Throttled
<1>3. UNCHANGED <<calm, rows, mirror, reactors>> /\ pc[t] = "fetch" /\ Goto(t, "lookup", j)
  BY FaultShows DEF Fetch
<1>4. j.msg = job[t].msg /\ j.count = Count(reactors[job[t].msg])
  BY <1>1
<1> HIDE DEF j
<1>5. ASSUME NEW m \in calm, job[t].msg = m, Halfway(t, m) PROVE Halfway(t, m)'
  <2>1. m \in Messages /\ pc'[t] = "lookup" /\ job'[t] = j
    BY <1>1, <1>3, <1>5, GotoAt DEF TypeOK
  <2>2. Paired(m)'
    BY <1>3, <1>5 DEF Halfway, Paired, Mirrors
  <2>3. Count(reactors[m])' = j.count
    BY <1>3, <1>4, <1>5 DEF Count
  <2> QED
    BY <2>1, <2>2, <2>3 DEF Halfway
<1> QED
  BY <1>1, <1>2, <1>3, <1>4, <1>5, StepTends

LEMMA LookUpTends ==
    ASSUME QuietInv, NothingFailed, NothingFailed', NEW t \in Tasks, LookUp(t)
    PROVE  \A m \in calm' : Tended(m)'
<1> DEFINE post == rows[job[t].msg].post
           next == NextStep(job[t].count, post)
           j == [job[t] EXCEPT !.post = post]
<1>1. /\ TypeOK /\ JobsFit /\ RowsFit /\ pc[t] # "idle" /\ job[t].msg \in Messages
      /\ \A m \in calm : Tended(m)
      /\ job[t] = [msg |-> job[t].msg, count |-> job[t].count, post |-> job[t].post]
  BY AtWork DEF TaskStep
<1>2. \A m \in Messages : Undisturbed(m)
  BY DEF LookUp, Undisturbed, Throttled
<1>3. UNCHANGED <<calm, rows, mirror, reactors>> /\ pc[t] = "lookup" /\ Goto(t, next, j)
  BY FaultShows DEF LookUp
<1>4. j.msg = job[t].msg /\ j.count = job[t].count /\ j.post = post
  BY <1>1
<1>5. /\ next = "send" <=> job[t].count >= Threshold /\ post = None
      /\ next = "edit" <=> job[t].count >= Threshold /\ post # None
      /\ next = "idle" <=> ~(job[t].count >= Threshold) /\ post = None
      /\ next = "unpost" <=> ~(job[t].count >= Threshold) /\ post # None
      /\ next \in {"send", "edit", "idle", "unpost"}
  BY DEF NextStep
<1> HIDE DEF next, j
<1>6. ASSUME NEW m \in calm, job[t].msg = m, Halfway(t, m)
      PROVE  IF next = "idle" THEN Shows(m)' ELSE Halfway(t, m)'
  <2>1. m \in Messages /\ pc'[t] = next /\ (next # "idle" => job'[t] = j)
    BY <1>1, <1>3, <1>6, GotoAt DEF TypeOK
  <2>2. /\ Mirrors(m)' = Mirrors(m) /\ rows'[m] = rows[m] /\ reactors'[m] = reactors[m]
        /\ Count(reactors[m])' = Count(reactors[m])
    BY <1>3 DEF Mirrors, Count
  <2>3. job[t].count = Count(reactors[m]) /\ Paired(m) /\ post = rows[m].post
    BY <1>3, <1>6 DEF Halfway
  <2>4. Count(reactors[m]) \in Nat /\ Threshold \in Nat /\ None \notin Posts
    BY <2>1, <2>3, StarboardConstants, CountType, <1>1 DEF TypeOK
  <2>5. post = None => rows[m] = NoRow /\ Mirrors(m) = {}
    BY <2>3, <2>4 DEF Paired
  <2>6. post # None => Mirrors(m) = {post}
    BY <2>3 DEF Paired, NoRow
  <2>7. CASE next = "idle"
    <3>1. rows'[m] = NoRow /\ Mirrors(m)' = {} /\ ~(Count(reactors[m]) >= Threshold)
      BY <1>5, <2>2, <2>3, <2>5, <2>7
    <3> QED
      BY <2>2, <2>7, <3>1 DEF Shows, Count
  <2>8. CASE next = "send"
    BY <1>4, <1>5, <2>1, <2>2, <2>3, <2>5, <2>8 DEF Halfway
  <2>9. CASE next = "edit"
    BY <1>4, <1>5, <2>1, <2>2, <2>3, <2>6, <2>9 DEF Halfway
  <2>10. CASE next = "unpost"
    BY <1>4, <1>5, <2>1, <2>2, <2>3, <2>4, <2>6, <2>10 DEF Halfway
  <2> QED
    BY <1>5, <2>7, <2>8, <2>9, <2>10
<1> QED
  BY <1>1, <1>2, <1>3, <1>4, <1>6, StepTends

LEMMA EditTends ==
    ASSUME QuietInv, NothingFailed, NothingFailed', NEW t \in Tasks, Edit(t)
    PROVE  \A m \in calm' : Tended(m)'
<1> DEFINE p == job[t].post
<1>1. /\ TypeOK /\ JobsFit /\ RowsFit /\ pc[t] # "idle" /\ job[t].msg \in Messages
      /\ \A m \in calm : Tended(m)
  BY AtWork DEF TaskStep
<1>2. UNCHANGED <<calm, rows, reactors, last, clock>> /\ pc[t] = "edit"
      /\ Goto(t, "upsert", job[t])
      /\ mirror' = [mirror EXCEPT ![p].count = IF mirror[p].up THEN job[t].count ELSE @]
  BY FaultShows DEF Edit
<1>3. p \in Posts /\ mirror[p].of = job[t].msg
  BY <1>1, <1>2 DEF JobsFit
<1>4. /\ \A q \in Posts : mirror'[q].of = mirror[q].of /\ mirror'[q].up = mirror[q].up
      /\ \A q \in Posts : q # p => mirror'[q] = mirror[q]
      /\ mirror[p].up => mirror'[p].count = job[t].count
  BY <1>1, <1>2, <1>3 DEF TypeOK
<1>5. ASSUME NEW m \in Messages, m # job[t].msg PROVE Undisturbed(m)
  BY <1>2, <1>3, <1>4, <1>5 DEF Undisturbed, Throttled
<1>6. ASSUME NEW m \in calm, job[t].msg = m, Halfway(t, m) PROVE Halfway(t, m)'
  <2>1. m \in Messages /\ pc'[t] = "upsert" /\ job'[t] = job[t]
    BY <1>1, <1>2, <1>6, GotoAt DEF TypeOK
  <2>2. Mirrors(m)' = Mirrors(m)
    BY <1>4 DEF Mirrors
  <2>3. /\ Mirrors(m) = {p} /\ job[t].count = Count(reactors[m])
        /\ Count(reactors[m]) >= Threshold
    BY <1>2, <1>6 DEF Halfway
  <2>4. mirror'[p].count = Count(reactors[m])
    BY <1>3, <1>4, <2>3 DEF Mirrors
  <2>5. Count(reactors[m])' = Count(reactors[m])
    BY <1>2 DEF Count
  <2> QED
    BY <2>1, <2>2, <2>3, <2>4, <2>5 DEF Halfway
<1> QED
  BY <1>1, <1>2, <1>5, <1>6, StepTends

LEMMA SendTends ==
    ASSUME QuietInv, NothingFailed, NothingFailed', NEW t \in Tasks, Send(t)
    PROVE  \A m \in calm' : Tended(m)'
<1> DEFINE p == NextPost
           j == [job[t] EXCEPT !.post = p]
           new == [of |-> job[t].msg, count |-> job[t].count, up |-> TRUE]
<1>1. /\ TypeOK /\ JobsFit /\ RowsFit /\ pc[t] # "idle" /\ job[t].msg \in Messages
      /\ \A m \in calm : Tended(m)
      /\ job[t] = [msg |-> job[t].msg, count |-> job[t].count, post |-> job[t].post]
  BY AtWork DEF TaskStep
<1>2. UNCHANGED <<calm, rows, reactors, last, clock>> /\ pc[t] = "send" /\ Posts # Posted
      /\ Goto(t, "upsert", j)
      /\ mirror' = [mirror EXCEPT ![p] = new]
  BY FaultShows DEF Send
<1>3. p \in Posts /\ mirror[p].of = None
  BY <1>2 DEF NextPost, Posted
<1>4. j.msg = job[t].msg /\ j.count = job[t].count /\ j.post = p
      /\ new.of = job[t].msg /\ new.count = job[t].count /\ new.up
  BY <1>1
<1> HIDE DEF p, j, new
<1>5. \A q \in Posts : mirror'[q] = IF q = p THEN new ELSE mirror[q]
  BY <1>1, <1>2, <1>3 DEF TypeOK
<1>6. ASSUME NEW m \in Messages, m # job[t].msg PROVE Undisturbed(m)
  BY <1>2, <1>3, <1>4, <1>5, <1>6, StarboardConstants DEF Undisturbed, Throttled
<1>7. ASSUME NEW m \in calm, job[t].msg = m, Halfway(t, m) PROVE Halfway(t, m)'
  <2>1. m \in Messages /\ pc'[t] = "upsert" /\ job'[t] = j
    BY <1>1, <1>2, <1>7, GotoAt DEF TypeOK
  <2>2. /\ Mirrors(m) = {} /\ job[t].count = Count(reactors[m])
        /\ Count(reactors[m]) >= Threshold
    BY <1>2, <1>7 DEF Halfway
  <2>3. Mirrors(m)' = {p}
    BY <1>3, <1>4, <1>5, <1>7, <2>2 DEF Mirrors
  <2>4. mirror'[p].count = Count(reactors[m])
    BY <1>3, <1>4, <1>5, <2>2
  <2>5. Count(reactors[m])' = Count(reactors[m])
    BY <1>2 DEF Count
  <2> QED
    BY <1>4, <2>1, <2>2, <2>3, <2>4, <2>5 DEF Halfway
<1> QED
  BY <1>1, <1>2, <1>4, <1>6, <1>7, StepTends

LEMMA UnpostTends ==
    ASSUME QuietInv, NothingFailed, NothingFailed', NEW t \in Tasks, Unpost(t)
    PROVE  \A m \in calm' : Tended(m)'
<1> DEFINE p == job[t].post
<1>1. /\ TypeOK /\ JobsFit /\ RowsFit /\ pc[t] # "idle" /\ job[t].msg \in Messages
      /\ \A m \in calm : Tended(m)
  BY AtWork DEF TaskStep
<1>2. UNCHANGED <<calm, rows, reactors, last, clock>> /\ pc[t] = "unpost"
      /\ Goto(t, "deleteRow", job[t])
      /\ mirror' = [mirror EXCEPT ![p].up = FALSE]
  BY FaultShows DEF Unpost
<1>3. p \in Posts /\ mirror[p].of = job[t].msg
  BY <1>1, <1>2 DEF JobsFit
<1>4. /\ \A q \in Posts : q # p => mirror'[q] = mirror[q]
      /\ mirror'[p].of = mirror[p].of /\ ~mirror'[p].up
  BY <1>1, <1>2, <1>3 DEF TypeOK
<1>5. ASSUME NEW m \in Messages, m # job[t].msg PROVE Undisturbed(m)
  BY <1>2, <1>3, <1>4, <1>5 DEF Undisturbed, Throttled
<1>6. ASSUME NEW m \in calm, job[t].msg = m, Halfway(t, m) PROVE Halfway(t, m)'
  <2>1. m \in Messages /\ pc'[t] = "deleteRow" /\ job'[t] = job[t]
    BY <1>1, <1>2, <1>6, GotoAt DEF TypeOK
  <2>2. Mirrors(m) = {p} /\ Count(reactors[m]) < Threshold
    BY <1>2, <1>6 DEF Halfway
  <2>3. Mirrors(m)' = {}
    BY <1>3, <1>4, <2>2 DEF Mirrors
  <2>4. Count(reactors[m])' = Count(reactors[m])
    BY <1>2 DEF Count
  <2> QED
    BY <2>1, <2>2, <2>3, <2>4 DEF Halfway
<1> QED
  BY <1>1, <1>2, <1>5, <1>6, StepTends

LEMMA RowTends ==
    ASSUME QuietInv, NothingFailed, NothingFailed', NEW t \in Tasks, Upsert(t) \/ DeleteRow(t)
    PROVE  \A m \in calm' : Tended(m)'
<1> DEFINE row == IF pc[t] = "upsert" THEN [post |-> job[t].post, count |-> job[t].count]
                  ELSE NoRow
<1>1. /\ TypeOK /\ JobsFit /\ RowsFit /\ pc[t] # "idle" /\ job[t].msg \in Messages
      /\ \A m \in calm : Tended(m)
  BY AtWork DEF TaskStep
<1>2. UNCHANGED <<calm, mirror, reactors, last, clock>> /\ pc[t] \in {"upsert", "deleteRow"}
      /\ Goto(t, "idle", NoJob) /\ rows' = [rows EXCEPT ![job[t].msg] = row]
  BY FaultShows DEF Upsert, DeleteRow, Finish
<1> HIDE DEF row
<1>3. \A m \in Messages : rows'[m] = IF m = job[t].msg THEN row ELSE rows[m]
  BY <1>1, <1>2 DEF TypeOK
<1>4. ASSUME NEW m \in Messages, m # job[t].msg PROVE Undisturbed(m)
  BY <1>2, <1>3, <1>4 DEF Undisturbed, Throttled
<1>5. ASSUME NEW m \in calm, job[t].msg = m, Halfway(t, m) PROVE Shows(m)'
  <2>1. m \in Messages /\ rows'[m] = row /\ Mirrors(m)' = Mirrors(m)
        /\ reactors'[m] = reactors[m]
    BY <1>1, <1>2, <1>3, <1>5 DEF TypeOK, Mirrors
  <2>2. PICK count : count = Count(reactors[m])
    OBVIOUS
  <2>3. CASE pc[t] = "upsert"
    <3>1. /\ job[t].count = count /\ count >= Threshold /\ Mirrors(m) = {job[t].post}
          /\ mirror[job[t].post].count = count
      BY <1>5, <2>2, <2>3 DEF Halfway
    <3>2. job[t].post \in Posts /\ row = [post |-> job[t].post, count |-> count]
      BY <1>1, <2>3, <3>1 DEF JobsFit, row
    <3> QED
      BY <1>2, <2>1, <2>2, <3>1, <3>2 DEF Shows, Count
  <2>4. CASE pc[t] = "deleteRow"
    <3>1. count < Threshold /\ Mirrors(m) = {} /\ row = NoRow
      BY <1>5, <2>2, <2>4 DEF Halfway, row
    <3>2. count \in Nat /\ Threshold \in Nat
      BY <1>1, <2>1, <2>2, CountType, StarboardConstants DEF TypeOK
    <3>3. ~(count >= Threshold)
      BY <3>1, <3>2
    <3> QED
      BY <2>1, <2>2, <3>1, <3>3 DEF Shows, Count
  <2> QED
    BY <1>2, <2>3, <2>4
<1> QED
  BY <1>1, <1>2, <1>4, <1>5, StepTends

\* A reaction that leaves its message calm finds it shown, and its recount due.
LEMMA ReactTends ==
    ASSUME QuietInv, NothingFailed, NEW t \in Tasks, React(t)
    PROVE  \A m \in calm' : Tended(m)'
<1>1. PICK m \in Messages :
         /\ \A n \in Messages : n # m => reactors'[n] = reactors[n]
         /\ calm' = IF Throttled(m) \/ \E s \in Tasks : job[s].msg = m THEN calm \ {m} ELSE calm
         /\ Goto(t, "check", [NoJob EXCEPT !.msg = m])
  BY DEF React, QuietInv, IInv, TypeOK
<1>2. /\ TypeOK /\ \A n \in calm : Tended(n)
      /\ UNCHANGED <<mirror, rows, clock, last>> /\ pc[t] = "idle"
  BY DEF React, QuietInv, IInv, CalmTended
<1>3. PICK j : Goto(t, "check", j) /\ j.msg = m
  BY <1>1 DEF NoJob
<1>4. /\ pc'[t] = "check" /\ job'[t].msg = m
      /\ \A s \in Tasks \ {t} : pc'[s] = pc[s] /\ job'[s] = job[s]
  BY <1>2, <1>3, GotoAt
<1>5. ASSUME NEW n \in calm', n # m PROVE Tended(n)'
  <2>1. n \in calm /\ n \in Messages /\ Tended(n)
    BY <1>1, <1>2, <1>5 DEF TypeOK
  <2>2. Undisturbed(n)
    BY <1>1, <1>2, <1>5, <2>1 DEF Undisturbed, Throttled
  <2>3. job[t].msg # n /\ job'[t].msg # n
    BY <1>2, <1>4, <1>5, <2>1 DEF Tended
  <2> QED
    BY <1>4, <2>1, <2>2, <2>3, OthersTended
<1>6. ASSUME m \in calm' PROVE Tended(m)'
  <2>1. m \in calm /\ ~Throttled(m) /\ \A s \in Tasks : job[s].msg # m
    BY <1>1, <1>6
  <2>2. Shows(m)
    BY <1>2, <2>1 DEF Tended
  <2>3. \A s \in Tasks : job'[s].msg = m => s = t
    BY <1>4, <2>1
  <2>4. Paired(m)
    <3>1. CASE Cardinality(reactors[m] \ Uncounted) >= Threshold
      <4>1. PICK p, count : p \in Posts /\ Mirrors(m) = {p} /\ rows[m] = [post |-> p, count |-> count]
        BY <2>2, <3>1 DEF Shows
      <4> QED
        BY <4>1 DEF Paired
    <3>2. CASE ~(Cardinality(reactors[m] \ Uncounted) >= Threshold)
      BY <2>2, <3>2 DEF Shows, Paired
    <3> QED
      BY <3>1, <3>2
  <2>5. Paired(m)' /\ ~Throttled(m)'
    BY <1>2, <2>1, <2>4 DEF Paired, Mirrors, Throttled
  <2>6. Halfway(t, m)'
    BY <1>4, <2>5 DEF Halfway
  <2> QED
    BY <1>4, <2>3, <2>6 DEF Tended
<1> QED
  BY <1>5, <1>6

LEMMA TickTends ==
    ASSUME QuietInv, NothingFailed, Tick \/ UNCHANGED vars
    PROVE  \A m \in calm' : Tended(m)'
<1>1. /\ TypeOK /\ \A m \in calm : Tended(m)
      /\ UNCHANGED <<reactors, mirror, rows, last, pc, job, calm>>
      /\ clock' \in Nat /\ clock' >= clock
  BY DEF QuietInv, IInv, TypeOK, CalmTended, Tick, vars
<1> SUFFICES ASSUME NEW m \in calm PROVE Tended(m)'
  BY <1>1
<1>2. m \in Messages /\ Tended(m)
  BY <1>1 DEF TypeOK
<1>3. Undisturbed(m)
  BY <1>1, <1>2, StarboardConstants DEF Undisturbed, Throttled, TypeOK
<1>4. \A t \in Tasks : Halfway(t, m) => Halfway(t, m)'
  BY <1>1, <1>2, <1>3, HalfwayStays
<1> QED
  BY <1>1, <1>2, <1>3, <1>4, ShowsStays DEF Tended

LEMMA QuietStep == QuietInv /\ [Next]_vars => QuietInv'
<1> SUFFICES ASSUME QuietInv, [Next]_vars PROVE QuietInv'
  OBVIOUS
<1>1. IInv /\ IInv' /\ TypeOK /\ TypeOK'
  BY InvariantStep DEF QuietInv, IInv
<1>2. budget'.faults = budget.faults \/ Fault
  BY <1>1 DEF TypeOK, Next, React, TaskStep, Check, Record, Fetch, LookUp, Edit, Send, Upsert,
              Unpost, DeleteRow, Tick, Crash, vars
<1>3. FaultsSpent'
  BY <1>1, <1>2, StarboardConstants DEF QuietInv, FaultsSpent, Fault, TypeOK
<1>4. ASSUME NothingFailed' PROVE NothingFailed /\ ~Fault
  <2>1. ~Fault
    BY <1>1, <1>4, StarboardConstants DEF QuietInv, FaultsSpent, NothingFailed, Fault, TypeOK
  <2> QED
    BY <1>2, <1>4, <2>1 DEF NothingFailed
<1>5. ASSUME NothingFailed' PROVE \A m \in calm' : Tended(m)'
  <2>1. NothingFailed /\ ~Crash
    BY <1>4, <1>5 DEF Crash
  <2>2. CASE \E t \in Tasks : React(t)
    BY <2>1, <2>2, ReactTends
  <2>3. CASE \E t \in Tasks : TaskStep(t)
    BY <1>5, <2>1, <2>3, CheckTends, RecordTends, FetchTends, LookUpTends, EditTends, SendTends,
       UnpostTends, RowTends DEF TaskStep
  <2>4. CASE Tick \/ UNCHANGED vars
    BY <2>1, <2>4, TickTends
  <2> QED
    BY <2>1, <2>2, <2>3, <2>4 DEF Next
<1> QED
  BY <1>1, <1>3, <1>5 DEF QuietInv, CalmTended

\* While nothing fails and a message's reactions come one at a time, a window apart,
\* the starboard shows exactly what it should whenever no recount is under way: each
\* recount alone brings post and row from whatever they were to the present count.
THEOREM InSync == Spec => []InSyncWhenCalm
<1>1. QuietInv => InSyncWhenCalm
  BY DEF QuietInv, CalmTended, Tended, InSyncWhenCalm
<1> QED
  BY <1>1, QuietInit, QuietStep, PTL DEF Spec
=============================================================================
